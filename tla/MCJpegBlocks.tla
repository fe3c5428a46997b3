---------------------------- MODULE MCJpegBlocks ----------------------------
(***************************************************************************)
(* Blocks for the transforms: a single coefficient, also one that is too   *)
(* large for any sample; a line of white samples in grey. The transforms   *)
(* are linear but for rounding, so that a wrong constant shows with these. *)
(***************************************************************************)
EXTENDS JpegDCT

MCSizes == {<<n, n>> : n \in 1..16} \cup {<<2 * n, n>> : n \in 1..8} \cup {<<n, 2 * n>> : n \in 1..8}

Single(s, u, v, a) ==
    [size |-> s, coef |-> [r \in 0..7 |-> [c \in 0..7 |-> IF r = v /\ c = u THEN a ELSE 0]]]

MCBlocks ==
    UNION {{Single(s, u, v, 700) : u \in Inputs(s[1]), v \in Inputs(s[2])} : s \in MCSizes}
    \cup {Single(s, 0, 0, a) : s \in MCSizes, a \in {-900, 8000}}

White(s, Lit(_, _)) ==
    [size |-> s,
     samples |-> [r \in 0..(s[2] - 1) |-> [c \in 0..(s[1] - 1) |-> IF Lit(r, c) THEN 255 ELSE 128]]]

MCSampleBlocks ==
    UNION {{White(s, LAMBDA r, c : r = i) : i \in 0..(s[2] - 1)}
               \cup {White(s, LAMBDA r, c : c = i) : i \in 0..(s[1] - 1)} : s \in MCSizes}
=============================================================================
