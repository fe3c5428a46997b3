------------------------------ MODULE JpegPhoto ------------------------------
(***************************************************************************)
(* What the entropy coders of libjpeg have in common: an image is encoded  *)
(* scan by scan, and each scan is decoded as soon as it is written. A scan *)
(* of a sequential image has all of it; those of a progressive one have    *)
(* some coefficients each, with some of their bits. The decoder adds what  *)
(* a scan has to the blocks that it knows.                                 *)
(*                                                                         *)
(* A block is its coefficients in zigzag order, 0..lim_Se. A component has *)
(* one block in an MCU.                                                    *)
(***************************************************************************)
EXTENDS Integers, Sequences, FiniteSetsExt, SequencesExt, TLC

CONSTANTS Photos     \* [blocks, script, interval, ...]: by MCU and component, the blocks; the
                     \* scans; the restart interval; what else a coder is to know

VARIABLES photo,      \* the image that is coded
          scan,       \* the number of the scan
          mcu,        \* the MCUs of the scan that this pass has been through
          stream,     \* the bytes of the scan when it is written, <<>> before
          decoded     \* the blocks that the decoder has so far

photoVars == <<photo, scan, mcu, stream, decoded>>

Scan == photo.script[scan]
Ss == Scan.Ss
Se == Scan.Se
Ah == Scan.Ah
Al == Scan.Al
DCFirst  == Scan.progressive /\ Ss = 0 /\ Ah = 0
DCRefine == Scan.progressive /\ Ss = 0 /\ Ah > 0
ACFirst  == Scan.progressive /\ Ss > 0 /\ Ah = 0
ACRefine == Scan.progressive /\ Ss > 0 /\ Ah > 0

MCUs == Len(photo.blocks)
Components == DOMAIN photo.blocks[1]
InOrder == [i \in Components |-> i]
Block(ci) == photo.blocks[mcu + 1][ci]

RECURSIVE Log(_)
Log(v) == IF v <= 1 THEN 0 ELSE 1 + Log(v \div 2)
Bit(v, n) == (v \div 2^n) % 2      \* of a two's complement number
Abs(v) == IF v < 0 THEN -v ELSE v

\* The point transforms: a shift for the DC coefficient, a division that rounds to zero for
\* the others.
DCValue(ci) == Block(ci)[0] \div 2^Al
Transformed(block, al) ==
    [k \in DOMAIN block |-> IF block[k] < 0 THEN -(Abs(block[k]) \div 2^al) ELSE block[k] \div 2^al]
LastNonzero(coefs, se) == Max({0} \cup {k \in 1..se : coefs[k] # 0})

\* The next bit of a coefficient that is not zero.
Corrected(v, bit) ==
    IF bit = 1 /\ Bit(v, Al) = 0 THEN (IF v >= 0 THEN v + 2^Al ELSE v - 2^Al) ELSE v

Blank == [m \in 1..MCUs |-> [ci \in Components |-> [k \in DOMAIN photo.blocks[1][1] |-> 0]]]

PhotoInit ==
    /\ photo \in Photos
    /\ scan = 1 /\ mcu = 0 /\ stream = <<>> /\ decoded = Blank

(***************************************************************************)
(* The reference: of a coefficient the decoder knows the bits of the scans *)
(* that are decoded up to its MCU.                                         *)
(***************************************************************************)
ScansOf(m, ci, k) ==
    {s \in 1..scan : LET p == photo.script[s]
                     IN /\ k \in p.Ss..p.Se
                        /\ p.progressive /\ k > 0 => p.component = ci
                        /\ s < scan \/ (stream # <<>> /\ m <= mcu)}

Truncated(v, k, al) ==
    IF v < 0 /\ k > 0 THEN -((-v) \div 2^al) * 2^al ELSE (v \div 2^al) * 2^al

Known(m, ci, k) ==
    LET scans == ScansOf(m, ci, k)
    IN IF scans = {} THEN 0
       ELSE Truncated(photo.blocks[m][ci][k], k, photo.script[Max(scans)].Al)
=============================================================================
