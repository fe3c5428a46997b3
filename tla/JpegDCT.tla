------------------------------ MODULE JpegDCT -------------------------------
(***************************************************************************)
(* What the forward and the inverse DCTs of libjpeg share (jdct.h): their  *)
(* arithmetic, and the cosine waves that both are to compute with.         *)
(***************************************************************************)
EXTENDS Integers, Sequences, FiniteSetsExt

CONST_BITS == 13
PASS1_BITS == 2
CENTERJSAMPLE == 128

\* FIX(c): c, in millionths, scaled by 2^CONST_BITS and rounded.
FIX(c) == (c * 128 + 7812) \div 15625

One == 8192       \* 2^CONST_BITS

\* Floor division is what RIGHT_SHIFT does.
RIGHT_SHIFT(x, n) == x \div 2^n
DESCALE(x, n) == IF n = 0 THEN x ELSE RIGHT_SHIFT(x + 2^(n - 1), n)

\* A block has eight coefficients a line; the transforms of a size use as many.
Inputs(n) == 0..((IF n < 8 THEN n ELSE 8) - 1)

(***************************************************************************)
(* The reference. A transform of a size is about the cosine waves of that  *)
(* size; the coefficients are their weights.                               *)
(***************************************************************************)
\* cos(k * pi / 2n), scaled by 2^14, by its series in the first octant.
Cos(k, n) ==
    LET m == k % (4 * n)
        a == IF m > 2 * n THEN 4 * n - m ELSE m
        b == IF a > n THEN 2 * n - a ELSE a
        t == ((IF 2 * b > n THEN n - b ELSE b) * 25736) \div n
        q == (t * t) \div 16384
        p == (q * q) \div 16384
        c == IF 2 * b > n
             THEN (t * (16384 - q \div 6 + p \div 120)) \div 16384
             ELSE 16384 - q \div 2 + p \div 24 - ((p * q) \div 16384) \div 720
    IN IF a > n THEN -c ELSE c

\* Of a transform of size n the wave of index u, at its places.
Waves ==
    [n \in 1..16 |-> [u \in Inputs(n) |-> [i \in 0..(n - 1) |->
        IF u = 0 THEN 16384 ELSE (Cos((2 * i + 1) * u, n) * 11585) \div 8192]]]
=============================================================================
