------------------------------ MODULE JpegIDCT ------------------------------
(***************************************************************************)
(* The inverse DCTs of jidctint.c: from the dequantized coefficients of a  *)
(* block to its samples, in any of 32 sizes. The sizes other than 8x8 are  *)
(* how libjpeg scales an image, and how it expands subsampled components:  *)
(* the chroma blocks of a 4:2:0 image become 16x16, of a 4:2:2 one 16x8.   *)
(*                                                                         *)
(* A transform is a kernel on the columns and a kernel on the rows, each   *)
(* in integers scaled by 2^13. A kernel adds the fudge of its final        *)
(* rounding to x[0]; it is the same in all outputs, and added in Passes.  *)
(***************************************************************************)
EXTENDS JpegDCT

CONSTANTS Blocks        \* the blocks of dequantized coefficients that are transformed

VARIABLES size,         \* DCT_h_scaled_size and DCT_v_scaled_size of the component
          coef,         \* the block of coefficients
          wsptr,        \* the workspace between the passes, by columns
          output        \* the samples, by rows

vars == <<size, coef, wsptr, output>>

(***************************************************************************)
(* The kernels. Each is an even part and an odd part: the outputs are      *)
(* their sums from the left and their differences from the right; of an    *)
(* odd number of outputs the middle one has no odd part.                   *)
(***************************************************************************)
Butterfly(even, odd) ==
    LET n == Len(even) + Len(odd)
    IN [i \in 0..(n - 1) |->
           IF i < Len(odd) THEN even[i + 1] + odd[i + 1]
           ELSE IF i < Len(even) THEN even[i + 1]
           ELSE even[n - i] - odd[n - i]]

\* The rotation by sqrt(2) * c6 of an 8-point DCT, found in several kernels.
Rotation(y, z) ==
    LET z1 == (y + z) * FIX(541196)
    IN <<z1 + y * FIX(765367), z1 - z * FIX(1847759)>>

Idct1(x) == Butterfly(<<x[0] * One>>, <<>>)

Idct2(x) == Butterfly(<<x[0] * One>>, <<x[1] * One>>)

Idct3(x) ==
    LET t == x[2] * FIX(707107)
    IN Butterfly(<<x[0] * One + t, x[0] * One - t - t>>, <<x[1] * FIX(1224745)>>)

Idct4(x) == Butterfly(<<(x[0] + x[2]) * One, (x[0] - x[2]) * One>>, Rotation(x[1], x[3]))

\* As the first pass, the odd part is rounded before it is added or subtracted.
Idct4Columns(x) ==
    LET odd == Rotation(x[1], x[3])
        Rounded(y) == DESCALE(y, CONST_BITS - PASS1_BITS) * 2^(CONST_BITS - PASS1_BITS)
    IN Butterfly(<<(x[0] + x[2]) * One, (x[0] - x[2]) * One>>, <<Rounded(odd[1]), Rounded(odd[2])>>)

Idct5(x) ==
    LET z1 == (x[2] + x[4]) * FIX(790569)
        z2 == (x[2] - x[4]) * FIX(353553)
        z3 == x[0] * One + z2
        o  == (x[1] + x[3]) * FIX(831254)
    IN Butterfly(<<z3 + z1, z3 - z1, x[0] * One - z2 * 4>>,
                 <<o + x[1] * FIX(513743), o - x[3] * FIX(2176251)>>)

Idct6(x) ==
    LET e0 == x[0] * One
        e4 == x[4] * FIX(707107)
        e2 == x[2] * FIX(1224745)
        o  == (x[1] + x[5]) * FIX(366025)
    IN Butterfly(<<e0 + e4 + e2, e0 - e4 - e4, e0 + e4 - e2>>,
                 <<o + (x[1] + x[3]) * One, (x[1] - x[3] - x[5]) * One,
                   o + (x[5] - x[3]) * One>>)

Idct7(x) ==
    LET e0    == x[0] * One
        tmp10 == (x[4] - x[6]) * FIX(881748)
        tmp12 == (x[2] - x[4]) * FIX(314692)
        c2    == (x[2] + x[6]) * FIX(1274162) + e0
        tmp1  == (x[1] + x[3]) * FIX(935414)
        tmp2  == (x[1] - x[3]) * FIX(170262)
        c1    == (x[3] + x[5]) * (-FIX(1378756))
        c5    == (x[1] + x[5]) * FIX(613604)
    IN Butterfly(<<tmp10 + c2 - x[6] * FIX(77723),
                   tmp10 + tmp12 + e0 - x[4] * FIX(1841218),
                   tmp12 + c2 - x[2] * FIX(2470602),
                   e0 + (x[4] - x[2] - x[6]) * FIX(1414214)>>,
                 <<tmp1 - tmp2 + c5, tmp1 + tmp2 + c1, c1 + c5 + x[5] * FIX(1870829)>>)

\* The 8-point kernel of Loeffler, Ligtenberg and Moschytz.
Idct8(x) ==
    LET even == Rotation(x[2], x[6])
        sum  == (x[0] + x[4]) * One
        diff == (x[0] - x[4]) * One
        z1   == (x[7] + x[3] + x[5] + x[1]) * FIX(1175876)
        z2   == (x[7] + x[3]) * (-FIX(1961571)) + z1
        z3   == (x[5] + x[1]) * (-FIX(390181)) + z1
        c7   == (x[7] + x[1]) * (-FIX(899976))
        c1   == (x[5] + x[3]) * (-FIX(2562915))
    IN Butterfly(<<sum + even[1], diff + even[2], diff - even[2], sum - even[1]>>,
                 <<x[1] * FIX(1501321) + c7 + z3, x[3] * FIX(3072711) + c1 + z2,
                   x[5] * FIX(2053120) + c1 + z3, x[7] * FIX(298631) + c7 + z2>>)

Idct9(x) ==
    LET e0 == x[0] * One
        e6 == x[6] * FIX(707107)
        e  == (x[2] - x[4]) * FIX(707107)
        c2 == (x[2] + x[4]) * FIX(1328926)
        c4 == x[2] * FIX(1083350)
        c8 == x[4] * FIX(245576)
        c3 == x[3] * (-FIX(1224745))
        c5 == (x[1] + x[5]) * FIX(909039)
        c7 == (x[1] + x[7]) * FIX(483690)
        c1 == (x[5] - x[7]) * FIX(1392728)
    IN Butterfly(<<e0 + e6 + c2 - c8, e0 - e6 - e6 + e, e0 + e6 - c2 + c4,
                   e0 + e6 - c4 + c8, e0 - e6 - e6 - e - e>>,
                 <<c5 + c7 - c3, (x[1] - x[5] - x[7]) * FIX(1224745), c5 + c3 - c1, c7 + c3 + c1>>)

Idct10(x) ==
    LET e0    == x[0] * One
        c4    == x[4] * FIX(1144123)
        c8    == x[4] * FIX(437016)
        c6    == (x[2] + x[6]) * FIX(831254)
        tmp12 == c6 + x[2] * FIX(513743)
        tmp13 == c6 - x[6] * FIX(2176251)
        z5    == x[5] * One
        sum   == x[3] + x[7]
        diff  == x[3] - x[7]
        half  == diff * FIX(309017)
        z2    == sum * FIX(951057)
        z2b   == sum * FIX(587785)
        z4b   == z5 - half - diff * 2^(CONST_BITS - 1)
    IN Butterfly(<<e0 + c4 + tmp12, e0 - c8 + tmp13, e0 - (c4 - c8) * 2,
                   e0 - c8 - tmp13, e0 + c4 - tmp12>>,
                 <<x[1] * FIX(1396802) + z2 + z5 + half, x[1] * FIX(1260074) - z2b - z4b,
                   (x[1] - diff - x[5]) * One, x[1] * FIX(642040) - z2b + z4b,
                   x[1] * FIX(221232) - z2 + z5 + half>>)

Idct11(x) ==
    LET e0    == x[0] * One
        tmp20 == (x[4] - x[6]) * FIX(2546640)
        tmp23 == (x[4] - x[2]) * FIX(430815)
        z4    == x[2] + x[6] - x[4]
        tmp25 == e0 + z4 * FIX(1356928)
        tmp24 == (x[2] + x[6]) * (-FIX(1155664)) + tmp25
        z     == x[1] + x[3]
        c9    == (z + x[5] + x[7]) * FIX(398430)
        tmp11 == z * FIX(887984)
        tmp12 == (x[1] + x[5]) * FIX(670361)
        tmp13 == c9 + (x[1] + x[7]) * FIX(366152)
        c7c9  == c9 - (x[3] + x[5]) * FIX(1163012)
        c1c9  == (x[3] + x[7]) * (-FIX(1798249))
    IN Butterfly(<<tmp20 + tmp25 + x[6] * FIX(2115825),
                   tmp20 + tmp23 + tmp25 - x[4] * FIX(1821791),
                   tmp24 - x[6] * FIX(788749),
                   tmp23 + tmp25 - x[2] * FIX(1513598),
                   tmp24 + x[4] * FIX(1944414) - x[2] * FIX(1390976),
                   e0 - z4 * FIX(1414214)>>,
                 <<tmp11 + tmp12 + tmp13 - x[1] * FIX(923108),
                   tmp11 + c7c9 + x[3] * FIX(2073277) + c1c9,
                   tmp12 + c7c9 - x[5] * FIX(1192194),
                   tmp13 + c1c9 + x[7] * FIX(2102459),
                   c9 - x[3] * FIX(1467221) + x[5] * FIX(1001389) - x[7] * FIX(1684844)>>)

Idct12(x) ==
    LET e0    == x[0] * One
        c4    == x[4] * FIX(1224745)
        c2    == x[2] * FIX(1366025)
        z1    == x[2] * One
        z2    == x[6] * One
        c3    == x[3] * FIX(1306563)
        c9    == x[3] * (-FIX(541196))
        tmp10 == x[1] + x[5]
        c7    == (tmp10 + x[7]) * FIX(860919)
        tmp12 == c7 + tmp10 * FIX(261052)
        tmp13 == (x[5] + x[7]) * (-FIX(1045511))
        odd   == Rotation(x[1] - x[7], x[3] - x[5])
    IN Butterfly(<<e0 + c4 + c2 + z2, e0 + z1 - z2, e0 - c4 + c2 - z1 - z2,
                   e0 - c4 - c2 + z1 + z2, e0 - z1 + z2, e0 + c4 - c2 - z2>>,
                 <<tmp12 + c3 + x[1] * FIX(280144), odd[1],
                   tmp12 + tmp13 + c9 - x[5] * FIX(1478575),
                   tmp13 + c7 - c3 + x[7] * FIX(1586707), odd[2],
                   c7 + c9 - x[1] * FIX(676327) - x[7] * FIX(1982890)>>)

Idct13(x) ==
    LET e0  == x[0] * One
        s   == x[4] + x[6]
        d   == x[4] - x[6]
        a12 == s * FIX(1155389)   a13 == d * FIX(96835) + e0
        b12 == s * FIX(316450)    b13 == d * FIX(486915) + e0
        c12 == s * FIX(435816)    c13 == d * FIX(937303) - e0
        c3  == (x[1] + x[3]) * FIX(1322313)
        c5  == (x[1] + x[5]) * FIX(1163875)
        c7  == (x[1] + x[7]) * FIX(937797)
        c11 == (x[3] + x[5]) * (-FIX(338443))
        n5  == (x[3] + x[7]) * (-FIX(1163875))
        n9  == (x[5] + x[7]) * (-FIX(657218))
        p11 == (x[1] + x[7]) * FIX(338443)
        z1  == (x[5] - x[3]) * FIX(937797)
    IN Butterfly(<<x[2] * FIX(1373119) + a12 + a13, x[2] * FIX(1058554) - b12 + b13,
                   x[2] * FIX(501487) - a12 + a13, x[2] * (-FIX(170465)) - c12 - c13,
                   x[2] * (-FIX(803365)) + c12 - c13, x[2] * (-FIX(1252224)) + b12 + b13,
                   (d - x[2]) * FIX(1414214) + e0>>,
                 <<c3 + c5 + c7 - x[1] * FIX(2020082), c3 + c11 + x[3] * FIX(837224) + n5,
                   c5 + c11 - x[5] * FIX(1572116) + n9, c7 + n5 + x[7] * FIX(2205608) + n9,
                   p11 + x[1] * FIX(318774) - x[3] * FIX(466105) + z1,
                   p11 + z1 + x[5] * FIX(384516) - x[7] * FIX(1742346)>>)

Idct14(x) ==
    LET e0    == x[0] * One
        c4    == x[4] * FIX(1274162)
        c12   == x[4] * FIX(314692)
        c8    == x[4] * FIX(881748)
        c6    == (x[2] + x[6]) * FIX(1105677)
        tmp13 == c6 + x[2] * FIX(273080)
        tmp14 == c6 - x[6] * FIX(1719281)
        tmp15 == x[2] * FIX(613604) - x[6] * FIX(1378756)
        z7    == x[7] * One
        c3    == (x[1] + x[3]) * FIX(1334853)
        c5    == (x[1] + x[5]) * FIX(1197449)
        c9    == (x[1] + x[5]) * FIX(752407)
        c11   == (x[1] - x[3]) * FIX(467085) - z7
        c13   == (x[3] + x[5]) * (-FIX(158342)) - z7
        c1    == (x[5] - x[3]) * FIX(1405321)
    IN Butterfly(<<e0 + c4 + tmp13, e0 + c12 + tmp14, e0 - c8 + tmp15, e0 - (c4 + c12 - c8) * 2,
                   e0 - c8 - tmp15, e0 + c12 - tmp14, e0 + c4 - tmp13>>,
                 <<c3 + c5 + z7 - x[1] * FIX(1126980), c3 + c13 - x[3] * FIX(424104),
                   c5 + c13 - x[5] * FIX(2373960), (x[1] - x[3] + x[7] - x[5]) * One,
                   c9 + c1 + z7 - x[5] * FIX(1690643), c11 + c1 + x[3] * FIX(674958),
                   c9 - x[1] * FIX(1061150) + c11>>)

Idct15(x) ==
    LET e0    == x[0] * One
        c12   == x[6] * FIX(437016)
        c6    == x[6] * FIX(1144123)
        tmp12 == e0 - c12
        tmp13 == e0 + c6
        z1    == e0 - (c6 - c12) * 2
        s     == x[2] + x[4]
        d     == x[2] - x[4]
        z2    == x[2] * FIX(1439774)
        a10   == s * FIX(1337629)   a11 == d * FIX(45681)
        b10   == s * FIX(547060)    b11 == d * FIX(399234)
        c10   == s * FIX(790569)    c11 == d * FIX(353553)
        c5    == x[5] * FIX(1224745)
        c9    == (x[1] + x[3] - x[7]) * FIX(831254)
        n9    == x[3] * (-FIX(831254))
        n3    == x[3] * (-FIX(1344997))
        c1    == c5 + (x[1] - x[7]) * FIX(1406466)
        o11   == (x[1] + x[7]) * FIX(575212)
    IN Butterfly(<<tmp13 + a10 + a11, tmp12 + c10 + c11, z1 + c11 + c11,
                   tmp12 - a10 + a11 + z2, tmp13 - c10 + c11, tmp13 - b10 - b11,
                   tmp12 + b10 - b11 - z2, z1 - 4 * c11>>,
                 <<c1 + x[7] * FIX(2457432) - n3, c9 + x[1] * FIX(513743),
                   (x[1] - x[7]) * FIX(1224745) - c5, n9 + o11 + x[1] * FIX(475753) - c5,
                   c9 - (x[3] - x[7]) * FIX(2176251), n3 + o11 - x[7] * FIX(869244) + c5,
                   c1 - x[1] * FIX(1112435) + n9>>)

Idct16(x) ==
    LET e0  == x[0] * One
        c4  == x[4] * FIX(1306563)
        c12 == x[4] * FIX(541196)
        z4  == (x[2] - x[6]) * FIX(275899)
        z3  == (x[2] - x[6]) * FIX(1387040)
        e   == <<z3 + x[6] * FIX(2562915), z4 + x[2] * FIX(899976),
                 z3 - x[2] * FIX(601345), z4 - x[6] * FIX(509796)>>
        c3  == (x[1] + x[3]) * FIX(1353318)   c5  == (x[1] + x[5]) * FIX(1247225)
        c7  == (x[1] + x[7]) * FIX(1093202)   c9  == (x[1] - x[7]) * FIX(897168)
        c11 == (x[1] + x[5]) * FIX(666656)    c13 == (x[1] - x[3]) * FIX(410525)
        p15 == (x[3] + x[5]) * FIX(138617)    p1  == (x[5] - x[3]) * FIX(1407404)
        n11 == (x[3] + x[7]) * (-FIX(666656))   n5  == (x[3] + x[7]) * (-FIX(1247225))
        n3  == (x[5] + x[7]) * (-FIX(1353318))  p13 == (x[7] - x[5]) * FIX(410525)
    IN Butterfly(<<e0 + c4 + e[1], e0 + c12 + e[2], e0 - c12 + e[3], e0 - c4 + e[4],
                   e0 - c4 - e[4], e0 - c12 - e[3], e0 + c12 - e[2], e0 + c4 - e[1]>>,
                 <<c3 + c5 + c7 - x[1] * FIX(2286341), c3 + p15 + x[3] * FIX(71888) + n11,
                   c5 + p15 - x[5] * FIX(1125726) + n3, c7 + n11 + x[7] * FIX(1065389) + n3,
                   c9 + n5 + x[7] * FIX(3141272) + p13, c11 + p1 - x[5] * FIX(766367) + p13,
                   c13 + p1 + x[3] * FIX(1971951) + n5, c9 + c11 + c13 - x[1] * FIX(1835731)>>)

(***************************************************************************)
(* The passes. The first transforms the columns and leaves PASS1_BITS of   *)
(* fraction, the second the rows, and removes them with the factor of 8 of *)
(* the two kernels. Saturation is by a table of 1024 entries, of which the *)
(* low ten bits of the result select one: a result of 512 or more, which   *)
(* only corrupt coefficients can produce, is taken for a negative one.     *)
(***************************************************************************)
RANGE_MASK == 1023
FaultIDCT_range_limit(x) ==   \* seeded bug: the table lacks the zeroes of its second half
    CASE x < 128 -> x + 128
      [] x \in 128..511 -> 255
      [] x > 511 -> x - 896
IDCT_range_limit(x) ==
    CASE x < 128 -> x + 128
      [] x \in 128..511 -> 255
      [] x \in 512..895 -> 0
      [] x > 895 -> x - 896

Passes(w, h, RowKernel(_), ColumnKernel(_), shift1, shift2) ==
    /\ size = <<w, h>>
    /\ \/ /\ wsptr = <<>>
          /\ wsptr' = [c \in Inputs(w) |->
                          LET x == ColumnKernel([r \in Inputs(h) |-> coef[r][c]])
                          IN [r \in 0..(h - 1) |-> DESCALE(x[r], shift1)]]
          /\ UNCHANGED output
       \/ /\ wsptr # <<>> /\ output = <<>>
          /\ output' = [r \in 0..(h - 1) |->
                           LET x == RowKernel([c \in Inputs(w) |-> wsptr[c][r]])
                           IN [c \in 0..(w - 1) |->
                                  IDCT_range_limit(DESCALE(x[c], shift2) % (RANGE_MASK + 1))]]
          /\ UNCHANGED wsptr
    /\ UNCHANGED <<size, coef>>

Routine(w, h, RowKernel(_), ColumnKernel(_)) ==
    Passes(w, h, RowKernel, ColumnKernel, CONST_BITS - PASS1_BITS, CONST_BITS + PASS1_BITS + 3)

jpeg_idct_islow == Routine(8, 8, Idct8, Idct8)
jpeg_idct_7x7   == Routine(7, 7, Idct7, Idct7)
jpeg_idct_6x6   == Routine(6, 6, Idct6, Idct6)
jpeg_idct_5x5   == Routine(5, 5, Idct5, Idct5)
jpeg_idct_4x4   == Routine(4, 4, Idct4, Idct4Columns)
jpeg_idct_3x3   == Routine(3, 3, Idct3, Idct3)
jpeg_idct_2x2   == Routine(2, 2, Idct2, Idct2)
jpeg_idct_1x1   == Routine(1, 1, Idct1, Idct1)
jpeg_idct_9x9   == Routine(9, 9, Idct9, Idct9)
jpeg_idct_10x10 == Routine(10, 10, Idct10, Idct10)
jpeg_idct_11x11 == Routine(11, 11, Idct11, Idct11)
jpeg_idct_12x12 == Routine(12, 12, Idct12, Idct12)
jpeg_idct_13x13 == Routine(13, 13, Idct13, Idct13)
jpeg_idct_14x14 == Routine(14, 14, Idct14, Idct14)
jpeg_idct_15x15 == Routine(15, 15, Idct15, Idct15)
jpeg_idct_16x16 == Routine(16, 16, Idct16, Idct16)
jpeg_idct_16x8  == Routine(16, 8, Idct16, Idct8)
jpeg_idct_14x7  == Routine(14, 7, Idct14, Idct7)
jpeg_idct_12x6  == Routine(12, 6, Idct12, Idct6)
jpeg_idct_10x5  == Routine(10, 5, Idct10, Idct5)
jpeg_idct_8x4   == Routine(8, 4, Idct8, Idct4Columns)
jpeg_idct_6x3   == Routine(6, 3, Idct6, Idct3)
jpeg_idct_4x2   == Routine(4, 2, Idct4, Idct2)
jpeg_idct_2x1   == Routine(2, 1, Idct2, Idct1)
jpeg_idct_8x16  == Routine(8, 16, Idct8, Idct16)
jpeg_idct_7x14  == Routine(7, 14, Idct7, Idct14)
jpeg_idct_6x12  == Routine(6, 12, Idct6, Idct12)
jpeg_idct_5x10  == Routine(5, 10, Idct5, Idct10)
jpeg_idct_4x8   == Routine(4, 8, Idct4, Idct8)
jpeg_idct_3x6   == Routine(3, 6, Idct3, Idct6)

\* The first pass is exact, and the second has no constants.
Sum2(x) == Butterfly(<<x[0]>>, <<x[1]>>)
jpeg_idct_2x4   == Passes(2, 4, Sum2, Idct4, 0, CONST_BITS + 3)

jpeg_idct_1x2   == Routine(1, 2, Idct1, Idct2)

\* start_pass of jddctmgr.c: the size of a component's blocks selects the routine.
Transforms ==
    \/ jpeg_idct_islow \/ jpeg_idct_7x7 \/ jpeg_idct_6x6 \/ jpeg_idct_5x5
    \/ jpeg_idct_4x4 \/ jpeg_idct_3x3 \/ jpeg_idct_2x2 \/ jpeg_idct_1x1
    \/ jpeg_idct_9x9 \/ jpeg_idct_10x10 \/ jpeg_idct_11x11 \/ jpeg_idct_12x12
    \/ jpeg_idct_13x13 \/ jpeg_idct_14x14 \/ jpeg_idct_15x15 \/ jpeg_idct_16x16
    \/ jpeg_idct_16x8 \/ jpeg_idct_14x7 \/ jpeg_idct_12x6 \/ jpeg_idct_10x5
    \/ jpeg_idct_8x4 \/ jpeg_idct_6x3 \/ jpeg_idct_4x2 \/ jpeg_idct_2x1
    \/ jpeg_idct_8x16 \/ jpeg_idct_7x14 \/ jpeg_idct_6x12 \/ jpeg_idct_5x10
    \/ jpeg_idct_4x8 \/ jpeg_idct_3x6 \/ jpeg_idct_2x4 \/ jpeg_idct_1x2

Init ==
    /\ \E b \in Blocks : size = b.size /\ coef = b.coef
    /\ wsptr = <<>> /\ output = <<>>

Next == Transforms

Spec == Init /\ [][Next]_vars

(***************************************************************************)
(* What the transforms are to compute: the sum of the cosine waves that    *)
(* the coefficients weigh, whatever the size.                              *)
(***************************************************************************)
\* The samples: what each coefficient adds to one is summed in 1/128.
Samples ==
    LET w == size[1]  h == size[2]
        waves == {uv \in Inputs(w) \X Inputs(h) : coef[uv[2]][uv[1]] # 0}
        Weight(r, c, u, v) == (((coef[v][u] * Waves[w][u][c]) \div 1024) * Waves[h][v][r]) \div 16384
    IN [r \in 0..(h - 1) |-> [c \in 0..(w - 1) |->
           128 + (MapThenSumSet(LAMBDA uv : Weight(r, c, uv[1], uv[2]), waves) + 64) \div 128]]

\* What the sample may be: the exact one or a neighbour, in range; anything if it is bogus.
Clamped(x) == IF x < 0 THEN 0 ELSE IF x > 255 THEN 255 ELSE x
Allowed(x) == IF x \in -383..638 THEN Clamped(x - 1)..Clamped(x + 1) ELSE 0..255

(***************************************************************************)
(* Every transform makes the samples that the coefficients stand for, to   *)
(* within the rounding of the sum, for every size: each of the several     *)
(* hundred constants and signs of jidctint.c has its effect on some wave.  *)
(* Corrupt coefficients make bogus samples, but never ones out of range.   *)
(***************************************************************************)
SamplesExact ==
    output # <<>> =>
        LET x == Samples
        IN \A r \in DOMAIN x : \A c \in DOMAIN x[r] : output[r][c] \in Allowed(x[r][c])
=============================================================================
