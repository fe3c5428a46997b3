------------------------------ MODULE JpegFDCT ------------------------------
(***************************************************************************)
(* The forward DCTs of jfdctint.c, from the samples of a block, in any of  *)
(* 32 sizes, to its coefficients, and their quantization in jcdctmgr.c.    *)
(*                                                                         *)
(* A transform is a kernel on the rows and a kernel on the columns. The    *)
(* coefficients of a block of w x h samples are to be those of an 8x8      *)
(* block, times 8; the second kernel has the factor 8/w * 8/h, or what     *)
(* powers of two leave of it, in its constants. Samples are those of a     *)
(* block less CENTERJSAMPLE, which the code subtracts from the first sum.  *)
(***************************************************************************)
EXTENDS JpegDCT

CONSTANTS SampleBlocks, \* the blocks of samples that are transformed
          Divisors      \* the divisors of a coefficient, 8 times the quantizers

VARIABLES dct_size,     \* DCT_h_scaled_size and DCT_v_scaled_size of the component
          samples,      \* the block of samples, by rows
          qval,         \* the divisor
          data,         \* the results: of the first pass by rows, of the second by columns
          pass,         \* what is done: 0, 1 or 2 passes, and the quantization
          coef_block    \* the quantized coefficients, by columns

fdctVars == <<dct_size, samples, qval, data, pass, coef_block>>

\* The outer pairs of n inputs, from the outside in.
Sums(x, n) == [i \in 0..(n \div 2 - 1) |-> x[i] + x[n - 1 - i]]
Differences(x, n) == [i \in 0..(n \div 2 - 1) |-> x[i] - x[n - 1 - i]]

\* A constant c, in millionths, times the ratio k.
Scaled(k, c) == FIX((c * k[1]) \div k[2])

\* The rotation of the 8-point kernel.
Rotated(k, y, z) ==
    LET c6 == (y + z) * Scaled(k, 541196)
    IN <<c6 + y * Scaled(k, 765367), c6 - z * Scaled(k, 1847759)>>

(***************************************************************************)
(* The kernels. The even coefficients come from the sums, the odd ones     *)
(* from the differences. k is the ratio by which the constants are scaled.  *)
(***************************************************************************)
Fdct1(k, x) == <<x[0] * Scaled(k, 1000000)>>

Fdct2(k, x) == <<(x[0] + x[1]) * Scaled(k, 1000000), (x[0] - x[1]) * Scaled(k, 1000000)>>

Fdct3(k, x) ==
    LET K(c) == Scaled(k, c)
        s == x[0] + x[2]
    IN <<(s + x[1]) * K(1000000), (x[0] - x[2]) * K(1224745), (s - 2 * x[1]) * K(707107)>>

Fdct4(k, x) ==
    LET K(c) == Scaled(k, c)
        odd == Rotated(k, x[0] - x[3], x[1] - x[2])
    IN <<(x[0] + x[3] + x[1] + x[2]) * K(1000000), odd[1],
         (x[0] + x[3] - x[1] - x[2]) * K(1000000), odd[2]>>

Fdct5(k, x) ==
    LET K(c) == Scaled(k, c)
        s == Sums(x, 5)  d == Differences(x, 5)
        e  == (s[0] - s[1]) * K(790569)
        m  == (s[0] + s[1] - 4 * x[2]) * K(353553)
        c3 == (d[0] + d[1]) * K(831254)
    IN <<(s[0] + s[1] + x[2]) * K(1000000), c3 + d[0] * K(513743), e + m,
         c3 - d[1] * K(2176251), e - m>>

Fdct6(k, x) ==
    LET K(c) == Scaled(k, c)
        s == Sums(x, 6)  d == Differences(x, 6)
        c5 == (d[0] + d[2]) * K(366025)
    IN <<(s[0] + s[1] + s[2]) * K(1000000), c5 + (d[0] + d[1]) * K(1000000),
         (s[0] - s[2]) * K(1224745), (d[0] - d[1] - d[2]) * K(1000000),
         (s[0] + s[2] - 2 * s[1]) * K(707107), c5 + (d[2] - d[1]) * K(1000000)>>

Fdct7(k, x) ==
    LET K(c) == Scaled(k, c)
        s == Sums(x, 7)  d == Differences(x, 7)
        z1 == (s[0] + s[2] - 4 * x[3]) * K(353553)
        z2 == (s[0] - s[2]) * K(920609)
        z3 == (s[1] - s[2]) * K(314692)
        c4 == (s[0] - s[1]) * K(881748)
        p  == (d[0] + d[1]) * K(935414)
        q  == (d[0] - d[1]) * K(170262)
        c1 == (d[1] + d[2]) * (-K(1378756))
        c5 == (d[0] + d[2]) * K(613604)
    IN <<(s[0] + s[1] + s[2] + x[3]) * K(1000000), p - q + c5, z1 + z2 + z3, p + q + c1,
         c4 + z3 - (s[1] - 2 * x[3]) * K(707107), c1 + c5 + d[2] * K(1870829), z1 - z2 + c4>>

Fdct8(k, x) ==
    LET K(c) == Scaled(k, c)
        s == Sums(x, 8)  d == Differences(x, 8)
        even == Rotated(k, s[0] - s[3], s[1] - s[2])
        z1  == (d[0] + d[1] + d[2] + d[3]) * K(1175876)
        t10 == (d[0] + d[3]) * (-K(899976))
        t11 == (d[1] + d[2]) * (-K(2562915))
        t12 == (d[0] + d[2]) * (-K(390181)) + z1
        t13 == (d[1] + d[3]) * (-K(1961571)) + z1
    IN <<(s[0] + s[3] + s[1] + s[2]) * K(1000000), d[0] * K(1501321) + t10 + t12, even[1],
         d[1] * K(3072711) + t11 + t13, (s[0] + s[3] - s[1] - s[2]) * K(1000000),
         d[2] * K(2053120) + t11 + t12, even[2], d[3] * K(298631) + t10 + t13>>

Fdct9(k, x) ==
    LET K(c) == Scaled(k, c)
        s == Sums(x, 9)  d == Differences(x, 9)
        z1 == s[0] + s[2] + s[3]
        z2 == s[1] + x[4]
        c2 == (s[0] - s[2]) * K(1328926)
        c6 == (s[1] - 2 * x[4]) * K(707107)
        c3 == d[1] * K(1224745)
        c5 == (d[0] + d[2]) * K(909039)
        c7 == (d[0] + d[3]) * K(483690)
        c1 == (d[2] - d[3]) * K(1392728)
    IN <<(z1 + z2) * K(1000000), c3 + c5 + c7, (s[2] - s[3]) * K(1083350) + c2 + c6,
         (d[0] - d[2] - d[3]) * K(1224745), (s[3] - s[0]) * K(245576) + c2 - c6,
         c5 - c3 - c1, (z1 - 2 * z2) * K(707107), c7 - c3 + c1>>

Fdct10(k, x) ==
    LET K(c) == Scaled(k, c)
        s == Sums(x, 10)  d == Differences(x, 10)
        c6  == (s[0] - s[4] + s[1] - s[3]) * K(831254)
        t10 == d[0] + d[4]
        t11 == d[1] - d[3]
        t2  == d[2] * K(1000000)
        t12 == (d[0] - d[4]) * K(951057) - (d[1] + d[3]) * K(587785)
        t13 == (t10 + t11) * K(309017) + t11 * K(500000) - t2
    IN <<(s[0] + s[1] + s[2] + s[3] + s[4]) * K(1000000),
         d[0] * K(1396802) + d[1] * K(1260074) + t2 + d[3] * K(642040) + d[4] * K(221232),
         c6 + (s[0] - s[4]) * K(513743), t12 + t13,
         (s[0] + s[4] - 2 * s[2]) * K(1144123) - (s[1] + s[3] - 2 * s[2]) * K(437016),
         (t10 - t11 - d[2]) * K(1000000), c6 - (s[1] - s[3]) * K(2176251), t12 - t13>>

Fdct11(k, x) ==
    LET K(c) == Scaled(k, c)
        d == Differences(x, 11)
        s == [i \in 0..4 |-> Sums(x, 11)[i] - 2 * x[5]]
        z1 == (s[0] + s[3]) * K(1356928) + (s[2] + s[4]) * K(201264)
        z2 == (s[1] - s[3]) * K(926113)
        z3 == (s[0] - s[1]) * K(1189712)
        c3 == (d[0] + d[1]) * K(1286414)
        c5 == (d[0] + d[2]) * K(1068791)
        c7 == (d[0] + d[3]) * K(764582)
        n7 == (d[1] + d[2]) * (-K(764582))
        n1 == (d[1] + d[3]) * (-K(1399819))
        c9 == (d[2] + d[3]) * K(398430)
    IN <<(s[0] + s[1] + s[2] + s[3] + s[4] + 11 * x[5]) * K(1000000),
         c3 + c5 + c7 - d[0] * K(1719968) + d[4] * K(398430),
         z1 + z2 - s[3] * K(1018301) - s[4] * K(1390976),
         c3 + n7 + n1 + d[1] * K(1276417) - d[4] * K(1068791),
         z2 + z3 + s[1] * K(62336) - s[2] * K(1356928) + s[4] * K(587486),
         c5 + n7 + c9 - d[2] * K(1989054) + d[4] * K(1399819),
         z1 + z3 - s[0] * K(1620527) - s[2] * K(788749),
         c7 + n1 + c9 + d[3] * K(1305599) - d[4] * K(1286414)>>

\* The passes differ in one term: that of the first is not scaled.
Fdct12From(k, x, one) ==
    LET K(c) == Scaled(k, c)
        s == Sums(x, 12)  d == Differences(x, 12)
        t13 == s[0] - s[5]
        t14 == s[1] - s[4]
        t15 == s[2] - s[3]
        odd == Rotated(k, d[1], d[4])
        c5  == (d[0] + d[2]) * K(1121971)
        c7  == (d[0] + d[3]) * K(860919)
        c11 == (d[2] + d[3]) * (-K(184592))
    IN <<(s[0] + s[1] + s[2] + s[3] + s[4] + s[5]) * K(1000000),
         c5 + c7 + odd[1] - d[0] * K(580775) + d[5] * K(184592),
         (t14 - t15) * one + (t13 + t15) * K(1366025),
         odd[2] + (d[0] - d[3]) * K(1306563) - (d[2] + d[5]) * K(541196),
         (s[0] + s[5] - s[2] - s[3]) * K(1224745),
         c5 + c11 - odd[2] - d[2] * K(2339494) + d[5] * K(860919),
         (t13 - t14 - t15) * K(1000000),
         c7 + c11 - odd[1] + d[3] * K(725788) - d[5] * K(1121971)>>

Fdct12Rows(k, x) == Fdct12From(k, x, 1)
Fdct12(k, x) == Fdct12From(k, x, Scaled(k, 1000000))

Fdct13(k, x) ==
    LET K(c) == Scaled(k, c)
        d == Differences(x, 13)
        s == [i \in 0..5 |-> Sums(x, 13)[i] - 2 * x[6]]
        z1 == (s[0] - s[2]) * K(1155389) - (s[3] - s[4]) * K(435816) - (s[1] - s[5]) * K(316450)
        z2 == (s[0] + s[2]) * K(96835) - (s[3] + s[4]) * K(937303) + (s[1] + s[5]) * K(486915)
        c3 == (d[0] + d[1]) * K(1322313)
        c5 == (d[0] + d[2]) * K(1163875)
        c7 == (d[0] + d[3]) * K(937797) + (d[4] + d[5]) * K(338443)
        t4 == (d[4] - d[5]) * K(937797) - (d[1] + d[2]) * K(338443)
        n5 == (d[1] + d[3]) * (-K(1163875))
        n9 == (d[2] + d[3]) * (-K(657218))
    IN <<(s[0] + s[1] + s[2] + s[3] + s[4] + s[5] + 13 * x[6]) * K(1000000),
         c3 + c5 + c7 - d[0] * K(2020082) + d[4] * K(318774),
         s[0] * K(1373119) + s[1] * K(1058554) + s[2] * K(501487) - s[3] * K(170465)
             - s[4] * K(803365) - s[5] * K(1252224),
         c3 + t4 + n5 + d[1] * K(837224) - d[4] * K(2341699), z1 + z2,
         c5 + t4 + n9 - d[2] * K(1572116) + d[5] * K(2260110), z1 - z2,
         c7 + n5 + n9 + d[3] * K(2205608) - d[5] * K(1742346)>>

\* Likewise.
Fdct14From(k, x, one) ==
    LET K(c) == Scaled(k, c)
        s == Sums(x, 14)  d == Differences(x, 14)
        t14 == s[0] - s[6]
        t15 == s[1] - s[5]
        t16 == s[2] - s[4]
        c6  == (t14 + t15) * K(1105677)
        t10 == d[1] + d[2]
        t11 == d[5] - d[4]
        t3  == d[3] * K(1000000)
        e   == t10 * (-K(158342)) + t11 * K(1405321) - t3
        c5  == (d[0] + d[2]) * K(1197449) + (d[4] + d[6]) * K(752407)
        c3  == (d[0] + d[1]) * K(1334853) + (d[5] - d[6]) * K(467085)
    IN <<(s[0] + s[1] + s[2] + s[3] + s[4] + s[5] + s[6]) * K(1000000),
         c5 + c3 + t3 + d[6] * one - (d[0] + d[6]) * K(1126980),
         c6 + t14 * K(273080) + t16 * K(613604),
         e + c3 - d[1] * K(424104) - d[5] * K(3069855),
         (s[0] + s[6] - 2 * s[3]) * K(1274162) + (s[1] + s[5] - 2 * s[3]) * K(314692)
             - (s[2] + s[4] - 2 * s[3]) * K(881748),
         e + c5 - d[2] * K(2373960) + d[4] * K(1119999),
         c6 - t15 * K(1719281) - t16 * K(1378756),
         (d[0] - t10 + d[3] - t11 - d[6]) * K(1000000)>>

Fdct14Rows(k, x) == Fdct14From(k, x, 1)
Fdct14(k, x) == Fdct14From(k, x, Scaled(k, 1000000))

Fdct15(k, x) ==
    LET K(c) == Scaled(k, c)
        s == Sums(x, 15)  d == Differences(x, 15)
        z1 == s[0] + s[4] + s[5]
        z2 == s[1] + s[3] + s[6]
        z3 == s[2] + x[7]
        m  == s[2] + (s[1] + s[4]) \div 2 - 2 * x[7]
        e1 == (s[3] - m) * K(1531135) - (s[6] - m) * K(2238242)
        e2 == (s[5] - m) * K(798468) - (s[0] - m) * K(91361)
        e3 == (s[0] - s[3]) * K(1383310) + (s[6] - s[5]) * K(946294) + (s[1] - s[4]) * K(790569)
        c5 == d[2] * K(1224745)
        c1 == (d[0] - d[6]) * K(1406466) + (d[1] + d[4]) * K(1344997) + (d[3] + d[5]) * K(575212)
    IN <<(z1 + z2 + z3) * K(1000000),
         d[3] * K(475753) - d[4] * K(513743) + d[6] * K(1700498) + c1 + c5, e1 + e3,
         (d[0] - d[4] - d[5]) * K(1344997) + (d[1] - d[3] - d[6]) * K(831254), e2 + e3,
         (d[0] - d[2] - d[3] + d[5] + d[6]) * K(1224745),
         (z1 - 2 * z3) * K(1144123) - (z2 - 2 * z3) * K(437016),
         d[0] * (-K(355501)) - d[1] * K(2176251) - d[5] * K(869244) + c1 - c5>>

Fdct16(k, x) ==
    LET K(c) == Scaled(k, c)
        s == Sums(x, 16)  d == Differences(x, 16)
        t14 == s[0] - s[7]   t15 == s[1] - s[6]
        t16 == s[2] - s[5]   t17 == s[3] - s[4]
        e   == (t17 - t15) * K(275899) + (t14 - t16) * K(1387040)
        c3  == (d[0] + d[1]) * K(1353318) + (d[6] - d[7]) * K(410525)
        c5  == (d[0] + d[2]) * K(1247225) + (d[5] + d[7]) * K(666656)
        c7  == (d[0] + d[3]) * K(1093202) + (d[4] - d[7]) * K(897168)
        c15 == (d[1] + d[2]) * K(138617) + (d[6] - d[5]) * K(1407404)
        n11 == (d[1] + d[3]) * (-K(666656)) - (d[4] + d[6]) * K(1247225)
        n3  == (d[2] + d[3]) * (-K(1353318)) + (d[5] - d[4]) * K(410525)
    IN <<(s[0] + s[1] + s[2] + s[3] + s[4] + s[5] + s[6] + s[7]) * K(1000000),
         c3 + c5 + c7 - d[0] * K(2286341) + d[7] * K(779654),
         e + t15 * K(1451775) + t16 * K(2172735),
         c3 + c15 + n11 + d[1] * K(71888) - d[6] * K(1663905),
         (s[0] + s[7] - s[3] - s[4]) * K(1306563) + (s[1] + s[6] - s[2] - s[5]) * K(541196),
         c5 + c15 + n3 - d[2] * K(1125726) + d[5] * K(1227391),
         e - t14 * K(211164) - t17 * K(1061594),
         c7 + n11 + n3 + d[3] * K(1065389) + d[4] * K(2167986)>>

(***************************************************************************)
(* The passes. The first leaves bits1 of fraction, the second scales by    *)
(* p / q and by 2^bits2 and removes them: where its constants are not      *)
(* scaled, the powers of two of 8/w * 8/h are all.                         *)
(***************************************************************************)
Passes(w, h, RowKernel(_, _), ColumnKernel(_, _), bits1, p, q, bits2) ==
    /\ dct_size = <<w, h>>
    /\ \/ /\ pass = 0
          /\ data' = [r \in 0..(h - 1) |->
                         LET y == RowKernel(<<1, 1>>, [c \in 0..(w - 1) |-> samples[r][c] - CENTERJSAMPLE])
                         IN [c \in Inputs(w) |-> DESCALE(y[c + 1], CONST_BITS - bits1)]]
       \/ /\ pass = 1
          /\ data' = [u \in Inputs(w) |->
                         LET y == ColumnKernel(<<p, q>>, [r \in 0..(h - 1) |-> data[r][u]])
                         IN [v \in Inputs(h) |-> DESCALE(y[v + 1], CONST_BITS + bits2)]]
    /\ pass' = pass + 1
    /\ UNCHANGED <<dct_size, samples, qval, coef_block>>

jpeg_fdct_islow == Passes(8, 8, Fdct8, Fdct8, PASS1_BITS, 1, 1, PASS1_BITS)
jpeg_fdct_7x7   == Passes(7, 7, Fdct7, Fdct7, 2, 64, 49, 2)
jpeg_fdct_6x6   == Passes(6, 6, Fdct6, Fdct6, 2, 16, 9, 2)
jpeg_fdct_5x5   == Passes(5, 5, Fdct5, Fdct5, 3, 32, 25, 2)
jpeg_fdct_4x4   == Passes(4, 4, Fdct4, Fdct4, 4, 1, 1, 2)
jpeg_fdct_3x3   == Passes(3, 3, Fdct3, Fdct3, 4, 16, 9, 2)
jpeg_fdct_2x2   == Passes(2, 2, Fdct2, Fdct2, 0, 1, 1, -4)
jpeg_fdct_1x1   == Passes(1, 1, Fdct1, Fdct1, 0, 1, 1, -6)
jpeg_fdct_9x9   == Passes(9, 9, Fdct9, Fdct9, 1, 128, 81, 2)
jpeg_fdct_10x10 == Passes(10, 10, Fdct10, Fdct10, 1, 32, 25, 2)
jpeg_fdct_11x11 == Passes(11, 11, Fdct11, Fdct11, 1, 128, 121, 2)
jpeg_fdct_12x12 == Passes(12, 12, Fdct12Rows, Fdct12, 0, 8, 9, 1)
jpeg_fdct_13x13 == Passes(13, 13, Fdct13, Fdct13, 0, 128, 169, 1)
jpeg_fdct_14x14 == Passes(14, 14, Fdct14Rows, Fdct14, 0, 32, 49, 1)
jpeg_fdct_15x15 == Passes(15, 15, Fdct15, Fdct15, 0, 256, 225, 2)
jpeg_fdct_16x16 == Passes(16, 16, Fdct16, Fdct16, 2, 1, 1, 4)
jpeg_fdct_16x8  == Passes(16, 8, Fdct16, Fdct8, 2, 1, 1, 3)
jpeg_fdct_14x7  == Passes(14, 7, Fdct14Rows, Fdct7, 2, 64, 49, 3)
jpeg_fdct_12x6  == Passes(12, 6, Fdct12Rows, Fdct6, 2, 16, 9, 3)
jpeg_fdct_10x5  == Passes(10, 5, Fdct10, Fdct5, 2, 32, 25, 2)
jpeg_fdct_8x4   == Passes(8, 4, Fdct8, Fdct4, 3, 1, 1, 2)
jpeg_fdct_6x3   == Passes(6, 3, Fdct6, Fdct3, 3, 16, 9, 2)
jpeg_fdct_4x2   == Passes(4, 2, Fdct4, Fdct2, 5, 1, 1, 2)
jpeg_fdct_2x1   == Passes(2, 1, Fdct2, Fdct1, 0, 1, 1, -5)
jpeg_fdct_8x16  == Passes(8, 16, Fdct8, Fdct16, 2, 1, 1, 3)
jpeg_fdct_7x14  == Passes(7, 14, Fdct7, Fdct14, 2, 32, 49, 2)
jpeg_fdct_6x12  == Passes(6, 12, Fdct6, Fdct12, 2, 8, 9, 2)
jpeg_fdct_5x10  == Passes(5, 10, Fdct5, Fdct10, 2, 32, 25, 2)
jpeg_fdct_4x8   == Passes(4, 8, Fdct4, Fdct8, 3, 1, 1, 2)
jpeg_fdct_3x6   == Passes(3, 6, Fdct3, Fdct6, 3, 16, 9, 2)
jpeg_fdct_2x4   == Passes(2, 4, Fdct2, Fdct4, 3, 1, 1, 0)
jpeg_fdct_1x2   == Passes(1, 2, Fdct1, Fdct2, 0, 1, 1, -5)

\* start_pass_fdctmgr: the size of a component's blocks selects the routine.
do_dct ==
    \/ jpeg_fdct_islow \/ jpeg_fdct_7x7 \/ jpeg_fdct_6x6 \/ jpeg_fdct_5x5
    \/ jpeg_fdct_4x4 \/ jpeg_fdct_3x3 \/ jpeg_fdct_2x2 \/ jpeg_fdct_1x1
    \/ jpeg_fdct_9x9 \/ jpeg_fdct_10x10 \/ jpeg_fdct_11x11 \/ jpeg_fdct_12x12
    \/ jpeg_fdct_13x13 \/ jpeg_fdct_14x14 \/ jpeg_fdct_15x15 \/ jpeg_fdct_16x16
    \/ jpeg_fdct_16x8 \/ jpeg_fdct_14x7 \/ jpeg_fdct_12x6 \/ jpeg_fdct_10x5
    \/ jpeg_fdct_8x4 \/ jpeg_fdct_6x3 \/ jpeg_fdct_4x2 \/ jpeg_fdct_2x1
    \/ jpeg_fdct_8x16 \/ jpeg_fdct_7x14 \/ jpeg_fdct_6x12 \/ jpeg_fdct_5x10
    \/ jpeg_fdct_4x8 \/ jpeg_fdct_3x6 \/ jpeg_fdct_2x4 \/ jpeg_fdct_1x2

FaultQuotient(x) == x \div qval   \* seeded bug: no rounding
\* A quotient, rounded to the nearest.
Quotient(x) == (x + qval \div 2) \div qval

\* forward_DCT after do_dct
Quantize ==
    /\ pass = 2
    /\ coef_block' = [u \in DOMAIN data |-> [v \in DOMAIN data[u] |->
           IF data[u][v] < 0 THEN -Quotient(-data[u][v]) ELSE Quotient(data[u][v])]]
    /\ pass' = 3
    /\ UNCHANGED <<dct_size, samples, qval, data>>

forward_DCT == do_dct \/ Quantize

FdctInit ==
    /\ \E b \in SampleBlocks : dct_size = b.size /\ samples = b.samples
    /\ qval \in Divisors
    /\ data = <<>> /\ pass = 0 /\ coef_block = <<>>

FdctSpec == FdctInit /\ [][forward_DCT]_fdctVars

(***************************************************************************)
(* What the coefficients are to be: what each wave has of the samples.     *)
(***************************************************************************)
\* The coefficients, times 8: each row's share of each wave, in 2^-9, times the waves down.
Coefficients ==
    LET w == dct_size[1]  h == dct_size[2]
        area == w * h * 32
        Row(r, u) == MapThenSumSet(LAMBDA c : (samples[r][c] - CENTERJSAMPLE) * Waves[w][u][c], 0..(w - 1))
        share == [u \in Inputs(w) |-> [r \in 0..(h - 1) |-> (Row(r, u) + area \div 2) \div area]]
        Column(u, v) == MapThenSumSet(LAMBDA r : share[u][r] * Waves[h][v][r], 0..(h - 1))
    IN [u \in Inputs(w) |-> [v \in Inputs(h) |-> (Column(u, v) + 65536) \div 131072]]

Near(quantized, exact) == quantized * qval - exact \in -(qval \div 2 + 3)..(qval \div 2 + 3)

Wide(u) == <<dct_size[1], u>> \in {<<12, 2>>, <<14, 1>>}

(***************************************************************************)
(* Every transform of a block of any size, and the quantization after it,  *)
(* make the coefficients of the samples, to within half a quantizer and    *)
(* 3/8 for the rounding of the passes. Exceptions: of rows of 12 samples   *)
(* the third coefficient, and of 14 the second, because a term of theirs   *)
(* is not scaled by 2^CONST_BITS before the descaling.                     *)
(***************************************************************************)
CoefficientsExplained ==
    pass = 3 =>
        LET c == Coefficients
        IN \A u \in DOMAIN c : Wide(u) \/ \A v \in DOMAIN c[u] : Near(coef_block[u][v], c[u][v])

(***************************************************************************)
(* What the comments of jfdctint.c say: jpeg_fdct_12x12 and the others     *)
(* "perform the forward DCT" on a block of their size.                     *)
(***************************************************************************)
CoefficientsExact ==
    pass = 3 =>
        LET c == Coefficients
        IN \A u \in DOMAIN c : \A v \in DOMAIN c[u] : Near(coef_block[u][v], c[u][v])
=============================================================================
