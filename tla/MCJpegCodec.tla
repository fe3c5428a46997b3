---------------------------- MODULE MCJpegCodec -----------------------------
(***************************************************************************)
(* JpegCodec. The coefficient controller: an array of a few rows, and the  *)
(* layouts of one component and of 4:2:0, 4:2:2 (whose components are      *)
(* equally high) and 4:1:0 images, whatever comes first, and with restart  *)
(* intervals shorter and longer than a row of MCUs. With blocks of two     *)
(* lines, the images have up to nine iMCU rows, with and without dummy     *)
(* block rows and lines at the bottom. The streams that are torn have an   *)
(* interval per MCU, so that the numbers of the markers wrap, or intervals *)
(* across the rows. The blocks of the DCTs are those of MCJpegBlocks.      *)
(***************************************************************************)
EXTENDS JpegCodec, MCJpegBlocks, TLC

Image(layout, height, interval) == [layout |-> layout, height |-> height, interval |-> interval]

MCLayouts == {<<1>>, <<2>>, <<1, 1>>, <<2, 1>>, <<1, 2>>, <<4, 1>>}

MCTorn == {Image(<<1>>, 8, 1), Image(<<2, 1>>, 11, 2)}

MCImages == {Image(layout, height, 0) : layout \in MCLayouts, height \in 1..17}
            \cup {Image(layout, height, interval) :
                      layout \in {<<2>>, <<2, 1>>}, height \in {5, 12}, interval \in {1, 2, 4}}
            \cup MCTorn

MCJunkSeqs == {<<>>, <<Junk>>, <<Junk, Junk, Junk>>, <<Invalid, Junk>>}

(***************************************************************************)
(* Transformations: images with and without partial iMCUs at the edges,    *)
(* cropped from either side.                                               *)
(***************************************************************************)
Picture(factors, space, width, height) ==
    [factors |-> factors, space |-> space, width |-> width, height |-> height]

MCPictures ==
    {Picture(<<<<2, 2>>>>, "gray", w, 4) : w \in {1, 5}}
    \cup {Picture(<<f, <<1, 1>>, <<1, 1>>>>, "YCbCr", 9, h) : f \in {<<1, 1>>, <<2, 2>>}, h \in {3, 8}}
    \cup {Picture(<<<<2, 1>>, <<1, 1>>, <<1, 1>>>>, "YCbCr", 3, 8),
          Picture(<<<<1, 1>>, <<1, 2>>, <<1, 1>>>>, "YCbCr", 5, 5),
          Picture(<<<<1, 2>>, <<1, 1>>>>, "other", 5, 5)}

Along(size_, force, offset, neg) == [size |-> size_, force |-> force, offset |-> offset, neg |-> neg]
NoCrop == Along(-1, FALSE, -1, FALSE)
Crops == {NoCrop, Along(2, FALSE, 3, FALSE), Along(3, TRUE, 3, FALSE), Along(2, FALSE, 0, TRUE),
          Along(-1, FALSE, 5, FALSE)}

Cropped == {<<x, y>> \in Crops \X Crops : x = y \/ x = NoCrop \/ y = NoCrop}
Options == {<<FALSE, FALSE, FALSE>>, <<FALSE, TRUE, FALSE>>, <<FALSE, FALSE, TRUE>>, <<TRUE, TRUE, FALSE>>}

MCRequests ==
    {[transform |-> t, perfect |-> o[1], trim |-> o[2], force_grayscale |-> o[3],
      crop |-> c # <<NoCrop, NoCrop>>, crop_x |-> c[1], crop_y |-> c[2],
      output_width |-> 0, output_height |-> 0, x_crop_offset |-> 0, y_crop_offset |-> 0] :
        t \in {"NONE", "FLIP_H", "FLIP_V", "TRANSPOSE", "ROT_90", "ROT_180", "ROT_270", "TRANSVERSE"},
        o \in Options, c \in Cropped}

(***************************************************************************)
(* Scans: twelve MCUs of two components, with differences of all signs and *)
(* sizes. A progressive image has its bits in up to four parts.            *)
(***************************************************************************)
DCs == <<0, 3, -7, 5, 200, -1000, 0, 0, 1, -1, 2, 15>>

\* Component 1 goes through the values with step f and the blocks with step n; 2 does otherwise.
Walk(f, n, ACs, se) ==
    LET B(dc, ac) == [k \in 0..se |-> IF k = 0 THEN dc ELSE IF k \in DOMAIN ac THEN ac[k] ELSE 0]
        At(list, i) == list[(i % 12) + 1]
    IN [m \in 1..12 |-> <<B(At(DCs, m * f), At(ACs, m * n)), B(At(DCs, m * n + 3), At(ACs, m * f + 1))>>]

Part(component, ss, se, ah, al) ==
    [progressive |-> TRUE, component |-> component, Ss |-> ss, Se |-> se, Ah |-> ah, Al |-> al]
Sequential(se) ==
    <<[progressive |-> FALSE, component |-> 0, Ss |-> 0, Se |-> se, Ah |-> 0, Al |-> 0]>>
Progressive(se) ==
    <<Part(0, 0, 0, 0, 1), Part(1, 1, 2, 0, 2), Part(2, 1, se, 0, 1), Part(1, 3, se, 0, 1),
      Part(1, 1, 2, 2, 1), Part(0, 0, 0, 1, 0), Part(2, 1, se, 1, 0), Part(1, 1, se, 1, 0)>>
BitByBit == <<Part(0, 0, 0, 0, 3), Part(0, 0, 0, 3, 2), Part(0, 0, 0, 2, 1), Part(0, 0, 0, 1, 0)>>

ShortBands ==
    <<<<0, 0, 0>>, <<1, 0, 0>>, <<0, 0, -1>>, <<-3, 2, 0>>, <<0, 5, -9>>, <<100, 0, -200>>,
      <<2, 0, 0>>, <<0, 1, 1>>, <<1, 1, 1>>, <<-1, 0, 2>>, <<0, 0, 3>>, <<4, 4, -4>>>>

MCArithPhotos ==
    {[blocks |-> Walk(w[1], w[2], ShortBands, 3), script |-> s, interval |-> i, conditioning |-> c] :
        w \in {<<5, 7>>, <<9, 11>>}, s \in {Sequential(3), Progressive(3), BitByBit}, i \in {0, 5},
        c \in {[L |-> 0, U |-> 1, K |-> 5], [L |-> 2, U |-> 3, K |-> 1]}}

\* Blocks with runs of 16 zeroes and more, and with up to 24 correction bits.
LongBands ==
    <<<<>>, (1 :> 1), (24 :> -1), (2 :> -3) @@ (20 :> 2), (1 :> 5) @@ (3 :> -9) @@ (21 :> 1), (18 :> 3),
      [k \in 1..24 |-> 3], [k \in 1..24 |-> IF k = 24 THEN 1 ELSE 2], (1 :> 2) @@ (2 :> -2) @@ (19 :> 2),
      (5 :> 7) @@ (23 :> -1), [k \in 1..24 |-> IF k % 2 = 1 THEN -2 ELSE 0], (17 :> 100)>>

\* Three components, so that the bits of an MCU end up in two bytes.
Wide == [m \in 1..12 |-> [ci \in 1..3 |->
            [k \in 0..1 |-> IF k = 0 THEN DCs[((m * ci) % 12) + 1] ELSE (m + ci) % 2]]]

Coded(blocks, script, interval, coef_limit) ==
    [blocks |-> blocks, script |-> script, interval |-> interval, coef_limit |-> coef_limit]

MCHuffPhotos ==
    {Coded(Walk(1, 1, LongBands, 24), Progressive(24), 0, 25),
     Coded(Walk(5, 7, LongBands, 24), Progressive(24), 5, 25),
     Coded(Walk(1, 1, LongBands, 24), Sequential(24), 0, 10),
     Coded(Walk(5, 7, LongBands, 24), Sequential(24), 5, 25),
     Coded(Walk(1, 1, LongBands, 24), Sequential(24), 5, 0),
     Coded(Wide, BitByBit, 5, 2)}
=============================================================================
