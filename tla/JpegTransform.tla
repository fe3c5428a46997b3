---------------------------- MODULE JpegTransform ----------------------------
(***************************************************************************)
(* The lossless transformations of transupp.c, which jpegtran applies to   *)
(* the coefficients of an image: the calls jtransform_request_workspace,   *)
(* jtransform_adjust_parameters and jtransform_execute_transform.          *)
(*                                                                         *)
(* A block has 2 x 2 samples here. All that the routines know of a wave is *)
(* whether it is odd; of two samples, the even wave is their sum and the   *)
(* odd one their difference, so that the model can look at the samples.    *)
(***************************************************************************)
EXTENDS Integers, Sequences, FiniteSetsExt

CONSTANTS Pictures,  \* [factors, space, width, height]: the images
          Requests   \* the options: transform, perfect, trim, force_grayscale and crop

Transforms ==
    {"NONE", "FLIP_H", "FLIP_V", "TRANSPOSE", "ROT_90", "ROT_180", "ROT_270", "TRANSVERSE"}

NONE == -1   \* an unset crop parameter
CropSpecs ==
    [size : Nat \cup {NONE}, force : BOOLEAN, offset : Nat \cup {NONE}, neg : BOOLEAN]

ASSUME TransformAssumption ==
    /\ \A p \in Pictures : /\ p.factors \in Seq((1..4) \X (1..4)) \ {<<>>}
                           /\ p.width \in Nat \ {0} /\ p.height \in Nat \ {0}
    /\ Requests \subseteq
           [transform : Transforms, perfect : BOOLEAN, trim : BOOLEAN, force_grayscale : BOOLEAN,
            crop : BOOLEAN, crop_x : CropSpecs, crop_y : CropSpecs,
            output_width : Nat, output_height : Nat, x_crop_offset : Nat, y_crop_offset : Nat]

VARIABLES
    src,                    \* the image: the decompression object
    src_coef_arrays,        \* its blocks, by component, row and column
    info,                   \* the options and what jtransform_request_workspace makes of them
    dst,                    \* factors, width, height, quantval of the compression object
    workspace_coef_arrays,  \* <<>> if there is none
    step                    \* the call that is next, or how it ended

transformVars == <<src, src_coef_arrays, info, dst, workspace_coef_arrays, step>>

DCTSIZE == 2
K == 0..(DCTSIZE - 1)
jdiv_round_up(a, b) == (a + b - 1) \div b

MaxH(factors) == Max({factors[c][1] : c \in DOMAIN factors})
MaxV(factors) == Max({factors[c][2] : c \in DOMAIN factors})

(***************************************************************************)
(* Samples and coefficients. A sample is a number of its own, wherever the *)
(* image, padded to whole iMCUs, has it.                                   *)
(***************************************************************************)
SampleAt(c, x, y) == (c * 32 + y) * 32 + x + 1

quantval == [v \in K |-> [u \in K |-> 2 * v + u + 1]]
Common == 12     \* a multiple of every quantizer

\* The sum of the values of a function.
Total(f) == MapThenSumSet(LAMBDA p : f[p], DOMAIN f)

Sign(u, i) == IF u = 1 /\ i = 1 THEN -1 ELSE 1

BlockAt(c, x, y) ==
    [v \in K |-> [u \in K |->
        Total([p \in K \X K |-> Sign(u, p[1]) * Sign(v, p[2])
                                 * SampleAt(c, DCTSIZE * x + p[1], DCTSIZE * y + p[2])])
          * (Common \div quantval[v][u])]]

\* The sample that a decoder finds in a block.
DecodedSample(block, quant, i, j) ==
    Total([p \in K \X K |-> Sign(p[1], i) * Sign(p[2], j)
                             * block[p[2]][p[1]] * quant[p[2]][p[1]]]) \div (4 * Common)

\* What becomes of a block: waves change their signs, rows and columns change places.
NegateOddColumns(b) == [v \in K |-> [u \in K |-> IF u % 2 = 1 THEN -b[v][u] ELSE b[v][u]]]
NegateOddRows(b) == [v \in K |-> [u \in K |-> IF v % 2 = 1 THEN -b[v][u] ELSE b[v][u]]]
Transposed(b) == [v \in K |-> [u \in K |-> b[u][v]]]

(***************************************************************************)
(* jtransform_request_workspace                                            *)
(***************************************************************************)
Transposing == info.transform \in {"TRANSPOSE", "TRANSVERSE", "ROT_90", "ROT_270"}

num_components ==
    IF info.force_grayscale /\ src.space = "YCbCr" /\ Len(src.factors) = 3 THEN 1
    ELSE Len(src.factors)

\* The iMCU of the source: that of one component is a block.
src_factors(c) == IF num_components = 1 THEN <<1, 1>> ELSE src.factors[c]
src_iMCU_width == IF num_components = 1 THEN DCTSIZE ELSE MaxH(src.factors) * DCTSIZE
src_iMCU_height == IF num_components = 1 THEN DCTSIZE ELSE MaxV(src.factors) * DCTSIZE

jtransform_perfect_transform ==
    /\ info.transform \in {"FLIP_H", "ROT_270", "TRANSVERSE", "ROT_180"} =>
          src.width % src_iMCU_width = 0
    /\ info.transform \in {"FLIP_V", "ROT_90", "TRANSVERSE", "ROT_180"} =>
          src.height % src_iMCU_height = 0

\* The image as the transformation leaves it, not cropped yet.
full_width == IF Transposing THEN src.height ELSE src.width
full_height == IF Transposing THEN src.width ELSE src.height
iMCU_sample_width == IF Transposing THEN src_iMCU_height ELSE src_iMCU_width
iMCU_sample_height == IF Transposing THEN src_iMCU_width ELSE src_iMCU_height

\* A crop specification along one axis, with the defaults in: an offset from the right, or the
\* bottom, is JCROP_NEG; a size of JCROP_FORCE is not extended to the iMCU boundary.
Offset(crop) == IF crop.offset = NONE THEN 0 ELSE crop.offset
Size(crop, full) == IF crop.size = NONE THEN full - Offset(crop) ELSE crop.size
ValidCrop(crop, full) ==
    /\ Offset(crop) < full /\ Size(crop, full) \in 1..full
    /\ Offset(crop) <= full - Size(crop, full)
From(crop, full) == IF crop.neg THEN full - Size(crop, full) - Offset(crop) ELSE Offset(crop)
Extended(crop, full, unit) ==
    IF crop.force THEN Size(crop, full) ELSE Size(crop, full) + (From(crop, full) % unit)

\* trim_right_edge, trim_bottom_edge: a partial iMCU is dropped, unless there is no other.
FaultTrimmed(size, offset, full, unit) ==   \* seeded bug: wherever the output ends
    IF size \div unit > 0 THEN (size \div unit) * unit ELSE size
Trimmed(size, offset, full, unit) ==
    IF size \div unit > 0 /\ offset + size \div unit = full \div unit
    THEN (size \div unit) * unit ELSE size

MirrorsColumns == info.transform \in {"FLIP_H", "TRANSVERSE", "ROT_90", "ROT_180"}
MirrorsRows == info.transform \in {"FLIP_V", "TRANSVERSE", "ROT_180", "ROT_270"}

\* The options with the offset, in iMCUs, and the size of the output.
Sized ==
    LET x == From(info.crop_x, full_width)   y == From(info.crop_y, full_height)
        xoff == IF info.crop THEN x \div iMCU_sample_width ELSE 0
        yoff == IF info.crop THEN y \div iMCU_sample_height ELSE 0
        w == IF info.crop THEN Extended(info.crop_x, full_width, iMCU_sample_width)
             ELSE full_width
        h == IF info.crop THEN Extended(info.crop_y, full_height, iMCU_sample_height)
             ELSE full_height
    IN [info EXCEPT
           !.x_crop_offset = xoff, !.y_crop_offset = yoff,
           !.output_width = IF info.trim /\ MirrorsColumns
                            THEN Trimmed(w, xoff, full_width, iMCU_sample_width) ELSE w,
           !.output_height = IF info.trim /\ MirrorsRows
                             THEN Trimmed(h, yoff, full_height, iMCU_sample_height) ELSE h]

NeedWorkspace(i) ==
    CASE i.transform = "NONE" -> i.x_crop_offset # 0 \/ i.y_crop_offset # 0
      [] i.transform = "FLIP_H" -> i.y_crop_offset # 0
      [] OTHER -> TRUE

\* The factors of a component of the destination.
Factors(c) == IF Transposing THEN <<src_factors(c)[2], src_factors(c)[1]>> ELSE src_factors(c)

Uninitialized == [v \in K |-> [u \in K |-> 0]]   \* the workspace is not pre-zeroed

Workspace(i) ==
    [c \in 1..num_components |->
        [y \in 0..(jdiv_round_up(i.output_height, iMCU_sample_height) * Factors(c)[2] - 1) |->
            [x \in 0..(jdiv_round_up(i.output_width, iMCU_sample_width) * Factors(c)[1] - 1) |->
                Uninitialized]]]

RequestImperfect ==
    /\ step = "request" /\ info.perfect /\ ~jtransform_perfect_transform
    /\ step' = "imperfect"
    /\ UNCHANGED <<src, src_coef_arrays, info, dst, workspace_coef_arrays>>

CropOk == info.crop => ValidCrop(info.crop_x, full_width) /\ ValidCrop(info.crop_y, full_height)

RequestBadCrop ==
    /\ step = "request" /\ (info.perfect => jtransform_perfect_transform) /\ ~CropOk
    /\ step' = "error"
    /\ UNCHANGED <<src, src_coef_arrays, info, dst, workspace_coef_arrays>>

RequestWorkspace ==
    /\ step = "request" /\ (info.perfect => jtransform_perfect_transform) /\ CropOk
    /\ info' = Sized
    /\ workspace_coef_arrays' = IF NeedWorkspace(Sized) THEN Workspace(Sized) ELSE <<>>
    /\ step' = "adjust"
    /\ UNCHANGED <<src, src_coef_arrays, dst>>

(***************************************************************************)
(* jtransform_adjust_parameters. The destination has the parameters of the *)
(* source before; jpeg_write_coefficients takes them as they are after.    *)
(***************************************************************************)
CanGray ==
    /\ (src.space = "YCbCr" /\ Len(src.factors) = 3) \/ (src.space = "gray" /\ Len(src.factors) = 1)
    /\ src.factors[1] = <<MaxH(src.factors), MaxV(src.factors)>>

AdjustImpossible ==
    /\ step = "adjust" /\ info.force_grayscale /\ ~CanGray
    /\ step' = "error"
    /\ UNCHANGED <<src, src_coef_arrays, info, dst, workspace_coef_arrays>>

\* transpose_critical_parameters: factors and quantization tables.
AdjustParameters ==
    /\ step = "adjust" /\ (info.force_grayscale => CanGray)
    /\ dst' = [factors |-> [c \in 1..num_components |-> Factors(c)],
               width |-> info.output_width, height |-> info.output_height,
               quantval |-> IF Transposing THEN Transposed(dst.quantval) ELSE dst.quantval]
    /\ step' = "execute"
    /\ UNCHANGED <<src, src_coef_arrays, info, workspace_coef_arrays>>

(***************************************************************************)
(* jtransform_execute_transform                                            *)
(***************************************************************************)
\* initial_setup of the destination.
dst_width_in_blocks(c) ==
    jdiv_round_up(dst.width * dst.factors[c][1], MaxH(dst.factors) * DCTSIZE)
dst_height_in_blocks(c) ==
    jdiv_round_up(dst.height * dst.factors[c][2], MaxV(dst.factors) * DCTSIZE)

\* The blocks of a component that are mirrored are those of whole iMCUs.
comp_width(c) == (full_width \div (MaxH(dst.factors) * DCTSIZE)) * dst.factors[c][1]
comp_height(c) == (full_height \div (MaxV(dst.factors) * DCTSIZE)) * dst.factors[c][2]
x_crop_blocks(c) == info.x_crop_offset * dst.factors[c][1]
y_crop_blocks(c) == info.y_crop_offset * dst.factors[c][2]

\* Every row of the workspace is filled, and every column that the destination has.
Execute(transform, Block(_, _, _)) ==
    /\ step = "execute" /\ info.transform = transform
    /\ workspace_coef_arrays' =
          [c \in DOMAIN workspace_coef_arrays |-> [y \in DOMAIN workspace_coef_arrays[c] |->
              [x \in DOMAIN workspace_coef_arrays[c][y] |->
                  IF x < dst_width_in_blocks(c)
                  THEN Block(c, x + x_crop_blocks(c), y + y_crop_blocks(c)) ELSE Uninitialized]]]
    /\ step' = "done"
    /\ UNCHANGED <<src, src_coef_arrays, info, dst>>

Source(c, x, y) == src_coef_arrays[c][y][x]

\* A row or a column of blocks in the mirrored area is taken from its other side.
MirroredX(c, x) == IF x < comp_width(c) THEN comp_width(c) - x - 1 ELSE x
MirroredY(c, y) == IF y < comp_height(c) THEN comp_height(c) - y - 1 ELSE y

do_crop ==
    /\ info.x_crop_offset # 0 \/ info.y_crop_offset # 0
    /\ Execute("NONE", Source)

do_nothing ==
    /\ step = "execute" /\ info.transform = "NONE"
    /\ info.x_crop_offset = 0 /\ info.y_crop_offset = 0
    /\ step' = "done"
    /\ UNCHANGED <<src, src_coef_arrays, info, dst, workspace_coef_arrays>>

\* In place: the mirrored row, and then its part to be kept, left-justified.
do_flip_h_no_crop ==
    /\ step = "execute" /\ info.transform = "FLIP_H" /\ info.y_crop_offset = 0
    /\ src_coef_arrays' =
          [c \in DOMAIN src_coef_arrays |-> [y \in DOMAIN src_coef_arrays[c] |->
              LET row == src_coef_arrays[c][y]
                  mirrored == [x \in DOMAIN row |->
                      IF x < comp_width(c) THEN NegateOddColumns(row[comp_width(c) - x - 1])
                      ELSE row[x]]
                  rows == jdiv_round_up(dst_height_in_blocks(c), dst.factors[c][2])
              IN IF c > num_components \/ y >= rows * dst.factors[c][2]
                 THEN row
                 ELSE [x \in DOMAIN row |->
                          IF x < dst_width_in_blocks(c) THEN mirrored[x + x_crop_blocks(c)]
                          ELSE mirrored[x]]]]
    /\ step' = "done"
    /\ UNCHANGED <<src, info, dst, workspace_coef_arrays>>

do_flip_h ==
    /\ info.y_crop_offset # 0
    /\ Execute("FLIP_H", LAMBDA c, x, y :
           IF x < comp_width(c) THEN NegateOddColumns(Source(c, MirroredX(c, x), y))
           ELSE Source(c, x, y))

do_flip_v ==
    Execute("FLIP_V", LAMBDA c, x, y :
        IF y < comp_height(c) THEN NegateOddRows(Source(c, x, MirroredY(c, y)))
        ELSE Source(c, x, y))

do_transpose == Execute("TRANSPOSE", LAMBDA c, x, y : Transposed(Source(c, y, x)))

\* Blocks at the edges are transposed and not mirrored.
do_rot_90 ==
    Execute("ROT_90", LAMBDA c, x, y :
        IF x < comp_width(c) THEN Transposed(NegateOddRows(Source(c, y, MirroredX(c, x))))
        ELSE Transposed(Source(c, y, x)))

do_rot_270 ==
    Execute("ROT_270", LAMBDA c, x, y :
        IF y < comp_height(c) THEN Transposed(NegateOddColumns(Source(c, MirroredY(c, y), x)))
        ELSE Transposed(Source(c, y, x)))

\* A block at the right edge is only mirrored vertically, one at the bottom horizontally.
do_rot_180 ==
    Execute("ROT_180", LAMBDA c, x, y :
        LET b == Source(c, MirroredX(c, x), MirroredY(c, y))
            r == IF y < comp_height(c) THEN NegateOddRows(b) ELSE b
        IN IF x < comp_width(c) THEN NegateOddColumns(r) ELSE r)

do_transverse ==
    Execute("TRANSVERSE", LAMBDA c, x, y :
        LET b == Source(c, MirroredY(c, y), MirroredX(c, x))
            r == IF x < comp_width(c) THEN NegateOddRows(b) ELSE b
        IN Transposed(IF y < comp_height(c) THEN NegateOddColumns(r) ELSE r))

jtransform_execute_transform ==
    \/ do_nothing \/ do_crop \/ do_flip_h_no_crop \/ do_flip_h \/ do_flip_v \/ do_transpose
    \/ do_rot_90 \/ do_rot_270 \/ do_rot_180 \/ do_transverse

----------------------------------------------------------------------------
\* The arrays of jdcoefct.c are padded to whole iMCUs.
Padded(p, c) ==
    LET h == p.factors[c][1]  v == p.factors[c][2]
        blocks(size, f, max) == jdiv_round_up(jdiv_round_up(size * f, max * DCTSIZE), f) * f
    IN [y \in 0..(blocks(p.height, v, MaxV(p.factors)) - 1) |->
           [x \in 0..(blocks(p.width, h, MaxH(p.factors)) - 1) |-> BlockAt(c, x, y)]]

TransformInit ==
    /\ src \in Pictures
    /\ src_coef_arrays = [c \in DOMAIN src.factors |-> Padded(src, c)]
    /\ \E r \in Requests :
          info = [r EXCEPT !.output_width = src.width, !.output_height = src.height]
    /\ dst = [factors |-> src.factors, width |-> src.width, height |-> src.height,
              quantval |-> quantval]
    /\ workspace_coef_arrays = <<>>
    /\ step = "request"

TransformNext ==
    \/ RequestImperfect \/ RequestBadCrop \/ RequestWorkspace
    \/ AdjustImpossible \/ AdjustParameters \/ jtransform_execute_transform

TransformSpec == TransformInit /\ [][TransformNext]_transformVars

(***************************************************************************)
(* What the transformations are to do, in samples (transupp.h): flips      *)
(* leave partial iMCUs at the edge as they are, the others are             *)
(* combinations of flips and transposition, cropping comes last.           *)
(***************************************************************************)
\* The place in the image that the sample at <<x, y>> of the flipped image comes from, for an
\* image of this size and component of these factors.
FlippedFrom(x, size, unit, factor) ==
    LET whole == (size \div unit) * factor * DCTSIZE
    IN IF x < whole THEN whole - 1 - x ELSE x

FlipH(c, p) == <<FlippedFrom(p[1], src.width, src_iMCU_width, src_factors(c)[1]), p[2]>>
FlipV(c, p) == <<p[1], FlippedFrom(p[2], src.height, src_iMCU_height, src_factors(c)[2])>>
Swap(p) == <<p[2], p[1]>>

\* The place that the sample at p of the transformed image comes from.
Origin(c, p) ==
    CASE info.transform = "NONE" -> p
      [] info.transform = "FLIP_H" -> FlipH(c, p)
      [] info.transform = "FLIP_V" -> FlipV(c, p)
      [] info.transform = "TRANSPOSE" -> Swap(p)
      [] info.transform = "ROT_90" -> FlipV(c, Swap(p))
      [] info.transform = "ROT_270" -> FlipH(c, Swap(p))
      [] info.transform = "ROT_180" -> FlipH(c, FlipV(c, p))
      [] info.transform = "TRANSVERSE" -> FlipH(c, FlipV(c, Swap(p)))

OutputArrays == IF workspace_coef_arrays = <<>> THEN src_coef_arrays ELSE workspace_coef_arrays
OutputSample(c, x, y) ==
    DecodedSample(OutputArrays[c][y \div DCTSIZE][x \div DCTSIZE], dst.quantval,
                  x % DCTSIZE, y % DCTSIZE)

\* The samples that a component of the output has.
OutputSize(c) == <<jdiv_round_up(dst.width * dst.factors[c][1], MaxH(dst.factors)),
                   jdiv_round_up(dst.height * dst.factors[c][2], MaxV(dst.factors))>>
CropCorner(c) == <<x_crop_blocks(c) * DCTSIZE, y_crop_blocks(c) * DCTSIZE>>

(***************************************************************************)
(* Nothing is lost or out of place: every sample of the output is the one  *)
(* of the image that belongs there, for every transformation, with and     *)
(* without cropping, trimming and discarding of the colours.               *)
(***************************************************************************)
SamplesInPlace ==
    \A c \in DOMAIN dst.factors :
        \A x \in 0..(OutputSize(c)[1] - 1), y \in 0..(OutputSize(c)[2] - 1) :
            LET p == Origin(c, <<x + CropCorner(c)[1], y + CropCorner(c)[2]>>)
            IN OutputSample(c, x, y) = SampleAt(c, p[1], p[2])

\* The region that was asked for is in the output, whose corner is on an iMCU boundary, unless
\* its size was forced; of a region that ends in a partial iMCU, trimming leaves what is whole.
Covers(crop, full, offset, size, unit, trims) ==
    LET end == From(crop, full) + Size(crop, full)
        whole == (full \div unit) * unit
    IN /\ offset * unit <= From(crop, full)
       /\ \/ crop.force
          \/ offset * unit + size = end
          \/ trims /\ end > whole /\ offset * unit + size = whole
RegionCovered ==
    info.crop =>
        /\ Covers(info.crop_x, full_width, info.x_crop_offset, dst.width, iMCU_sample_width,
                  info.trim /\ MirrorsColumns)
        /\ Covers(info.crop_y, full_height, info.y_crop_offset, dst.height, iMCU_sample_height,
                  info.trim /\ MirrorsRows)

\* A partial iMCU that could not be mirrored is in the output only if neither a perfect nor a
\* trimmed one was asked for, or if there is nothing else.
EdgeShown(mirrors, full, offset, size, unit) ==
    mirrors /\ offset + jdiv_round_up(size, unit) > full \div unit
EdgesExplained ==
    /\ EdgeShown(MirrorsColumns, full_width, info.x_crop_offset, dst.width, iMCU_sample_width) =>
          ~info.perfect /\ (info.trim => dst.width < iMCU_sample_width)
    /\ EdgeShown(MirrorsRows, full_height, info.y_crop_offset, dst.height, iMCU_sample_height) =>
          ~info.perfect /\ (info.trim => dst.height < iMCU_sample_height)

TransformExact == step = "done" => SamplesInPlace /\ RegionCovered /\ EdgesExplained
=============================================================================
