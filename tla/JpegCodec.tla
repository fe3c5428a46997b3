----------------------------- MODULE JpegCodec ------------------------------
(***************************************************************************)
(* The parts of libjpeg between the markers and the lines, one at a time:  *)
(* the coefficient controller, with the way from a scan to the lines       *)
(* (JpegCoef); the inverse and the forward DCTs; the transformations of    *)
(* jpegtran; the two entropy coders, of which cinfo->arith_code selects    *)
(* one. The other parts of a state are as they are when there is nothing   *)
(* for them to do.                                                         *)
(***************************************************************************)
EXTENDS JpegCoef, JpegTransform

CONSTANTS Blocks, SampleBlocks, Divisors, ArithPhotos, HuffPhotos,
          MaxLength, HUFF_LOOKAHEAD, MaxEOBRUN, MAX_CORR_BITS, MIN_GET_BITS, Portions

VARIABLES unit,         \* the part that is at work
          size, coef, wsptr, output,
          dct_size, samples, qval, dct_data, pass, coef_block,
          photo, scan, mcu, stream, decoded, enc, dec

coefVars == <<arrayVars, scanVars, need_full_buffer>>
idctVars == <<size, coef, wsptr, output>>
fdctVars == <<dct_size, samples, qval, dct_data, pass, coef_block>>
coderVars == <<photo, scan, mcu, stream, decoded, enc, dec>>
codecVars == <<unit, coefVars, idctVars, fdctVars, transformVars, coderVars>>

IDCT == INSTANCE JpegIDCT
FDCT == INSTANCE JpegFDCT WITH data <- dct_data
Arith == INSTANCE JpegArith WITH Photos <- ArithPhotos
Huff == INSTANCE JpegHuff WITH Photos <- HuffPhotos

\* Nothing to do.
NoCoef == NoArray /\ NoScan /\ need_full_buffer = TRUE
NoIDCT == size = <<>> /\ coef = <<>> /\ wsptr = <<>> /\ output = <<>>
NoFDCT ==
    /\ dct_size = <<>> /\ samples = <<>> /\ qval = 0 /\ dct_data = <<>> /\ pass = 0
    /\ coef_block = <<>>
NoTransform ==
    /\ src = <<>> /\ src_coef_arrays = <<>> /\ info = <<>> /\ dst = <<>>
    /\ workspace_coef_arrays = <<>> /\ step = "none"
NoCoder ==
    /\ photo = <<>> /\ scan = 0 /\ mcu = 0 /\ stream = <<>> /\ decoded = <<>>
    /\ enc = <<>> /\ dec = <<>>

CodecInit ==
    \/ unit = "coef"      /\ CoefInit /\ NoIDCT /\ NoFDCT /\ NoTransform /\ NoCoder
    \/ unit = "idct"      /\ IDCT!Init /\ NoCoef /\ NoFDCT /\ NoTransform /\ NoCoder
    \/ unit = "fdct"      /\ FDCT!FdctInit /\ NoCoef /\ NoIDCT /\ NoTransform /\ NoCoder
    \/ unit = "transform" /\ TransformInit /\ NoCoef /\ NoIDCT /\ NoFDCT /\ NoCoder
    \/ unit = "arith"     /\ Arith!Init /\ NoCoef /\ NoIDCT /\ NoFDCT /\ NoTransform
    \/ unit = "huff"      /\ Huff!Init /\ NoCoef /\ NoIDCT /\ NoFDCT /\ NoTransform

CodecNext ==
    /\ \/ unit = "coef" /\ CoefNext /\ UNCHANGED <<idctVars, fdctVars, transformVars, coderVars>>
       \/ unit = "idct" /\ IDCT!Next /\ UNCHANGED <<coefVars, fdctVars, transformVars, coderVars>>
       \/ /\ unit = "fdct" /\ FDCT!forward_DCT
          /\ UNCHANGED <<coefVars, idctVars, transformVars, coderVars>>
       \/ /\ unit = "transform" /\ TransformNext
          /\ UNCHANGED <<coefVars, idctVars, fdctVars, coderVars>>
       \/ unit = "arith" /\ Arith!Next /\ UNCHANGED <<coefVars, idctVars, fdctVars, transformVars>>
       \/ unit = "huff" /\ Huff!Next /\ UNCHANGED <<coefVars, idctVars, fdctVars, transformVars>>
    /\ UNCHANGED unit

CodecSpec == CodecInit /\ [][CodecNext]_codecVars

(***************************************************************************)
(* What the parts promise; the modules of the parts define it. LinesExact  *)
(* and Coherent are about the coefficient controller, TransformExact about *)
(* the transformations.                                                    *)
(***************************************************************************)

\* Every inverse DCT of jidctint.c, of whatever size, turns a block of coefficients into
\* the samples that the exact transform has there, up to rounding, each within the range.
SamplesExact == unit = "idct" => IDCT!SamplesExact

\* Every forward DCT of jfdctint.c gives the quantized coefficients of the exact transform,
\* up to rounding, but for one coefficient of rows of 12 samples and one of rows of 14.
CoefficientsExplained == unit = "fdct" => FDCT!CoefficientsExplained

\* What jcarith.c writes, jdarith.c reads back: coefficients, restarts and the end of scans.
ArithmeticExact == unit = "arith" => Arith!ArithmeticExact

\* What jchuff.c writes with the tables it gathered, jdhuff.c reads back, however the data
\* arrives: blocks, runs of ends of bands, correction bits, restarts.
HuffmanExact == unit = "huff" => Huff!HuffmanExact
=============================================================================
