------------------------------ MODULE JpegScan ------------------------------
(***************************************************************************)
(* From the MCUs of a sequential scan to the lines of the image: the path  *)
(* jpeg_read_scanlines, process_data_simple_main, decompress_onepass,      *)
(* sep_upsample, over the entropy decoder of JpegEntropy, whose source may *)
(* suspend at any token and whose stream may be torn. JpegDecoder has the  *)
(* calls around it.                                                        *)
(*                                                                         *)
(* A sample is named for where it comes from: its MCU in the scan, its     *)
(* block row in the MCU and its line in the block. A column of MCUs has    *)
(* one sample per line: widths, and the IDCT, are left out.                *)
(***************************************************************************)
EXTENDS JpegEntropy

CONSTANTS Images,      \* [layout, height, interval]: the vertical sampling factors of the
                       \* components, image_height and restart_interval
          Torn,        \* those of them whose stream may be torn
          JunkSeqs,    \* the junk that may be where it is
          MaxShift,    \* intervals that are lost or repeated there at most
          MCUsPerRow,
          DCTSize,     \* lines in a block (8 in the code)
          MaxLines,    \* lines that the application asks for at most
          MaxPortion   \* tokens that there are when the source runs dry, at most

\* jinit_upsampler takes no fractional expansion (JERR_FRACT_SAMPLE_NOTIMPL).
Integral(layout) ==
    \A c, d \in DOMAIN layout :
        (\A e \in DOMAIN layout : layout[e] <= layout[d]) => layout[d] % layout[c] = 0

ASSUME ScanAssumption ==
    /\ \A i \in Images : /\ i.layout \in Seq(1..4) \ {<<>>} /\ Integral(i.layout)
                         /\ i.height \in Nat \ {0} /\ i.interval \in Nat
    /\ Torn \subseteq Images /\ JunkSeqs \subseteq Seq({Junk, Invalid}) /\ MaxShift \in Nat
    /\ MCUsPerRow \in Nat \ {0} /\ DCTSize \in Nat \ {0} /\ MaxLines \in Nat \ {0}
    /\ MaxPortion \in Nat

VARIABLES
    v_samp_factor,    \* the layout
    image_height,
    damaged,          \* history: the MCUs that may come out wrong
    input_iMCU_row,
    MCU_vert_offset, MCU_ctr,   \* where decompress_onepass goes on in the iMCU row
    buffer,           \* the main controller's: an iMCU row of each component
    buffer_full,
    rowgroup_ctr,     \* row groups of the buffer that were used up
    color_buf,        \* the upsampler's: component |-> its lines, or the row group they are in
    next_row_out,     \* the next line of color_buf
    lines             \* what jpeg_read_scanlines returned

imageVars == <<v_samp_factor, image_height, damaged, data, restart_interval>>
inputVars == <<entropy, input_iMCU_row, MCU_vert_offset, MCU_ctr, buffer>>
outputVars == <<buffer_full, rowgroup_ctr, color_buf, next_row_out, lines>>
scanVars == <<imageVars, inputVars, outputVars>>

Component == 1..Len(v_samp_factor)
Column == 0..(MCUsPerRow - 1)
CeilDiv(a, b) == (a + b - 1) \div b
max_v_samp_factor ==
    CHOOSE v \in 1..4 : /\ \E c \in Component : v_samp_factor[c] = v
                        /\ \A c \in Component : v_samp_factor[c] <= v

\* initial_setup and per_scan_setup. A scan of one component is not interleaved: its MCU is
\* one block.
Interleaved == Len(v_samp_factor) > 1
MCU_height(c) == IF Interleaved THEN v_samp_factor[c] ELSE 1
total_iMCU_rows == CeilDiv(image_height, max_v_samp_factor * DCTSize)
height_in_blocks(c) == CeilDiv(image_height * v_samp_factor[c], max_v_samp_factor * DCTSize)
last_row_height(c) ==
    LET tmp == height_in_blocks(c) % v_samp_factor[c]
    IN IF tmp = 0 THEN v_samp_factor[c] ELSE tmp
MCU_rows_in_scan == IF Interleaved THEN total_iMCU_rows ELSE height_in_blocks(1)

\* jpeg_calc_output_dimensions: a component at half the height is scaled up by its IDCT.
DCT_v_scaled_size(c) ==
    IF max_v_samp_factor % (v_samp_factor[c] * 2) = 0 THEN DCTSize * 2 ELSE DCTSize

\* jinit_upsampler: what is left to do for the upsampler.
rowgroup_height(c) == (v_samp_factor[c] * DCT_v_scaled_size(c)) \div DCTSize
v_expand(c) == max_v_samp_factor \div rowgroup_height(c)
Fullsize(c) == rowgroup_height(c) = max_v_samp_factor

Garbage == <<>>   \* in a new buffer

\* The scan of an image, as it is or torn.
StreamOf(image) ==
    LET mcus == MCU_rows_in_scan * MCUsPerRow
        stream == Intact(mcus, image.interval)
    IN \/ data = stream /\ damaged = {}
       \/ /\ image \in Torn
          /\ \E a \in 0..(Len(stream) - 1), junk \in JunkSeqs, b \in 1..Len(stream) :
                /\ stream[b] \in Markers
                /\ IntervalOf(stream, b) - IntervalOf(stream, a + 1) \in -MaxShift..MaxShift
                /\ data = Spliced(stream, a, junk, b)
                /\ damaged = Damaged(stream, a, b, mcus, image.interval)

ScanInit ==
    /\ \E image \in Images :
          /\ v_samp_factor = image.layout /\ image_height = image.height
          /\ restart_interval = image.interval
          /\ StreamOf(image)
    /\ entropy = StartPass(restart_interval)
    /\ input_iMCU_row = 0 /\ MCU_vert_offset = 0 /\ MCU_ctr = 0
    /\ buffer = [c \in Component |->
                   [l \in 0..(rowgroup_height(c) * DCTSize - 1) |->
                      [m \in Column |-> Garbage]]]
    /\ buffer_full = FALSE /\ rowgroup_ctr = 0
    /\ color_buf = [c \in Component |-> <<>>]
    /\ next_row_out = max_v_samp_factor
    /\ lines = <<>>

----------------------------------------------------------------------------
(* decompress_onepass *)

\* start_iMCU_row
MCU_rows_per_iMCU_row ==
    IF Interleaved THEN 1
    ELSE IF input_iMCU_row < total_iMCU_rows - 1 THEN v_samp_factor[1] ELSE last_row_height(1)

\* The position in its iMCU row of the MCU that holds a block row of a component.
PositionOf(c, block, m) == (block \div MCU_height(c)) * MCUsPerRow + m
Position == MCU_vert_offset * MCUsPerRow + MCU_ctr
Positions == MCU_rows_per_iMCU_row * MCUsPerRow

\* The buffer after the next MCUs: dummy block rows under the image are not put in.
Filled(mcus) ==
    [c \in Component |-> [l \in DOMAIN buffer[c] |-> [m \in Column |->
        LET block == l \div DCT_v_scaled_size(c)
            n == PositionOf(c, block, m) - Position + 1
        IN IF /\ n \in DOMAIN mcus
              /\ input_iMCU_row < total_iMCU_rows - 1 \/ block < last_row_height(c)
           THEN <<mcus[n], block % MCU_height(c), l % DCT_v_scaled_size(c)>>
           ELSE buffer[c][l][m]]]]

\* The source ran dry before an MCU: the decoder will be back at this one.
Suspend(next) ==
    MCU_vert_offset' = next \div MCUsPerRow /\ MCU_ctr' = next % MCUsPerRow

\* What is left of the iMCU row, with the tokens up to limit.
RestOfRow(limit) == DecodeMCUs(Positions - Position, limit)

\* What the entropy decoder has made of it is put in the buffer.
Store(row) ==
    /\ entropy' = row.e
    /\ buffer' = Filled(row.values)
    /\ IF row.ok
       THEN MCU_vert_offset' = 0 /\ MCU_ctr' = 0 /\ input_iMCU_row' = input_iMCU_row + 1
       ELSE Suspend(Position + Len(row.values)) /\ UNCHANGED input_iMCU_row

----------------------------------------------------------------------------
(* sep_upsample *)

\* The upsampling methods: a full-size component stays where it is in the main buffer, the
\* others are copied line by line.
Upsampled(c, group) ==
    IF Fullsize(c) THEN <<group * rowgroup_height(c)>>
    ELSE [i \in 1..max_v_samp_factor |->
            buffer'[c][group * rowgroup_height(c) + (i - 1) \div v_expand(c)]]

Lesser(a, b) == IF a < b THEN a ELSE b

\* The lines that color_convert is given for row i of the conversion buffer.
ColorRow(c, i) == IF Fullsize(c) THEN buffer'[c][color_buf'[c][1] + i] ELSE color_buf'[c][i + 1]

\* Emits lines of the conversion buffer, after filling it if it is empty, and takes the row
\* group for used up when the last of them went out.
Upsample(max_lines) ==
    LET empty == next_row_out >= max_v_samp_factor
        first == IF empty THEN 0 ELSE next_row_out
        num_rows == Lesser(max_v_samp_factor - first,
                           Lesser(image_height - Len(lines), max_lines))
        consumed == first + num_rows >= max_v_samp_factor
        more == rowgroup_ctr + 1 < DCTSize
    IN /\ color_buf' = IF empty THEN [c \in Component |-> Upsampled(c, rowgroup_ctr)]
                       ELSE color_buf
       /\ next_row_out' = first + num_rows
       /\ lines' = lines \o [i \in 1..num_rows |->
                               [c \in Component |-> ColorRow(c, first + i - 1)]]
       /\ rowgroup_ctr' = IF ~consumed THEN rowgroup_ctr
                          ELSE IF more THEN rowgroup_ctr + 1 ELSE 0
       /\ buffer_full' = (~consumed \/ more)

----------------------------------------------------------------------------
(* jpeg_read_scanlines and process_data_simple_main: the source has the tokens up to the end *)
(* of the iMCU row, or fewer. It adds at most MaxPortion at a time, but for the one that      *)
(* fills the row.                                                                             *)

More == Len(lines) < image_height

\* Fewer: no line is returned, and the next call goes on from there.
ReadSuspended(limit) ==
    /\ More /\ ~buffer_full /\ limit <= Len(data)
    /\ \E row \in {RestOfRow(limit)} : ~row.ok /\ Store(row)
    /\ UNCHANGED <<imageVars, outputVars>>

ReadFilling(max_lines) ==
    /\ More /\ ~buffer_full
    /\ \E row \in {RestOfRow(Len(data))} : row.ok /\ Store(row)
    /\ Upsample(max_lines)
    /\ UNCHANGED imageVars

ReadBuffered(max_lines) ==
    /\ More /\ buffer_full
    /\ UNCHANGED <<imageVars, inputVars>>
    /\ Upsample(max_lines)

ScanNext ==
    \/ \E portion \in 0..MaxPortion : ReadSuspended(entropy.at - 1 + portion)
    \/ \E max_lines \in 1..MaxLines : ReadFilling(max_lines) \/ ReadBuffered(max_lines)

ScanSpec == ScanInit /\ [][ScanNext]_scanVars

----------------------------------------------------------------------------
(* Properties *)

\* Line n of a component, upsampled, is in the line n \div v_expand of the component: where
\* the scan has it. A damaged MCU is some MCU there.
InPlace(n, c, m) ==
    LET y == n \div v_expand(c)
        block == y \div DCT_v_scaled_size(c)
        sample == lines[n + 1][c][m]
    IN /\ sample[1] = MCU(PositionOf(c, block, m)) \/ PositionOf(c, block, m) \in damaged
       /\ Tail(sample) = <<block % MCU_height(c), y % DCT_v_scaled_size(c)>>

\* The image is the scan: every line that was returned holds its own samples, in whatever
\* portions the MCUs came in and the lines were asked for. A damaged stream spoils the
\* restart intervals where it is damaged and no other, if no more than two markers are lost
\* or repeated (which jpeg_resync_to_restart promises). And the end of the image is never
\* read over: it is still to be found, or was found and left.
LinesExact ==
    /\ \A n \in DOMAIN lines, c \in Component, m \in Column : InPlace(n - 1, c, m)
    /\ Len(lines) <= image_height
    /\ entropy.at <= Len(data) \/ entropy.unread_marker = EOI
=============================================================================
