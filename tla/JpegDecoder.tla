----------------------------- MODULE JpegDecoder -----------------------------
(***************************************************************************)
(* pixeltobmp of ImageProc.c and the control of libjpeg under it: what is  *)
(* made of one frame after the other, whole or cut off anywhere, and what  *)
(* the bitmap shows afterwards.                                            *)
(*                                                                         *)
(* A file is a sequence of tokens: markers, and "row" for the entropy      *)
(* coded data of one iMCU row, of which RowLines output lines are made.    *)
(* Y stands for the luminance and C for the two colour components. All     *)
(* images are equally wide. The source never delivers more than it had at  *)
(* first (fill_input_buffer returns FALSE), so that a call that needs more *)
(* is suspended.                                                           *)
(***************************************************************************)
EXTENDS Integers, Sequences, FiniteSetsExt

CONSTANTS Files,       \* what a frame may be: [data, components, height]
          RowLines,    \* output lines of an iMCU row
          BmpHeight,   \* height of the bitmap that MjpegView created
          MaxFrames,   \* frames that are decoded
          MaxOutside   \* rows that fit behind rgb before the memory ends

Scans == {"SOS", "SOS Y", "SOS C"}
Tokens == {"SOI", "DQT", "DHT", "SOF", "row", "EOI", "bad", "misc"} \cup Scans

ASSUME JpegDecoderAssumption ==
    /\ {RowLines, BmpHeight} \subseteq Nat \ {0} /\ {MaxFrames, MaxOutside} \subseteq Nat
    /\ \A f \in Files : /\ f.data \in Seq(Tokens)
                        /\ f.components \in {{"Y"}, {"Y", "C"}}
                        /\ f.height \in Nat \ {0}

VARIABLES
    pc,          \* where processimage and pixeltobmp are
    file,        \* the frame that is decoded
    heights,     \* history: the heights of the frames so far
    cinfo,       \* the decompression object
    pools,       \* the memory pools that hold something
    coef,        \* per component and iMCU row: were its coefficients read, and rightly?
    jpegbuffer,  \* the scan line read last
    y,           \* the line of rgb that is written next
    rgb,         \* the image: per line what it holds; <<>> when it is NULL
    IMG_HEIGHT,  \* its height, -1 before the first
    outside,     \* rows written behind rgb since it was allocated
    bmp,         \* the lines of the bitmap
    starved,     \* history: a call was suspended while this frame was decoded
    error        \* history: the error that ended the decoding of this frame

decoderVars == <<pc, file, heights, cinfo, pools, coef, jpegbuffer, y, rgb, IMG_HEIGHT, outside,
          bmp, starved, error>>
imageVars == <<rgb, IMG_HEIGHT, outside>>

\* What a line of an image holds: line `line` of frame `frame`, as it was encoded or not.
Line(f, l, right) == [frame |-> f, line |-> l, right |-> right]
Junk == Line(0, 0, FALSE)

frame == Len(heights)

Rows(f) == (f.height + RowLines - 1) \div RowLines
Components(sos) ==
    CASE sos = "SOS" -> file.components [] sos = "SOS Y" -> {"Y"} [] sos = "SOS C" -> {"C"}

\* jpeg_create_decompress, jpeg_memory_src, reset_input_controller, reset_marker_reader.
Create == [global_state |-> "INHEADER", at |-> 1, saw_SOI |-> FALSE, saw_SOF |-> FALSE,
           inheaders |-> TRUE, has_multiple_scans |-> FALSE, eoi_reached |-> FALSE,
           consume_input |-> "markers", comps |-> {}, quant |-> FALSE, tables |-> "none",
           derived |-> "none", input_row |-> 0, output_row |-> 0, buffer_full |-> FALSE,
           buffer |-> FALSE, line |-> 0, output_scanline |-> 0]

NoFile == [data |-> <<>>, components |-> {"Y", "C"}, height |-> 1]

DecoderInit ==
    /\ pc = "idle" /\ file = NoFile /\ heights = <<>> /\ cinfo = Create /\ pools = {}
    /\ coef = <<>> /\ jpegbuffer = Junk /\ y = 0
    /\ rgb = <<>> /\ IMG_HEIGHT = -1 /\ outside = 0
    /\ bmp = [l \in 1..BmpHeight |-> Junk]
    /\ starved = FALSE /\ error = "none"

----------------------------------------------------------------------------
(* Reading input *)

Result(c, ret) == [c |-> c, ret |-> ret]

\* The marker readers: what they note of a segment.
GetSOI(c) == IF c.saw_SOI THEN Result(c, "SOI_DUPLICATE")
             ELSE Result([c EXCEPT !.saw_SOI = TRUE], "more")
GetSOF(c) == IF c.saw_SOF THEN Result(c, "SOF_DUPLICATE")
             ELSE Result([c EXCEPT !.saw_SOF = TRUE], "more")
GetDQT(c) == Result([c EXCEPT !.quant = TRUE], "more")
GetDHT(c) == Result([c EXCEPT !.tables = "own"], "more")
SkipVariable(c) == Result(c, "more")
GetSOS(c, comps) ==
    IF ~c.saw_SOF THEN Result(c, "SOS_NO_SOF")
    ELSE IF ~(comps \subseteq file.components) THEN Result(c, "BAD_COMPONENT_ID")
    ELSE Result([c EXCEPT !.comps = comps], "SOS")

\* latch_quant_tables and start_pass_huff_decoder: the tables of a scan are those that are
\* there when it starts.
LatchQuantTables(c) == IF c.quant THEN Result(c, "SOS") ELSE Result(c, "NO_QUANT_TABLE")
StartPassHuff(c) == IF c.tables = "none" THEN Result(c, "NO_HUFF_TABLE")
                    ELSE Result([c EXCEPT !.derived = c.tables], "SOS")

\* start_input_pass: the coefficients of a file with several scans are read by
\* consume_data, those of a single one with the output.
StartInputPass(c) ==
    LET quant == LatchQuantTables(c)
        huff == StartPassHuff(c)
    IN IF quant.ret # "SOS" THEN quant
       ELSE IF huff.ret # "SOS" THEN huff
       ELSE Result([huff.c EXCEPT !.input_row = 0,
                        !.consume_input = IF c.has_multiple_scans THEN "data" ELSE "dummy"],
                   "SOS")

InitialSetup(c) ==
    [c EXCEPT !.inheaders = FALSE, !.has_multiple_scans = c.comps # file.components]

\* consume_markers at an SOS and at the EOI.
ReachedSOS(r) ==
    IF r.ret # "SOS" THEN r
    ELSE IF r.c.inheaders THEN Result(InitialSetup(r.c), "SOS")
    ELSE IF r.c.has_multiple_scans THEN StartInputPass(r.c)
    ELSE Result(r.c, "EOI_EXPECTED")
ReachedEOI(c) ==
    Result([c EXCEPT !.eoi_reached = TRUE], IF c.inheaders /\ c.saw_SOF THEN "SOF_NO_SOS" ELSE "EOI")

\* read_markers dispatches on the marker.
Process(c, marker) ==
    CASE marker = "SOI" -> GetSOI(c)
      [] marker = "SOF" -> GetSOF(c)
      [] marker = "DQT" -> GetDQT(c)
      [] marker = "DHT" -> GetDHT(c)
      [] marker = "misc" -> SkipVariable(c)
      [] marker = "bad" -> Result(c, "UNKNOWN_MARKER")
      [] marker = "EOI" -> ReachedEOI(c)
      [] marker \in Scans -> ReachedSOS(GetSOS(c, Components(marker)))

\* consume_markers and read_markers up to the next marker. Entropy coded data is skipped,
\* except in front of the first SOI.
ConsumeMarker(c) ==
    LET ahead == {i \in c.at..Len(file.data) : file.data[i] # "row"}
        d == [c EXCEPT !.at = Min(ahead) + 1]
    IN IF c.eoi_reached THEN Result(c, "EOI")
       ELSE IF ~c.saw_SOI /\ c.at <= Len(file.data) /\ file.data[c.at] # "SOI"
            THEN Result(c, "NO_SOI")
       ELSE IF ahead = {} THEN Result([c EXCEPT !.at = Len(file.data) + 1], "suspended")
       ELSE Process(d, file.data[Min(ahead)])

\* The tables the data of a file is coded with: its own from a DHT on.
CodedWith(i) == IF \E k \in 1..(i - 1) : file.data[k] = "DHT" THEN "own" ELSE "standard"

\* decode_mcu for an iMCU row: a marker in the data ends it, and what is left of the scan
\* is zeroes.
DecodeRow(c) ==
    CASE c.at > Len(file.data) -> [suspended |-> TRUE, right |-> FALSE, at |-> c.at]
      [] c.at <= Len(file.data) ->
            [suspended |-> FALSE,
             right |-> file.data[c.at] = "row" /\ c.derived = CodedWith(c.at),
             at |-> IF file.data[c.at] = "row" THEN c.at + 1 ELSE c.at]

\* finish_input_pass when the last row of the scan is in.
NextInputRow(c) ==
    [c EXCEPT !.input_row = @ + 1,
              !.consume_input = IF c.input_row + 1 = Rows(file) THEN "markers" ELSE @]

----------------------------------------------------------------------------
(* processimage *)

FaultErrorExit(code) ==   \* seeded bug: the object is aborted, not destroyed
    pc' = "return" /\ error' = code /\ pools' = pools \ {"image"}

\* error_exit: the longjmp to the setjmp of processimage.
ErrorExit(code) == pc' = "return" /\ error' = code /\ pools' = {}

\* pixeltobmp is called with a frame.
PixelToBmp ==
    /\ pc = "idle" /\ frame < MaxFrames
    /\ file' \in Files
    /\ heights' = Append(heights, file'.height)
    /\ cinfo' = Create /\ pools' = {"permanent"}
    /\ coef' = [x \in file'.components \X (0..(Rows(file') - 1)) |-> FALSE]
    /\ jpegbuffer' = Junk /\ y' = 0
    /\ starved' = FALSE /\ error' = "none"
    /\ pc' = "header"
    /\ UNCHANGED <<imageVars, bmp>>

\* jpeg_read_header, one marker at a time. Its result is not looked at.
ReadHeader ==
    /\ pc = "header"
    /\ LET r == ConsumeMarker(cinfo)
       IN CASE r.ret = "more" ->
                 /\ cinfo' = r.c
                 /\ pools' = IF r.c.saw_SOF THEN pools \cup {"image"} ELSE pools
                 /\ UNCHANGED <<pc, starved, error>>
            [] r.ret = "SOS" ->
                 /\ cinfo' = [r.c EXCEPT !.global_state = "READY"]
                 /\ pc' = "start"
                 /\ UNCHANGED <<pools, starved, error>>
            [] r.ret = "suspended" ->
                 /\ cinfo' = r.c /\ starved' = TRUE /\ pc' = "start"
                 /\ UNCHANGED <<pools, error>>
            [] r.ret = "EOI" -> cinfo' = r.c /\ ErrorExit("NO_IMAGE") /\ UNCHANGED starved
            [] OTHER -> cinfo' = r.c /\ ErrorExit(r.ret) /\ UNCHANGED starved
    /\ UNCHANGED <<file, heights, coef, jpegbuffer, y, imageVars, bmp>>

FaultLoadDht(c) == c   \* seeded bug: the standard tables are not loaded

\* my_jpeg_load_dht: the standard tables, over those of the file.
LoadDht(c) == [c EXCEPT !.tables = "standard"]

\* jinit_master_decompress: the modules of the pipeline are chosen and the first scan is
\* started. The colour space was set to YCbCr, which a grey image does not have.
MasterSelection(c) ==
    IF file.components # {"Y", "C"} THEN Result(c, "BAD_J_COLORSPACE") ELSE StartInputPass(c)

\* jpeg_start_decompress up to the scans.
StartDecompress ==
    /\ pc = "start"
    /\ LET r == MasterSelection(LoadDht(cinfo))
       IN IF cinfo.global_state # "READY" THEN ErrorExit("BAD_STATE") /\ UNCHANGED cinfo
          ELSE IF r.ret # "SOS" THEN ErrorExit(r.ret) /\ UNCHANGED cinfo
          ELSE /\ cinfo' = [r.c EXCEPT !.global_state = "PRELOAD"]
               /\ pc' = IF cinfo.has_multiple_scans THEN "absorb" ELSE "output"
               /\ UNCHANGED <<pools, error>>
    /\ UNCHANGED <<file, heights, coef, jpegbuffer, y, imageVars, bmp, starved>>

\* The scans of a file with several are read into the coefficient arrays, a marker or an
\* iMCU row at a time. A suspension leaves the state at PRELOAD, which is not looked at.
Absorb ==
    /\ pc = "absorb"
    /\ LET r == ConsumeMarker(cinfo)
           row == DecodeRow(cinfo)
           suspended == IF cinfo.consume_input = "data" THEN row.suspended ELSE r.ret = "suspended"
       IN CASE suspended ->
                 /\ starved' = TRUE /\ pc' = "buffers"
                 /\ UNCHANGED <<cinfo, coef, pools, error>>
            [] ~suspended /\ cinfo.consume_input = "data" ->
                 /\ coef' = [x \in DOMAIN coef |->
                        IF x[1] \in cinfo.comps /\ x[2] = cinfo.input_row THEN row.right ELSE coef[x]]
                 /\ cinfo' = [NextInputRow(cinfo) EXCEPT !.at = row.at]
                 /\ UNCHANGED <<pc, pools, starved, error>>
            [] ~suspended /\ cinfo.consume_input = "markers" ->
                 /\ cinfo' = r.c
                 /\ IF r.ret \in {"more", "SOS", "EOI"}
                    THEN /\ pc' = IF r.ret = "EOI" THEN "output" ELSE pc
                         /\ UNCHANGED <<pools, error>>
                    ELSE ErrorExit(r.ret)
                 /\ UNCHANGED <<coef, starved>>
    /\ UNCHANGED <<file, heights, jpegbuffer, y, imageVars, bmp>>

\* output_pass_setup: no pass is a dummy.
OutputPassSetup ==
    /\ pc = "output"
    /\ cinfo' = [cinfo EXCEPT !.global_state = "SCANNING", !.output_row = 0,
                              !.output_scanline = 0]
    /\ pc' = "buffers"
    /\ UNCHANGED <<file, heights, pools, coef, jpegbuffer, y, imageVars, bmp, starved, error>>

\* rgb is allocated for the first image and never again before it is freed.
AllocBuffers ==
    /\ pc = "buffers"
    /\ IF rgb = <<>>
       THEN /\ IMG_HEIGHT' = file.height /\ outside' = 0
            /\ rgb' = [l \in 1..file.height |-> Junk]
       ELSE UNCHANGED imageVars
    /\ pc' = "rows"
    /\ UNCHANGED <<file, heights, cinfo, pools, coef, jpegbuffer, y, bmp, starved, error>>

\* An iMCU row for the main buffer: decompress_onepass takes it from the input, which may
\* suspend, decompress_data from the coefficient arrays.
Onepass(c) ==
    LET row == DecodeRow(c)
    IN IF row.suspended THEN Result(c, "suspended")
       ELSE Result([NextInputRow(c) EXCEPT !.at = row.at, !.buffer = row.right,
                                           !.output_row = @ + 1], "row")
DecompressData(c) ==
    Result([c EXCEPT !.buffer = \A comp \in file.components : coef[<<comp, c.output_row>>],
                     !.output_row = @ + 1], "row")

\* process_data_simple_main for one line: the buffer is filled when it is empty.
ProcessData(c) ==
    LET r == IF c.buffer_full THEN Result(c, "row")
             ELSE IF c.has_multiple_scans THEN DecompressData(c) ELSE Onepass(c)
    IN IF r.ret = "suspended" THEN r
       ELSE Result([r.c EXCEPT !.buffer_full = c.line + 1 < RowLines,
                               !.line = (c.line + 1) % RowLines,
                               !.output_scanline = @ + 1], "row")

FaultOutput(line) ==   \* seeded bug: the first line of rgb is skipped
    IF y + 1 < IMG_HEIGHT
    THEN rgb' = [rgb EXCEPT ![y + 2] = line] /\ UNCHANGED <<pc, IMG_HEIGHT, outside>>
    ELSE UNCHANGED <<pc, imageVars>>

\* The line is copied into rgb. Behind its end other memory is overwritten, which may end
\* the process at once, and does when the memory ends.
Output(line) ==
    IF y < IMG_HEIGHT
    THEN rgb' = [rgb EXCEPT ![y + 1] = line] /\ UNCHANGED <<pc, IMG_HEIGHT, outside>>
    ELSE \/ pc' = "crashed" /\ UNCHANGED imageVars
         \/ /\ outside < MaxOutside
            /\ outside' = outside + 1 /\ UNCHANGED <<pc, rgb, IMG_HEIGHT>>

\* An iteration of the loop over the scan lines: what jpeg_read_scanlines returns is not
\* looked at, and the line that was read before is copied again after a suspension.
ReadScanline ==
    /\ pc = "rows" /\ cinfo.output_scanline < file.height
    /\ IF cinfo.global_state # "SCANNING"
       THEN ErrorExit("BAD_STATE") /\ UNCHANGED <<cinfo, jpegbuffer, y, imageVars, starved>>
       ELSE LET r == ProcessData(cinfo)
                c == r.c
                line == IF r.ret = "row" THEN Line(frame, c.output_scanline, c.buffer)
                        ELSE jpegbuffer
            IN /\ cinfo' = c
               /\ jpegbuffer' = line
               /\ starved' = (starved \/ r.ret = "suspended")
               /\ y' = IF y < IMG_HEIGHT THEN y + 1 ELSE y
               /\ Output(line)
               /\ UNCHANGED <<pools, error>>
    /\ UNCHANGED <<file, heights, coef, bmp>>

FaultFinishDecompress ==   \* seeded bug: finishing is tried again when it was suspended
    /\ pc = "rows" /\ cinfo.output_scanline >= file.height
    /\ LET r == ConsumeMarker(cinfo)
       IN IF r.ret \in {"more", "SOS", "suspended"}
          THEN cinfo' = r.c /\ UNCHANGED <<pc, pools, error>>
          ELSE IF r.ret = "EOI"
          THEN cinfo' = r.c /\ pc' = "return" /\ pools' = {} /\ UNCHANGED error
          ELSE cinfo' = r.c /\ ErrorExit(r.ret)
    /\ UNCHANGED <<file, heights, coef, jpegbuffer, y, imageVars, bmp, starved>>

\* jpeg_finish_decompress reads up to the end of the image, a marker at a time, and the
\* object is destroyed.
FinishDecompress ==
    /\ pc = "rows" /\ cinfo.output_scanline >= file.height
    /\ LET r == ConsumeMarker(cinfo)
       IN IF r.ret \in {"more", "SOS"} THEN cinfo' = r.c /\ UNCHANGED <<pc, pools, starved, error>>
          ELSE /\ cinfo' = r.c
               /\ starved' = (starved \/ r.ret = "suspended")
               /\ IF r.ret \in {"suspended", "EOI"}
                  THEN pc' = "return" /\ pools' = {} /\ UNCHANGED error
                  ELSE ErrorExit(r.ret)
    /\ UNCHANGED <<file, heights, coef, jpegbuffer, y, imageVars, bmp>>

----------------------------------------------------------------------------
(* pixeltobmp *)

\* rgb is copied into the bitmap, whatever became of the frame. The size is compared with
\* that of the last image for which rgb was allocated. -1 ends the render thread.
CopyPixels ==
    /\ pc = "return"
    /\ \/ BmpHeight # IMG_HEIGHT /\ pc' = "stopped" /\ UNCHANGED bmp
       \/ BmpHeight = IMG_HEIGHT /\ rgb = <<>> /\ pc' = "crashed" /\ UNCHANGED bmp
       \/ BmpHeight = IMG_HEIGHT /\ rgb # <<>> /\ pc' = "idle" /\ bmp' = rgb
    /\ UNCHANGED <<file, heights, cinfo, pools, coef, jpegbuffer, y, imageVars, starved, error>>

\* freeCameraMemory, between two streams; the next one has a bitmap of its own.
FreeCameraMemory ==
    /\ pc \in {"idle", "stopped"} /\ frame < MaxFrames
    /\ rgb' = <<>> /\ outside' = 0
    /\ bmp' = [l \in 1..BmpHeight |-> Junk]
    /\ pc' = "idle"
    /\ UNCHANGED <<file, heights, cinfo, pools, coef, jpegbuffer, y, IMG_HEIGHT, starved, error>>

Decode == ReadHeader \/ StartDecompress \/ Absorb \/ OutputPassSetup \/ AllocBuffers
          \/ ReadScanline \/ FinishDecompress \/ CopyPixels

DecoderNext == PixelToBmp \/ Decode \/ FreeCameraMemory

DecoderSpec == DecoderInit /\ [][DecoderNext]_decoderVars

----------------------------------------------------------------------------
(* Properties *)

\* A frame that is complete: from SOI to EOI, with a frame header and quantization tables
\* before the scans; the scans are of all components, have all their data and are coded with
\* the standard tables, or with tables that come after the first scan.
Positions(token) == {i \in DOMAIN file.data : file.data[i] = token}
ScanStarts == UNION {Positions(sos) : sos \in Scans}
Before(i, positions) == \A k \in positions : i < k
Complete ==
    /\ file.components = {"Y", "C"}
    /\ UNION {Components(file.data[i]) : i \in ScanStarts} = file.components
    /\ \A i \in ScanStarts : \A k \in 1..Rows(file) :
          i + k < Len(file.data) /\ file.data[i + k] = "row"
    /\ Positions("SOI") = {1} /\ Positions("EOI") = {Len(file.data)} /\ Positions("bad") = {}
    /\ \E i \in Positions("SOF") : Positions("SOF") = {i} /\ Before(i, ScanStarts)
    /\ \E i \in Positions("DQT") : Before(i, ScanStarts)
    /\ \A i \in Positions("DHT") : \E k \in ScanStarts : k < i

\* The bitmap shows exactly the frame that was decoded last, if that is complete.
FrameShown ==
    pc = "idle" /\ frame > 0 /\ rgb # <<>> /\ Complete /\ file.height = BmpHeight =>
        bmp = [l \in 1..BmpHeight |-> Line(frame, l, TRUE)]

\* However frames are cut off, the bitmap never shows lines of two of them: it keeps the
\* last one that was decoded, except that one that is smaller leaves what was below it.
NoMixedFrame ==
    /\ \A l \in 1..BmpHeight : bmp[l] # Junk => bmp[l].line = l
    /\ \A l \in 1..(BmpHeight - 1) : bmp[l].frame # bmp[l + 1].frame =>
          bmp[l] # Junk /\ heights[bmp[l].frame] = l

\* libjpeg's state machine is used wrongly only after a suspension that processimage did
\* not look at. The process ends only when the data ran out inside a single scan, a frame
\* is taller than the image, or a stream begins with a frame that cannot be decoded, after
\* rgb was freed. Between two frames no memory of libjpeg is left.
FailuresExplained ==
    /\ error = "BAD_STATE" => starved
    /\ pc = "crashed" =>
          \/ starved /\ cinfo.global_state = "SCANNING" /\ ~cinfo.has_multiple_scans
          \/ file.height > IMG_HEIGHT
          \/ rgb = <<>> /\ error # "none"
    /\ pc \in {"return", "idle", "stopped"} => pools = {}

\* Every call ends, even if with the process.
DecodeReturns == (pc = "header") ~> (pc \in {"idle", "stopped", "crashed"})
=============================================================================
