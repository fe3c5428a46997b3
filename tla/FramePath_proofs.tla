-------------------------- MODULE FramePath_proofs --------------------------
(***************************************************************************)
(* First the decoder of FramePath for frames that are any sequences of     *)
(* tokens, of any height, and for any number of them: what the bitmap      *)
(* shows, and what an error or the end of the process is for.              *)
(*                                                                         *)
(* Its invariant has four parts: types; Mixing, which frames the lines     *)
(* of rgb and of the bitmap are of; Failing, what a suspension left behind *)
(* that shows up later as an error; Showing, how far a complete frame was  *)
(* decoded. The first three hold for every frame; only Showing looks at    *)
(* where the tokens of the frame are. After the definitions come lemmas    *)
(* about reading markers, then for each part the steps that keep it.       *)
(*                                                                         *)
(* Then the reader of FramePath for streams of any parts, wherever they    *)
(* are cut off: where the parts of a stream lie, what a search for a       *)
(* marker finds there, and that every frame is returned. The last section  *)
(* is about the virtual arrays behind the decoder.                         *)
(***************************************************************************)
EXTENDS FramePath, JpegVirtualArray, WellFoundedInduction, TLAPS

-----------------------------------------------------------------------------
(* Types *)

CInfo == [global_state : {"INHEADER", "READY", "PRELOAD", "SCANNING"}, at : Nat \ {0},
          saw_SOI : BOOLEAN, saw_SOF : BOOLEAN, inheaders : BOOLEAN,
          has_multiple_scans : BOOLEAN, eoi_reached : BOOLEAN,
          consume_input : {"markers", "data", "dummy"}, comps : SUBSET {"Y", "C"},
          quant : BOOLEAN, tables : {"none", "standard", "own"},
          derived : {"none", "standard", "own"}, input_row : Nat, output_row : Nat,
          buffer_full : BOOLEAN, buffer : BOOLEAN, line : 0..(RowLines - 1),
          output_scanline : Nat]

Lines == [frame : Nat, line : Nat, right : BOOLEAN]

\* A frame is being decoded.
Active == {"header", "start", "absorb", "output", "buffers", "rows", "return"}

DecoderTypes ==
    /\ pc \in Active \cup {"idle", "stopped", "crashed"}
    /\ file \in Files \cup {NoFile}
    /\ heights \in Seq(Nat \ {0})
    /\ pc \in Active => frame > 0 /\ heights[frame] = file.height
    /\ cinfo \in CInfo
    /\ pc \in Active => coef \in [file.components \X (0..(Rows(file) - 1)) -> BOOLEAN]
    /\ pools \subseteq {"permanent", "image"}
    /\ jpegbuffer \in Lines
    /\ y \in Nat
    /\ IMG_HEIGHT \in Nat \cup {-1}
    /\ rgb = <<>> \/ (IMG_HEIGHT > 0 /\ rgb \in [1..IMG_HEIGHT -> Lines])
    /\ pc = "rows" => rgb # <<>>
    /\ outside \in Nat
    /\ bmp \in [1..BmpHeight -> Lines]
    /\ starved \in BOOLEAN
    /\ cinfo.output_scanline <= file.height
    /\ pc = "header" => cinfo.global_state = "INHEADER"
    /\ pc = "start" /\ cinfo.global_state = "READY" => ~cinfo.inheaders
    /\ pc = "absorb" => /\ cinfo.has_multiple_scans /\ ~cinfo.inheaders
                        /\ cinfo.consume_input \in {"data", "markers"}

-----------------------------------------------------------------------------
(* Which frames the lines are of *)

\* The scan line that is asked for will never come: the data of the only scan ran out.
Stuck ==
    /\ cinfo.global_state = "SCANNING" /\ ~cinfo.has_multiple_scans /\ ~cinfo.buffer_full
    /\ cinfo.at > Len(file.data) /\ cinfo.output_scanline < file.height
    /\ starved

\* An image of lines that are in place; where one frame ends and another begins, the upper
\* one is not taller. At the seam an image is being written.
Joined(hs, image, seam) ==
    \A l \in DOMAIN image :
        /\ image[l] # Junk => image[l].line = l /\ image[l].frame \in 1..Len(hs)
        /\ l + 1 \in DOMAIN image /\ l # seam /\ image[l].frame # image[l + 1].frame =>
              image[l] # Junk /\ hs[image[l].frame] = l

Written == \A l \in 1..y : rgb[l] # Junk /\ rgb[l].frame = frame

Mixing ==
    /\ Joined(heights, bmp, 0)
    /\ pc \notin {"rows", "crashed"} => Joined(heights, rgb, 0)
    /\ pc \in Active \ {"rows", "return"} => y = 0
    /\ pc \in Active \ {"rows", "return"} => cinfo.output_scanline = 0
    /\ pc = "rows" /\ cinfo.global_state # "SCANNING" => cinfo.output_scanline = 0
    /\ pc = "rows" /\ ~Stuck =>
          /\ Joined(heights, rgb, y) /\ Written
          /\ y = IF cinfo.output_scanline < IMG_HEIGHT THEN cinfo.output_scanline
                 ELSE IMG_HEIGHT

-----------------------------------------------------------------------------
(* What went wrong *)

Failing ==
    /\ FailuresExplained
    /\ pc = "start" /\ cinfo.global_state # "READY" => starved
    /\ pc \in {"buffers", "rows"} /\ cinfo.global_state # "SCANNING" => starved
    /\ pc = "return" /\ rgb = <<>> => error # "none"
    /\ pc \in Active \ {"return"} => error = "none"

-----------------------------------------------------------------------------
(* How far a complete frame was decoded *)

First == Min(ScanStarts)

\* Nothing was output yet.
Fresh(c) == c.output_row = 0 /\ c.output_scanline = 0 /\ ~c.buffer_full /\ c.line = 0

\* Of the header, what is before the marker that is read next was noted.
InHeader(c) ==
    /\ c.at \in 1..First /\ c.inheaders /\ ~c.eoi_reached /\ Fresh(c)
    /\ c.saw_SOI <=> c.at > 1
    /\ c.saw_SOF <=> \E i \in Positions("SOF") : i < c.at
    /\ (\E i \in Positions("DQT") : i < c.at) => c.quant

HeaderRead(c) ==
    ~c.inheaders /\ ~c.eoi_reached /\ Fresh(c) /\ c.saw_SOI /\ c.saw_SOF /\ c.quant

AtFirstScan(c) ==
    /\ HeaderRead(c) /\ c.global_state = "READY" /\ c.at = First + 1
    /\ c.comps = Components(file.data[First])
    /\ c.has_multiple_scans <=> c.comps # file.components

\* The coefficients of the first rows of the components are there, and right.
RowsRead(co, comps, n) == \A comp \in comps : \A r \in 0..(n - 1) : co[<<comp, r>>]

\* Those of the scans that start before a position.
ScansRead(co, at) ==
    \A s \in ScanStarts : s < at => RowsRead(co, Components(file.data[s]), Rows(file))

\* In the scan that starts at s; those before it were read.
InScan(c, co, s) ==
    /\ c.input_row < Rows(file) /\ c.at = s + 1 + c.input_row
    /\ c.comps = Components(file.data[s])
    /\ c.derived = CodedWith(s)
    /\ ScansRead(co, s) /\ RowsRead(co, c.comps, c.input_row)

\* All tables before the position were noted.
Absorbing(c, co) ==
    /\ HeaderRead(c) /\ c.has_multiple_scans
    /\ First < c.at /\ c.at <= Len(file.data)
    /\ c.tables = CodedWith(c.at)
    /\ \/ c.consume_input = "data" /\ \E s \in ScanStarts : InScan(c, co, s)
       \/ c.consume_input = "markers" /\ ScansRead(co, c.at)

\* With several scans the coefficients are there; the data of a single one come next.
RowsComing(c, co) ==
    IF c.has_multiple_scans THEN RowsRead(co, file.components, Rows(file))
    ELSE c.at = First + 1 + c.output_row /\ c.derived = "standard"

\* So many lines were made of the iMCU rows so far; the lines of the last one are right.
LinesMade(c) ==
    /\ c.buffer_full => c.line > 0 /\ c.buffer
    /\ ~c.buffer_full => c.line = 0
    /\ c.output_scanline + (IF c.buffer_full THEN RowLines ELSE 0) = c.output_row * RowLines + c.line

LinesRight == \A l \in 1..y : rgb[l] = Line(frame, l, TRUE)

Decoding(c, co) ==
    /\ pc \in Active \ {"return"} => ~starved
    /\ pc = "header" => InHeader(c)
    /\ pc = "start" => AtFirstScan(c)
    /\ pc = "absorb" => Absorbing(c, co)
    /\ pc = "output" => Fresh(c) /\ RowsComing(c, co)
    /\ pc = "buffers" => Fresh(c) /\ RowsComing(c, co) /\ c.global_state = "SCANNING"
    /\ pc = "rows" =>
          /\ c.global_state = "SCANNING" /\ LinesRight
          /\ c.output_scanline < file.height => RowsComing(c, co) /\ LinesMade(c)
    /\ pc = "return" => LinesRight /\ y = IF file.height < IMG_HEIGHT THEN file.height ELSE IMG_HEIGHT

Showing == FrameShown /\ (Complete => Decoding(cinfo, coef))

DInv == DecoderTypes /\ Mixing /\ Failing /\ Showing

-----------------------------------------------------------------------------
(* Numbers and tokens *)

\* The least number of a set that is not empty is in it.
LEMMA MinExists ==
  ASSUME NEW S \in SUBSET Nat, S # {}
  PROVE  Min(S) \in S /\ \A k \in S : Min(S) <= k
<1> DEFINE R == {ss \in Nat \X Nat : ss[1] < ss[2]}
<1>1. IsWellFoundedOn(R, Nat)
  BY NatLessThanWellFounded DEF OpToRel
<1>2. \A a, b \in Nat : <<a, b>> \in R <=> a < b
  OBVIOUS
<1> HIDE DEF R
<1>3. PICK x \in S : \A z \in S : ~(<<z, x>> \in R)
  BY <1>1, WFMin
<1>4. ASSUME NEW z \in S PROVE x <= z
  <2>1. x \in Nat /\ z \in Nat
    OBVIOUS
  <2>2. ~(z < x)
    BY <1>2, <1>3, <2>1
  <2> QED
    BY <2>1, <2>2
<1> QED
  BY <1>4 DEF Min

\* The frames that may be decoded, and the file that is there before the first.
LEMMA FileTypes ==
  ASSUME NEW f \in Files \cup {NoFile}
  PROVE  /\ f.data \in Seq(Tokens)
         /\ f.components \in {{"Y"}, {"Y", "C"}}
         /\ f.height \in Nat \ {0}
<1>1. CASE f \in Files
  BY <1>1, JpegDecoderAssumption
<1>2. CASE f = NoFile
  <2>1. <<>> \in Seq(Tokens)
    OBVIOUS
  <2> QED
    BY <1>2, <2>1 DEF NoFile
<1> QED
  BY <1>1, <1>2

\* An image of a positive height has an iMCU row; a line of it is in one of its iMCU rows,
\* and the iMCU rows have all of its lines.
LEMMA RowsEnough ==
  ASSUME NEW h \in Nat \ {0}
  PROVE  LET n == (h + RowLines - 1) \div RowLines
         IN /\ n \in Nat \ {0}
            /\ h <= n * RowLines
            /\ \A r \in Nat : r * RowLines < h => r < n
<1> USE JpegDecoderAssumption
<1> DEFINE d == h + RowLines - 1
           n == d \div RowLines
<1>1. d \in Nat /\ RowLines \in Nat /\ RowLines > 0
  OBVIOUS
<1>2. n \in Int /\ n * RowLines <= d /\ d < n * RowLines + RowLines
  BY <1>1, Z3
<1> HIDE DEF n
<1>3. h <= n * RowLines
  BY <1>1, <1>2
<1>4. n > 0
  BY <1>1, <1>2, <1>3, Z3
<1>5. ASSUME NEW r \in Nat, r * RowLines < h, r >= n PROVE FALSE
  <2>1. r * RowLines >= n * RowLines
    BY <1>1, <1>2, <1>5, Z3
  <2> QED
    BY <2>1, <1>1, <1>2, <1>3, <1>5, Z3
<1> QED
  BY <1>2, <1>3, <1>4, <1>5 DEF n

-----------------------------------------------------------------------------
(* Reading markers *)

Codes == {"more", "SOS", "EOI", "suspended", "SOI_DUPLICATE", "SOF_DUPLICATE", "SOS_NO_SOF",
          "BAD_COMPONENT_ID", "NO_QUANT_TABLE", "NO_HUFF_TABLE", "EOI_EXPECTED", "SOF_NO_SOS",
          "UNKNOWN_MARKER", "NO_SOI"}

\* Reading input leaves alone what the output is at.
SameOutput(c, d) ==
    /\ d.global_state = c.global_state /\ d.output_row = c.output_row
    /\ d.output_scanline = c.output_scanline /\ d.line = c.line
    /\ d.buffer_full = c.buffer_full /\ d.buffer = c.buffer

\* Once the first scan was seen it stays known whether it is the only one.
SameScans(c, d) ==
    /\ ~d.inheaders
    /\ d.has_multiple_scans = c.has_multiple_scans
    /\ d.has_multiple_scans => d.consume_input \in {c.consume_input, "data"}

Reading(c, r) ==
    /\ r.c \in CInfo /\ r.ret \in Codes /\ SameOutput(c, r.c)
    /\ ~c.inheaders => SameScans(c, r.c)
ScanFound(r) == r.ret = "SOS" => ~r.c.inheaders

LEMMA StartInputPassReads ==
  ASSUME NEW c \in CInfo
  PROVE  /\ Reading(c, StartInputPass(c))
         /\ StartInputPass(c).ret = "SOS" =>
               /\ StartInputPass(c).c.input_row = 0
               /\ StartInputPass(c).c.consume_input =
                     IF c.has_multiple_scans THEN "data" ELSE "dummy"
<1> DEFINE quant == LatchQuantTables(c)
           huff == StartPassHuff(c)
           started == [huff.c EXCEPT !.input_row = 0,
                           !.consume_input = IF c.has_multiple_scans THEN "data" ELSE "dummy"]
<1>1. Reading(c, quant)
  BY DEF Reading, SameOutput, SameScans, LatchQuantTables, Result, CInfo, Codes
<1>2. Reading(c, huff)
  BY DEF Reading, SameOutput, SameScans, StartPassHuff, Result, CInfo, Codes
<1>3. Reading(c, Result(started, "SOS"))
  <2> HIDE DEF huff
  <2> QED
    BY <1>2, ZenonT(30) DEF Reading, SameOutput, SameScans, Result, CInfo, Codes
<1>4. started.input_row = 0 /\ started.consume_input = IF c.has_multiple_scans THEN "data" ELSE "dummy"
  <2> HIDE DEF huff
  <2> QED
    BY <1>2 DEF Reading, CInfo
<1>5. \/ StartInputPass(c) = quant /\ quant.ret # "SOS"
      \/ StartInputPass(c) = huff /\ huff.ret # "SOS"
      \/ StartInputPass(c) = Result(started, "SOS")
  BY DEF StartInputPass
<1> HIDE DEF quant, huff, started
<1> QED
  BY <1>1, <1>2, <1>3, <1>4, <1>5 DEF Result

LEMMA ReachedSOSReads ==
  ASSUME NEW c \in CInfo, NEW comps \in SUBSET {"Y", "C"}
  PROVE  Reading(c, ReachedSOS(GetSOS(c, comps))) /\ ScanFound(ReachedSOS(GetSOS(c, comps)))
<1> DEFINE r == GetSOS(c, comps)
<1>1. Reading(c, r)
  BY DEF Reading, SameOutput, SameScans, GetSOS, Result, CInfo, Codes
<1> SUFFICES Reading(c, ReachedSOS(r)) /\ ScanFound(ReachedSOS(r))
  OBVIOUS
<1> HIDE DEF r
<1>2. CASE r.ret # "SOS"
  BY <1>1, <1>2 DEF ReachedSOS, ScanFound
<1>3. CASE r.ret = "SOS" /\ r.c.inheaders
  <2>1. ReachedSOS(r) = Result(InitialSetup(r.c), "SOS")
    BY <1>3 DEF ReachedSOS
  <2>2. InitialSetup(r.c) \in CInfo /\ SameOutput(r.c, InitialSetup(r.c)) /\ ~InitialSetup(r.c).inheaders
    BY <1>1, ZenonT(30) DEF Reading, SameOutput, InitialSetup, CInfo
  <2> QED
    BY <1>1, <1>3, <2>1, <2>2 DEF Reading, ScanFound, SameOutput, SameScans, Result, Codes
<1>4. CASE r.ret = "SOS" /\ ~r.c.inheaders
  <2>1. Reading(r.c, StartInputPass(r.c)) /\ Reading(r.c, Result(r.c, "EOI_EXPECTED"))
    BY <1>1, StartInputPassReads DEF Reading, SameOutput, SameScans, Result, Codes
  <2>2. ReachedSOS(r) \in {StartInputPass(r.c), Result(r.c, "EOI_EXPECTED")}
    BY <1>4 DEF ReachedSOS
  <2>3. Reading(r.c, ReachedSOS(r))
    BY <2>1, <2>2
  <2> QED
    BY <1>1, <1>4, <2>3 DEF Reading, ScanFound, SameOutput, SameScans
<1> QED
  BY <1>1, <1>2, <1>3, <1>4

LEMMA ProcessReads ==
  ASSUME NEW c \in CInfo, NEW marker \in Tokens \ {"row"}, file \in Files \cup {NoFile}
  PROVE  Reading(c, Process(c, marker)) /\ ScanFound(Process(c, marker))
<1>1. CASE marker = "SOI"
  <2>1. Process(c, marker) = GetSOI(c)
    BY <1>1 DEF Process, Scans
  <2>2. Reading(c, Result(c, "SOI_DUPLICATE"))
    BY DEF Reading, SameOutput, SameScans, Result, Codes
  <2>3. Reading(c, Result([c EXCEPT !.saw_SOI = TRUE], "more"))
    BY DEF Reading, SameOutput, SameScans, Result, CInfo, Codes
  <2> QED
    BY <2>1, <2>2, <2>3 DEF GetSOI, Result, ScanFound
<1>2. CASE marker = "SOF"
  <2>1. Process(c, marker) = GetSOF(c)
    BY <1>2 DEF Process, Scans
  <2>2. Reading(c, Result(c, "SOF_DUPLICATE"))
    BY DEF Reading, SameOutput, SameScans, Result, Codes
  <2>3. Reading(c, Result([c EXCEPT !.saw_SOF = TRUE], "more"))
    BY DEF Reading, SameOutput, SameScans, Result, CInfo, Codes
  <2> QED
    BY <2>1, <2>2, <2>3 DEF GetSOF, Result, ScanFound
<1>3. CASE marker = "DQT"
  <2>1. Process(c, marker) = GetDQT(c)
    BY <1>3 DEF Process, Scans
  <2>2. Reading(c, GetDQT(c))
    BY DEF GetDQT, Reading, SameOutput, SameScans, Result, CInfo, Codes
  <2> QED
    BY <2>1, <2>2 DEF Result, ScanFound, GetDQT
<1>4. CASE marker = "DHT"
  <2>1. Process(c, marker) = GetDHT(c)
    BY <1>4 DEF Process, Scans
  <2>2. Reading(c, GetDHT(c))
    BY DEF GetDHT, Reading, SameOutput, SameScans, Result, CInfo, Codes
  <2> QED
    BY <2>1, <2>2 DEF Result, ScanFound, GetDHT
<1>5. CASE marker = "misc"
  <2>1. Process(c, marker) = SkipVariable(c)
    BY <1>5 DEF Process, Scans
  <2>2. Reading(c, SkipVariable(c))
    BY DEF SkipVariable, Reading, SameOutput, SameScans, Result, CInfo, Codes
  <2> QED
    BY <2>1, <2>2 DEF Result, ScanFound, SkipVariable
<1>6. CASE marker = "bad"
  <2>1. Process(c, marker) = Result(c, "UNKNOWN_MARKER")
    BY <1>6 DEF Process, Scans
  <2>2. Reading(c, Result(c, "UNKNOWN_MARKER"))
    BY DEF Reading, SameOutput, SameScans, Result, CInfo, Codes
  <2> QED
    BY <2>1, <2>2 DEF Result, ScanFound
<1>7. CASE marker = "EOI"
  <2>1. Process(c, marker) = ReachedEOI(c)
    BY <1>7 DEF Process, Scans
  <2>2. Reading(c, ReachedEOI(c))
    BY DEF ReachedEOI, Reading, SameOutput, SameScans, Result, CInfo, Codes
  <2> QED
    BY <2>1, <2>2 DEF Result, ScanFound, ReachedEOI
<1>8. CASE marker \in Scans
  <2>1. Components(marker) \in SUBSET {"Y", "C"}
    BY <1>8, FileTypes DEF Components, Scans
  <2>2. Process(c, marker) = ReachedSOS(GetSOS(c, Components(marker)))
    BY <1>8 DEF Process, Scans
  <2> QED
    BY <2>1, <2>2, ReachedSOSReads
<1> QED
  BY <1>1, <1>2, <1>3, <1>4, <1>5, <1>6, <1>7, <1>8 DEF Tokens

\* What is ahead: the next marker is the first of the tokens there that is not data.
LEMMA NextMarker ==
  ASSUME NEW c \in CInfo, file \in Files \cup {NoFile},
         NEW ahead, ahead = {k \in c.at..Len(file.data) : file.data[k] # "row"},
         NEW i \in ahead
  PROVE  /\ Min(ahead) \in c.at..i /\ Min(ahead) \in DOMAIN file.data
         /\ file.data[Min(ahead)] \in Tokens \ {"row"}
         /\ \A k \in c.at..(Min(ahead) - 1) : file.data[k] = "row"
<1> DEFINE m == Min(ahead)
<1>1. file.data \in Seq(Tokens) /\ c.at \in Nat \ {0}
  BY FileTypes DEF CInfo
<1>2. ahead \in SUBSET Nat /\ i \in ahead
  BY <1>1
<1>3. m \in ahead /\ \A k \in ahead : m <= k
  BY <1>2, MinExists
<1> HIDE DEF m
<1>4. m \in c.at..Len(file.data) /\ file.data[m] # "row" /\ m <= i
  BY <1>2, <1>3
<1>5. m \in DOMAIN file.data /\ file.data[m] \in Tokens
  BY <1>1, <1>4
<1>6. \A k \in c.at..(m - 1) : k \in c.at..Len(file.data) /\ ~(m <= k)
  BY <1>1, <1>4
<1>7. \A k \in c.at..(m - 1) : file.data[k] = "row"
  BY <1>3, <1>6
<1>8. i \in Int
  BY <1>1
<1>9. m \in c.at..i
  BY <1>1, <1>4, <1>8
<1> QED
  BY <1>4, <1>5, <1>7, <1>9 DEF m

LEMMA ConsumeMarkerReads ==
  ASSUME NEW c \in CInfo, file \in Files \cup {NoFile}
  PROVE  Reading(c, ConsumeMarker(c)) /\ ScanFound(ConsumeMarker(c))
<1> DEFINE ahead == {k \in c.at..Len(file.data) : file.data[k] # "row"}
           d == [c EXCEPT !.at = Min(ahead) + 1]
<1>1. file.data \in Seq(Tokens) /\ c.at \in Nat \ {0}
  BY FileTypes DEF CInfo
<1>2. CASE ahead # {}
  <2>1. Min(ahead) \in Nat /\ file.data[Min(ahead)] \in Tokens \ {"row"}
    <3>1. PICK i \in ahead : TRUE
      BY <1>2
    <3>2. ahead = {k \in c.at..Len(file.data) : file.data[k] # "row"}
      OBVIOUS
    <3> HIDE DEF ahead
    <3>3. Min(ahead) \in DOMAIN file.data /\ file.data[Min(ahead)] \in Tokens \ {"row"}
      BY <3>1, <3>2, NextMarker
    <3> QED
      BY <1>1, <3>3
  <2>2. d \in CInfo /\ SameOutput(c, d) /\ (~c.inheaders => SameScans(c, d)) /\ d.inheaders = c.inheaders
    BY <2>1 DEF CInfo, SameOutput, SameScans
  <2>3. Reading(d, Process(d, file.data[Min(ahead)])) /\ ScanFound(Process(d, file.data[Min(ahead)]))
    BY <2>1, <2>2, ProcessReads
  <2>4. Reading(c, Process(d, file.data[Min(ahead)]))
    BY <2>2, <2>3 DEF Reading, SameOutput, SameScans
  <2> QED
    BY <2>3, <2>4, <1>2 DEF ConsumeMarker, ScanFound, Reading, SameOutput, SameScans, Result, Codes
<1>3. CASE ahead = {}
  <2>1. Reading(c, Result([c EXCEPT !.at = Len(file.data) + 1], "suspended"))
    BY <1>1, SMTT(30) DEF Reading, SameOutput, SameScans, Result, Codes, CInfo
  <2> QED
    BY <2>1, <1>3 DEF ConsumeMarker, ScanFound, Reading, SameOutput, SameScans, Result, Codes
<1> QED
  BY <1>2, <1>3

-----------------------------------------------------------------------------
(* Type correctness *)

LEMMA CreateTypes == Create \in CInfo
  BY JpegDecoderAssumption DEF Create, CInfo

LEMMA RowsTypes ==
  ASSUME file \in Files \cup {NoFile}
  PROVE  /\ Rows(file) \in Nat \ {0}
         /\ file.height <= Rows(file) * RowLines
         /\ \A r \in Nat : r * RowLines < file.height => r < Rows(file)
  BY FileTypes, RowsEnough DEF Rows

LEMMA JunkTypes == Junk \in Lines /\ \A f, l \in Nat, right \in BOOLEAN : Line(f, l, right) \in Lines
  BY DEF Junk, Line, Lines

LEMMA InitTypes == DecoderInit => DecoderTypes
<1> SUFFICES ASSUME DecoderInit PROVE DecoderTypes
  OBVIOUS
<1>1. [l \in 1..BmpHeight |-> Junk] \in [1..BmpHeight -> Lines]
  BY JunkTypes
<1>2. heights \in Seq(Nat \ {0})
  BY DEF DecoderInit
<1>3. cinfo.output_scanline <= file.height
  BY DEF DecoderInit, Create, NoFile
<1> QED
  BY <1>1, <1>2, <1>3, CreateTypes, JunkTypes DEF DecoderInit, DecoderTypes, Active

LEMMA PixelToBmpTypes == DecoderTypes /\ PixelToBmp => DecoderTypes'
<1> SUFFICES ASSUME DecoderTypes, PixelToBmp PROVE DecoderTypes'
  OBVIOUS
<1>1. /\ file'.data \in Seq(Tokens) /\ file'.components \in {{"Y"}, {"Y", "C"}}
      /\ file'.height \in Nat \ {0}
  BY FileTypes DEF PixelToBmp
<1>2. /\ heights' \in Seq(Nat \ {0}) /\ Len(heights') = Len(heights) + 1
      /\ heights'[Len(heights) + 1] = file'.height
  BY <1>1 DEF PixelToBmp, DecoderTypes
<1>3. frame' > 0 /\ heights'[frame'] = file'.height
  BY <1>2 DEF frame, DecoderTypes
<1>4. cinfo' \in CInfo /\ cinfo'.output_scanline = 0 /\ cinfo'.global_state = "INHEADER"
  BY CreateTypes DEF PixelToBmp, Create
<1>5. coef' \in [file'.components \X (0..((file'.height + RowLines - 1) \div RowLines - 1)) -> BOOLEAN]
  BY DEF PixelToBmp, Rows
<1>6. jpegbuffer' \in Lines /\ y' = 0 /\ pools' = {"permanent"} /\ starved' = FALSE /\ pc' = "header"
      /\ file' \in Files
  BY JunkTypes DEF PixelToBmp
<1>7. UNCHANGED <<rgb, IMG_HEIGHT, outside, bmp>>
  BY DEF PixelToBmp, imageVars
<1>8. (pc \in Active => frame > 0 /\ heights[frame] = file.height)'
  BY <1>3
<1>9. (pc \in Active => coef \in [file.components \X (0..(Rows(file) - 1)) -> BOOLEAN])'
  BY <1>5 DEF Rows
<1>10. (rgb = <<>> \/ (IMG_HEIGHT > 0 /\ rgb \in [1..IMG_HEIGHT -> Lines]))'
  BY <1>7 DEF DecoderTypes
<1>11. (pc \in Active \cup {"idle", "stopped", "crashed"} /\ file \in Files \cup {NoFile})'
  BY <1>6 DEF Active
<1>12. (heights \in Seq(Nat \ {0}) /\ cinfo \in CInfo)'
  BY <1>2, <1>4
<1>13. (pools \subseteq {"permanent", "image"} /\ jpegbuffer \in Lines /\ y \in Nat)'
  BY <1>6
<1>14. (IMG_HEIGHT \in Nat \cup {-1} /\ outside \in Nat /\ bmp \in [1..BmpHeight -> Lines] /\ starved \in BOOLEAN)'
  BY <1>6, <1>7 DEF DecoderTypes
<1>15. (cinfo.output_scanline <= file.height)'
  BY <1>1, <1>4
<1> QED
  BY <1>4, <1>6, <1>8, <1>9, <1>10, <1>11, <1>12, <1>13, <1>14, <1>15 DEF DecoderTypes

LEMMA ReadHeaderTypes == DecoderTypes /\ ReadHeader => DecoderTypes'
<1> SUFFICES ASSUME DecoderTypes, ReadHeader PROVE DecoderTypes'
  OBVIOUS
<1> DEFINE r == ConsumeMarker(cinfo)
<1>1. Reading(cinfo, r) /\ ScanFound(r)
  BY ConsumeMarkerReads DEF DecoderTypes
<1> HIDE DEF r
<1>2. cinfo' \in CInfo /\ cinfo'.output_scanline = cinfo.output_scanline
  BY <1>1 DEF ReadHeader, Reading, SameOutput, CInfo, r
<1>3. pc' \in Active /\ pc' # "rows" /\ pools' \subseteq {"permanent", "image"} /\ starved' \in BOOLEAN
  BY <1>1 DEF ReadHeader, ErrorExit, Active, DecoderTypes, r
<1>4. pc \in Active /\ UNCHANGED <<file, heights, coef, jpegbuffer, y, rgb, IMG_HEIGHT, outside, bmp>>
  BY DEF ReadHeader, imageVars, Active
<1>5. /\ pc' = "header" => cinfo'.global_state = "INHEADER"
      /\ pc' = "start" /\ cinfo'.global_state = "READY" => ~cinfo'.inheaders
      /\ pc' # "absorb"
  BY <1>1, ZenonT(30) DEF ReadHeader, ErrorExit, Reading, SameOutput, ScanFound, CInfo, DecoderTypes, r
<1> QED
  BY <1>2, <1>3, <1>4, <1>5 DEF DecoderTypes, frame, Rows

LEMMA MasterSelectionReads ==
  ASSUME NEW c \in CInfo
  PROVE  /\ MasterSelection(LoadDht(c)).c \in CInfo
         /\ SameOutput(c, MasterSelection(LoadDht(c)).c)
         /\ MasterSelection(LoadDht(c)).ret \in Codes \cup {"BAD_J_COLORSPACE"}
         /\ MasterSelection(LoadDht(c)).ret = "SOS" /\ ~c.inheaders =>
               /\ SameScans(c, MasterSelection(LoadDht(c)).c)
               /\ c.has_multiple_scans => MasterSelection(LoadDht(c)).c.consume_input = "data"
<1> DEFINE d == LoadDht(c)
<1>1. /\ d \in CInfo /\ SameOutput(c, d) /\ d.inheaders = c.inheaders
      /\ d.has_multiple_scans = c.has_multiple_scans
  BY DEF LoadDht, CInfo, SameOutput
<1> HIDE DEF d
<1>2. /\ Reading(d, StartInputPass(d))
      /\ StartInputPass(d).ret = "SOS" =>
            StartInputPass(d).c.consume_input = IF d.has_multiple_scans THEN "data" ELSE "dummy"
  BY <1>1, StartInputPassReads
<1>3. /\ MasterSelection(d).c \in CInfo
      /\ SameOutput(d, MasterSelection(d).c)
      /\ MasterSelection(d).ret \in Codes \cup {"BAD_J_COLORSPACE"}
  BY <1>1, <1>2 DEF MasterSelection, Reading, Result, SameOutput
<1>4. MasterSelection(d).ret = "SOS" => MasterSelection(d) = StartInputPass(d)
  BY DEF MasterSelection, Result
<1>5. MasterSelection(d).ret = "SOS" /\ ~d.inheaders =>
         /\ SameScans(d, MasterSelection(d).c)
         /\ d.has_multiple_scans => MasterSelection(d).c.consume_input = "data"
  BY <1>2, <1>4 DEF Reading
<1>6. /\ MasterSelection(d).c \in CInfo /\ SameOutput(c, MasterSelection(d).c)
      /\ MasterSelection(d).ret \in Codes \cup {"BAD_J_COLORSPACE"}
      /\ MasterSelection(d).ret = "SOS" /\ ~c.inheaders =>
            /\ SameScans(c, MasterSelection(d).c)
            /\ c.has_multiple_scans => MasterSelection(d).c.consume_input = "data"
  BY <1>1, <1>3, <1>5 DEF SameOutput, SameScans
<1> QED
  BY <1>6 DEF d

LEMMA StartDecompressTypes == DecoderTypes /\ StartDecompress => DecoderTypes'
<1> SUFFICES ASSUME DecoderTypes, StartDecompress PROVE DecoderTypes'
  OBVIOUS
<1> DEFINE r == MasterSelection(LoadDht(cinfo))
<1>1. r.c \in CInfo /\ SameOutput(cinfo, r.c) /\ cinfo \in CInfo
  BY MasterSelectionReads DEF DecoderTypes
<1>2. cinfo' = cinfo \/ cinfo' = [r.c EXCEPT !.global_state = "PRELOAD"]
  BY DEF StartDecompress
<1>3. pc' \in Active /\ pc' # "rows" /\ pools' \subseteq {"permanent", "image"}
  BY DEF StartDecompress, ErrorExit, Active, DecoderTypes
<1>4. /\ pc \in Active
      /\ UNCHANGED <<file, heights, coef, jpegbuffer, y, rgb, IMG_HEIGHT, outside, bmp, starved>>
  BY DEF StartDecompress, imageVars, Active
<1> HIDE DEF r
<1>5. cinfo' \in CInfo /\ cinfo'.output_scanline = cinfo.output_scanline
  BY <1>1, <1>2 DEF CInfo, SameOutput
<1>6. pc' # "header" /\ pc' # "start"
  BY DEF StartDecompress, ErrorExit
<1>7. ASSUME pc' = "absorb"
      PROVE  /\ cinfo'.has_multiple_scans /\ ~cinfo'.inheaders
             /\ cinfo'.consume_input \in {"data", "markers"}
  <2>1. /\ cinfo.global_state = "READY" /\ r.ret = "SOS" /\ cinfo.has_multiple_scans
        /\ cinfo' = [r.c EXCEPT !.global_state = "PRELOAD"]
    BY <1>7 DEF StartDecompress, ErrorExit, r
  <2>2. ~cinfo.inheaders
    BY <2>1 DEF StartDecompress, DecoderTypes
  <2>3. SameScans(cinfo, r.c) /\ r.c.consume_input = "data"
    BY <1>1, <2>1, <2>2, MasterSelectionReads DEF r
  <2> QED
    BY <1>1, <2>1, <2>3 DEF SameScans, CInfo
<1> QED
  BY <1>3, <1>4, <1>5, <1>6, <1>7 DEF DecoderTypes, frame, Rows

\* A row of the input: where it leaves the position, and the number of the row.
LEMMA DecodeRowTypes ==
  ASSUME NEW c \in CInfo, file \in Files \cup {NoFile}
  PROVE  /\ DecodeRow(c).at \in Nat \ {0}
         /\ DecodeRow(c).right \in BOOLEAN /\ DecodeRow(c).suspended \in BOOLEAN
         /\ DecodeRow(c).suspended <=> c.at > Len(file.data)
<1>1. c.at \in Nat \ {0} /\ Len(file.data) \in Nat
  BY FileTypes DEF CInfo
<1>2. CASE c.at > Len(file.data)
  <2>1. DecodeRow(c) = [suspended |-> TRUE, right |-> FALSE, at |-> c.at]
    BY <1>1, <1>2 DEF DecodeRow
  <2> QED
    BY <1>1, <1>2, <2>1
<1>3. CASE c.at <= Len(file.data)
  <2>1. DecodeRow(c) = [suspended |-> FALSE,
                        right |-> file.data[c.at] = "row" /\ c.derived = CodedWith(c.at),
                        at |-> IF file.data[c.at] = "row" THEN c.at + 1 ELSE c.at]
    BY <1>1, <1>3 DEF DecodeRow
  <2> QED
    BY <1>1, <1>3, <2>1
<1> QED
  BY <1>1, <1>2, <1>3

LEMMA NextInputRowTypes ==
  ASSUME NEW c \in CInfo
  PROVE  /\ NextInputRow(c) \in CInfo /\ SameOutput(c, NextInputRow(c))
         /\ NextInputRow(c).has_multiple_scans = c.has_multiple_scans
         /\ NextInputRow(c).inheaders = c.inheaders
         /\ NextInputRow(c).consume_input \in {c.consume_input, "markers"}
<1> DEFINE next == IF c.input_row + 1 = Rows(file) THEN "markers" ELSE c.consume_input
<1>1. NextInputRow(c) = [c EXCEPT !.input_row = c.input_row + 1, !.consume_input = next]
  BY DEF NextInputRow
<1>2. next \in {"markers", "data", "dummy"} /\ next \in {c.consume_input, "markers"}
  BY DEF CInfo
<1>3. c.input_row + 1 \in Nat
  BY DEF CInfo
<1> HIDE DEF next
<1>4. [c EXCEPT !.input_row = c.input_row + 1, !.consume_input = next] \in CInfo
  BY <1>2, <1>3 DEF CInfo
<1> QED
  BY <1>1, <1>2, <1>4 DEF CInfo, SameOutput

\* The steps of reading the scans: a suspension, a row, a marker.
AbsorbSteps ==
    LET r == ConsumeMarker(cinfo)
        row == DecodeRow(cinfo)
    IN /\ \/ /\ starved' = TRUE /\ pc' = "buffers" /\ UNCHANGED <<cinfo, coef, pools, error>>
             /\ \/ cinfo.consume_input = "data" /\ row.suspended
                \/ cinfo.consume_input = "markers" /\ r.ret = "suspended"
          \/ /\ cinfo.consume_input = "data" /\ ~row.suspended
             /\ coef' = [x \in DOMAIN coef |->
                    IF x[1] \in cinfo.comps /\ x[2] = cinfo.input_row THEN row.right ELSE coef[x]]
             /\ cinfo' = [NextInputRow(cinfo) EXCEPT !.at = row.at]
             /\ UNCHANGED <<pc, pools, starved, error>>
          \/ /\ cinfo.consume_input = "markers" /\ r.ret # "suspended"
             /\ cinfo' = r.c /\ UNCHANGED <<coef, starved>>
             /\ \/ r.ret \in {"more", "SOS"} /\ pc' = pc /\ UNCHANGED <<pools, error>>
                \/ r.ret = "EOI" /\ pc' = "output" /\ UNCHANGED <<pools, error>>
                \/ r.ret \notin {"more", "SOS", "EOI"} /\ ErrorExit(r.ret)
       /\ cinfo'.output_scanline = cinfo.output_scanline

LEMMA AbsorbCases == DecoderTypes /\ Absorb => AbsorbSteps
<1> SUFFICES ASSUME DecoderTypes, Absorb PROVE AbsorbSteps
  OBVIOUS
<1> DEFINE r == ConsumeMarker(cinfo)
           row == DecodeRow(cinfo)
           next == [NextInputRow(cinfo) EXCEPT !.at = row.at]
<1>1. cinfo \in CInfo /\ Reading(cinfo, r) /\ pc = "absorb"
  BY ConsumeMarkerReads DEF DecoderTypes, Absorb
<1>2. row.at \in Nat \ {0} /\ row.right \in BOOLEAN /\ row.suspended \in BOOLEAN
  BY DecodeRowTypes DEF DecoderTypes
<1>3. cinfo.consume_input \in {"data", "markers"}
  BY DEF Absorb, DecoderTypes
<1>4. next.output_scanline = cinfo.output_scanline
  BY <1>1, NextInputRowTypes DEF CInfo, SameOutput
<1>5. CASE cinfo.consume_input = "data" /\ row.suspended
  BY <1>2, <1>5 DEF Absorb, AbsorbSteps
<1>6. CASE cinfo.consume_input = "data" /\ ~row.suspended
  BY <1>2, <1>4, <1>6 DEF Absorb, AbsorbSteps
<1>7. CASE cinfo.consume_input = "markers" /\ r.ret = "suspended"
  BY <1>7 DEF Absorb, AbsorbSteps
<1>8. CASE cinfo.consume_input = "markers" /\ r.ret # "suspended"
  BY <1>1, <1>8 DEF Absorb, AbsorbSteps, ErrorExit, Reading, SameOutput
<1> QED
  BY <1>2, <1>3, <1>5, <1>6, <1>7, <1>8

LEMMA AbsorbTypes == DecoderTypes /\ Absorb => DecoderTypes'
<1> SUFFICES ASSUME DecoderTypes, Absorb PROVE DecoderTypes'
  OBVIOUS
<1> DEFINE r == ConsumeMarker(cinfo)
           row == DecodeRow(cinfo)
           next == [NextInputRow(cinfo) EXCEPT !.at = row.at]
           read == [x \in DOMAIN coef |->
                      IF x[1] \in cinfo.comps /\ x[2] = cinfo.input_row THEN row.right ELSE coef[x]]
<1>1. cinfo \in CInfo /\ Reading(cinfo, r)
  BY ConsumeMarkerReads DEF DecoderTypes
<1>2. row.at \in Nat \ {0} /\ row.right \in BOOLEAN /\ row.suspended \in BOOLEAN
  BY DecodeRowTypes DEF DecoderTypes
<1>3. /\ cinfo.has_multiple_scans /\ ~cinfo.inheaders /\ cinfo.consume_input \in {"data", "markers"}
      /\ coef \in [file.components \X (0..(Rows(file) - 1)) -> BOOLEAN]
  BY DEF Absorb, Active, DecoderTypes
<1>4. /\ pc = "absorb" /\ pc \in Active
      /\ UNCHANGED <<file, heights, jpegbuffer, y, rgb, IMG_HEIGHT, outside, bmp>>
  BY DEF Absorb, imageVars, Active
<1>5. \/ /\ starved' = TRUE /\ pc' = "buffers" /\ UNCHANGED <<cinfo, coef, pools>>
      \/ coef' = read /\ cinfo' = next /\ UNCHANGED <<pc, pools, starved>>
      \/ /\ cinfo' = r.c /\ UNCHANGED <<coef, starved>>
         /\ \/ pc' \in {"output", "absorb"} /\ UNCHANGED pools
            \/ pc' = "return" /\ pools' = {}
  BY <1>4, AbsorbCases DEF AbsorbSteps, ErrorExit
<1> HIDE DEF r, row
<1> DEFINE OfScans(c) == /\ c \in CInfo /\ c.has_multiple_scans /\ ~c.inheaders
                         /\ c.consume_input \in {"data", "markers"}
                         /\ c.output_scanline = cinfo.output_scanline
<1>6. OfScans(next)
  <2>1. PICK n : n = NextInputRow(cinfo)
    OBVIOUS
  <2>2. n \in CInfo /\ SameOutput(cinfo, n) /\ n.has_multiple_scans /\ ~n.inheaders
        /\ n.consume_input \in {"data", "markers"}
    BY <1>1, <1>3, <2>1, NextInputRowTypes
  <2>3. [n EXCEPT !.at = row.at] \in CInfo
    BY <1>2, <2>2 DEF CInfo
  <2> QED
    BY <2>1, <2>2, <2>3 DEF CInfo, SameOutput
<1>7. OfScans(r.c)
  BY <1>1, <1>3 DEF Reading, SameOutput, SameScans
<1>8. OfScans(cinfo')
  BY <1>1, <1>3, <1>5, <1>6, <1>7
<1>9. coef' \in [file.components \X (0..(Rows(file) - 1)) -> BOOLEAN]
  BY <1>2, <1>3, <1>5
<1>10. /\ pc' \in {"absorb", "buffers", "output", "return"}
       /\ pools' \subseteq {"permanent", "image"}
       /\ starved' \in BOOLEAN
  BY <1>4, <1>5 DEF DecoderTypes
<1> QED
  BY <1>4, <1>8, <1>9, <1>10 DEF DecoderTypes, frame, Rows, Active

LEMMA OutputPassSetupTypes == DecoderTypes /\ OutputPassSetup => DecoderTypes'
<1> SUFFICES ASSUME DecoderTypes, OutputPassSetup PROVE DecoderTypes'
  OBVIOUS
<1>1. cinfo' \in CInfo /\ cinfo'.output_scanline = 0
  BY DEF OutputPassSetup, CInfo, DecoderTypes
<1>2. /\ pc \in Active /\ pc' = "buffers"
      /\ UNCHANGED <<file, heights, pools, coef, jpegbuffer, y, rgb, IMG_HEIGHT, outside, bmp, starved>>
  BY DEF OutputPassSetup, imageVars, Active
<1>3. file.height \in Nat
  BY FileTypes DEF DecoderTypes
<1> QED
  BY <1>1, <1>2, <1>3 DEF DecoderTypes, frame, Rows, Active

LEMMA AllocBuffersTypes == DecoderTypes /\ AllocBuffers => DecoderTypes'
<1> SUFFICES ASSUME DecoderTypes, AllocBuffers PROVE DecoderTypes'
  OBVIOUS
<1>1. file.height \in Nat \ {0}
  BY FileTypes DEF DecoderTypes
<1>2. /\ pc \in Active /\ pc' = "rows"
      /\ UNCHANGED <<file, heights, cinfo, pools, coef, jpegbuffer, y, bmp, starved>>
  BY DEF AllocBuffers, Active
<1>3. /\ IMG_HEIGHT' \in Nat \cup {-1} /\ outside' \in Nat
      /\ IMG_HEIGHT' > 0 /\ rgb' \in [1..IMG_HEIGHT' -> Lines]
  BY <1>1, JunkTypes DEF AllocBuffers, imageVars, DecoderTypes
<1>4. rgb' # <<>>
  BY <1>3
<1> QED
  BY <1>2, <1>3, <1>4 DEF DecoderTypes, frame, Rows, Active

LEMMA ProcessDataTypes ==
  ASSUME NEW c \in CInfo, file \in Files \cup {NoFile}, c.output_scanline < file.height
  PROVE  LET r == ProcessData(c)
         IN /\ r.c \in CInfo /\ r.ret \in {"row", "suspended"}
            /\ r.c.global_state = c.global_state /\ r.c.inheaders = c.inheaders
            /\ r.c.has_multiple_scans = c.has_multiple_scans
            /\ r.ret = "suspended" => r.c = c /\ c.at > Len(file.data) /\ ~c.buffer_full
                                      /\ ~c.has_multiple_scans
            /\ r.ret = "row" => r.c.output_scanline = c.output_scanline + 1
<1> USE JpegDecoderAssumption
<1> DEFINE row == DecodeRow(c)
           read == [NextInputRow(c) EXCEPT !.at = row.at, !.buffer = row.right,
                                           !.output_row = @ + 1]
           right == \A comp \in file.components : coef[<<comp, c.output_row>>]
           made == [c EXCEPT !.buffer = right, !.output_row = @ + 1]
           Same(d) == /\ d \in CInfo /\ d.global_state = c.global_state /\ d.inheaders = c.inheaders
                      /\ d.has_multiple_scans = c.has_multiple_scans
                      /\ d.output_scanline = c.output_scanline
<1>1. row.at \in Nat \ {0} /\ row.right \in BOOLEAN
      /\ (row.suspended <=> c.at > Len(file.data))
  BY DecodeRowTypes
<1>2. Same(read)
  <2>1. PICK n : n = NextInputRow(c)
    OBVIOUS
  <2>2. /\ n \in CInfo /\ SameOutput(c, n) /\ n.has_multiple_scans = c.has_multiple_scans
        /\ n.inheaders = c.inheaders
    BY <2>1, NextInputRowTypes
  <2> HIDE DEF row
  <2>3. n.output_row + 1 \in Nat
    BY <2>2, SMTT(30) DEF CInfo
  <2>4. [n EXCEPT !.at = row.at, !.buffer = row.right, !.output_row = n.output_row + 1] \in CInfo
    BY <1>1, <2>2, <2>3 DEF CInfo
  <2> QED
    BY <2>1, <2>2, <2>4 DEF CInfo, SameOutput
<1>3. Same(made)
  <2>1. right \in BOOLEAN
    OBVIOUS
  <2>2. PICK b \in BOOLEAN : b = right
    BY <2>1
  <2>5. c.output_row + 1 \in Nat
    BY DEF CInfo
  <2>3. [c EXCEPT !.buffer = b, !.output_row = c.output_row + 1] \in CInfo
    BY <2>5 DEF CInfo
  <2>4. made = [c EXCEPT !.buffer = b, !.output_row = c.output_row + 1]
    BY <2>2
  <2> QED
    BY <2>3, <2>4 DEF CInfo
<1> DEFINE p == IF c.buffer_full THEN Result(c, "row")
                ELSE IF c.has_multiple_scans THEN Result(made, "row")
                ELSE IF row.suspended THEN Result(c, "suspended") ELSE Result(read, "row")
<1>4. /\ Same(p.c) /\ p.ret \in {"row", "suspended"}
      /\ p.ret = "suspended" => p.c = c /\ c.at > Len(file.data) /\ ~c.buffer_full
                                /\ ~c.has_multiple_scans
  BY <1>1, <1>2, <1>3 DEF Result
<1>5. p = IF c.buffer_full THEN Result(c, "row")
          ELSE IF c.has_multiple_scans THEN DecompressData(c) ELSE Onepass(c)
  BY DEF DecompressData, Onepass
<1> HIDE DEF p
<1> DEFINE full == c.line + 1 < RowLines
           rest == (c.line + 1) % RowLines
           out == [p.c EXCEPT !.buffer_full = full, !.line = rest, !.output_scanline = @ + 1]
<1>6. ProcessData(c) = IF p.ret = "suspended" THEN p ELSE Result(out, "row")
  BY <1>5 DEF ProcessData
<1>7. full \in BOOLEAN /\ rest \in 0..(RowLines - 1)
  BY DEF CInfo
<1>8. /\ out \in CInfo /\ out.global_state = c.global_state /\ out.inheaders = c.inheaders
      /\ out.has_multiple_scans = c.has_multiple_scans
      /\ out.output_scanline = c.output_scanline + 1
  <2>1. PICK f, l, d : f \in BOOLEAN /\ l \in 0..(RowLines - 1) /\ f = full /\ l = rest /\ d = p.c
    BY <1>7
  <2>2. d \in CInfo
    BY <1>4, <2>1
  <2>5. d.output_scanline + 1 \in Nat
    BY <2>2, SMTT(30) DEF CInfo
  <2>3. [d EXCEPT !.buffer_full = f, !.line = l, !.output_scanline = d.output_scanline + 1] \in CInfo
    <3>1. f \in BOOLEAN /\ l \in 0..(RowLines - 1)
      BY <2>1
    <3> QED
      BY <2>2, <2>5, <3>1 DEF CInfo
  <2>4. out = [d EXCEPT !.buffer_full = f, !.line = l, !.output_scanline = d.output_scanline + 1]
    BY <2>1
  <2>6. /\ out.global_state = d.global_state /\ out.inheaders = d.inheaders
        /\ out.has_multiple_scans = d.has_multiple_scans
        /\ out.output_scanline = d.output_scanline + 1
    BY <2>2, <2>4 DEF CInfo
  <2> QED
    BY <1>4, <2>1, <2>3, <2>4, <2>6
<1> HIDE DEF out
<1> QED
  BY <1>4, <1>6, <1>8 DEF Result

LEMMA ReadScanlineTypes == DecoderTypes /\ ReadScanline => DecoderTypes'
<1> SUFFICES ASSUME DecoderTypes, ReadScanline PROVE DecoderTypes'
  OBVIOUS
<1> DEFINE r == ProcessData(cinfo)
           line == IF r.ret = "row" THEN Line(frame, r.c.output_scanline, r.c.buffer) ELSE jpegbuffer
<1>1. /\ pc = "rows" /\ pc \in Active /\ cinfo \in CInfo /\ cinfo.output_scanline < file.height
      /\ UNCHANGED <<file, heights, coef, bmp>>
  BY DEF ReadScanline, DecoderTypes, Active
<1>2. CASE cinfo.global_state # "SCANNING"
  <2>1. /\ UNCHANGED <<cinfo, jpegbuffer, y, rgb, IMG_HEIGHT, outside, starved>>
        /\ pc' = "return" /\ pools' = {}
    BY <1>2 DEF ReadScanline, ErrorExit, imageVars
  <2> QED
    BY <1>1, <2>1 DEF DecoderTypes, frame, Rows, Active
<1>3. CASE cinfo.global_state = "SCANNING"
  <2>1. /\ cinfo' = r.c /\ jpegbuffer' = line /\ starved' = (starved \/ r.ret = "suspended")
        /\ y' = IF y < IMG_HEIGHT THEN y + 1 ELSE y
        /\ Output(line) /\ UNCHANGED <<pools, error>>
    BY <1>3 DEF ReadScanline
  <2>2. /\ r.c \in CInfo /\ r.ret \in {"row", "suspended"}
        /\ r.ret = "suspended" => r.c = cinfo
        /\ r.ret = "row" => r.c.output_scanline = cinfo.output_scanline + 1
    BY <1>1, ProcessDataTypes DEF DecoderTypes
  <2> HIDE DEF r
  <2>3. frame \in Nat /\ r.c.output_scanline \in Nat /\ r.c.buffer \in BOOLEAN
    BY <2>2 DEF CInfo, frame, DecoderTypes
  <2>4. line \in Lines
    BY <2>3, JunkTypes DEF DecoderTypes
  <2>5. cinfo'.output_scanline <= file.height
    BY <1>1, <2>1, <2>2, FileTypes DEF DecoderTypes, CInfo
  <2>6. starved' \in BOOLEAN /\ y' \in Nat
    BY <2>1 DEF DecoderTypes
  <2>7. rgb # <<>> /\ IMG_HEIGHT \in Nat /\ IMG_HEIGHT > 0 /\ rgb \in [1..IMG_HEIGHT -> Lines]
    BY <1>1 DEF DecoderTypes
  <2> HIDE DEF line
  <2>8. /\ UNCHANGED IMG_HEIGHT /\ rgb' \in [1..IMG_HEIGHT -> Lines] /\ outside' \in Nat
        /\ pc' \in {"rows", "crashed"}
    <3>1. CASE y < IMG_HEIGHT
      BY <1>1, <2>1, <2>4, <2>7, <3>1 DEF Output, DecoderTypes
    <3>2. CASE ~(y < IMG_HEIGHT)
      BY <1>1, <2>1, <2>7, <3>2 DEF Output, DecoderTypes, imageVars
    <3> QED
      BY <3>1, <3>2
  <2>9. rgb' # <<>>
    BY <2>7, <2>8
  <2> QED
    BY <1>1, <2>1, <2>2, <2>4, <2>5, <2>6, <2>7, <2>8, <2>9 DEF DecoderTypes, frame, Rows, Active
<1> QED
  BY <1>2, <1>3

LEMMA FinishDecompressTypes == DecoderTypes /\ FinishDecompress => DecoderTypes'
<1> SUFFICES ASSUME DecoderTypes, FinishDecompress PROVE DecoderTypes'
  OBVIOUS
<1> DEFINE r == ConsumeMarker(cinfo)
<1>1. Reading(cinfo, r) /\ cinfo' = r.c
  BY ConsumeMarkerReads DEF DecoderTypes, FinishDecompress
<1>2. /\ pc = "rows" /\ pc \in Active /\ pc' \in {"rows", "return"}
      /\ pools' \subseteq {"permanent", "image"} /\ starved' \in BOOLEAN
      /\ UNCHANGED <<file, heights, coef, jpegbuffer, y, rgb, IMG_HEIGHT, outside, bmp>>
  BY DEF FinishDecompress, ErrorExit, DecoderTypes, Active, imageVars
<1> HIDE DEF r
<1>3. cinfo' \in CInfo /\ cinfo'.output_scanline = cinfo.output_scanline
  BY <1>1 DEF Reading, SameOutput
<1> QED
  BY <1>2, <1>3 DEF DecoderTypes, frame, Rows, Active

LEMMA CopyPixelsTypes == DecoderTypes /\ CopyPixels => DecoderTypes'
<1> SUFFICES ASSUME DecoderTypes, CopyPixels PROVE DecoderTypes'
  OBVIOUS
<1>1. /\ pc' \in {"stopped", "crashed", "idle"}
      /\ UNCHANGED <<file, heights, cinfo, pools, coef, jpegbuffer, y, rgb, IMG_HEIGHT, outside, starved>>
  BY DEF CopyPixels, imageVars
<1>2. bmp' \in [1..BmpHeight -> Lines]
  BY DEF CopyPixels, DecoderTypes
<1> QED
  BY <1>1, <1>2 DEF DecoderTypes, Active

LEMMA FreeCameraMemoryTypes == DecoderTypes /\ FreeCameraMemory => DecoderTypes'
<1> SUFFICES ASSUME DecoderTypes, FreeCameraMemory PROVE DecoderTypes'
  OBVIOUS
<1>1. bmp' \in [1..BmpHeight -> Lines]
  BY JunkTypes DEF FreeCameraMemory
<1> QED
  BY <1>1 DEF FreeCameraMemory, DecoderTypes, Active

\* The variables of the decoder stay what they are.
LEMMA UnchangedTypes == DecoderTypes /\ UNCHANGED decoderVars => DecoderTypes'
  BY DEF decoderVars, DecoderTypes, frame, Rows

-----------------------------------------------------------------------------
(* No mixed frame *)

LEMMA JoinedJunk ==
  ASSUME NEW n \in Nat, NEW hs \in Seq(Nat \ {0})
  PROVE  Joined(hs, [l \in 1..n |-> Junk], 0)
  BY DEF Joined

LEMMA JoinedEmpty ==
  ASSUME NEW hs, NEW seam
  PROVE  Joined(hs, <<>>, seam)
  BY DEF Joined

\* Another frame does not change what the frames before it were.
LEMMA JoinedLater ==
  ASSUME NEW hs \in Seq(Nat \ {0}), NEW h \in Nat \ {0}, NEW image, NEW seam, Joined(hs, image, seam)
  PROVE  Joined(Append(hs, h), image, seam)
<1>1. /\ Len(Append(hs, h)) = Len(hs) + 1 /\ Len(hs) \in Nat
      /\ \A i \in 1..Len(hs) : Append(hs, h)[i] = hs[i]
  OBVIOUS
<1> HIDE DEF Junk
<1> QED
  BY <1>1 DEF Joined

\* The next line of the frame that is decoded is written.
LEMMA JoinedWritten ==
  ASSUME NEW hs \in Seq(Nat \ {0}), Len(hs) > 0, NEW n \in Nat \ {0},
         NEW image \in [1..n -> Lines], NEW written \in [1..n -> Lines],
         NEW k \in 0..(n - 1), Joined(hs, image, k),
         \A l \in 1..k : image[l] # Junk /\ image[l].frame = Len(hs),
         \A l \in 1..n : l # k + 1 => written[l] = image[l],
         written[k + 1] # Junk, written[k + 1].frame = Len(hs), written[k + 1].line = k + 1
  PROVE  Joined(hs, written, k + 1)
<1>1. DOMAIN image = 1..n /\ DOMAIN written = 1..n /\ k + 1 \in 1..n
  OBVIOUS
<1>2. \A l \in 1..(k + 1) : written[l] # Junk /\ written[l].frame = Len(hs)
  BY <1>1
<1>3. ASSUME NEW l \in 1..n, written[l] # Junk
      PROVE  written[l].line = l /\ written[l].frame \in 1..Len(hs)
  BY <1>1, <1>3 DEF Joined
<1>4. ASSUME NEW l \in 1..n, l + 1 \in 1..n, l # k + 1, written[l].frame # written[l + 1].frame
      PROVE  written[l] # Junk /\ hs[written[l].frame] = l
  <2>1. l # k
    BY <1>2, <1>4
  <2>2. written[l] = image[l] /\ written[l + 1] = image[l + 1]
    BY <1>1, <1>4, <2>1
  <2> QED
    BY <1>1, <1>4, <2>1, <2>2 DEF Joined
<1> QED
  BY <1>1, <1>2, <1>3, <1>4 DEF Joined

\* A frame of k lines was written to its end.
LEMMA JoinedWhole ==
  ASSUME NEW hs \in Seq(Nat \ {0}), Len(hs) > 0, NEW n \in Nat \ {0}, NEW image \in [1..n -> Lines],
         NEW k \in 1..n, k = n \/ k = hs[Len(hs)], Joined(hs, image, k),
         image[k] # Junk /\ image[k].frame = Len(hs)
  PROVE  Joined(hs, image, 0)
  BY DEF Joined

LEMMA InitMixing == DecoderInit => Mixing
<1> SUFFICES ASSUME DecoderInit PROVE Mixing
  OBVIOUS
<1>1. BmpHeight \in Nat /\ heights \in Seq(Nat \ {0})
  BY JpegDecoderAssumption DEF DecoderInit
<1>2. pc = "idle" /\ rgb = <<>> /\ bmp = [l \in 1..BmpHeight |-> Junk]
  BY DEF DecoderInit
<1>3. Joined(heights, bmp, 0) /\ Joined(heights, rgb, 0)
  BY <1>1, <1>2, JoinedJunk, JoinedEmpty
<1> QED
  BY <1>2, <1>3 DEF Mixing, Active

LEMMA PixelToBmpMixing == DecoderTypes /\ Mixing /\ PixelToBmp => Mixing'
<1> SUFFICES ASSUME DecoderTypes, Mixing, PixelToBmp PROVE Mixing'
  OBVIOUS
<1>1. /\ pc = "idle" /\ pc' = "header" /\ y' = 0 /\ cinfo' = Create
      /\ UNCHANGED <<rgb, IMG_HEIGHT, outside, bmp>>
  BY DEF PixelToBmp, imageVars
<1>2. PICK h \in Nat \ {0} : heights' = Append(heights, h)
  BY FileTypes DEF PixelToBmp
<1>3. Joined(heights, bmp, 0) /\ Joined(heights, rgb, 0) /\ heights \in Seq(Nat \ {0})
  BY <1>1 DEF Mixing, DecoderTypes
<1>4. Joined(heights', bmp', 0) /\ Joined(heights', rgb', 0)
  BY <1>1, <1>2, <1>3, JoinedLater
<1> QED
  BY <1>1, <1>4 DEF Mixing, Create

\* The steps before the scan lines are read write nothing.
Preparing == ReadHeader \/ StartDecompress \/ Absorb \/ OutputPassSetup

LEMMA PreparingKeeps ==
  ASSUME DecoderTypes, Preparing
  PROVE  /\ pc \in {"header", "start", "absorb", "output"}
         /\ pc' \in {"header", "start", "absorb", "output", "buffers", "return"}
         /\ UNCHANGED <<file, heights, jpegbuffer, y, rgb, IMG_HEIGHT, outside, bmp>>
         /\ cinfo'.output_scanline \in {cinfo.output_scanline, 0}
<1>1. CASE ReadHeader
  <2>1. Reading(cinfo, ConsumeMarker(cinfo))
    BY ConsumeMarkerReads DEF DecoderTypes
  <2>2. pc' \in {"header", "start", "return"}
    BY <1>1 DEF ReadHeader, ErrorExit
  <2>3. /\ pc = "header"
        /\ UNCHANGED <<file, heights, jpegbuffer, y, rgb, IMG_HEIGHT, outside, bmp>>
    BY <1>1 DEF ReadHeader, imageVars
  <2>4. cinfo'.output_scanline = cinfo.output_scanline
    BY <1>1, <2>1 DEF ReadHeader, Reading, SameOutput, CInfo
  <2> QED
    BY <2>2, <2>3, <2>4
<1>2. CASE StartDecompress
  <2> DEFINE c == MasterSelection(LoadDht(cinfo)).c
  <2>1. c \in CInfo /\ c.output_scanline = cinfo.output_scanline
    BY MasterSelectionReads DEF DecoderTypes, SameOutput
  <2>2. cinfo' = cinfo \/ cinfo' = [c EXCEPT !.global_state = "PRELOAD"]
    BY <1>2 DEF StartDecompress
  <2>3. /\ pc = "start" /\ pc' \in {"absorb", "output", "return"}
        /\ UNCHANGED <<file, heights, jpegbuffer, y, rgb, IMG_HEIGHT, outside, bmp>>
    BY <1>2 DEF StartDecompress, ErrorExit, imageVars
  <2> HIDE DEF c
  <2> QED
    BY <2>1, <2>2, <2>3 DEF CInfo
<1>3. CASE Absorb
  <2>1. /\ pc = "absorb"
        /\ UNCHANGED <<file, heights, jpegbuffer, y, rgb, IMG_HEIGHT, outside, bmp>>
    BY <1>3 DEF Absorb, imageVars
  <2>2. AbsorbSteps
    BY <1>3, AbsorbCases
  <2> QED
    BY <2>1, <2>2 DEF AbsorbSteps, ErrorExit
<1>4. CASE OutputPassSetup
  BY <1>4 DEF OutputPassSetup, imageVars, DecoderTypes, CInfo
<1> QED
  BY <1>1, <1>2, <1>3, <1>4 DEF Preparing

LEMMA PreparingMixing == DecoderTypes /\ Mixing /\ Preparing => Mixing'
<1> SUFFICES ASSUME DecoderTypes, Mixing, Preparing PROVE Mixing'
  OBVIOUS
<1> QED
  BY PreparingKeeps DEF Mixing, Active

LEMMA AllocBuffersMixing == DecoderTypes /\ Mixing /\ AllocBuffers => Mixing'
<1> SUFFICES ASSUME DecoderTypes, Mixing, AllocBuffers PROVE Mixing'
  OBVIOUS
<1>1. /\ pc = "buffers" /\ pc' = "rows"
      /\ UNCHANGED <<file, heights, cinfo, pools, coef, jpegbuffer, y, bmp, starved>>
  BY DEF AllocBuffers
<1>2. /\ y = 0 /\ cinfo.output_scanline = 0 /\ Joined(heights, bmp, 0) /\ Joined(heights, rgb, 0)
  BY <1>1 DEF Mixing, Active
<1>3. file.height \in Nat \ {0} /\ heights \in Seq(Nat \ {0})
  BY FileTypes DEF DecoderTypes
<1>4. Joined(heights, rgb', 0) /\ IMG_HEIGHT' > 0
  <2>1. CASE rgb = <<>>
    BY <1>3, <2>1, JoinedJunk DEF AllocBuffers
  <2>2. CASE rgb # <<>>
    BY <1>2, <2>2 DEF AllocBuffers, imageVars, DecoderTypes
  <2> QED
    BY <2>1, <2>2
<1> QED
  BY <1>1, <1>2, <1>4 DEF Mixing, Written, Active

\* Once the data of the only scan ran out, no line comes any more.
LEMMA StuckStays ==
  ASSUME DecoderTypes, Stuck
  PROVE  ProcessData(cinfo) = Result(cinfo, "suspended")
<1>1. DecodeRow(cinfo).suspended
  BY DecodeRowTypes DEF DecoderTypes, Stuck
<1>2. Onepass(cinfo) = Result(cinfo, "suspended")
  BY <1>1 DEF Onepass
<1> QED
  BY <1>2 DEF ProcessData, Stuck, Result

LEMMA ReadScanlineMixing == DecoderTypes /\ Mixing /\ ReadScanline => Mixing'
<1> SUFFICES ASSUME DecoderTypes, Mixing, ReadScanline PROVE Mixing'
  OBVIOUS
<1> DEFINE r == ProcessData(cinfo)
           line == IF r.ret = "row" THEN Line(frame, r.c.output_scanline, r.c.buffer) ELSE jpegbuffer
<1>1. /\ pc = "rows" /\ cinfo \in CInfo /\ cinfo.output_scanline < file.height
      /\ Joined(heights, bmp, 0) /\ UNCHANGED <<file, heights, coef, bmp>>
      /\ rgb # <<>> /\ IMG_HEIGHT \in Nat \ {0} /\ rgb \in [1..IMG_HEIGHT -> Lines] /\ y \in Nat
      /\ heights \in Seq(Nat \ {0}) /\ frame = Len(heights) /\ Len(heights) > 0
  BY DEF ReadScanline, DecoderTypes, Active, Mixing, frame
<1>2. CASE cinfo.global_state # "SCANNING"
  <2>1. /\ UNCHANGED <<cinfo, jpegbuffer, y, rgb, IMG_HEIGHT, outside, starved>> /\ pc' = "return"
    BY <1>2 DEF ReadScanline, ErrorExit, imageVars
  <2>2. cinfo.output_scanline = 0 /\ ~Stuck
    BY <1>1, <1>2 DEF Mixing, Stuck
  <2>3. y = 0 /\ Joined(heights, rgb, 0)
    BY <1>1, <2>2 DEF Mixing
  <2> QED
    BY <1>1, <2>1, <2>3 DEF Mixing, Active
<1>3. CASE cinfo.global_state = "SCANNING"
  <2>1. /\ cinfo' = r.c /\ starved' = (starved \/ r.ret = "suspended")
        /\ y' = IF y < IMG_HEIGHT THEN y + 1 ELSE y
        /\ Output(line)
    BY <1>3 DEF ReadScanline
  <2>2. /\ r.c \in CInfo /\ r.ret \in {"row", "suspended"}
        /\ r.c.global_state = cinfo.global_state
        /\ r.ret = "suspended" => r.c = cinfo /\ cinfo.at > Len(file.data) /\ ~cinfo.buffer_full
                                  /\ ~cinfo.has_multiple_scans
        /\ r.ret = "row" => r.c.output_scanline = cinfo.output_scanline + 1
    BY <1>1, ProcessDataTypes DEF DecoderTypes
  <2>3. pc' \in {"rows", "crashed"} /\ IMG_HEIGHT' = IMG_HEIGHT
    BY <1>1, <2>1 DEF Output, imageVars
  <2>4. cinfo'.global_state = "SCANNING"
    BY <1>3, <2>1, <2>2
  <2>5. CASE r.ret = "suspended"
    <3>1. Stuck'
      BY <1>1, <1>3, <2>1, <2>2, <2>5 DEF Stuck
    <3> QED
      BY <1>1, <2>3, <2>4, <3>1 DEF Mixing, Active
  <2>6. CASE r.ret = "row"
    <3>1. ~Stuck
      BY <2>6, StuckStays DEF Result
    <3>2. /\ Joined(heights, rgb, y) /\ \A l \in 1..y : rgb[l] # Junk /\ rgb[l].frame = Len(heights)
          /\ y = IF cinfo.output_scanline < IMG_HEIGHT THEN cinfo.output_scanline ELSE IMG_HEIGHT
      BY <1>1, <3>1 DEF Mixing, Written
    <3>3. cinfo.output_scanline \in Nat /\ cinfo'.output_scanline = cinfo.output_scanline + 1
      BY <1>1, <2>1, <2>2, <2>6 DEF CInfo
    <3>4. y' = IF cinfo'.output_scanline < IMG_HEIGHT THEN cinfo'.output_scanline ELSE IMG_HEIGHT
      BY <1>1, <2>1, <3>2, <3>3
    <3>5. /\ Joined(heights, rgb', y')
          /\ \A l \in 1..y' : rgb'[l] # Junk /\ rgb'[l].frame = Len(heights)
      <4>1. CASE y < IMG_HEIGHT
        <5>1. line = Line(Len(heights), y + 1, r.c.buffer) /\ r.c.buffer \in BOOLEAN
          BY <1>1, <2>1, <2>2, <2>6, <3>2, <3>3, <4>1 DEF CInfo
        <5>2. rgb' = [rgb EXCEPT ![y + 1] = Line(Len(heights), y + 1, r.c.buffer)] /\ y' = y + 1
          BY <2>1, <4>1, <5>1 DEF Output
        <5>3. y \in 0..(IMG_HEIGHT - 1)
          BY <1>1, <4>1
        <5> HIDE DEF r
        <5>4. Joined(heights, rgb, y)
          BY <3>2
        <5> QED
          <6>1. PICK right \in BOOLEAN : right = r.c.buffer
            BY <5>1
          <6>2. PICK hs \in Seq(Nat \ {0}), n \in Nat \ {0} : hs = heights /\ n = IMG_HEIGHT
            BY <1>1
          <6>3. rgb \in [1..n -> Lines] /\ y \in 0..(n - 1) /\ Joined(hs, rgb, y) /\ Len(hs) > 0
            BY <1>1, <5>3, <5>4, <6>2
          <6>4. \A l \in 1..y : rgb[l] # Junk /\ rgb[l].frame = Len(hs)
            BY <3>2, <6>2
          <6>5. /\ rgb' \in [1..n -> Lines] /\ \A l \in 1..n : l # y + 1 => rgb'[l] = rgb[l]
                /\ rgb'[y + 1] = Line(Len(hs), y + 1, right)
            BY <1>1, <5>2, <6>1, <6>2, <6>3, JunkTypes
          <6>6. rgb'[y + 1] # Junk /\ rgb'[y + 1].frame = Len(hs) /\ rgb'[y + 1].line = y + 1
            BY <6>3, <6>5 DEF Line, Junk
          <6>7. Joined(hs, rgb', y + 1)
            BY <6>3, <6>4, <6>5, <6>6, JoinedWritten
          <6>8. \A l \in 1..(y + 1) : rgb'[l] # Junk /\ rgb'[l].frame = Len(hs)
            BY <6>3, <6>4, <6>5, <6>6, SMTT(30)
          <6> QED
            BY <5>2, <6>2, <6>7, <6>8
      <4>2. CASE ~(y < IMG_HEIGHT)
        BY <1>1, <2>1, <3>2, <4>2 DEF Output, imageVars
      <4> QED
        BY <4>1, <4>2
    <3> QED
      BY <1>1, <2>3, <2>4, <3>4, <3>5 DEF Mixing, Written, Active, frame
  <2> QED
    BY <2>2, <2>5, <2>6
<1> QED
  BY <1>2, <1>3

LEMMA FinishDecompressMixing == DecoderTypes /\ Mixing /\ FinishDecompress => Mixing'
<1> SUFFICES ASSUME DecoderTypes, Mixing, FinishDecompress PROVE Mixing'
  OBVIOUS
<1> DEFINE r == ConsumeMarker(cinfo)
<1>1. Reading(cinfo, r) /\ cinfo' = r.c
  BY ConsumeMarkerReads DEF DecoderTypes, FinishDecompress
<1>2. /\ pc = "rows" /\ pc' \in {"rows", "return"} /\ cinfo.output_scanline >= file.height
      /\ UNCHANGED <<file, heights, coef, jpegbuffer, y, rgb, IMG_HEIGHT, outside, bmp>>
  BY DEF FinishDecompress, ErrorExit, imageVars
<1> HIDE DEF r
<1>3. /\ cinfo'.output_scanline = cinfo.output_scanline /\ cinfo'.global_state = cinfo.global_state
      /\ cinfo.output_scanline = file.height
      /\ file.height \in Nat \ {0}
  BY <1>1, <1>2, FileTypes DEF Reading, SameOutput, DecoderTypes, CInfo
<1>4. /\ rgb # <<>> /\ IMG_HEIGHT \in Nat \ {0} /\ rgb \in [1..IMG_HEIGHT -> Lines] /\ y \in Nat
      /\ heights \in Seq(Nat \ {0}) /\ frame = Len(heights) /\ Len(heights) > 0
      /\ heights[frame] = file.height
  BY <1>2 DEF DecoderTypes, Active, frame
<1>5. /\ cinfo.global_state = "SCANNING" /\ ~Stuck /\ ~Stuck'
  BY <1>2, <1>3 DEF Mixing, Stuck
<1>6. /\ Joined(heights, bmp, 0) /\ Joined(heights, rgb, y) /\ Written
      /\ y = IF file.height < IMG_HEIGHT THEN file.height ELSE IMG_HEIGHT
  BY <1>2, <1>3, <1>5 DEF Mixing
<1>7. Joined(heights, rgb, 0)
  <2>1. y \in 1..IMG_HEIGHT /\ (y = IMG_HEIGHT \/ y = heights[Len(heights)])
    BY <1>3, <1>4, <1>6
  <2>2. rgb[y] # Junk /\ rgb[y].frame = Len(heights)
    BY <1>4, <1>6, <2>1 DEF Written
  <2> QED
    BY <1>4, <1>6, <2>1, <2>2, JoinedWhole
<1>8. CASE pc' = "rows"
  BY <1>2, <1>3, <1>5, <1>6, <1>8 DEF Mixing, Written, frame, Active
<1>9. CASE pc' = "return"
  BY <1>2, <1>6, <1>7, <1>9 DEF Mixing, Active
<1> QED
  BY <1>2, <1>8, <1>9

LEMMA CopyPixelsMixing == Mixing /\ CopyPixels => Mixing'
<1> SUFFICES ASSUME Mixing, CopyPixels PROVE Mixing'
  OBVIOUS
<1>1. /\ pc = "return" /\ pc' \in {"idle", "stopped", "crashed"} /\ bmp' \in {bmp, rgb}
      /\ UNCHANGED <<heights, rgb>>
  BY DEF CopyPixels, imageVars
<1> QED
  BY <1>1 DEF Mixing, Active

LEMMA FreeCameraMemoryMixing == DecoderTypes /\ Mixing /\ FreeCameraMemory => Mixing'
<1> SUFFICES ASSUME DecoderTypes, FreeCameraMemory PROVE Mixing'
  OBVIOUS
<1>1. /\ pc' = "idle" /\ rgb' = <<>> /\ bmp' = [l \in 1..BmpHeight |-> Junk]
      /\ UNCHANGED heights
  BY DEF FreeCameraMemory
<1>2. BmpHeight \in Nat /\ heights \in Seq(Nat \ {0})
  BY JpegDecoderAssumption DEF DecoderTypes
<1>3. Joined(heights', bmp', 0) /\ Joined(heights', rgb', 0)
  BY <1>1, <1>2, JoinedJunk, JoinedEmpty
<1> QED
  BY <1>1, <1>3 DEF Mixing, Active

LEMMA UnchangedMixing == Mixing /\ UNCHANGED decoderVars => Mixing'
  BY DEF decoderVars, Mixing, Stuck, Written, frame

\* What Mixing says of the bitmap.
LEMMA MixingShows == DecoderTypes /\ Mixing => NoMixedFrame
<1> SUFFICES ASSUME DecoderTypes, Mixing PROVE NoMixedFrame
  OBVIOUS
<1>1. Joined(heights, bmp, 0) /\ DOMAIN bmp = 1..BmpHeight /\ BmpHeight \in Nat
  BY JpegDecoderAssumption DEF Mixing, DecoderTypes
<1>2. \A l \in 1..(BmpHeight - 1) : l \in DOMAIN bmp /\ l + 1 \in DOMAIN bmp /\ l # 0
  BY <1>1
<1> QED
  BY <1>1, <1>2 DEF NoMixedFrame, Joined

-----------------------------------------------------------------------------
(* Failures explained *)

LEMMA InitFailing == DecoderInit => Failing
  BY DEF DecoderInit, Failing, FailuresExplained, Active

LEMMA PixelToBmpFailing == PixelToBmp => Failing'
  BY DEF PixelToBmp, Failing, FailuresExplained, Active

LEMMA ReadHeaderFailing == DecoderTypes /\ Failing /\ ReadHeader => Failing'
<1> SUFFICES ASSUME DecoderTypes, Failing, ReadHeader PROVE Failing'
  OBVIOUS
<1> DEFINE r == ConsumeMarker(cinfo)
<1>1. cinfo \in CInfo /\ Reading(cinfo, r) /\ pc = "header" /\ error = "none"
  BY ConsumeMarkerReads DEF DecoderTypes, ReadHeader, Failing, Active
<1>2. \/ pc' = "header" /\ UNCHANGED <<starved, error>>
      \/ pc' = "start" /\ cinfo' = [r.c EXCEPT !.global_state = "READY"] /\ UNCHANGED <<starved, error>>
      \/ pc' = "start" /\ starved' = TRUE /\ UNCHANGED error
      \/ pc' = "return" /\ pools' = {} /\ error' \in (Codes \cup {"NO_IMAGE"}) /\ UNCHANGED starved
  BY <1>1 DEF ReadHeader, ErrorExit, Reading
<1> HIDE DEF r
<1>3. pc' = "start" => starved' \/ cinfo'.global_state = "READY"
  BY <1>1, <1>2 DEF Reading, CInfo
<1>4. \A code \in Codes \cup {"NO_IMAGE"} : code # "BAD_STATE" /\ code # "none"
  BY DEF Codes
<1> QED
  BY <1>1, <1>2, <1>3, <1>4 DEF Failing, FailuresExplained, Active

LEMMA StartDecompressFailing == DecoderTypes /\ Failing /\ StartDecompress => Failing'
<1> SUFFICES ASSUME DecoderTypes, Failing, StartDecompress PROVE Failing'
  OBVIOUS
<1> DEFINE r == MasterSelection(LoadDht(cinfo))
<1>1. r.ret \in Codes \cup {"BAD_J_COLORSPACE"}
  BY MasterSelectionReads DEF DecoderTypes
<1>2. /\ pc = "start" /\ UNCHANGED <<starved, rgb>> /\ error = "none"
      /\ \/ pc' \in {"absorb", "output"} /\ UNCHANGED error
         \/ pc' = "return" /\ pools' = {} /\ error' = "BAD_STATE" /\ cinfo.global_state # "READY"
         \/ pc' = "return" /\ pools' = {} /\ error' = r.ret
  BY DEF StartDecompress, ErrorExit, imageVars, Failing, Active
<1> HIDE DEF r
<1>3. \A code \in Codes \cup {"BAD_J_COLORSPACE"} : code # "BAD_STATE" /\ code # "none"
  BY DEF Codes
<1> QED
  BY <1>1, <1>2, <1>3 DEF Failing, FailuresExplained, Active

LEMMA AbsorbFailing == DecoderTypes /\ Failing /\ Absorb => Failing'
<1> SUFFICES ASSUME DecoderTypes, Failing, Absorb PROVE Failing'
  OBVIOUS
<1> DEFINE r == ConsumeMarker(cinfo)
<1>1. Reading(cinfo, r) /\ pc = "absorb" /\ error = "none"
  BY ConsumeMarkerReads DEF DecoderTypes, Absorb, Failing, Active
<1>2. AbsorbSteps
  BY AbsorbCases
<1>3. \/ pc' = "buffers" /\ starved' = TRUE /\ UNCHANGED error
      \/ pc' \in {"absorb", "output"} /\ UNCHANGED <<starved, error>>
      \/ pc' = "return" /\ pools' = {} /\ error' = r.ret
  BY <1>1, <1>2 DEF AbsorbSteps, ErrorExit
<1> HIDE DEF r
<1>4. \A code \in Codes : code # "BAD_STATE" /\ code # "none"
  BY DEF Codes
<1> QED
  BY <1>1, <1>3, <1>4 DEF Failing, FailuresExplained, Active, Reading

LEMMA OutputPassSetupFailing == DecoderTypes /\ Failing /\ OutputPassSetup => Failing'
  BY DEF DecoderTypes, CInfo, Failing, FailuresExplained, Active, OutputPassSetup

LEMMA AllocBuffersFailing == Failing /\ AllocBuffers => Failing'
<1> SUFFICES ASSUME Failing, AllocBuffers PROVE Failing'
  OBVIOUS
<1>1. pc = "buffers" /\ pc' = "rows" /\ UNCHANGED <<cinfo, starved, error>>
  BY DEF AllocBuffers
<1> QED
  BY <1>1 DEF Failing, FailuresExplained, Active

LEMMA ReadScanlineFailing == DecoderTypes /\ Mixing /\ Failing /\ ReadScanline => Failing'
<1> SUFFICES ASSUME DecoderTypes, Mixing, Failing, ReadScanline PROVE Failing'
  OBVIOUS
<1> DEFINE r == ProcessData(cinfo)
           line == IF r.ret = "row" THEN Line(frame, r.c.output_scanline, r.c.buffer) ELSE jpegbuffer
<1>1. /\ pc = "rows" /\ cinfo \in CInfo /\ cinfo.output_scanline < file.height
      /\ error = "none" /\ (cinfo.global_state # "SCANNING" => starved)
      /\ UNCHANGED file /\ IMG_HEIGHT \in Nat /\ y \in Nat /\ file.height \in Nat
      /\ IMG_HEIGHT > 0
  BY FileTypes DEF ReadScanline, DecoderTypes, Active, Failing
<1>2. CASE cinfo.global_state # "SCANNING"
  <2>1. starved /\ UNCHANGED starved /\ pc' = "return" /\ pools' = {} /\ error' = "BAD_STATE"
    BY <1>1, <1>2 DEF ReadScanline, ErrorExit
  <2> QED
    BY <2>1 DEF Failing, FailuresExplained, Active
<1>3. CASE cinfo.global_state = "SCANNING"
  <2>1. /\ cinfo' = r.c /\ starved' = (starved \/ r.ret = "suspended") /\ UNCHANGED error
        /\ Output(line)
    BY <1>3 DEF ReadScanline
  <2>2. /\ r.ret \in {"row", "suspended"} /\ r.c.global_state = cinfo.global_state
        /\ r.ret = "suspended" => r.c = cinfo /\ ~cinfo.has_multiple_scans
    BY <1>1, ProcessDataTypes DEF DecoderTypes
  <2>3. /\ pc' \in {"rows", "crashed"} /\ IMG_HEIGHT' = IMG_HEIGHT
        /\ pc' = "crashed" => ~(y < IMG_HEIGHT)
    BY <1>1, <2>1 DEF Output, imageVars
  <2>4. CASE r.ret = "suspended"
    <3>1. starved' /\ cinfo'.global_state = "SCANNING" /\ ~cinfo'.has_multiple_scans
      BY <1>3, <2>1, <2>2, <2>4
    <3> QED
      BY <1>1, <2>1, <2>3, <3>1 DEF Failing, FailuresExplained, Active
  <2>5. CASE r.ret = "row"
    <3>1. ~Stuck
      BY <2>5, StuckStays DEF Result
    <3>2. y = IF cinfo.output_scanline < IMG_HEIGHT THEN cinfo.output_scanline ELSE IMG_HEIGHT
      BY <1>1, <3>1 DEF Mixing
    <3>3. pc' = "crashed" => file.height > IMG_HEIGHT
      BY <1>1, <2>3, <3>2 DEF CInfo
    <3>4. cinfo'.global_state = "SCANNING"
      BY <1>3, <2>1, <2>2
    <3> QED
      BY <1>1, <2>1, <2>3, <3>3, <3>4 DEF Failing, FailuresExplained, Active
  <2> QED
    BY <2>2, <2>4, <2>5
<1> QED
  BY <1>2, <1>3

LEMMA FinishDecompressFailing == DecoderTypes /\ Failing /\ FinishDecompress => Failing'
<1> SUFFICES ASSUME DecoderTypes, Failing, FinishDecompress PROVE Failing'
  OBVIOUS
<1> DEFINE r == ConsumeMarker(cinfo)
<1>1. /\ Reading(cinfo, r) /\ cinfo' = r.c /\ pc = "rows" /\ error = "none"
      /\ rgb # <<>> /\ UNCHANGED rgb
  BY ConsumeMarkerReads DEF DecoderTypes, FinishDecompress, Failing, Active, imageVars
<1>2. \/ pc' = "rows" /\ UNCHANGED <<starved, error>>
      \/ pc' = "return" /\ pools' = {} /\ error' \in {error, r.ret}
  BY <1>1 DEF FinishDecompress, ErrorExit
<1> HIDE DEF r
<1>3. \A code \in Codes : code # "BAD_STATE"
  BY DEF Codes
<1>4. cinfo'.global_state = cinfo.global_state
  BY <1>1 DEF Reading, SameOutput
<1> QED
  BY <1>1, <1>2, <1>3, <1>4 DEF Failing, FailuresExplained, Active, Reading

LEMMA CopyPixelsFailing == Failing /\ CopyPixels => Failing'
<1> SUFFICES ASSUME Failing, CopyPixels PROVE Failing'
  OBVIOUS
<1>1. /\ pc = "return" /\ UNCHANGED <<file, cinfo, pools, rgb, IMG_HEIGHT, starved, error>>
      /\ \/ pc' \in {"stopped", "idle"}
         \/ pc' = "crashed" /\ rgb = <<>>
  BY DEF CopyPixels, imageVars
<1> QED
  BY <1>1 DEF Failing, FailuresExplained, Active

LEMMA FreeCameraMemoryFailing == Failing /\ FreeCameraMemory => Failing'
  BY DEF Failing, FailuresExplained, Active, FreeCameraMemory

LEMMA UnchangedFailing == Failing /\ UNCHANGED decoderVars => Failing'
  BY DEF decoderVars, Failing, FailuresExplained, Active

-----------------------------------------------------------------------------
(* The complete frame is shown *)

\* Where the markers of a complete file are.
Shape ==
    LET data == file.data
    IN /\ Len(data) \in Nat
       /\ \A i \in 1..Len(data) : data[i] \in Tokens \ {"bad"}
       /\ \A i \in 1..Len(data) : (data[i] = "SOI" <=> i = 1) /\ (data[i] = "EOI" <=> i = Len(data))
       /\ \A i \in 1..Len(data) : data[i] \in Scans <=> i \in ScanStarts
       /\ First \in ScanStarts /\ First > 1 /\ \A s \in ScanStarts : First <= s
       /\ ScanStarts \subseteq 1..Len(data)
       /\ \E i \in 1..(First - 1) : Positions("SOF") = {i}
       /\ \E i \in 1..(First - 1) : i \in Positions("DQT")
       /\ \A i \in 1..Len(data) : data[i] = "DHT" => First < i
       /\ \A s \in ScanStarts : \A k \in 1..Rows(file) : s + k < Len(data) /\ data[s + k] = "row"
       /\ file.components = {"Y", "C"}
       /\ \A s \in ScanStarts : Components(data[s]) \subseteq {"Y", "C"}
       /\ \A comp \in {"Y", "C"} : \E s \in ScanStarts : comp \in Components(data[s])

LEMMA CompleteShape ==
  ASSUME file \in Files \cup {NoFile}, Complete
  PROVE  Shape
<1> DEFINE data == file.data
<1>1. data \in Seq(Tokens) /\ Len(data) \in Nat /\ DOMAIN data = 1..Len(data)
  BY FileTypes
<1>2. \A i \in 1..Len(data) : data[i] \in Tokens
  BY <1>1
<1>3. \A token : \A i : i \in Positions(token) <=> i \in 1..Len(data) /\ data[i] = token
  BY <1>1 DEF Positions
<1>4. \A i : i \in ScanStarts <=> i \in 1..Len(data) /\ data[i] \in Scans
  <2>1. \A i : i \in ScanStarts <=> \E sos \in Scans : i \in Positions(sos)
    BY DEF ScanStarts
  <2> QED
    BY <1>3, <2>1
<1>5. file.components = {"Y", "C"} /\ UNION {Components(data[i]) : i \in ScanStarts} = {"Y", "C"}
  BY DEF Complete
<1>6. \A comp \in {"Y", "C"} : \E s \in ScanStarts : comp \in Components(data[s])
  BY <1>5
<1>7. \A s \in ScanStarts : Components(data[s]) \subseteq {"Y", "C"}
  BY <1>5
<1>8. ScanStarts \in SUBSET Nat /\ ScanStarts # {}
  BY <1>1, <1>4, <1>6
<1>9. First \in ScanStarts /\ \A s \in ScanStarts : First <= s
  BY <1>8, MinExists DEF First
<1>10. Positions("SOI") = {1} /\ Positions("EOI") = {Len(data)} /\ Positions("bad") = {}
  BY DEF Complete
<1>11. \A i \in 1..Len(data) : /\ data[i] # "bad"
                               /\ data[i] = "SOI" <=> i = 1
                               /\ data[i] = "EOI" <=> i = Len(data)
  BY <1>3, <1>10
<1>12. First \in 1..Len(data) /\ First > 1
  <2>1. First \in 1..Len(data) /\ data[First] \in Scans
    BY <1>4, <1>9
  <2>2. data[First] # "SOI"
    BY <2>1 DEF Scans
  <2>3. First # 1
    BY <1>11, <2>1, <2>2
  <2> QED
    BY <1>1, <2>1, <2>3
<1>13. PICK i \in Positions("SOF") : Positions("SOF") = {i} /\ Before(i, ScanStarts)
  BY DEF Complete
<1>14. i \in 1..(First - 1)
  BY <1>1, <1>3, <1>9, <1>12, <1>13 DEF Before
<1>15. PICK j \in Positions("DQT") : Before(j, ScanStarts)
  BY DEF Complete
<1>16. j \in 1..(First - 1)
  BY <1>1, <1>3, <1>9, <1>12, <1>15 DEF Before
<1>17. ASSUME NEW k \in 1..Len(data), data[k] = "DHT" PROVE First < k
  <2>1. PICK s \in ScanStarts : s < k
    BY <1>3, <1>17 DEF Complete
  <2> QED
    BY <1>1, <1>8, <1>9, <1>12, <2>1
<1>18. \A s \in ScanStarts : \A k \in 1..Rows(file) : s + k < Len(data) /\ data[s + k] = "row"
  BY DEF Complete
<1>19. ScanStarts \subseteq 1..Len(data)
  BY <1>4
<1> QED
  BY <1>1, <1>2, <1>4, <1>5, <1>6, <1>7, <1>9, <1>11, <1>12, <1>13, <1>14, <1>15, <1>16, <1>17,
     <1>18, <1>19 DEF Shape

\* Without a table among them, the tokens in between do not change what a file is coded with.
LEMMA CodedWithSame ==
  ASSUME NEW a \in Nat, NEW b \in Nat, a <= b, \A k \in a..(b - 1) : file.data[k] # "DHT"
  PROVE  CodedWith(b) = CodedWith(a)
<1>1. (\E k \in 1..(b - 1) : file.data[k] = "DHT") <=> (\E k \in 1..(a - 1) : file.data[k] = "DHT")
  <2>1. \A k \in 1..(b - 1) : k \in 1..(a - 1) \/ k \in a..(b - 1)
    OBVIOUS
  <2>2. \A k \in 1..(a - 1) : k \in 1..(b - 1)
    OBVIOUS
  <2> QED
    BY <2>1, <2>2
<1> QED
  BY <1>1 DEF CodedWith

\* The marker that comes next in a complete file is processed.
LEMMA ConsumeNext ==
  ASSUME NEW c \in CInfo, file \in Files \cup {NoFile}, Shape,
         ~c.eoi_reached, c.saw_SOI \/ c.at = 1, c.at <= Len(file.data)
  PROVE  \E m \in c.at..Len(file.data), d \in CInfo :
            /\ file.data[m] \in Tokens \ {"row", "bad"}
            /\ \A k \in c.at..(m - 1) : file.data[k] = "row"
            /\ ConsumeMarker(c) = Process(d, file.data[m])
            /\ d = [c EXCEPT !.at = m + 1]
<1> DEFINE n == Len(file.data)
           ahead == {k \in c.at..n : file.data[k] # "row"}
           m == Min(ahead)
           d == [c EXCEPT !.at = m + 1]
<1>1. c.at \in 1..n /\ n \in Nat
  BY DEF Shape, CInfo
<1>2. n \in ahead
  BY <1>1, SMTT(30) DEF Shape
<1>3. /\ m \in c.at..n /\ m \in DOMAIN file.data /\ file.data[m] \in Tokens \ {"row"}
      /\ \A k \in c.at..(m - 1) : file.data[k] = "row"
  <2>1. ahead = {k \in c.at..Len(file.data) : file.data[k] # "row"}
    OBVIOUS
  <2> HIDE DEF ahead
  <2> QED
    BY <1>2, <2>1, NextMarker
<1>4. file.data[m] # "bad"
  <2> HIDE DEF m
  <2>1. m \in 1..n
    BY <1>1, <1>3
  <2> QED
    BY <2>1 DEF Shape
<1>5. c.at = 1 => file.data[c.at] = "SOI"
  BY <1>1 DEF Shape
<1>6. ConsumeMarker(c) = Process(d, file.data[m])
  <2>1. ahead # {}
    BY <1>2
  <2>2. ~(~c.saw_SOI /\ c.at <= Len(file.data) /\ file.data[c.at] # "SOI")
    BY <1>5
  <2> QED
    BY <2>1, <2>2 DEF ConsumeMarker
<1>7. d \in CInfo
  <2>1. m + 1 \in Nat \ {0}
    BY <1>1, <1>3
  <2> QED
    BY <2>1 DEF CInfo
<1> HIDE DEF m
<1> QED
  BY <1>3, <1>4, <1>6, <1>7

LEMMA HeaderStep ==
  ASSUME NEW c \in CInfo, file \in Files \cup {NoFile}, Shape, InHeader(c)
  PROVE  LET r == ConsumeMarker(c)
         IN \/ r.ret = "more" /\ InHeader(r.c)
            \/ r.ret = "SOS" /\ r.c \in CInfo /\ AtFirstScan([r.c EXCEPT !.global_state = "READY"])
<1> DEFINE data == file.data
           r == ConsumeMarker(c)
<1>1. /\ c.at \in 1..First /\ First \in 1..Len(data) /\ Len(data) \in Nat /\ First > 1
      /\ data[First] \in Scans
  BY DEF InHeader, Shape
<1>2. c.saw_SOI \/ c.at = 1
  BY <1>1 DEF InHeader
<1>3. PICK m \in c.at..Len(data), d \in CInfo :
         /\ data[m] \in Tokens \ {"row", "bad"}
         /\ \A k \in c.at..(m - 1) : data[k] = "row"
         /\ r = Process(d, data[m])
         /\ d = [c EXCEPT !.at = m + 1]
  BY <1>1, <1>2, ConsumeNext DEF InHeader
<1>4. m \in 1..First
  <2>1. data[First] # "row"
    BY <1>1 DEF Scans
  <2> QED
    BY <1>1, <1>3, <2>1
<1>5. /\ d.at = m + 1 /\ d.saw_SOI = c.saw_SOI /\ d.saw_SOF = c.saw_SOF /\ d.inheaders
      /\ ~d.eoi_reached /\ Fresh(d) /\ d.quant = c.quant /\ d.comps = c.comps
  BY <1>3 DEF InHeader, Fresh, CInfo
<1>6. m \in 1..Len(data) /\ c.at \in 1..Len(data)
  BY <1>1, <1>3
<1>7. data[m] = "SOI" <=> m = 1
  BY <1>6 DEF Shape
<1>8. data[m] # "SOI" => c.at > 1
  <2>1. SUFFICES ASSUME c.at = 1, m # 1 PROVE FALSE
    BY <1>1, <1>7
  <2>2. data[1] = "row"
    BY <1>3, <1>6, <2>1
  <2>3. data[1] = "SOI"
    BY <1>6, <2>1 DEF Shape
  <2> QED
    BY <2>2, <2>3
<1>9. PICK i \in 1..(First - 1) : Positions("SOF") = {i}
  BY DEF Shape
<1>10. i \in 1..Len(data) /\ data[i] = "SOF" /\ \A k \in 1..Len(data) : data[k] = "SOF" => k = i
  <2>1. DOMAIN data = 1..Len(data)
    BY FileTypes
  <2> QED
    BY <1>9, <2>1 DEF Positions
<1>11. (data[m] = "SOF" <=> m = i) /\ (c.saw_SOF <=> i < c.at) /\ (i < m => i < c.at)
  <2>1. c.saw_SOF <=> i < c.at
    BY <1>9 DEF InHeader
  <2>2. i < m => i < c.at
    BY <1>1, <1>3, <1>6, <1>10, SMTT(30)
  <2> QED
    BY <1>6, <1>10, <2>1, <2>2
<1>12. ASSUME NEW j \in 1..Len(data), data[j] = "DQT", j < m PROVE j < c.at
  BY <1>1, <1>3, <1>6, <1>12, SMTT(30)
<1>13. CASE m < First
  <2>1. data[m] \in {"SOI", "SOF", "DQT", "misc"}
    <3>1. data[m] \notin Scans
      BY <1>6, <1>13 DEF Shape
    <3>2. data[m] # "EOI" /\ data[m] # "DHT"
      BY <1>1, <1>6, <1>13 DEF Shape
    <3> QED
      BY <1>3, <3>1, <3>2 DEF Tokens
  <2> DEFINE Noted(e) == /\ e \in CInfo /\ e.at = m + 1 /\ e.inheaders /\ ~e.eoi_reached /\ Fresh(e)
                         /\ e.saw_SOI
                         /\ e.saw_SOF <=> i < m + 1
                         /\ (\E j \in Positions("DQT") : j < m + 1) => e.quant
  <2>2. ASSUME NEW e, Noted(e) PROVE InHeader(e)
    <3>1. e.at \in 1..First /\ e.at > 1
      BY <1>1, <1>4, <1>13, <2>2
    <3>2. (\E k \in Positions("SOF") : k < e.at) <=> i < m + 1
      BY <1>9, <2>2
    <3> QED
      BY <2>2, <3>1, <3>2 DEF InHeader
  <2>3. c.saw_SOI \/ data[m] = "SOI"
    BY <1>2, <1>8
  <2>4. \A j \in Positions("DQT") : j < m + 1 => j < c.at \/ data[m] = "DQT"
    <3>1. DOMAIN data = 1..Len(data)
      BY FileTypes
    <3> QED
      BY <1>1, <1>6, <1>12, <3>1 DEF Positions
  <2>5. (\E j \in Positions("DQT") : j < m + 1) => c.quant \/ data[m] = "DQT"
    BY <2>4 DEF InHeader
  <2>6. i < m + 1 <=> (i < c.at \/ data[m] = "SOF")
    BY <1>1, <1>6, <1>10, <1>11, <1>3
  <2>7. data[m] = "SOI" => ~d.saw_SOI
    BY <1>1, <1>3, <1>5, <1>7 DEF InHeader
  <2>8. data[m] = "SOF" => ~d.saw_SOF
    BY <1>1, <1>3, <1>5, <1>6, <1>11
  <2>9. r.ret = "more" /\ Noted(r.c)
    <3>1. CASE data[m] = "SOI"
      <4>1. r = Result([d EXCEPT !.saw_SOI = TRUE], "more")
        BY <1>3, <2>7, <3>1 DEF Process, GetSOI, Scans
      <4>2. PICK e \in CInfo : e = [d EXCEPT !.saw_SOI = TRUE]
        BY DEF CInfo
      <4>3. /\ e.at = d.at /\ e.inheaders = d.inheaders /\ e.eoi_reached = d.eoi_reached
            /\ e.output_row = d.output_row /\ e.output_scanline = d.output_scanline
            /\ e.buffer_full = d.buffer_full /\ e.line = d.line
            /\ e.saw_SOI /\ e.saw_SOF = d.saw_SOF /\ e.quant = d.quant
        BY <4>2 DEF CInfo
      <4>4. Noted(e)
        BY <1>5, <1>11, <2>3, <2>5, <2>6, <3>1, <4>3 DEF Fresh
      <4>5. r.ret = "more" /\ r.c = e
        BY <4>1, <4>2 DEF Result
      <4> HIDE DEF Noted, r
      <4> QED
        BY <4>4, <4>5
    <3>2. CASE data[m] = "SOF"
      <4>1. r = Result([d EXCEPT !.saw_SOF = TRUE], "more")
        BY <1>3, <2>8, <3>2 DEF Process, GetSOF, Scans
      <4>2. PICK e \in CInfo : e = [d EXCEPT !.saw_SOF = TRUE]
        BY DEF CInfo
      <4>3. /\ e.at = d.at /\ e.inheaders = d.inheaders /\ e.eoi_reached = d.eoi_reached
            /\ e.output_row = d.output_row /\ e.output_scanline = d.output_scanline
            /\ e.buffer_full = d.buffer_full /\ e.line = d.line
            /\ e.saw_SOF /\ e.saw_SOI = d.saw_SOI /\ e.quant = d.quant
        BY <4>2 DEF CInfo
      <4>4. Noted(e)
        BY <1>5, <1>11, <2>3, <2>5, <2>6, <3>2, <4>3 DEF Fresh
      <4>5. r.ret = "more" /\ r.c = e
        BY <4>1, <4>2 DEF Result
      <4> HIDE DEF Noted, r
      <4> QED
        BY <4>4, <4>5
    <3>3. CASE data[m] = "DQT"
      <4>1. r = Result([d EXCEPT !.quant = TRUE], "more")
        BY <1>3, <3>3 DEF Process, GetDQT, Scans
      <4>2. PICK e \in CInfo : e = [d EXCEPT !.quant = TRUE]
        BY DEF CInfo
      <4>3. /\ e.at = d.at /\ e.inheaders = d.inheaders /\ e.eoi_reached = d.eoi_reached
            /\ e.output_row = d.output_row /\ e.output_scanline = d.output_scanline
            /\ e.buffer_full = d.buffer_full /\ e.line = d.line
            /\ e.quant /\ e.saw_SOI = d.saw_SOI /\ e.saw_SOF = d.saw_SOF
        BY <4>2 DEF CInfo
      <4>4. Noted(e)
        BY <1>5, <1>11, <2>3, <2>5, <2>6, <3>3, <4>3 DEF Fresh
      <4>5. r.ret = "more" /\ r.c = e
        BY <4>1, <4>2 DEF Result
      <4> HIDE DEF Noted, r
      <4> QED
        BY <4>4, <4>5
    <3>4. CASE data[m] = "misc"
      <4>1. r = Result(d, "more")
        BY <1>3, <3>4 DEF Process, SkipVariable, Scans
      <4> QED
        BY <1>5, <1>11, <2>3, <2>5, <2>6, <3>4, <4>1 DEF Result
    <3> QED
      BY <2>1, <3>1, <3>2, <3>3, <3>4
  <2> QED
    BY <2>2, <2>9
<1>14. CASE m = First
  <2>1. PICK comps \in SUBSET {"Y", "C"} : comps = Components(data[m])
    BY <1>1, <1>14 DEF Shape
  <2> DEFINE e == [d EXCEPT !.comps = comps]
             f == InitialSetup(e)
  <2>2. d.saw_SOI /\ d.saw_SOF /\ d.quant
    <3>1. c.at > 1
      BY <1>1, <1>7, <1>8, <1>14
    <3>2. \E j \in Positions("DQT") : j < c.at
      <4>1. DOMAIN data = 1..Len(data)
        BY FileTypes
      <4>2. PICK j \in 1..(First - 1) : j \in Positions("DQT")
        BY DEF Shape
      <4> QED
        BY <1>1, <1>12, <1>14, <4>1, <4>2 DEF Positions
    <3> QED
      BY <1>1, <1>5, <1>11, <1>14, <3>1, <3>2 DEF InHeader
  <2>3. GetSOS(d, comps) = Result(e, "SOS")
    <3>1. comps \subseteq file.components
      BY DEF Shape
    <3> QED
      BY <2>2, <3>1 DEF GetSOS
  <2>4. Process(d, data[m]) = ReachedSOS(GetSOS(d, comps))
    BY <1>1, <1>14, <2>1 DEF Process, Scans
  <2>5. e \in CInfo /\ e.inheaders
    BY <1>5 DEF CInfo
  <2>6. r = Result(f, "SOS")
    <3>1. r = ReachedSOS(Result(e, "SOS"))
      BY <1>3, <2>3, <2>4
    <3>2. Result(e, "SOS").ret = "SOS" /\ Result(e, "SOS").c = e
      BY DEF Result
    <3> QED
      BY <2>5, <3>1, <3>2 DEF ReachedSOS
  <2>7. PICK g : g = e
    OBVIOUS
  <2>8. /\ g \in CInfo /\ g.comps = comps /\ g.at = m + 1 /\ g.saw_SOI /\ g.saw_SOF /\ g.quant
        /\ ~g.eoi_reached /\ Fresh(g)
    <3>1. /\ g.comps = comps /\ g.at = d.at /\ g.saw_SOI = d.saw_SOI /\ g.saw_SOF = d.saw_SOF
          /\ g.quant = d.quant /\ g.eoi_reached = d.eoi_reached /\ g.output_row = d.output_row
          /\ g.output_scanline = d.output_scanline /\ g.buffer_full = d.buffer_full
          /\ g.line = d.line
      BY <2>7 DEF CInfo
    <3> QED
      BY <1>5, <2>2, <2>5, <2>7, <3>1 DEF Fresh
  <2>9. PICK many \in BOOLEAN : many = (comps # file.components)
    OBVIOUS
  <2>10. f = [g EXCEPT !.inheaders = FALSE, !.has_multiple_scans = many]
    BY <2>7, <2>8, <2>9 DEF InitialSetup
  <2> HIDE DEF e
  <2>15. PICK k : k = f
    OBVIOUS
  <2>11. /\ k \in CInfo /\ ~k.inheaders /\ k.has_multiple_scans = many
         /\ k.comps = g.comps /\ k.at = g.at /\ k.saw_SOI = g.saw_SOI /\ k.saw_SOF = g.saw_SOF
         /\ k.quant = g.quant /\ k.eoi_reached = g.eoi_reached /\ k.output_row = g.output_row
         /\ k.output_scanline = g.output_scanline /\ k.buffer_full = g.buffer_full
         /\ k.line = g.line
    <3> HIDE DEF f
    <3>1. g \in CInfo /\ k = [g EXCEPT !.inheaders = FALSE, !.has_multiple_scans = many]
      BY <2>8, <2>10, <2>15
    <3> QED
      BY <3>1, ZenonT(30) DEF CInfo
  <2>12. PICK h : h = [k EXCEPT !.global_state = "READY"]
    OBVIOUS
  <2>13. /\ h.global_state = "READY" /\ ~h.inheaders /\ h.has_multiple_scans = many
         /\ h.comps = comps /\ h.at = m + 1 /\ h.saw_SOI /\ h.saw_SOF /\ h.quant
         /\ ~h.eoi_reached /\ Fresh(h)
    <3>1. /\ h.global_state = "READY" /\ h.inheaders = k.inheaders
          /\ h.has_multiple_scans = k.has_multiple_scans
          /\ h.comps = k.comps /\ h.at = k.at /\ h.saw_SOI = k.saw_SOI /\ h.saw_SOF = k.saw_SOF
          /\ h.quant = k.quant /\ h.eoi_reached = k.eoi_reached /\ h.output_row = k.output_row
          /\ h.output_scanline = k.output_scanline /\ h.buffer_full = k.buffer_full
          /\ h.line = k.line
      BY <2>11, <2>12 DEF CInfo
    <3> QED
      BY <2>8, <2>11, <3>1 DEF Fresh
  <2>14. AtFirstScan(h)
    BY <1>14, <2>1, <2>9, <2>13 DEF AtFirstScan, HeaderRead
  <2>16. r.ret = "SOS" /\ r.c = k
    BY <2>6, <2>15 DEF Result
  <2>17. r.ret = "SOS" /\ r.c \in CInfo /\ AtFirstScan([r.c EXCEPT !.global_state = "READY"])
    <3> HIDE DEF r
    <3> QED
      BY <2>11, <2>12, <2>14, <2>16
  <2> QED
    BY <2>17
<1> QED
  BY <1>1, <1>4, <1>13, <1>14

\* What was read of the header is still there, and nothing was output.
SameHeader(c, d) ==
    /\ d.inheaders = c.inheaders /\ d.eoi_reached = c.eoi_reached /\ d.saw_SOI = c.saw_SOI
    /\ d.saw_SOF = c.saw_SOF /\ d.quant = c.quant /\ d.has_multiple_scans = c.has_multiple_scans
    /\ SameOutput(c, d)

LEMMA SameHeaderRead ==
  ASSUME NEW c, NEW d, HeaderRead(c), SameHeader(c, d)
  PROVE  HeaderRead(d)
  BY DEF HeaderRead, SameHeader, SameOutput, Fresh

\* A scan is started with the tables that are there.
LEMMA ScanStarted ==
  ASSUME NEW c \in CInfo, c.quant, c.tables # "none"
  PROVE  \E d \in CInfo :
            /\ StartInputPass(c) = Result(d, "SOS") /\ SameHeader(c, d)
            /\ d.at = c.at /\ d.comps = c.comps /\ d.tables = c.tables /\ d.derived = c.tables
            /\ d.input_row = 0
            /\ d.consume_input = IF c.has_multiple_scans THEN "data" ELSE "dummy"
<1>1. PICK e : e = [c EXCEPT !.derived = c.tables]
  OBVIOUS
<1>2. /\ e \in CInfo /\ e.derived = c.tables /\ e.at = c.at /\ e.comps = c.comps
      /\ e.tables = c.tables
      /\ SameHeader(c, e)
  BY <1>1 DEF CInfo, SameHeader, SameOutput
<1>3. PICK from \in {"data", "dummy"} : from = IF c.has_multiple_scans THEN "data" ELSE "dummy"
  OBVIOUS
<1>4. PICK d : d = [e EXCEPT !.input_row = 0, !.consume_input = from]
  OBVIOUS
<1>5. /\ d \in CInfo /\ d.derived = e.derived /\ d.at = e.at /\ d.comps = e.comps
      /\ d.tables = e.tables
      /\ d.input_row = 0 /\ d.consume_input = from /\ SameHeader(e, d)
  BY <1>2, <1>4 DEF CInfo, SameHeader, SameOutput
<1>6. LatchQuantTables(c) = Result(c, "SOS") /\ StartPassHuff(c) = Result(e, "SOS")
  BY <1>1 DEF LatchQuantTables, StartPassHuff
<1>7. StartInputPass(c) = Result(d, "SOS")
  <2>1. LatchQuantTables(c).ret = "SOS" /\ StartPassHuff(c).ret = "SOS" /\ StartPassHuff(c).c = e
    BY <1>6 DEF Result
  <2> QED
    BY <1>3, <1>4, <2>1 DEF StartInputPass
<1>8. SameHeader(c, d)
  BY <1>2, <1>5 DEF SameHeader, SameOutput
<1> QED
  BY <1>2, <1>3, <1>5, <1>7, <1>8

LEMMA StartStep ==
  ASSUME NEW c \in CInfo, file \in Files \cup {NoFile}, Shape, AtFirstScan(c), NEW co
  PROVE  \E d \in CInfo :
            /\ MasterSelection(LoadDht(c)) = Result(d, "SOS")
            /\ d.has_multiple_scans = c.has_multiple_scans
            /\ d.global_state = c.global_state
            /\ c.has_multiple_scans => Absorbing(d, co)
            /\ ~c.has_multiple_scans => Fresh(d) /\ RowsComing(d, co)
<1>1. PICK e : e = [c EXCEPT !.tables = "standard"]
  OBVIOUS
<1>2. /\ e \in CInfo /\ e.tables = "standard" /\ SameHeader(c, e) /\ e.at = c.at
      /\ e.comps = c.comps
  BY <1>1 DEF CInfo, SameHeader, SameOutput
<1>3. PICK d \in CInfo :
            /\ StartInputPass(e) = Result(d, "SOS") /\ SameHeader(e, d)
            /\ d.at = e.at /\ d.comps = e.comps /\ d.tables = e.tables /\ d.derived = e.tables
            /\ d.input_row = 0
            /\ d.consume_input = IF e.has_multiple_scans THEN "data" ELSE "dummy"
  <2>1. e.quant
    BY <1>2 DEF AtFirstScan, HeaderRead, SameHeader
  <2> QED
    BY <1>2, <2>1, ScanStarted
<1>4. MasterSelection(LoadDht(c)) = Result(d, "SOS")
  BY <1>1, <1>3 DEF MasterSelection, LoadDht, Shape
<1>5. SameHeader(c, d)
  BY <1>2, <1>3 DEF SameHeader, SameOutput
<1>6. HeaderRead(d) /\ d.at = First + 1 /\ d.comps = Components(file.data[First])
  BY <1>2, <1>3, <1>5, SameHeaderRead DEF AtFirstScan
<1>7. First \in ScanStarts /\ First \in 1..Len(file.data) /\ Len(file.data) \in Nat /\ First > 1
  BY DEF Shape
<1>8. CodedWith(First) = "standard" /\ CodedWith(First + 1) = "standard"
  BY <1>7 DEF CodedWith, Shape
<1>9. Rows(file) > 0 /\ First + 1 < Len(file.data)
  BY RowsTypes, <1>7 DEF Shape
<1>10. ASSUME c.has_multiple_scans PROVE Absorbing(d, co)
  <2>1. d.consume_input = "data" /\ d.has_multiple_scans /\ d.input_row = 0
    BY <1>2, <1>3, <1>5, <1>10 DEF SameHeader
  <2>2. ScansRead(co, First)
    BY <1>7 DEF ScansRead, Shape
  <2>3. RowsRead(co, d.comps, d.input_row)
    BY <2>1 DEF RowsRead
  <2>4. InScan(d, co, First)
    BY <1>2, <1>3, <1>6, <1>7, <1>8, <1>9, <2>1, <2>2, <2>3 DEF InScan
  <2> QED
    BY <1>2, <1>3, <1>6, <1>7, <1>8, <1>9, <2>1, <2>4 DEF Absorbing
<1>11. ASSUME ~c.has_multiple_scans PROVE Fresh(d) /\ RowsComing(d, co)
  BY <1>2, <1>3, <1>5, <1>6, <1>7, <1>11 DEF HeaderRead, Fresh, RowsComing, SameHeader
<1> QED
  BY <1>4, <1>5, <1>10, <1>11 DEF SameHeader, SameOutput

\* In a scan the next iMCU row is there, and right.
LEMMA RowAhead ==
  ASSUME NEW c \in CInfo, file \in Files \cup {NoFile}, Shape, NEW s \in ScanStarts,
         NEW k \in 0..(Rows(file) - 1), c.at = s + 1 + k, c.derived = CodedWith(s)
  PROVE  /\ DecodeRow(c) = [suspended |-> FALSE, right |-> TRUE, at |-> c.at + 1]
         /\ c.at < Len(file.data)
         /\ CodedWith(c.at) = CodedWith(s) /\ CodedWith(c.at + 1) = CodedWith(s)
         /\ \A t \in ScanStarts : t < c.at + 1 => t <= s
<1>1. /\ s \in Nat \ {0} /\ Len(file.data) \in Nat /\ Rows(file) \in Nat /\ k + 1 \in 1..Rows(file)
      /\ s \in 1..Len(file.data) /\ ScanStarts \subseteq Nat
  BY RowsTypes, SMTT(30) DEF Shape
<1>2. \A i \in (s + 1)..(s + Rows(file)) : i < Len(file.data) /\ file.data[i] = "row"
  <2>1. \A i \in (s + 1)..(s + Rows(file)) : i - s \in 1..Rows(file) /\ s + (i - s) = i
    BY <1>1
  <2> QED
    BY <2>1, SMTT(30) DEF Shape
<1>3. c.at \in (s + 1)..(s + Rows(file)) /\ c.at < Len(file.data) /\ file.data[c.at] = "row"
  BY <1>1, <1>2
<1>4. \A i \in s..c.at : file.data[i] # "DHT"
  <2>1. file.data[s] \in Scans
    BY <1>1 DEF Shape
  <2>2. \A i \in s..c.at : i = s \/ i \in (s + 1)..(s + Rows(file))
    BY <1>1
  <2> QED
    BY <1>2, <2>1, <2>2 DEF Scans
<1>5. CodedWith(c.at) = CodedWith(s) /\ CodedWith(c.at + 1) = CodedWith(s)
  <2>1. s \in Nat /\ c.at \in Nat /\ c.at + 1 \in Nat /\ s <= c.at /\ s <= c.at + 1
    BY <1>1
  <2>2. \A i \in s..(c.at - 1) : file.data[i] # "DHT"
    BY <1>4, <2>1
  <2>3. \A i \in s..(c.at + 1 - 1) : file.data[i] # "DHT"
    BY <1>4, <2>1
  <2>4. CodedWith(c.at) = CodedWith(s)
    BY <2>1, <2>2, CodedWithSame
  <2>5. CodedWith(c.at + 1) = CodedWith(s)
    BY <2>1, <2>3, CodedWithSame
  <2> QED
    BY <2>4, <2>5
<1>6. DecodeRow(c) = [suspended |-> FALSE, right |-> TRUE, at |-> c.at + 1]
  <2>1. c.at <= Len(file.data) /\ ~(c.at > Len(file.data))
    BY <1>1, <1>3
  <2> QED
    BY <1>3, <1>5, <2>1 DEF DecodeRow
<1>7. ASSUME NEW t \in ScanStarts, t < c.at + 1, t > s PROVE FALSE
  <2>1. t \in (s + 1)..(s + Rows(file))
    BY <1>1, <1>3, <1>7
  <2>2. file.data[t] \in Scans
    BY <1>7 DEF Shape
  <2> QED
    BY <1>2, <2>1, <2>2 DEF Scans
<1>8. \A t \in ScanStarts : t < c.at + 1 => t <= s
  BY <1>1, <1>7
<1> QED
  BY <1>3, <1>5, <1>6, <1>8

\* Another row of coefficients that are right.
LEMMA RowsReadMore ==
  ASSUME NEW co, NEW co2, NEW comps, NEW n, NEW rows, RowsRead(co, comps, n),
         \A x \in comps \X rows : co[x] => co2[x], 0..(n - 1) \subseteq rows
  PROVE  RowsRead(co2, comps, n)
<1> SUFFICES ASSUME NEW comp \in comps, NEW r \in 0..(n - 1) PROVE co2[<<comp, r>>]
  BY DEF RowsRead
<1>1. co[<<comp, r>>] /\ <<comp, r>> \in comps \X rows
  BY DEF RowsRead
<1> QED
  BY <1>1

LEMMA ScansReadMore ==
  ASSUME NEW co, NEW co2, NEW at, Shape, ScansRead(co, at),
         \A x \in {"Y", "C"} \X (0..(Rows(file) - 1)) : co[x] => co2[x]
  PROVE  ScansRead(co2, at)
<1> SUFFICES ASSUME NEW t \in ScanStarts, t < at
             PROVE  RowsRead(co2, Components(file.data[t]), Rows(file))
  BY DEF ScansRead
<1>1. RowsRead(co, Components(file.data[t]), Rows(file))
  BY DEF ScansRead
<1>2. Components(file.data[t]) \subseteq {"Y", "C"}
  BY DEF Shape
<1>3. \A x \in Components(file.data[t]) \X (0..(Rows(file) - 1)) : co[x] => co2[x]
  BY <1>2
<1> QED
  BY <1>1, <1>3, RowsReadMore

\* The scan that starts at s is read as well.
LEMMA ScansReadUpTo ==
  ASSUME NEW co, Shape, NEW s \in ScanStarts, ScansRead(co, s), NEW at,
         RowsRead(co, Components(file.data[s]), Rows(file)),
         \A t \in ScanStarts : t < at => t <= s
  PROVE  ScansRead(co, at)
<1> SUFFICES ASSUME NEW t \in ScanStarts, t < at
             PROVE  RowsRead(co, Components(file.data[t]), Rows(file))
  BY DEF ScansRead
<1>1. t < s \/ t = s
  BY DEF Shape
<1> QED
  BY <1>1 DEF ScansRead

LEMMA DataStep ==
  ASSUME cinfo \in CInfo, file \in Files \cup {NoFile}, Shape, Absorbing(cinfo, coef),
         DOMAIN coef = {"Y", "C"} \X (0..(Rows(file) - 1)), cinfo.consume_input = "data",
         NEW row, row = DecodeRow(cinfo), NEW d, d = [NextInputRow(cinfo) EXCEPT !.at = row.at],
         NEW co2, co2 = [x \in DOMAIN coef |->
                           IF x[1] \in cinfo.comps /\ x[2] = cinfo.input_row THEN row.right
                           ELSE coef[x]]
  PROVE  row.suspended = FALSE /\ Absorbing(d, co2)
<1> PICK c \in CInfo : c = cinfo
  OBVIOUS
<1> PICK co : co = coef
  OBVIOUS
<1>14. /\ Absorbing(c, co) /\ DOMAIN co = {"Y", "C"} \X (0..(Rows(file) - 1))
       /\ c.consume_input = "data"
       /\ row = DecodeRow(c) /\ d = [NextInputRow(c) EXCEPT !.at = row.at]
       /\ co2 = [x \in DOMAIN co |-> IF x[1] \in c.comps /\ x[2] = c.input_row THEN row.right ELSE co[x]]
  OBVIOUS
<1> DEFINE n == Rows(file)
<1>1. PICK s \in ScanStarts : InScan(c, co, s)
  BY <1>14 DEF Absorbing
<1>2. /\ c.input_row \in 0..(n - 1) /\ c.at = s + 1 + c.input_row
      /\ c.comps = Components(file.data[s])
      /\ c.derived = CodedWith(s) /\ ScansRead(co, s) /\ RowsRead(co, c.comps, c.input_row)
      /\ n \in Nat /\ c.input_row \in Nat /\ c.input_row + 1 \in Nat
  BY <1>1, RowsTypes DEF InScan, CInfo
<1>3. /\ DecodeRow(c) = [suspended |-> FALSE, right |-> TRUE, at |-> c.at + 1]
      /\ c.at < Len(file.data) /\ CodedWith(c.at + 1) = CodedWith(s)
      /\ CodedWith(c.at) = CodedWith(s)
      /\ \A t \in ScanStarts : t < c.at + 1 => t <= s
  BY <1>2, RowAhead
<1>4. PICK next \in {"markers", "data"} : next = IF c.input_row + 1 = n THEN "markers" ELSE c.consume_input
  BY <1>14
<1>13. row.suspended = FALSE /\ row.right = TRUE /\ row.at = c.at + 1
  BY <1>3, <1>14
<1>5. d = [NextInputRow(c) EXCEPT !.at = c.at + 1]
  BY <1>13, <1>14
<1>6. /\ d.at = c.at + 1 /\ d.input_row = c.input_row + 1 /\ d.consume_input = next
      /\ d.comps = c.comps /\ d.derived = c.derived /\ d.tables = c.tables /\ SameHeader(c, d)
  <2>1. PICK e : e = [c EXCEPT !.input_row = c.input_row + 1, !.consume_input = next]
    OBVIOUS
  <2>2. NextInputRow(c) = e
    BY <1>4, <2>1 DEF NextInputRow
  <2>3. PICK k \in Nat : k = c.input_row + 1
    BY <1>2
  <2>4. e = [c EXCEPT !.input_row = k, !.consume_input = next]
    BY <2>1, <2>3
  <2>5. /\ e.input_row = k /\ e.consume_input = next /\ e.comps = c.comps
        /\ e.derived = c.derived /\ e.tables = c.tables /\ SameHeader(c, e) /\ e \in CInfo
    BY <2>4 DEF CInfo, SameHeader, SameOutput
  <2>6. d = [e EXCEPT !.at = c.at + 1]
    BY <1>5, <2>2
  <2>7. /\ d.at = c.at + 1 /\ d.input_row = e.input_row /\ d.consume_input = e.consume_input
        /\ d.comps = e.comps /\ d.derived = e.derived /\ d.tables = e.tables /\ SameHeader(e, d)
    BY <2>5, <2>6 DEF CInfo, SameHeader, SameOutput
  <2>8. SameHeader(c, d)
    BY <2>5, <2>7 DEF SameHeader, SameOutput
  <2> QED
    BY <2>3, <2>5, <2>7, <2>8
<1>7. Components(file.data[s]) \subseteq {"Y", "C"}
  BY DEF Shape
<1>8. co2 = [x \in DOMAIN co |-> IF x[1] \in c.comps /\ x[2] = c.input_row THEN TRUE ELSE co[x]]
  BY <1>13, <1>14
<1>9. \A x \in {"Y", "C"} \X (0..(n - 1)) : (co[x] => co2[x]) /\ (x[1] \in c.comps /\ x[2] = c.input_row => co2[x])
  BY <1>8
<1>10. ScansRead(co2, s)
  BY <1>2, <1>9, ScansReadMore
<1>11. RowsRead(co2, c.comps, c.input_row + 1)
  <2>1. PICK k \in Nat : k = c.input_row
    BY <1>2
  <2>8. PICK comps : comps = c.comps
    OBVIOUS
  <2>9. PICK rows : rows = 0..(n - 1)
    OBVIOUS
  <2>10. PICK k1 : k1 = k + 1
    OBVIOUS
  <2>2. \A x \in comps \X rows : co[x] => co2[x]
    BY <1>2, <1>7, <1>9, <2>8, <2>9, ZenonT(30)
  <2>3. 0..(k - 1) \subseteq rows /\ k \in rows
    BY <1>2, <2>1, <2>9
  <2>4. RowsRead(co2, comps, k)
    <3>1. RowsRead(co, comps, k)
      BY <1>2, <2>1, <2>8
    <3> QED
      BY <3>1, <2>2, <2>3, RowsReadMore
  <2>5. ASSUME NEW comp \in comps PROVE co2[<<comp, k>>]
    <3>1. PICK x \in {"Y", "C"} \X (0..(n - 1)) : x = <<comp, k>>
      BY <1>2, <1>7, <2>1, <2>8
    <3> QED
      BY <1>9, <2>1, <2>8, <3>1
  <2>6. \A r \in 0..(k1 - 1) : r = k \/ r \in 0..(k - 1)
    BY <2>10
  <2>7. RowsRead(co2, comps, k1)
    BY <2>4, <2>5, <2>6, Zenon DEF RowsRead
  <2> QED
    BY <2>1, <2>7, <2>8, <2>10
<1>12. Absorbing(d, co2)
  <2>1. HeaderRead(d) /\ d.has_multiple_scans
    <3>1. HeaderRead(c) /\ c.has_multiple_scans
      BY <1>14 DEF Absorbing
    <3>2. HeaderRead(d)
      BY <1>6, <3>1, SameHeaderRead
    <3>3. d.has_multiple_scans
      BY <1>6, <3>1 DEF SameHeader
    <3> QED
      BY <3>2, <3>3
  <2>2. First < d.at /\ d.at <= Len(file.data)
    <3>1. First < c.at /\ First \in Nat /\ c.at \in Nat /\ Len(file.data) \in Nat
      BY <1>14 DEF Absorbing, Shape, CInfo
    <3> QED
      BY <1>3, <1>6, <3>1
  <2>3. d.tables = CodedWith(d.at)
    BY <1>3, <1>6, <1>14 DEF Absorbing
  <2>4. CASE next = "data"
    <3>1. c.input_row + 1 < n
      BY <1>2, <1>4, <2>4
    <3>2. d.at = s + 1 + d.input_row /\ d.input_row < n
      <4>1. s \in Nat
        BY DEF Shape
      <4> QED
        BY <1>2, <1>6, <3>1, <4>1
    <3>3. InScan(d, co2, s)
      BY <1>2, <1>6, <1>10, <1>11, <3>2 DEF InScan
    <3> QED
      BY <1>6, <2>1, <2>2, <2>3, <2>4, <3>3 DEF Absorbing
  <2>5. CASE next = "markers"
    <3>1. c.input_row + 1 = n
      BY <1>4, <1>14, <2>5
    <3>2. ScansRead(co2, d.at)
      BY <1>2, <1>3, <1>6, <1>10, <1>11, <3>1, ScansReadUpTo
    <3> QED
      BY <1>6, <2>1, <2>2, <2>3, <2>5, <3>2 DEF Absorbing
  <2> QED
    BY <2>4, <2>5
<1> QED
  BY <1>12, <1>13

\* Tokens in between that start no scan do not change which scans were read.
LEMMA SameScansRead ==
  ASSUME NEW co, Shape, NEW a \in Nat, NEW b \in Nat, ScansRead(co, a),
         \A t \in ScanStarts : t < b => t < a
  PROVE  ScansRead(co, b)
  BY DEF ScansRead

\* A marker behind the header that starts no scan and does not end the file.
LEMMA TableNoted ==
  ASSUME NEW c \in CInfo, NEW d \in CInfo, NEW co, Absorbing(c, co), c.consume_input = "markers",
         SameHeader(c, d), d.consume_input = c.consume_input,
         d.at <= Len(file.data), First < d.at, d.tables = CodedWith(d.at), ScansRead(co, d.at)
  PROVE  Absorbing(d, co)
<1>1. HeaderRead(d) /\ d.has_multiple_scans
  <2>1. HeaderRead(c) /\ c.has_multiple_scans
    BY DEF Absorbing
  <2> QED
    BY <2>1, SameHeaderRead DEF SameHeader
<1> QED
  BY <1>1 DEF Absorbing

LEMMA MarkerStep ==
  ASSUME NEW c \in CInfo, file \in Files \cup {NoFile}, Shape, NEW co, Absorbing(c, co),
         c.consume_input = "markers"
  PROVE  LET r == ConsumeMarker(c)
         IN \/ r.ret \in {"more", "SOS"} /\ Absorbing(r.c, co)
            \/ r.ret = "EOI" /\ Fresh(r.c) /\ RowsComing(r.c, co)
<1> DEFINE data == file.data
           r == ConsumeMarker(c)
<1>1. /\ HeaderRead(c) /\ c.has_multiple_scans /\ First < c.at /\ c.at <= Len(data)
      /\ c.tables = CodedWith(c.at) /\ ScansRead(co, c.at)
  BY DEF Absorbing, InScan
<1>2. /\ First \in 1..Len(data) /\ Len(data) \in Nat /\ First > 1 /\ c.at \in Nat
      /\ c.at \in 1..Len(data)
      /\ \A i \in 1..Len(data) : data[i] \in Scans <=> i \in ScanStarts
      /\ ScanStarts \subseteq 1..Len(data)
  BY <1>1 DEF Shape, CInfo
<1>3. PICK m \in c.at..Len(data), d \in CInfo :
         /\ data[m] \in Tokens \ {"row", "bad"}
         /\ \A k \in c.at..(m - 1) : data[k] = "row"
         /\ r = Process(d, data[m])
         /\ d = [c EXCEPT !.at = m + 1]
  BY <1>1, ConsumeNext DEF HeaderRead
<1>4. /\ d.at = m + 1 /\ SameHeader(c, d) /\ d.tables = c.tables
      /\ d.consume_input = "markers" /\ d.global_state = c.global_state
  BY <1>3 DEF CInfo, SameHeader, SameOutput
<1>5. HeaderRead(d) /\ d.has_multiple_scans
  BY <1>1, <1>4, SameHeaderRead DEF SameHeader
<1>6. m \in 1..Len(data) /\ m > First /\ m \in Nat
  BY <1>1, <1>2
<1>7. data[m] # "SOI" /\ (data[m] = "EOI" <=> m = Len(data))
  BY <1>2, <1>6 DEF Shape
<1>8. data[m] # "SOF"
  <2>1. PICK i \in 1..(First - 1) : Positions("SOF") = {i}
    BY DEF Shape
  <2>2. DOMAIN data = 1..Len(data)
    BY FileTypes
  <2> QED
    BY <1>2, <1>6, <2>1, <2>2 DEF Positions
<1>9. CodedWith(m) = CodedWith(c.at)
  <2>1. c.at \in Nat /\ m \in Nat /\ c.at <= m /\ \A k \in c.at..(m - 1) : data[k] # "DHT"
    BY <1>2, <1>3, <1>6
  <2> QED
    BY <2>1, CodedWithSame
<1>10. data[m] # "DHT" => CodedWith(m + 1) = CodedWith(c.at)
  <2>1. SUFFICES ASSUME data[m] # "DHT" PROVE CodedWith(m + 1) = CodedWith(c.at)
    OBVIOUS
  <2>2. \A k \in c.at..(m + 1 - 1) : k = m \/ k \in c.at..(m - 1)
    BY <1>2, <1>6
  <2>3. c.at \in Nat /\ m + 1 \in Nat /\ c.at <= m + 1 /\ \A k \in c.at..(m + 1 - 1) : data[k] # "DHT"
    BY <1>2, <1>3, <1>6, <2>1, <2>2
  <2> QED
    BY <2>3, CodedWithSame
<1>11. \A t \in ScanStarts : t < m => t < c.at
  <2> SUFFICES ASSUME NEW t \in ScanStarts, t < m, ~(t < c.at) PROVE FALSE
    OBVIOUS
  <2>1. t \in c.at..(m - 1) /\ data[t] \in Scans
    BY <1>2, <1>6
  <2> QED
    BY <1>3, <2>1 DEF Scans
<1>12. ScansRead(co, m)
  BY <1>1, <1>2, <1>6, <1>11, SameScansRead
<1>13. data[m] \notin Scans => ScansRead(co, m + 1)
  <2>1. SUFFICES ASSUME data[m] \notin Scans PROVE ScansRead(co, m + 1)
    OBVIOUS
  <2>2. \A t \in ScanStarts : t < m + 1 => t < m
    BY <1>2, <1>6, <2>1
  <2> QED
    BY <1>6, <1>12, <2>2, SameScansRead
<1>14. CASE data[m] \in {"DQT", "DHT", "misc"}
  <2>1. data[m] \notin Scans /\ m < Len(data)
    <3>1. m # Len(data)
      BY <1>7, <1>14
    <3>2. m < Len(data)
      BY <1>2, <1>6, <3>1
    <3> QED
      BY <1>14, <3>2 DEF Scans
  <2>2. /\ r.ret = "more" /\ r.c \in CInfo /\ r.c.at = m + 1 /\ SameHeader(c, r.c)
        /\ r.c.consume_input = "markers" /\ r.c.tables = CodedWith(m + 1)
    <3>1. CASE data[m] = "DQT"
      <4>1. PICK e : e = [d EXCEPT !.quant = TRUE]
        OBVIOUS
      <4>2. r.ret = "more" /\ r.c = e
        BY <1>3, <3>1, <4>1 DEF Process, GetDQT, Scans, Result
      <4>3. c.quant
        BY <1>1 DEF HeaderRead
      <4>4. /\ e \in CInfo /\ e.at = d.at /\ e.consume_input = d.consume_input
            /\ e.tables = d.tables
            /\ SameHeader(d, e)
        BY <1>5, <4>1 DEF CInfo, SameHeader, SameOutput, HeaderRead
      <4>5. SameHeader(c, e)
        BY <1>4, <4>4 DEF SameHeader, SameOutput
      <4> HIDE DEF r
      <4> QED
        BY <1>1, <1>4, <1>10, <3>1, <4>2, <4>4, <4>5
    <3>2. CASE data[m] = "DHT"
      <4>1. PICK e : e = [d EXCEPT !.tables = "own"]
        OBVIOUS
      <4>2. r.ret = "more" /\ r.c = e
        BY <1>3, <3>2, <4>1 DEF Process, GetDHT, Scans, Result
      <4>3. /\ e \in CInfo /\ e.at = d.at /\ e.consume_input = d.consume_input /\ e.tables = "own"
            /\ SameHeader(d, e)
        BY <4>1 DEF CInfo, SameHeader, SameOutput
      <4>4. SameHeader(c, e)
        BY <1>4, <4>3 DEF SameHeader, SameOutput
      <4>5. CodedWith(m + 1) = "own"
        <5>1. m \in 1..(m + 1 - 1)
          BY <1>6
        <5> QED
          BY <3>2, <5>1 DEF CodedWith
      <4> HIDE DEF r
      <4> QED
        BY <1>4, <4>2, <4>3, <4>4, <4>5
    <3>3. CASE data[m] = "misc"
      <4>1. r.ret = "more" /\ r.c = d
        BY <1>3, <3>3 DEF Process, SkipVariable, Scans, Result
      <4> HIDE DEF r
      <4> QED
        BY <1>1, <1>4, <1>10, <3>3, <4>1
    <3> QED
      BY <1>14, <3>1, <3>2, <3>3
  <2>3. PICK e : e = r.c
    OBVIOUS
  <2>4. First < e.at /\ e.at <= Len(data) /\ e.tables = CodedWith(e.at) /\ ScansRead(co, e.at)
    BY <1>2, <1>6, <1>13, <2>1, <2>2, <2>3
  <2>5. Absorbing(e, co)
    BY <2>2, <2>3, <2>4, TableNoted
  <2> QED
    BY <2>2, <2>3, <2>5
<1>15. CASE data[m] = "EOI"
  <2>1. PICK e : e = [d EXCEPT !.eoi_reached = TRUE]
    OBVIOUS
  <2>2. r.ret = "EOI" /\ r.c = e
    BY <1>3, <1>5, <1>15, <2>1 DEF Process, ReachedEOI, Scans, Result, HeaderRead
  <2>3. e.has_multiple_scans /\ Fresh(e)
    <3>1. /\ e.has_multiple_scans = d.has_multiple_scans /\ e.output_row = d.output_row
          /\ e.output_scanline = d.output_scanline /\ e.buffer_full = d.buffer_full
          /\ e.line = d.line
      BY <2>1 DEF CInfo
    <3> QED
      BY <1>5, <3>1 DEF HeaderRead, Fresh
  <2>4. RowsRead(co, file.components, Rows(file))
    <3>1. ScansRead(co, m + 1)
      BY <1>13, <1>15 DEF Scans
    <3>2. \A t \in ScanStarts : t < m + 1
      BY <1>2, <1>7, <1>15
    <3>3. \A comp \in {"Y", "C"} : \E s \in ScanStarts : comp \in Components(data[s])
      BY DEF Shape
    <3>4. file.components = {"Y", "C"}
      BY DEF Shape
    <3>5. \A t \in ScanStarts : RowsRead(co, Components(data[t]), Rows(file))
      BY <3>1, <3>2 DEF ScansRead
    <3> QED
      BY <3>3, <3>4, <3>5 DEF RowsRead
  <2>5. RowsComing(e, co)
    BY <2>3, <2>4 DEF RowsComing
  <2> QED
    BY <2>2, <2>3, <2>5
<1>16. CASE data[m] \in Scans
  <2>1. m \in ScanStarts /\ Components(data[m]) \subseteq {"Y", "C"}
    BY <1>2, <1>6, <1>16 DEF Shape
  <2>2. PICK comps \in SUBSET {"Y", "C"} : comps = Components(data[m])
    BY <2>1
  <2>3. PICK e : e = [d EXCEPT !.comps = comps]
    OBVIOUS
  <2>4. e \in CInfo /\ e.at = m + 1 /\ e.comps = comps /\ e.tables = c.tables /\ SameHeader(c, e)
    <3>1. e \in CInfo /\ e.at = d.at /\ e.comps = comps /\ e.tables = d.tables /\ SameHeader(d, e)
      BY <2>3 DEF CInfo, SameHeader, SameOutput
    <3> QED
      BY <1>4, <3>1 DEF SameHeader, SameOutput
  <2>5. HeaderRead(e) /\ e.has_multiple_scans
    BY <1>1, <2>4, SameHeaderRead DEF SameHeader
  <2>6. GetSOS(d, comps) = Result(e, "SOS")
    <3>1. comps \subseteq file.components /\ d.saw_SOF
      BY <1>5 DEF Shape, HeaderRead
    <3> QED
      BY <2>3, <3>1 DEF GetSOS
  <2>7. Process(d, data[m]) = ReachedSOS(GetSOS(d, comps))
    BY <1>16, <2>2 DEF Process, Scans
  <2>8. r = StartInputPass(e)
    <3>1. Result(e, "SOS").ret = "SOS" /\ Result(e, "SOS").c = e
      BY DEF Result
    <3>2. ~e.inheaders
      BY <2>5 DEF HeaderRead
    <3> QED
      BY <1>3, <2>5, <2>6, <2>7, <3>1, <3>2 DEF ReachedSOS
  <2>9. e.quant /\ e.tables # "none"
    BY <1>1, <2>4, <2>5 DEF HeaderRead, CodedWith
  <2>10. PICK f \in CInfo :
            /\ StartInputPass(e) = Result(f, "SOS") /\ SameHeader(e, f)
            /\ f.at = e.at /\ f.comps = e.comps /\ f.tables = e.tables /\ f.derived = e.tables
            /\ f.input_row = 0
            /\ f.consume_input = IF e.has_multiple_scans THEN "data" ELSE "dummy"
    BY <2>4, <2>9, ScanStarted
  <2>11. HeaderRead(f) /\ f.has_multiple_scans
    BY <2>5, <2>10, SameHeaderRead DEF SameHeader
  <2>12. Rows(file) \in Nat /\ Rows(file) > 0
    BY RowsTypes
  <2>13. m + 1 < Len(data)
    BY <2>1, <2>12 DEF Shape
  <2>14. data[m] # "DHT"
    BY <1>16 DEF Scans
  <2>15. RowsRead(co, f.comps, f.input_row)
    BY <2>10 DEF RowsRead
  <2>16. InScan(f, co, m)
    BY <1>1, <1>6, <1>9, <1>12, <2>2, <2>4, <2>10, <2>12, <2>15 DEF InScan
  <2>17. Absorbing(f, co)
    BY <1>1, <1>2, <1>6, <1>10, <2>1, <2>4, <2>5, <2>10, <2>11, <2>13, <2>14, <2>16 DEF Absorbing
  <2>18. r.ret = "SOS" /\ r.c = f
    BY <2>8, <2>10 DEF Result
  <2> QED
    BY <2>17, <2>18
<1>17. data[m] \in {"DQT", "DHT", "misc", "EOI"} \cup Scans
  BY <1>3, <1>7, <1>8 DEF Tokens
<1> QED
  BY <1>14, <1>15, <1>16, <1>17

\* The main buffer is filled with an iMCU row whose coefficients are right.
LEMMA BufferFilled ==
  ASSUME NEW c \in CInfo, file \in Files \cup {NoFile}, Shape, RowsComing(c, coef),
         c.output_row \in 0..(Rows(file) - 1)
  PROVE  \E e \in CInfo :
            /\ (IF c.has_multiple_scans THEN DecompressData(c) ELSE Onepass(c)) = Result(e, "row")
            /\ e.buffer /\ e.output_row = c.output_row + 1 /\ RowsComing(e, coef)
            /\ e.global_state = c.global_state /\ e.line = c.line
            /\ e.output_scanline = c.output_scanline
<1>1. PICK k \in Nat : k = c.output_row + 1
  BY DEF CInfo
<1>2. CASE c.has_multiple_scans
  <2>1. \A comp \in file.components : coef[<<comp, c.output_row>>]
    BY <1>2 DEF RowsComing, RowsRead
  <2>2. PICK e : e = [c EXCEPT !.buffer = TRUE, !.output_row = k]
    OBVIOUS
  <2>3. PICK b \in BOOLEAN : b = \A comp \in file.components : coef[<<comp, c.output_row>>]
    OBVIOUS
  <2>4. b = TRUE
    BY <2>1, <2>3
  <2>5. DecompressData(c) = Result([c EXCEPT !.buffer = b, !.output_row = c.output_row + 1], "row")
    BY <2>3 DEF DecompressData
  <2>6. DecompressData(c) = Result(e, "row")
    BY <1>1, <2>2, <2>4, <2>5
  <2>7. /\ e \in CInfo /\ e.buffer /\ e.output_row = k
        /\ e.has_multiple_scans = c.has_multiple_scans
        /\ e.global_state = c.global_state /\ e.line = c.line
        /\ e.output_scanline = c.output_scanline
    BY <2>2 DEF CInfo
  <2>8. RowsComing(e, coef)
    BY <1>2, <2>7 DEF RowsComing
  <2> QED
    BY <1>1, <1>2, <2>6, <2>7, <2>8
<1>3. CASE ~c.has_multiple_scans
  <2>1. c.at = First + 1 + c.output_row /\ c.derived = "standard"
    BY <1>3 DEF RowsComing
  <2>2. First \in ScanStarts /\ First \in Nat /\ First \in 1..Len(file.data) /\ Len(file.data) \in Nat
    BY DEF Shape
  <2>3. CodedWith(First) = "standard"
    BY <2>2 DEF CodedWith, Shape
  <2>4. DecodeRow(c) = [suspended |-> FALSE, right |-> TRUE, at |-> c.at + 1]
    BY <2>1, <2>2, <2>3, RowAhead
  <2>5. c.input_row + 1 \in Nat /\ c.at + 1 \in Nat \ {0}
    BY DEF CInfo
  <2>6. PICK i \in Nat : i = c.input_row + 1
    BY <2>5
  <2>7. PICK next \in {"markers", "data", "dummy"} :
           next = IF c.input_row + 1 = Rows(file) THEN "markers" ELSE c.consume_input
    BY DEF CInfo
  <2>8. PICK f : f = [c EXCEPT !.input_row = i, !.consume_input = next]
    OBVIOUS
  <2>9. NextInputRow(c) = f
    BY <2>6, <2>7, <2>8 DEF NextInputRow
  <2>10. /\ f \in CInfo /\ f.output_row = c.output_row /\ f.derived = c.derived
         /\ f.has_multiple_scans = c.has_multiple_scans /\ f.global_state = c.global_state
         /\ f.line = c.line /\ f.output_scanline = c.output_scanline
    BY <2>8 DEF CInfo
  <2>11. PICK a \in Nat \ {0} : a = c.at + 1
    BY <2>5
  <2>12. PICK e : e = [f EXCEPT !.at = a, !.buffer = TRUE, !.output_row = k]
    OBVIOUS
  <2>13. /\ e \in CInfo /\ e.at = a /\ e.buffer /\ e.output_row = k /\ e.derived = f.derived
         /\ e.has_multiple_scans = f.has_multiple_scans /\ e.global_state = f.global_state
         /\ e.line = f.line /\ e.output_scanline = f.output_scanline
    BY <2>10, <2>12 DEF CInfo
  <2>14. Onepass(c) = Result(e, "row")
    <3>1. PICK row : row = DecodeRow(c)
      OBVIOUS
    <3>2. ~row.suspended /\ row.right = TRUE /\ row.at = a
      BY <2>4, <2>11, <3>1
    <3>3. Onepass(c) = Result([f EXCEPT !.at = a, !.buffer = TRUE, !.output_row = f.output_row + 1], "row")
      BY <2>9, <3>1, <3>2 DEF Onepass
    <3> QED
      BY <1>1, <2>10, <2>12, <3>3
  <2>15. RowsComing(e, coef)
    <3>1. First + 1 + c.output_row + 1 = First + 1 + k
      BY <1>1, <2>2
    <3>2. e.at = First + 1 + e.output_row
      BY <2>1, <2>11, <2>13, <3>1
    <3> QED
      BY <1>3, <2>1, <2>10, <2>13, <3>2 DEF RowsComing
  <2> QED
    BY <1>1, <1>3, <2>10, <2>13, <2>14, <2>15
<1> QED
  BY <1>2, <1>3

\* A line of a complete frame is made, and is right.
LEMMA RowsStep ==
  ASSUME NEW c \in CInfo, file \in Files \cup {NoFile}, Shape, RowsComing(c, coef), LinesMade(c),
         c.output_scanline < file.height
  PROVE  \E d \in CInfo :
            /\ ProcessData(c) = Result(d, "row")
            /\ d.buffer /\ d.output_scanline = c.output_scanline + 1
            /\ d.global_state = c.global_state
            /\ RowsComing(d, coef) /\ LinesMade(d)
<1> DEFINE r == IF c.buffer_full THEN Result(c, "row")
                ELSE IF c.has_multiple_scans THEN DecompressData(c) ELSE Onepass(c)
<1>1. /\ RowLines \in Nat \ {0} /\ c.line \in 0..(RowLines - 1) /\ c.output_scanline \in Nat
      /\ c.output_row \in Nat
  BY JpegDecoderAssumption DEF CInfo
<1>2. PICK e \in CInfo :
        /\ r = Result(e, "row") /\ e.buffer /\ RowsComing(e, coef)
        /\ e.global_state = c.global_state /\ e.line = c.line
        /\ e.output_scanline = c.output_scanline
        /\ e.output_row = IF c.buffer_full THEN c.output_row ELSE c.output_row + 1
  <2>1. CASE c.buffer_full
    BY <2>1 DEF LinesMade
  <2>2. CASE ~c.buffer_full
    <3>1. c.output_scanline = c.output_row * RowLines
      <4>1. c.line = 0 /\ c.output_scanline + 0 = c.output_row * RowLines + c.line
        BY <2>2 DEF LinesMade
      <4>2. PICK x \in Nat : x = c.output_row * RowLines
        BY <1>1
      <4> QED
        BY <1>1, <4>1, <4>2
    <3>2. c.output_row < Rows(file) /\ Rows(file) \in Nat
      <4>1. file.height \in Nat \ {0}
        BY FileTypes
      <4>2. c.output_row * RowLines < file.height
        BY <3>1
      <4> QED
        BY <1>1, <4>1, <4>2, RowsEnough DEF Rows
    <3>3. c.output_row \in 0..(Rows(file) - 1)
      BY <1>1, <3>2
    <3> QED
      BY <2>2, <3>3, BufferFilled
  <2> QED
    BY <2>1, <2>2
<1>12. PICK full : full = (c.line + 1 < RowLines)
  OBVIOUS
<1>13. full \in BOOLEAN
  <2>1. (c.line + 1 < RowLines) \in BOOLEAN
    BY <1>1
  <2> QED
    BY <1>12, <2>1
<1>3. full <=> c.line + 1 < RowLines
  BY <1>12
<1>4. PICK l \in 0..(RowLines - 1) : l = (c.line + 1) % RowLines
  BY <1>1
<1>5. l = IF full THEN c.line + 1 ELSE 0
  <2>1. full => (c.line + 1) % RowLines = c.line + 1
    BY <1>1, <1>3
  <2>2. ~full => c.line + 1 = RowLines /\ RowLines % RowLines = 0
    BY <1>1, <1>3
  <2> QED
    BY <1>4, <2>1, <2>2
<1>6. PICK n \in Nat : n = c.output_scanline + 1
  BY <1>1
<1>7. PICK d : d = [e EXCEPT !.buffer_full = full, !.line = l, !.output_scanline = n]
  OBVIOUS
<1>8. /\ d \in CInfo /\ d.buffer_full = full /\ d.line = l /\ d.output_scanline = n
      /\ d.buffer = e.buffer /\ d.output_row = e.output_row /\ d.global_state = e.global_state
      /\ d.has_multiple_scans = e.has_multiple_scans /\ d.at = e.at /\ d.derived = e.derived
  BY <1>2, <1>7, <1>13, ZenonT(30) DEF CInfo
<1>9. ProcessData(c) = Result(d, "row")
  <2>1. PICK q : q = r
    OBVIOUS
  <2>2. q.ret = "row" /\ q.c = e
    BY <1>2, <2>1 DEF Result
  <2>3. ProcessData(c) = Result([q.c EXCEPT !.buffer_full = c.line + 1 < RowLines,
                                            !.line = (c.line + 1) % RowLines,
                                            !.output_scanline = q.c.output_scanline + 1], "row")
    <3>1. q.ret # "suspended"
      BY <2>2
    <3> QED
      BY <2>1, <3>1 DEF ProcessData
  <2> HIDE DEF r
  <2>4. ProcessData(c) = Result([e EXCEPT !.buffer_full = full, !.line = l, !.output_scanline = n], "row")
    BY <1>2, <1>12, <1>4, <1>6, <2>2, <2>3
  <2> QED
    BY <1>7, <2>4
<1>10. RowsComing(d, coef)
  BY <1>2, <1>8 DEF RowsComing
<1>11. LinesMade(d)
  <2> HIDE DEF r
  <2>1. PICK p \in Nat : p = c.output_row * RowLines
    BY <1>1
  <2>2. (c.output_row + 1) * RowLines = p + RowLines
    BY <1>1, <2>1
  <2>3. CASE c.buffer_full
    <3>1. c.line > 0 /\ c.output_scanline + RowLines = p + c.line
      BY <2>1, <2>3 DEF LinesMade
    <3>2. d.output_row * RowLines = p
      BY <1>2, <1>8, <2>1, <2>3
    <3>3. n + (IF full THEN RowLines ELSE 0) = p + l
      <4>1. CASE full
        BY <1>1, <1>5, <1>6, <3>1, <4>1
      <4>2. CASE ~full
        <5>1. c.line + 1 = RowLines
          BY <1>1, <1>3, <4>2
        <5> QED
          BY <1>1, <1>5, <1>6, <3>1, <4>2, <5>1
      <4> QED
        BY <4>1, <4>2
    <3>4. full => l > 0
      BY <1>1, <1>5
    <3> QED
      BY <1>2, <1>5, <1>8, <3>2, <3>3, <3>4 DEF LinesMade
  <2>4. CASE ~c.buffer_full
    <3>1. c.line = 0 /\ c.output_scanline = p
      <4>1. c.line = 0 /\ c.output_scanline + 0 = p + c.line
        BY <2>1, <2>4 DEF LinesMade
      <4> QED
        BY <1>1, <4>1
    <3>2. d.output_row * RowLines = p + RowLines
      BY <1>2, <1>8, <2>2, <2>4
    <3>3. n + (IF full THEN RowLines ELSE 0) = p + RowLines + l
      <4>1. CASE full
        BY <1>1, <1>5, <1>6, <3>1, <4>1
      <4>2. CASE ~full
        <5>1. 1 = RowLines
          BY <1>1, <1>3, <3>1, <4>2
        <5> QED
          BY <1>1, <1>5, <1>6, <3>1, <4>2, <5>1
      <4> QED
        BY <4>1, <4>2
    <3>4. full => l > 0
      BY <1>1, <1>5
    <3> QED
      BY <1>2, <1>5, <1>8, <3>2, <3>3, <3>4 DEF LinesMade
  <2> QED
    BY <2>3, <2>4
<1> QED
  BY <1>2, <1>6, <1>8, <1>9, <1>10, <1>11

-----------------------------------------------------------------------------
(* The steps of decoding a complete frame *)

\* What depends on the file alone stays while it is decoded.
LEMMA SameFile ==
  ASSUME file' = file
  PROVE  (Complete' <=> Complete) /\ First' = First
  BY DEF Complete, Before, First, ScanStarts, Positions, Components, Rows

LEMMA SameDecoding ==
  ASSUME file' = file, NEW c, NEW co
  PROVE  /\ InHeader(c)' <=> InHeader(c)
         /\ AtFirstScan(c)' <=> AtFirstScan(c)
         /\ Absorbing(c, co)' <=> Absorbing(c, co)
         /\ RowsComing(c, co)' <=> RowsComing(c, co)
<1>1. First' = First
  BY SameFile
<1> QED
  BY <1>1 DEF InHeader, Fresh, AtFirstScan, HeaderRead, Absorbing, InScan, ScansRead, RowsRead,
              RowsComing, CodedWith, ScanStarts, Positions, Components, Rows

LEMMA CreateInHeader == file \in Files \cup {NoFile} /\ Complete => InHeader(Create)
<1> SUFFICES ASSUME file \in Files \cup {NoFile}, Complete PROVE InHeader(Create)
  OBVIOUS
<1>1. Shape /\ DOMAIN file.data = 1..Len(file.data)
  BY CompleteShape, FileTypes
<1>2. First \in Nat /\ First > 1 /\ 1 \in 1..First
  BY <1>1 DEF Shape
<1>3. \A token : \A i \in Positions(token) : ~(i < 1)
  BY <1>1 DEF Positions
<1> QED
  BY <1>2, <1>3 DEF InHeader, Fresh, Create

LEMMA InitShowing == DecoderInit => Showing
  BY DEF DecoderInit, Showing, FrameShown, Decoding, frame, Active

LEMMA PixelToBmpShowing == DecoderTypes' /\ PixelToBmp => Showing'
<1> SUFFICES ASSUME DecoderTypes', PixelToBmp, Complete' PROVE FrameShown' /\ Decoding(cinfo, coef)'
  BY DEF Showing, PixelToBmp, FrameShown
<1>1. pc' = "header" /\ cinfo' = Create /\ starved' = FALSE
  BY DEF PixelToBmp
<1>2. (file \in Files \cup {NoFile} /\ Complete => InHeader(Create))'
  BY CreateInHeader, PTL
<1>3. InHeader(cinfo)'
  BY <1>1, <1>2 DEF DecoderTypes, Create
<1> QED
  BY <1>1, <1>3 DEF FrameShown, Decoding, Active

LEMMA ReadHeaderShowing == DecoderTypes /\ Showing /\ ReadHeader => Showing'
<1> SUFFICES ASSUME DecoderTypes, Showing, ReadHeader PROVE Showing'
  OBVIOUS
<1>1. /\ pc = "header" /\ file' = file /\ cinfo \in CInfo /\ file \in Files \cup {NoFile}
      /\ pc' \in {"header", "start", "return"}
      /\ pc' = "return" => ConsumeMarker(cinfo).ret \notin {"more", "SOS"}
  BY DEF ReadHeader, ErrorExit, DecoderTypes
<1>2. FrameShown'
  BY <1>1 DEF FrameShown
<1>3. ASSUME Complete PROVE Decoding(cinfo, coef)'
  <2>1. InHeader(cinfo) /\ ~starved /\ Shape
    BY <1>1, <1>3, CompleteShape DEF Showing, Decoding, Active
  <2>2. PICK r : r = ConsumeMarker(cinfo)
    OBVIOUS
  <2>3. \/ r.ret = "more" /\ InHeader(r.c)
        \/ r.ret = "SOS" /\ r.c \in CInfo /\ AtFirstScan([r.c EXCEPT !.global_state = "READY"])
    BY <1>1, <2>1, <2>2, HeaderStep
  <2>4. CASE r.ret = "more" /\ InHeader(r.c)
    <3>1. pc' = "header" /\ cinfo' = r.c /\ starved' = starved
      BY <1>1, <2>2, <2>4 DEF ReadHeader
    <3>2. InHeader(cinfo)'
      BY <1>1, <2>4, <3>1, SameDecoding
    <3> QED
      BY <2>1, <3>1, <3>2 DEF Decoding, Active
  <2>5. CASE r.ret = "SOS" /\ AtFirstScan([r.c EXCEPT !.global_state = "READY"])
    <3>1. pc' = "start" /\ cinfo' = [r.c EXCEPT !.global_state = "READY"] /\ starved' = starved
      BY <1>1, <2>2, <2>5 DEF ReadHeader
    <3>2. AtFirstScan(cinfo)'
      BY <1>1, <2>5, <3>1, SameDecoding
    <3> QED
      BY <2>1, <3>1, <3>2 DEF Decoding, Active
  <2> QED
    BY <2>3, <2>4, <2>5
<1> QED
  BY <1>1, <1>2, <1>3, SameFile DEF Showing

LEMMA StartDecompressShowing == DecoderTypes /\ Showing /\ StartDecompress => Showing'
<1> SUFFICES ASSUME DecoderTypes, Showing, StartDecompress PROVE Showing'
  OBVIOUS
<1>1. /\ pc = "start" /\ UNCHANGED <<file, coef, starved>> /\ cinfo \in CInfo /\ file \in Files \cup {NoFile}
      /\ pc' \in {"absorb", "output", "return"}
  BY DEF StartDecompress, ErrorExit, DecoderTypes
<1>2. FrameShown'
  BY <1>1 DEF FrameShown
<1>3. ASSUME Complete PROVE Decoding(cinfo, coef)'
  <2>1. AtFirstScan(cinfo) /\ ~starved /\ Shape /\ cinfo.global_state = "READY"
    BY <1>1, <1>3, CompleteShape DEF Showing, Decoding, Active, AtFirstScan
  <2>2. PICK d \in CInfo :
            /\ MasterSelection(LoadDht(cinfo)) = Result(d, "SOS")
            /\ d.has_multiple_scans = cinfo.has_multiple_scans
            /\ cinfo.has_multiple_scans => Absorbing(d, coef)
            /\ ~cinfo.has_multiple_scans => Fresh(d) /\ RowsComing(d, coef)
    BY <1>1, <2>1, StartStep
  <2>3. PICK e : e = [d EXCEPT !.global_state = "PRELOAD"]
    OBVIOUS
  <2>4. /\ pc' = IF cinfo.has_multiple_scans THEN "absorb" ELSE "output"
        /\ cinfo' = e
    BY <2>1, <2>2, <2>3 DEF StartDecompress, Result
  <2>5. /\ e.inheaders = d.inheaders /\ e.eoi_reached = d.eoi_reached /\ e.saw_SOI = d.saw_SOI
        /\ e.saw_SOF = d.saw_SOF /\ e.quant = d.quant /\ e.has_multiple_scans = d.has_multiple_scans
        /\ e.output_row = d.output_row /\ e.output_scanline = d.output_scanline /\ e.line = d.line
        /\ e.buffer_full = d.buffer_full /\ e.at = d.at /\ e.comps = d.comps /\ e.tables = d.tables
        /\ e.derived = d.derived /\ e.input_row = d.input_row /\ e.consume_input = d.consume_input
    BY <2>3 DEF CInfo
  <2>6. cinfo.has_multiple_scans => Absorbing(e, coef)
    BY <2>2, <2>5 DEF Absorbing, HeaderRead, Fresh, InScan
  <2>7. ~cinfo.has_multiple_scans => Fresh(e) /\ RowsComing(e, coef)
    BY <2>2, <2>5 DEF Fresh, RowsComing
  <2>8. (Absorbing(e, coef) <=> Absorbing(cinfo, coef)') /\ (RowsComing(e, coef) <=> RowsComing(cinfo, coef)')
    <3>1. PICK co : co = coef
      OBVIOUS
    <3>2. cinfo' = e /\ coef' = co
      BY <1>1, <2>4, <3>1
    <3> QED
      BY <1>1, <3>1, <3>2, SameDecoding
  <2>9. Fresh(e) <=> Fresh(cinfo)'
    BY <2>4 DEF Fresh
  <2> QED
    BY <1>1, <2>1, <2>4, <2>6, <2>7, <2>8, <2>9 DEF Decoding, Active
<1> QED
  BY <1>1, <1>2, <1>3, SameFile DEF Showing

LEMMA AbsorbShowing == DecoderTypes /\ Showing /\ Absorb => Showing'
<1> SUFFICES ASSUME DecoderTypes, Showing, Absorb PROVE Showing'
  OBVIOUS
<1>1. /\ pc = "absorb" /\ file' = file /\ cinfo \in CInfo /\ file \in Files \cup {NoFile}
      /\ DOMAIN coef = file.components \X (0..(Rows(file) - 1))
      /\ cinfo.consume_input \in {"data", "markers"}
  BY DEF Absorb, DecoderTypes, Active
<1>2. AbsorbSteps
  BY AbsorbCases
<1>3. FrameShown'
  BY <1>1, <1>2 DEF FrameShown, AbsorbSteps, ErrorExit
<1>4. ASSUME Complete PROVE Decoding(cinfo, coef)'
  <2>1. Absorbing(cinfo, coef) /\ ~starved /\ Shape /\ file.components = {"Y", "C"}
    BY <1>1, <1>4, CompleteShape DEF Showing, Decoding, Active, Complete
  <2>2. CASE cinfo.consume_input = "data"
    <3>1. PICK row : row = DecodeRow(cinfo)
      OBVIOUS
    <3>2. PICK d : d = [NextInputRow(cinfo) EXCEPT !.at = row.at]
      OBVIOUS
    <3>3. PICK co : co = [x \in DOMAIN coef |->
                            IF x[1] \in cinfo.comps /\ x[2] = cinfo.input_row THEN row.right ELSE coef[x]]
      OBVIOUS
    <3>4. row.suspended = FALSE /\ Absorbing(d, co)
      BY <1>1, <2>1, <2>2, <3>1, <3>2, <3>3, DataStep, ZenonT(30)
    <3>5. pc' = "absorb" /\ starved' = starved /\ cinfo' = d /\ coef' = co
      BY <1>1, <1>2, <2>2, <3>1, <3>2, <3>3, <3>4 DEF AbsorbSteps
    <3>6. Absorbing(cinfo, coef)'
      BY <1>1, <3>4, <3>5, SameDecoding
    <3> QED
      BY <2>1, <3>5, <3>6 DEF Decoding, Active
  <2>3. CASE cinfo.consume_input = "markers"
    <3>1. PICK r : r = ConsumeMarker(cinfo)
      OBVIOUS
    <3>2. PICK co : co = coef
      OBVIOUS
    <3>3. \/ r.ret \in {"more", "SOS"} /\ Absorbing(r.c, co)
          \/ r.ret = "EOI" /\ Fresh(r.c) /\ RowsComing(r.c, co)
      BY <1>1, <2>1, <2>3, <3>1, <3>2, MarkerStep
    <3>4. /\ cinfo' = r.c /\ coef' = co /\ starved' = starved
          /\ pc' = IF r.ret = "EOI" THEN "output" ELSE "absorb"
      BY <1>1, <1>2, <2>3, <3>1, <3>2, <3>3 DEF AbsorbSteps
    <3>5. CASE r.ret \in {"more", "SOS"} /\ Absorbing(r.c, co)
      <4>1. Absorbing(cinfo, coef)'
        BY <1>1, <3>4, <3>5, SameDecoding
      <4> QED
        BY <2>1, <3>4, <3>5, <4>1 DEF Decoding, Active
    <3>6. CASE r.ret = "EOI" /\ Fresh(r.c) /\ RowsComing(r.c, co)
      <4>1. RowsComing(cinfo, coef)'
        BY <1>1, <3>4, <3>6, SameDecoding
      <4>2. Fresh(cinfo)'
        BY <3>4, <3>6 DEF Fresh
      <4> QED
        BY <2>1, <3>4, <3>6, <4>1, <4>2 DEF Decoding, Active
    <3> QED
      BY <3>3, <3>5, <3>6
  <2> QED
    BY <1>1, <2>2, <2>3
<1> QED
  BY <1>1, <1>3, <1>4, SameFile DEF Showing

LEMMA OutputPassSetupShowing == DecoderTypes /\ Showing /\ OutputPassSetup => Showing'
<1> SUFFICES ASSUME DecoderTypes, Showing, OutputPassSetup PROVE Showing'
  OBVIOUS
<1>1. /\ pc = "output" /\ pc' = "buffers" /\ UNCHANGED <<file, coef, starved>> /\ cinfo \in CInfo
      /\ cinfo' = [cinfo EXCEPT !.global_state = "SCANNING", !.output_row = 0, !.output_scanline = 0]
  BY DEF OutputPassSetup, DecoderTypes
<1>2. FrameShown'
  BY <1>1 DEF FrameShown
<1>3. ASSUME Complete PROVE Decoding(cinfo, coef)'
  <2>1. Fresh(cinfo) /\ RowsComing(cinfo, coef) /\ ~starved
    BY <1>1, <1>3 DEF Showing, Decoding, Active
  <2>2. PICK d : d = cinfo'
    OBVIOUS
  <2>3. PICK co : co = coef
    OBVIOUS
  <2>4. /\ d.global_state = "SCANNING" /\ d.output_row = 0 /\ d.output_scanline = 0
        /\ d.line = cinfo.line
        /\ d.buffer_full = cinfo.buffer_full /\ d.at = cinfo.at /\ d.derived = cinfo.derived
        /\ d.has_multiple_scans = cinfo.has_multiple_scans
    BY <1>1, <2>2 DEF CInfo
  <2>5. Fresh(d) /\ RowsComing(d, co)
    BY <2>1, <2>3, <2>4 DEF Fresh, RowsComing
  <2>6. RowsComing(cinfo, coef)'
    BY <1>1, <2>2, <2>3, <2>5, SameDecoding
  <2>7. Fresh(cinfo)'
    BY <2>2, <2>5 DEF Fresh
  <2> QED
    BY <1>1, <2>1, <2>2, <2>4, <2>6, <2>7 DEF Decoding, Active
<1> QED
  BY <1>1, <1>2, <1>3, SameFile DEF Showing

LEMMA AllocBuffersShowing == DecoderTypes /\ Mixing /\ Showing /\ AllocBuffers => Showing'
<1> SUFFICES ASSUME DecoderTypes, Mixing, Showing, AllocBuffers PROVE Showing'
  OBVIOUS
<1>1. /\ pc = "buffers" /\ pc' = "rows" /\ UNCHANGED <<file, cinfo, coef, starved, y>>
      /\ cinfo \in CInfo /\ y = 0
  BY DEF AllocBuffers, DecoderTypes, Mixing, Active
<1>2. FrameShown'
  BY <1>1 DEF FrameShown
<1>3. ASSUME Complete PROVE Decoding(cinfo, coef)'
  <2>1. Fresh(cinfo) /\ RowsComing(cinfo, coef) /\ ~starved /\ cinfo.global_state = "SCANNING"
    BY <1>1, <1>3 DEF Showing, Decoding, Active
  <2>2. PICK d : d = cinfo'
    OBVIOUS
  <2>3. PICK co : co = coef
    OBVIOUS
  <2>4. LinesMade(d)
    <3>1. RowLines \in Nat
      BY JpegDecoderAssumption
    <3> QED
      BY <1>1, <2>1, <2>2, <3>1 DEF LinesMade, Fresh
  <2>5. RowsComing(cinfo, coef)'
    BY <1>1, <2>1, <2>2, <2>3, SameDecoding
  <2>6. LinesMade(cinfo)' /\ LinesRight'
    BY <1>1, <2>2, <2>4 DEF LinesMade, LinesRight
  <2> QED
    BY <1>1, <2>1, <2>5, <2>6 DEF Decoding, Active
<1> QED
  BY <1>1, <1>2, <1>3, SameFile DEF Showing

LEMMA ReadScanlineShowing == DecoderTypes /\ Mixing /\ Showing /\ ReadScanline => Showing'
<1> SUFFICES ASSUME DecoderTypes, Mixing, Showing, ReadScanline PROVE Showing'
  OBVIOUS
<1>1. /\ pc = "rows" /\ cinfo \in CInfo /\ cinfo.output_scanline < file.height
      /\ UNCHANGED <<file, heights, coef>> /\ file \in Files \cup {NoFile}
      /\ rgb # <<>> /\ IMG_HEIGHT \in Nat \ {0} /\ rgb \in [1..IMG_HEIGHT -> Lines] /\ y \in Nat
      /\ heights \in Seq(Nat \ {0}) /\ frame = Len(heights) /\ frame' = frame
  BY DEF ReadScanline, DecoderTypes, frame
<1>2. pc' \in {"rows", "crashed", "return"}
  BY <1>1 DEF ReadScanline, ErrorExit, Output
<1>3. FrameShown'
  BY <1>2 DEF FrameShown
<1>4. ASSUME Complete PROVE Decoding(cinfo, coef)'
  <2>1. /\ cinfo.global_state = "SCANNING" /\ LinesRight /\ RowsComing(cinfo, coef)
        /\ LinesMade(cinfo)
        /\ ~starved /\ Shape
    BY <1>1, <1>4, CompleteShape DEF Showing, Decoding, Active
  <2>2. PICK d \in CInfo :
            /\ ProcessData(cinfo) = Result(d, "row")
            /\ d.buffer /\ d.output_scanline = cinfo.output_scanline + 1
            /\ d.global_state = cinfo.global_state
            /\ RowsComing(d, coef) /\ LinesMade(d)
    BY <1>1, <2>1, RowsStep
  <2>3. PICK line : line = Line(frame, d.output_scanline, d.buffer)
    OBVIOUS
  <2>4. /\ cinfo' = d /\ starved' = (starved \/ "row" = "suspended")
        /\ y' = IF y < IMG_HEIGHT THEN y + 1 ELSE y
        /\ Output(line)
    <3>1. PICK r : r = ProcessData(cinfo)
      OBVIOUS
    <3>2. r.c = d /\ r.ret = "row"
      BY <2>2, <3>1 DEF Result
    <3> QED
      BY <1>1, <2>1, <2>3, <3>1, <3>2 DEF ReadScanline
  <2>5. ~starved'
    BY <2>1, <2>4
  <2>6. y = IF cinfo.output_scanline < IMG_HEIGHT THEN cinfo.output_scanline ELSE IMG_HEIGHT
    BY <1>1, <2>1 DEF Mixing, Stuck
  <2>7. RowsComing(cinfo, coef)' /\ LinesMade(cinfo)'
    <3>1. PICK co : co = coef
      OBVIOUS
    <3>2. RowsComing(d, co) /\ cinfo' = d /\ coef' = co
      BY <1>1, <2>2, <2>4, <3>1
    <3> QED
      BY <1>1, <2>2, <3>2, SameDecoding DEF LinesMade
  <2>8. LinesRight'
    <3>1. cinfo.output_scanline \in Nat /\ d.buffer = TRUE
      BY <1>1, <2>2 DEF CInfo
    <3>2. CASE y < IMG_HEIGHT
      <4>1. line = Line(frame, y + 1, TRUE)
        <5>1. y = cinfo.output_scanline
          BY <1>1, <2>6, <3>1, <3>2
        <5>2. d.output_scanline = y + 1
          BY <2>2, <5>1
        <5> QED
          BY <2>3, <3>1, <5>2
      <4>2. rgb' = [rgb EXCEPT ![y + 1] = line] /\ y' = y + 1
        BY <2>4, <3>2 DEF Output
      <4>3. \A l \in 1..(y + 1) : rgb'[l] = IF l = y + 1 THEN line ELSE rgb[l]
        BY <1>1, <3>2, <4>2
      <4>4. \A l \in 1..(y + 1) : l = y + 1 \/ l \in 1..y
        BY <1>1
      <4>5. \A l \in 1..(y + 1) : rgb'[l] = Line(frame, l, TRUE)
        BY <2>1, <4>1, <4>3, <4>4 DEF LinesRight
      <4> QED
        BY <1>1, <4>2, <4>5 DEF LinesRight
    <3>3. CASE ~(y < IMG_HEIGHT)
      <4>1. y' = y /\ rgb' = rgb
        BY <2>4, <3>3 DEF Output, imageVars
      <4> QED
        BY <1>1, <2>1, <4>1 DEF LinesRight
    <3> QED
      BY <3>2, <3>3
  <2>9. pc' \in {"rows", "crashed"}
    BY <1>1, <2>4 DEF Output
  <2> QED
    BY <2>1, <2>2, <2>4, <2>5, <2>7, <2>8, <2>9 DEF Decoding, Active
<1> QED
  BY <1>1, <1>3, <1>4, SameFile DEF Showing

LEMMA FinishDecompressShowing == DecoderTypes /\ Mixing /\ Showing /\ FinishDecompress => Showing'
<1> SUFFICES ASSUME DecoderTypes, Mixing, Showing, FinishDecompress PROVE Showing'
  OBVIOUS
<1> DEFINE r == ConsumeMarker(cinfo)
<1>1. Reading(cinfo, r) /\ cinfo' = r.c /\ cinfo \in CInfo
  BY ConsumeMarkerReads DEF DecoderTypes, FinishDecompress
<1>2. /\ pc = "rows" /\ pc' \in {"rows", "return"} /\ cinfo.output_scanline >= file.height
      /\ pc' = "rows" => starved' = starved
      /\ UNCHANGED <<file, heights, coef, y, rgb, IMG_HEIGHT>>
  BY DEF FinishDecompress, ErrorExit, imageVars
<1> HIDE DEF r
<1>3. /\ cinfo'.output_scanline = cinfo.output_scanline /\ cinfo'.global_state = cinfo.global_state
      /\ cinfo.output_scanline = file.height /\ file.height \in Nat \ {0}
  BY <1>1, <1>2, FileTypes DEF Reading, SameOutput, DecoderTypes, CInfo
<1>4. FrameShown'
  BY <1>2 DEF FrameShown
<1>5. ASSUME Complete PROVE Decoding(cinfo, coef)'
  <2>1. cinfo.global_state = "SCANNING" /\ LinesRight /\ ~starved
    BY <1>2, <1>5 DEF Showing, Decoding, Active
  <2>2. y = IF file.height < IMG_HEIGHT THEN file.height ELSE IMG_HEIGHT
    BY <1>2, <1>3, <2>1 DEF Mixing, Stuck
  <2>3. LinesRight'
    BY <1>2, <2>1 DEF LinesRight, frame
  <2>4. ~(cinfo'.output_scanline < file'.height)
    BY <1>2, <1>3
  <2> QED
    BY <1>2, <1>3, <2>1, <2>2, <2>3, <2>4 DEF Decoding, Active
<1> QED
  BY <1>2, <1>4, <1>5, SameFile DEF Showing

LEMMA CopyPixelsShowing == DecoderTypes /\ Showing /\ CopyPixels => Showing'
<1> SUFFICES ASSUME DecoderTypes, Showing, CopyPixels PROVE Showing'
  OBVIOUS
<1>1. /\ pc = "return" /\ pc' \in {"idle", "stopped", "crashed"} /\ UNCHANGED <<file, heights, rgb>>
      /\ pc' = "idle" => BmpHeight = IMG_HEIGHT /\ bmp' = rgb
  BY DEF CopyPixels, imageVars
<1>2. (Complete => Decoding(cinfo, coef))'
  BY <1>1 DEF Decoding, Active
<1>3. ASSUME pc' = "idle", rgb # <<>>, Complete, file.height = BmpHeight
      PROVE  bmp' = [l \in 1..BmpHeight |-> Line(frame, l, TRUE)]
  <2>1. LinesRight /\ y = IF file.height < IMG_HEIGHT THEN file.height ELSE IMG_HEIGHT
    BY <1>1, <1>3 DEF Showing, Decoding
  <2>2. y = BmpHeight
    BY <1>1, <1>3, <2>1
  <2>3. rgb \in [1..BmpHeight -> Lines]
    BY <1>1, <1>3 DEF DecoderTypes
  <2> QED
    BY <1>1, <1>3, <2>1, <2>2, <2>3 DEF LinesRight
<1>4. FrameShown'
  BY <1>1, <1>3, SameFile DEF FrameShown, frame
<1> QED
  BY <1>2, <1>4 DEF Showing

LEMMA FreeCameraMemoryShowing == FreeCameraMemory => Showing'
  BY DEF FreeCameraMemory, Showing, FrameShown, Decoding, Active

LEMMA UnchangedShowing == Showing /\ UNCHANGED decoderVars => Showing'
<1> SUFFICES ASSUME Showing, UNCHANGED decoderVars PROVE Showing'
  OBVIOUS
<1>1. UNCHANGED <<pc, file, heights, cinfo, coef, y, rgb, IMG_HEIGHT, bmp, starved>>
  BY DEF decoderVars
<1>2. FrameShown'
  BY <1>1, SameFile DEF FrameShown, frame, Showing
<1>3. ASSUME Complete PROVE Decoding(cinfo, coef)'
  <2>1. Decoding(cinfo, coef)
    BY <1>3 DEF Showing
  <2>2. PICK c : c = cinfo
    OBVIOUS
  <2>3. PICK co : co = coef
    OBVIOUS
  <2>4. cinfo' = c /\ coef' = co
    BY <1>1, <2>2, <2>3
  <2>5. /\ InHeader(cinfo)' <=> InHeader(cinfo)
        /\ AtFirstScan(cinfo)' <=> AtFirstScan(cinfo)
        /\ Absorbing(cinfo, coef)' <=> Absorbing(cinfo, coef)
        /\ RowsComing(cinfo, coef)' <=> RowsComing(cinfo, coef)
    BY <1>1, <2>2, <2>3, <2>4, SameDecoding
  <2>6. Fresh(cinfo)' <=> Fresh(cinfo)
    BY <1>1 DEF Fresh
  <2>7. (LinesMade(cinfo)' <=> LinesMade(cinfo)) /\ (LinesRight' <=> LinesRight)
    BY <1>1 DEF LinesMade, LinesRight, frame
  <2> QED
    BY <1>1, <2>1, <2>5, <2>6, <2>7 DEF Decoding
<1> QED
  BY <1>1, <1>2, <1>3, SameFile DEF Showing

-----------------------------------------------------------------------------
(* The theorems *)

LEMMA InitDInv == Init => DInv
  BY InitTypes, InitMixing, InitFailing, InitShowing DEF Init, DInv

LEMMA NextDInv == DInv /\ [Next]_vars => DInv'
<1> SUFFICES ASSUME DInv, [Next]_vars PROVE DInv'
  OBVIOUS
<1> USE DEF DInv
<1>1. CASE UNCHANGED decoderVars
  BY <1>1, UnchangedTypes, UnchangedMixing, UnchangedFailing, UnchangedShowing
<1>2. CASE PixelToBmp
  BY <1>2, PixelToBmpTypes, PixelToBmpMixing, PixelToBmpFailing, PixelToBmpShowing
<1>3. CASE ReadHeader
  BY <1>3, ReadHeaderTypes, PreparingMixing, ReadHeaderFailing, ReadHeaderShowing DEF Preparing
<1>4. CASE StartDecompress
  BY <1>4, StartDecompressTypes, PreparingMixing, StartDecompressFailing, StartDecompressShowing
     DEF Preparing
<1>5. CASE Absorb
  BY <1>5, AbsorbTypes, PreparingMixing, AbsorbFailing, AbsorbShowing DEF Preparing
<1>6. CASE OutputPassSetup
  BY <1>6, OutputPassSetupTypes, PreparingMixing, OutputPassSetupFailing, OutputPassSetupShowing
     DEF Preparing
<1>7. CASE AllocBuffers
  BY <1>7, AllocBuffersTypes, AllocBuffersMixing, AllocBuffersFailing, AllocBuffersShowing
<1>8. CASE ReadScanline
  BY <1>8, ReadScanlineTypes, ReadScanlineMixing, ReadScanlineFailing, ReadScanlineShowing
<1>9. CASE FinishDecompress
  BY <1>9, FinishDecompressTypes, FinishDecompressMixing, FinishDecompressFailing,
     FinishDecompressShowing
<1>10. CASE CopyPixels
  BY <1>10, CopyPixelsTypes, CopyPixelsMixing, CopyPixelsFailing, CopyPixelsShowing
<1>11. CASE FreeCameraMemory
  BY <1>11, FreeCameraMemoryTypes, FreeCameraMemoryMixing, FreeCameraMemoryFailing,
     FreeCameraMemoryShowing
<1> HIDE DEF DInv
<1> QED
  BY <1>1, <1>2, <1>3, <1>4, <1>5, <1>6, <1>7, <1>8, <1>9, <1>10, <1>11
     DEF Next, Reads, Begins, Decodes, Frees, Decode, vars

\* The inductive invariant: whatever frames come, how far decoding is says which lines are in
\* rgb and in the bitmap, what an error was for, and, if the frame is complete, that all is
\* read as it was encoded.
THEOREM DecoderInvariant == Spec => []DInv
  BY InitDInv, NextDInv, PTL DEF Spec

\* pixeltobmp never mixes frames: however they are cut off, the bitmap shows lines of one
\* frame, except below the last line of one that is smaller than the one before.
THEOREM NeverMixed == Spec => []NoMixedFrame
<1>1. DInv => NoMixedFrame
  BY MixingShows DEF DInv
<1> QED
  BY <1>1, DecoderInvariant, PTL

\* Every error that libjpeg raises for its own state comes of a suspension processimage did
\* not look at, the process ends in the named cases alone, and jpeg_destroy_decompress is
\* always reached.
THEOREM EveryFailureExplained == Spec => []FailuresExplained
<1>1. DInv => FailuresExplained
  BY DEF DInv, Failing
<1> QED
  BY <1>1, DecoderInvariant, PTL

\* A frame that is complete, in one scan or several, is shown whole: every line of the bitmap
\* is that of the frame, made of coefficients that were decoded with the right tables.
THEOREM CompleteFrameShown == Spec => []FrameShown
<1>1. DInv => FrameShown
  BY DEF DInv, Showing
<1> QED
  BY <1>1, DecoderInvariant, PTL

-----------------------------------------------------------------------------
(***************************************************************************)
(* The reader: FramesFound, for streams of any parts and a mark of any     *)
(* limit. First the recursion of EndOfSequence and of AllBytes is unrolled,*)
(* then the searches are computed on a stream laid out as parts, then one  *)
(* turn of the loop keeps the invariant.                                   *)
(***************************************************************************)

\* A set of natural numbers that has 0 and every successor has them all.
LEMMA Induction ==
  ASSUME NEW S \in SUBSET Nat, 0 \in S, \A n \in S : n + 1 \in S
  PROVE  S = Nat
<1> SUFFICES ASSUME Nat \ S # {} PROVE FALSE
  OBVIOUS
<1>1. Nat \ S \in SUBSET Nat
  OBVIOUS
<1>2. PICK m \in Nat \ S : \A k \in Nat \ S : m <= k
  BY <1>1, MinExists
<1>3. m # 0 /\ m - 1 \in Nat /\ m - 1 \in S
  BY <1>2
<1> QED
  BY <1>2, <1>3


\* A sequence of a set that begins with x0 and goes on as g says.
IsStep(g, S, N) == g \in [(0..N) \X S -> S]
Goes(f, g, x0, S, N) ==
    f \in [0..N -> S] /\ f[0] = x0 /\ \A i \in 1..N : f[i] = g[<<i, f[i - 1]>>]

LEMMA Recursion ==
  ASSUME NEW S, NEW x0 \in S, NEW N \in Nat, NEW g, IsStep(g, S, N)
  PROVE  \E f : Goes(f, g, x0, S, N)
<1> USE DEF IsStep
<1> DEFINE Works(n, f) == f[0] = x0 /\ \A i \in 1..n : f[i] = g[<<i, f[i - 1]>>]
           R == {n \in Nat : n <= N => \E f \in [0..n -> S] : Works(n, f)}
<1>1. 0 \in R
  <2>1. [i \in 0..0 |-> x0] \in [0..0 -> S] /\ Works(0, [i \in 0..0 |-> x0])
    OBVIOUS
  <2> QED
    BY <2>1
<1>2. ASSUME NEW n \in R, n + 1 <= N PROVE \E f \in [0..(n + 1) -> S] : Works(n + 1, f)
  <2>1. n \in Nat /\ n <= N
    BY <1>2
  <2>2. PICK f \in [0..n -> S] : Works(n, f)
    BY <2>1
  <2> DEFINE h == [i \in 0..(n + 1) |-> IF i <= n THEN f[i] ELSE g[<<n + 1, f[n]>>]]
  <2>3. f[n] \in S /\ <<n + 1, f[n]>> \in (0..N) \X S
    BY <1>2, <2>1
  <2>4. h \in [0..(n + 1) -> S]
    BY <2>1, <2>3
  <2>5. h[0] = x0
    BY <2>1, <2>2
  <2>6. ASSUME NEW i \in 1..(n + 1) PROVE h[i] = g[<<i, h[i - 1]>>]
    <3>1. CASE i <= n
      <4>1. i \in 1..n /\ i - 1 \in 0..n /\ i \in 0..(n + 1) /\ i - 1 \in 0..(n + 1)
        BY <2>1, <3>1
      <4>2. h[i] = f[i] /\ h[i - 1] = f[i - 1]
        BY <4>1
      <4> QED
        BY <2>2, <4>1, <4>2
    <3>2. CASE i = n + 1
      <4>1. i \in 0..(n + 1) /\ ~(i <= n) /\ i - 1 = n /\ n \in 0..(n + 1)
        BY <2>1, <3>2
      <4>2. h[i] = g[<<n + 1, f[n]>>] /\ h[i - 1] = f[n]
        BY <2>1, <4>1
      <4> QED
        BY <3>2, <4>2
    <3> QED
      BY <2>1, <3>1, <3>2
  <2> QED
    BY <2>4, <2>5, <2>6
<1>3. ASSUME NEW n \in R PROVE n + 1 \in R
  BY <1>2
<1> HIDE DEF Works
<1>4. R = Nat
  BY <1>1, <1>3, Induction
<1> QED
  BY <1>4 DEF Works, Goes

-----------------------------------------------------------------------------
(* Looking for a marker *)

SearchWindow(b, from, max) == AtMost(Len(b) - from, max)

\* The state of the search before each byte, and what comes of it.
Ends(idx, b, from, last, n) == {i \in 1..n : idx[i - 1] = 1 /\ b[from + i] = last}
Indexes(idx, b, from, n) ==
    /\ idx \in [0..n -> {0, 1}] /\ idx[0] = 0
    /\ \A i \in 1..n : idx[i] = IF b[from + i] = 255 /\ idx[i - 1] = 0 THEN 1 ELSE 0
Search(b, from, last, max, found) ==
    IF found # {} THEN [found |-> "yes", read |-> Min(found)]
    ELSE [found |-> IF Len(b) - from < max THEN "eof" ELSE "no",
          read |-> SearchWindow(b, from, max)]

Searched(b, from, last, max) ==
    \E idx : /\ Indexes(idx, b, from, SearchWindow(b, from, max))
             /\ EndOfSequence(b, from, last, max) =
                   Search(b, from, last, max, Ends(idx, b, from, last, SearchWindow(b, from, max)))

LEMMA SeqIndex ==
  ASSUME NEW b \in Seq(Int), NEW from \in 0..Len(b), NEW last \in Int, NEW max \in Nat
  PROVE  Searched(b, from, last, max)
<1> DEFINE n == SearchWindow(b, from, max)
           g == [x \in (0..n) \X {0, 1} |-> IF b[from + x[1]] = 255 /\ x[2] = 0 THEN 1 ELSE 0]
           seqIndex[i \in 0..n] ==
              IF i > 0 /\ b[from + i] = 255 /\ seqIndex[i - 1] = 0 THEN 1 ELSE 0
           ends == {i \in 1..n : seqIndex[i - 1] = 1 /\ b[from + i] = last}
<1>1. n \in Nat
  BY DEF SearchWindow, AtMost
<1>2. EndOfSequence(b, from, last, max) =
         IF ends # {} THEN [found |-> "yes", read |-> Min(ends)]
         ELSE [found |-> IF Len(b) - from < max THEN "eof" ELSE "no", read |-> n]
  BY DEF EndOfSequence, SearchWindow
<1> HIDE DEF n
<1>3. g \in [(0..n) \X {0, 1} -> {0, 1}]
  OBVIOUS
<1>4. PICK f : Goes(f, g, 0, {0, 1}, n)
  <2> HIDE DEF g
  <2>1. IsStep(g, {0, 1}, n)
    BY <1>3 DEF IsStep
  <2>2. PICK S : S = {0, 1}
    OBVIOUS
  <2> QED
    BY <1>1, <2>1, <2>2, Recursion
<1>9. f \in [0..n -> {0, 1}] /\ f[0] = 0 /\ \A i \in 1..n : f[i] = g[<<i, f[i - 1]>>]
  BY <1>4 DEF Goes
<1>5. f = [i \in 0..n |-> IF i > 0 /\ b[from + i] = 255 /\ f[i - 1] = 0 THEN 1 ELSE 0]
  <2>1. ASSUME NEW i \in 0..n
        PROVE  f[i] = IF i > 0 /\ b[from + i] = 255 /\ f[i - 1] = 0 THEN 1 ELSE 0
    <3>1. CASE i = 0
      BY <1>9, <3>1
    <3>2. CASE i \in 1..n
      <4>1. <<i, f[i - 1]>> \in (0..n) \X {0, 1}
        BY <1>1, <1>9, <3>2
      <4>2. f[i] = IF b[from + i] = 255 /\ f[i - 1] = 0 THEN 1 ELSE 0
        BY <1>9, <3>2, <4>1
      <4> QED
        BY <3>2, <4>2
    <3> QED
      BY <1>1, <3>1, <3>2
  <2> QED
    BY <1>9, <2>1
<1>6. seqIndex = [i \in 0..n |-> IF i > 0 /\ b[from + i] = 255 /\ seqIndex[i - 1] = 0 THEN 1 ELSE 0]
  <2> DEFINE Fits(h) ==
        h = [i \in 0..n |-> IF i > 0 /\ b[from + i] = 255 /\ h[i - 1] = 0 THEN 1 ELSE 0]
  <2>1. \E h : Fits(h)
    BY <1>5
  <2>2. seqIndex = CHOOSE h : Fits(h)
    OBVIOUS
  <2> HIDE DEF Fits
  <2>3. Fits(seqIndex)
    BY <2>1, <2>2
  <2> QED
    BY <2>3 DEF Fits
<1> HIDE DEF seqIndex
<1>7. seqIndex \in [0..n -> {0, 1}] /\ seqIndex[0] = 0
  BY <1>1, <1>6
<1>8. \A i \in 1..n : seqIndex[i] = IF b[from + i] = 255 /\ seqIndex[i - 1] = 0 THEN 1 ELSE 0
  BY <1>1, <1>6
<1>10. ends = Ends(seqIndex, b, from, last, n)
  BY DEF Ends
<1> HIDE DEF ends
<1>11. EndOfSequence(b, from, last, max) = Search(b, from, last, max, ends)
  BY <1>2 DEF Search, n
<1>12. Indexes(seqIndex, b, from, n)
  BY <1>7, <1>8 DEF Indexes
<1> QED
  BY <1>10, <1>11, <1>12 DEF Searched, n

\* No byte of these begins the marker, or hides its beginning.
Clear(b, first, to, last) == \A i \in first..to : b[i] = 255 => b[i + 1] \notin {255, last}

\* The first marker is found, if nothing before it looks like one or hides it.
MarkerAt(b, from, last, m) ==
    /\ from + m <= Len(b) /\ b[from + m - 1] = 255 /\ b[from + m] = last /\ last # 255
    /\ Clear(b, from + 1, from + m - 2, last)

LEMMA MarkerFound ==
  ASSUME NEW b \in Seq(Int), NEW from \in 0..Len(b), NEW last \in Int, NEW max \in Nat,
         NEW m \in 2..max, MarkerAt(b, from, last, m)
  PROVE  EndOfSequence(b, from, last, max) = [found |-> "yes", read |-> m]
<1> DEFINE n == SearchWindow(b, from, max)
<1>0. /\ from + m <= Len(b) /\ b[from + m - 1] = 255 /\ b[from + m] = last /\ last # 255
      /\ \A i \in (from + 1)..(from + m - 2) : b[i] = 255 => b[i + 1] # 255 /\ b[i + 1] # last
  BY DEF MarkerAt, Clear
<1>1. n \in Nat /\ m \in 2..n
  BY <1>0 DEF SearchWindow, AtMost
<1>2. PICK idx : /\ Indexes(idx, b, from, n)
                 /\ EndOfSequence(b, from, last, max) =
                       Search(b, from, last, max, Ends(idx, b, from, last, n))
  <2>1. Searched(b, from, last, max)
    BY SeqIndex
  <2> QED
    BY <2>1 DEF Searched
<1>8. /\ idx \in [0..n -> {0, 1}] /\ idx[0] = 0
      /\ \A i \in 1..n : idx[i] = IF b[from + i] = 255 /\ idx[i - 1] = 0 THEN 1 ELSE 0
  BY <1>2 DEF Indexes
<1> DEFINE ends == Ends(idx, b, from, last, n)
<1>9. \A i : i \in ends <=> i \in 1..n /\ idx[i - 1] = 1 /\ b[from + i] = last
  BY DEF Ends
<1> HIDE DEF n, ends
<1>3. idx[m - 2] = 0
  <2>1. CASE m = 2
    BY <1>8, <2>1
  <2>2. CASE m > 2 /\ idx[m - 2] = 1
    <3>1. m - 2 \in 1..n /\ from + (m - 2) \in (from + 1)..(from + m - 2)
          /\ from + (m - 2) + 1 = from + m - 1
      BY <1>1, <2>2
    <3>2. b[from + (m - 2)] = 255
      BY <1>8, <2>2, <3>1
    <3>3. b[from + (m - 2) + 1] # 255
      BY <1>0, <3>1, <3>2
    <3> QED
      BY <1>0, <3>1, <3>3
  <2>3. m - 2 \in 0..n
    BY <1>1
  <2> QED
    BY <1>1, <1>8, <2>1, <2>2, <2>3
<1>4. m \in ends
  <2>1. m - 1 \in 1..n /\ m \in 1..n /\ (m - 1) - 1 = m - 2 /\ from + (m - 1) = from + m - 1
    BY <1>1
  <2>3. b[from + (m - 1)] = 255
    BY <1>0, <2>1
  <2>4. idx[m - 1] = IF b[from + (m - 1)] = 255 /\ idx[(m - 1) - 1] = 0 THEN 1 ELSE 0
    BY <1>8, <2>1
  <2>2. idx[m - 1] = 1
    BY <1>3, <2>1, <2>3, <2>4
  <2> QED
    BY <1>0, <1>9, <2>1, <2>2
<1>5. ASSUME NEW i \in ends, i < m PROVE FALSE
  <2>1. i \in 1..n /\ idx[i - 1] = 1 /\ b[from + i] = last /\ i # 1
    BY <1>8, <1>9
  <2>2. i - 1 \in 1..n /\ from + (i - 1) \in (from + 1)..(from + m - 2)
        /\ from + (i - 1) + 1 = from + i
    BY <1>1, <1>5, <2>1
  <2>3. b[from + (i - 1)] = 255
    BY <1>8, <2>1, <2>2
  <2>4. b[from + (i - 1) + 1] # last
    BY <1>0, <2>2, <2>3
  <2> QED
    BY <2>1, <2>2, <2>4
<1>6. ends \in SUBSET Nat /\ ends # {}
  <2>1. \A i \in ends : i \in Nat
    BY <1>1, <1>9
  <2> QED
    BY <1>4, <2>1
<1>7. Min(ends) = m
  <2>1. Min(ends) \in ends /\ \A k \in ends : Min(ends) <= k
    BY <1>6, MinExists
  <2>2. Min(ends) \in Nat
    BY <1>6, <2>1
  <2>3. ~(Min(ends) < m)
    BY <1>5, <2>1
  <2> QED
    BY <1>1, <1>4, <2>1, <2>2, <2>3
<1> QED
  BY <1>2, <1>6, <1>7 DEF Search, ends

\* Where there is none, none is found.
LEMMA NoMarker ==
  ASSUME NEW b \in Seq(Int), NEW from \in 0..Len(b), NEW last \in Int, NEW max \in Nat,
         \A i \in (from + 1)..(Len(b) - 1) : ~(b[i] = 255 /\ b[i + 1] = last) \/ i + 1 > from + max
  PROVE  EndOfSequence(b, from, last, max) =
            [found |-> IF Len(b) - from < max THEN "eof" ELSE "no",
             read |-> AtMost(Len(b) - from, max)]
<1> DEFINE n == SearchWindow(b, from, max)
<1>1. n \in Nat /\ from + n <= Len(b) /\ n <= max
  BY DEF SearchWindow, AtMost
<1>2. PICK idx : /\ Indexes(idx, b, from, n)
                 /\ EndOfSequence(b, from, last, max) =
                       Search(b, from, last, max, Ends(idx, b, from, last, n))
  <2>1. Searched(b, from, last, max)
    BY SeqIndex
  <2> QED
    BY <2>1 DEF Searched
<1>8. /\ idx \in [0..n -> {0, 1}] /\ idx[0] = 0
      /\ \A i \in 1..n : idx[i] = IF b[from + i] = 255 /\ idx[i - 1] = 0 THEN 1 ELSE 0
  BY <1>2 DEF Indexes
<1> DEFINE ends == Ends(idx, b, from, last, n)
<1>9. \A i : i \in ends <=> i \in 1..n /\ idx[i - 1] = 1 /\ b[from + i] = last
  BY DEF Ends
<1>4. n = AtMost(Len(b) - from, max)
  BY DEF SearchWindow
<1> HIDE DEF n, ends
<1>3. ASSUME NEW i \in ends PROVE FALSE
  <2>1. i \in 1..n /\ idx[i - 1] = 1 /\ b[from + i] = last /\ i # 1
    BY <1>8, <1>9
  <2>2. i - 1 \in 1..n /\ from + (i - 1) \in (from + 1)..(Len(b) - 1)
        /\ from + (i - 1) + 1 = from + i /\ ~(from + i > from + max)
    BY <1>1, <2>1
  <2>3. b[from + (i - 1)] = 255
    BY <1>8, <2>1, <2>2
  <2> QED
    BY <2>1, <2>2, <2>3
<1>5. ends = {}
  BY <1>3
<1> QED
  BY <1>2, <1>4, <1>5 DEF Search, SearchWindow, ends, n

-----------------------------------------------------------------------------
(* Where the parts of a stream are *)

\* F has the bytes of the first parts of s.
Lays(F, s, n) == F[0] = <<>> /\ \A k \in 1..n : F[k] = F[k - 1] \o PartBytes(s[k])
Laid(F, s) == F \in [0..Len(s) -> Seq(Int)] /\ Lays(F, s, Len(s))

LEMMA PartTypes ==
  ASSUME NEW p \in Part
  PROVE  /\ p.header \in Seq(Int) /\ p.frame \in Seq(Int)
         /\ PartHeader(p) \in Seq(Int) /\ PartBytes(p) \in Seq(Int)
         /\ Len(PartHeader(p)) = Len(p.header) + (IF p.error = None THEN 0 ELSE 1)
         /\ Len(PartBytes(p)) = Len(PartHeader(p)) + Len(p.frame)
<1>1. p.header \in Seq(Int) /\ p.frame \in Seq(Int)
  BY DEF Part, Octet
<1>2. PartHeader(p) \in Seq(Int)
      /\ Len(PartHeader(p)) = Len(p.header) + (IF p.error = None THEN 0 ELSE 1)
  <2>1. CASE p.error = None
    BY <1>1, <2>1 DEF PartHeader
  <2>2. CASE p.error # None
    <3>1. p.error \in Int
      BY <2>2 DEF Part
    <3>2. 256 + Len(p.frame) + p.error \in Int
      BY <1>1, <3>1
    <3> QED
      BY <1>1, <2>2, <3>2 DEF PartHeader
  <2> QED
    BY <2>1, <2>2
<1>3. PICK h, f \in Seq(Int) : h = PartHeader(p) /\ f = p.frame
  BY <1>1, <1>2
<1>4. h \o f \in Seq(Int) /\ Len(h \o f) = Len(h) + Len(f)
  OBVIOUS
<1>5. PartBytes(p) = h \o f
  BY <1>3 DEF PartBytes
<1> QED
  BY <1>1, <1>2, <1>3, <1>4, <1>5

LEMMA LaidExists ==
  ASSUME NEW s \in Seq(Part)
  PROVE  \E F : Laid(F, s)
<1> DEFINE n == Len(s)
           g == [x \in (0..n) \X Seq(Int) |-> IF x[1] = 0 THEN <<>> ELSE x[2] \o PartBytes(s[x[1]])]
<1>1. n \in Nat /\ \A k \in 1..n : PartBytes(s[k]) \in Seq(Int)
  <2>1. ASSUME NEW k \in 1..n PROVE PartBytes(s[k]) \in Seq(Int)
    <3>1. PICK p \in Part : p = s[k]
      OBVIOUS
    <3> QED
      BY <3>1, PartTypes
  <2> QED
    BY <2>1
<1> HIDE DEF n
<1>2. PICK S : S = Seq(Int)
  OBVIOUS
<1>3. IsStep(g, S, n) /\ <<>> \in S
  <2>1. ASSUME NEW k \in 0..n, NEW v \in Seq(Int)
        PROVE  (IF k = 0 THEN <<>> ELSE v \o PartBytes(s[k])) \in Seq(Int)
    <3>1. CASE k = 0
      BY <3>1
    <3>2. CASE k \in 1..n
      <4>1. PICK w : w = PartBytes(s[k])
        OBVIOUS
      <4>2. w \in Seq(Int)
        BY <1>1, <3>2, <4>1
      <4>3. v \o w \in Seq(Int)
        BY <4>2
      <4> QED
        BY <3>2, <4>1, <4>3
    <3> QED
      BY <1>1, <3>1, <3>2
  <2> QED
    BY <1>2, <2>1 DEF IsStep
<1>4. PICK F : Goes(F, g, <<>>, S, n)
  <2> HIDE DEF g
  <2> QED
    BY <1>1, <1>3, Recursion
<1>5. F \in [0..n -> Seq(Int)] /\ F[0] = <<>> /\ \A k \in 1..n : F[k] = g[<<k, F[k - 1]>>]
  BY <1>2, <1>4 DEF Goes
<1>6. ASSUME NEW k \in 1..n PROVE F[k] = F[k - 1] \o PartBytes(s[k])
  <2>1. <<k, F[k - 1]>> \in (0..n) \X Seq(Int) /\ k # 0
    BY <1>1, <1>5
  <2> QED
    BY <1>5, <2>1
<1> QED
  BY <1>5, <1>6 DEF Laid, Lays, n

\* There is one way to lay out the parts.
LEMMA LaidSame ==
  ASSUME NEW s \in Seq(Part), NEW F, Laid(F, s), NEW m \in 0..Len(s), NEW G,
         Lays(G, s, m)
  PROVE  \A k \in 0..m : G[k] = F[k]
<1> DEFINE R == {k \in Nat : k <= m => G[k] = F[k]}
<1>1. 0 \in R
  BY DEF Laid, Lays
<1>2. ASSUME NEW k \in R PROVE k + 1 \in R
  <2>1. CASE k + 1 <= m
    <3>1. k + 1 \in 1..m /\ k + 1 \in 1..Len(s) /\ (k + 1) - 1 = k /\ G[k] = F[k]
      BY <2>1
    <3>2. G[k + 1] = G[k] \o PartBytes(s[k + 1])
      BY <3>1 DEF Lays
    <3>3. F[k + 1] = F[k] \o PartBytes(s[k + 1])
      BY <3>1 DEF Laid, Lays
    <3>4. G[k + 1] = F[k + 1]
      BY <3>1, <3>2, <3>3
    <3> QED
      BY <3>4
  <2> QED
    BY <2>1
<1>3. R = Nat
  BY <1>1, <1>2, Induction
<1> QED
  BY <1>3

LEMMA AllBytesLaid ==
  ASSUME NEW s \in Seq(Part), NEW F, Laid(F, s)
  PROVE  AllBytes(s) = F[Len(s)]
<1> DEFINE n == Len(s)
           ss == [k \in DOMAIN s |-> PartBytes(s[k])]
<1>1. n \in Nat /\ DOMAIN s = 1..n /\ \A k \in 1..n : PartBytes(s[k]) \in Seq(Int)
  <2>1. ASSUME NEW k \in 1..n PROVE PartBytes(s[k]) \in Seq(Int)
    <3>1. PICK p \in Part : p = s[k]
      OBVIOUS
    <3> QED
      BY <3>1, PartTypes
  <2> QED
    BY <2>1
<1> HIDE DEF n
<1>2. ss \in Seq(Seq(Int)) /\ Len(ss) = n /\ \A k \in 1..n : ss[k] = PartBytes(s[k])
  BY <1>1
<1> HIDE DEF ss
<1>3. CASE n = 0
  <2>1. ss = <<>>
    BY <1>2, <1>3
  <2> QED
    BY <1>2, <1>3, <2>1 DEF AllBytes, FlattenSeq, Laid, Lays, ss, n
<1>4. CASE n > 0
  <2> DEFINE Fits(h) == h = [i \in 1..Len(ss) |-> IF i = 1 THEN ss[i] ELSE h[i - 1] \o ss[i]]
             flatten[i \in 1..Len(ss)] == IF i = 1 THEN ss[i] ELSE flatten[i - 1] \o ss[i]
             G == [i \in 1..n |-> F[i]]
  <2>1. /\ F \in [0..n -> Seq(Int)] /\ F[0] = <<>>
        /\ \A k \in 1..n : F[k] = F[k - 1] \o PartBytes(s[k])
    BY DEF Laid, Lays, n
  <2>2. Fits(G)
    <3>1. ASSUME NEW i \in 1..n PROVE G[i] = IF i = 1 THEN ss[i] ELSE G[i - 1] \o ss[i]
      <4>1. CASE i = 1
        <5>1. PICK w \in Seq(Int) : w = ss[1]
          BY <1>1, <1>2, <1>4
        <5>2. <<>> \o w = w
          OBVIOUS
        <5>4. 1 \in 1..n /\ 1 - 1 = 0
          BY <1>1, <1>4
        <5>5. F[1] = F[1 - 1] \o PartBytes(s[1])
          BY <2>1, <5>4
        <5>3. F[1] = F[0] \o PartBytes(s[1]) /\ ss[1] = PartBytes(s[1]) /\ G[1] = F[1]
          BY <1>2, <5>4, <5>5
        <5> QED
          BY <2>1, <4>1, <5>1, <5>2, <5>3
      <4>2. CASE i # 1
        <5>1. i - 1 \in 1..n
          BY <1>1, <4>2
        <5> QED
          BY <1>2, <2>1, <4>2, <5>1
      <4> QED
        BY <4>1, <4>2
    <3> QED
      BY <1>2, <3>1
  <2>3. Fits(flatten)
    <3>1. flatten = CHOOSE h : Fits(h)
      OBVIOUS
    <3> HIDE DEF Fits, flatten, G
    <3> QED
      BY <2>2, <3>1
  <2>4. AllBytes(s) = flatten[n]
    <3>1. AllBytes(s) = FlattenSeq(ss)
      BY DEF AllBytes, ss
    <3>2. FlattenSeq(ss) = flatten[Len(ss)]
      BY <1>2, <1>4 DEF FlattenSeq
    <3> QED
      BY <1>2, <3>1, <3>2
  <2> HIDE DEF flatten
  <2>5. \A i \in 1..n : flatten[i] = IF i = 1 THEN ss[i] ELSE flatten[i - 1] \o ss[i]
    BY <1>2, <2>3
  <2> DEFINE H == [i \in 0..n |-> IF i = 0 THEN <<>> ELSE flatten[i]]
  <2>6. ASSUME NEW i \in 1..n PROVE H[i] = H[i - 1] \o PartBytes(s[i])
    <3>1. CASE i = 1
      <4>3. PICK w \in Seq(Int) : w = ss[1]
        BY <1>1, <1>2, <1>4
      <4>4. <<>> \o w = w
        OBVIOUS
      <4>1. <<>> \o ss[1] = ss[1]
        BY <4>3, <4>4
      <4>2. H[1] = flatten[1] /\ H[0] = <<>>
        BY <1>1, <1>4
      <4> QED
        BY <1>2, <2>5, <3>1, <4>1, <4>2
    <3>2. CASE i # 1
      <4>1. i - 1 \in 1..n /\ i \in 0..n /\ i - 1 \in 0..n
        BY <1>1, <3>2
      <4>2. H[i] = flatten[i] /\ H[i - 1] = flatten[i - 1]
        BY <1>1, <4>1
      <4> QED
        BY <1>2, <2>5, <3>2, <4>2
    <3> QED
      BY <3>1, <3>2
  <2>7. H[0] = <<>> /\ H[n] = flatten[n]
    BY <1>1, <1>4
  <2> HIDE DEF H
  <2>9. n \in 0..Len(s) /\ n = Len(s)
    BY <1>1 DEF n
  <2>8. \A k \in 0..n : H[k] = F[k]
    <3>1. Lays(H, s, n)
      BY <2>6, <2>7 DEF Lays
    <3> QED
      BY <2>9, <3>1, LaidSame
  <2> QED
    BY <1>1, <2>4, <2>7, <2>8 DEF n
<1> QED
  BY <1>1, <1>3, <1>4

LEMMA LaidUpTo ==
  ASSUME NEW s \in Seq(Part), NEW F, Laid(F, s), NEW k \in 0..Len(s)
  PROVE  AllBytes(SubSeq(s, 1, k)) = F[k]
<1> DEFINE t == SubSeq(s, 1, k)
<1>1. t \in Seq(Part) /\ Len(t) = k /\ \A i \in 1..k : t[i] = s[i]
  OBVIOUS
<1> HIDE DEF t
<1>2. PICK G : Laid(G, t)
  BY <1>1, LaidExists
<1>3. Lays(G, s, k)
  <2>1. G[0] = <<>>
    BY <1>2 DEF Laid, Lays
  <2>2. ASSUME NEW i \in 1..k PROVE G[i] = G[i - 1] \o PartBytes(s[i])
    BY <1>1, <1>2 DEF Laid, Lays
  <2> QED
    BY <2>1, <2>2 DEF Lays
<1>4. G[k] = F[k]
  <2>1. \A i \in 0..k : G[i] = F[i]
    BY <1>3, LaidSame
  <2> QED
    BY <2>1
<1>5. AllBytes(t) = G[k]
  BY <1>1, <1>2, AllBytesLaid
<1> QED
  BY <1>4, <1>5 DEF t

\* b is a with w behind it.
Longer(a, w, b) ==
    /\ a \in Seq(Int) /\ w \in Seq(Int) /\ b \in Seq(Int)
    /\ Len(b) = Len(a) + Len(w)
    /\ \A i \in 1..Len(a) : b[i] = a[i]
    /\ \A j \in 1..Len(w) : b[Len(a) + j] = w[j]

LEMMA LaidStep ==
  ASSUME NEW s \in Seq(Part), NEW F, Laid(F, s), NEW k \in 1..Len(s)
  PROVE  Longer(F[k - 1], PartBytes(s[k]), F[k])
<1>1. k - 1 \in 0..Len(s) /\ k \in 0..Len(s) /\ s[k] \in Part
  OBVIOUS
<1>2. PICK f \in Seq(Int) : f = F[k - 1]
  BY <1>1 DEF Laid
<1>3. PICK w \in Seq(Int) : w = PartBytes(s[k])
  <2>1. PICK p \in Part : p = s[k]
    BY <1>1
  <2> QED
    BY <2>1, PartTypes
<1>4. F[k] = f \o w
  BY <1>2, <1>3 DEF Laid, Lays
<1>5. /\ f \o w \in Seq(Int) /\ Len(f \o w) = Len(f) + Len(w)
      /\ \A i \in 1..Len(f) : (f \o w)[i] = f[i]
      /\ \A j \in 1..Len(w) : (f \o w)[Len(f) + j] = w[j]
  OBVIOUS
<1> QED
  BY <1>2, <1>3, <1>4, <1>5 DEF Longer

Prefixed(c, b) == Len(c) <= Len(b) /\ \A x \in 1..Len(c) : b[x] = c[x]

LEMMA LongerBegins ==
  ASSUME NEW a, NEW w, NEW b, Longer(a, w, b), NEW c \in Seq(Int), Prefixed(c, a)
  PROVE  Prefixed(c, b)
<1>1. Len(c) \in Nat /\ Len(a) \in Nat /\ Len(w) \in Nat
  BY DEF Longer
<1>2. Len(c) <= Len(a) /\ Len(b) = Len(a) + Len(w)
  BY DEF Longer, Prefixed
<1>3. ASSUME NEW x \in 1..Len(c) PROVE b[x] = c[x]
  <2>1. x \in 1..Len(a)
    BY <1>1, <1>2
  <2> QED
    BY <2>1 DEF Longer, Prefixed
<1> QED
  BY <1>1, <1>2, <1>3 DEF Prefixed

\* The bytes of the first parts stay where they are.
LEMMA LaidGrows ==
  ASSUME NEW s \in Seq(Part), NEW F, Laid(F, s), NEW k \in 0..Len(s)
  PROVE  Prefixed(F[k], F[Len(s)])
<1> DEFINE Kept(i) == Prefixed(F[k], F[i])
           R == {d \in Nat : k + d <= Len(s) => Kept(k + d)}
<1>1. 0 \in R
  <2>1. F[k] \in Seq(Int)
    BY DEF Laid
  <2>2. Prefixed(F[k], F[k])
    BY <2>1 DEF Prefixed
  <2> QED
    BY <2>2
<1>2. ASSUME NEW d \in R PROVE d + 1 \in R
  <2>1. CASE k + (d + 1) <= Len(s)
    <3>1. PICK i \in 1..Len(s) : i = k + (d + 1) /\ i - 1 = k + d
      BY <2>1
    <3>2. Kept(i - 1) /\ F[k] \in Seq(Int)
      BY <3>1 DEF Laid
    <3>3. Longer(F[i - 1], PartBytes(s[i]), F[i])
      BY LaidStep
    <3>4. Kept(i)
      BY <3>2, <3>3, LongerBegins
    <3> QED
      BY <3>1, <3>4
  <2> QED
    BY <2>1
<1> HIDE DEF Kept
<1>3. R = Nat
  BY <1>1, <1>2, Induction
<1>4. Len(s) - k \in Nat /\ k + (Len(s) - k) = Len(s)
  OBVIOUS
<1>5. Kept(Len(s))
  <2>1. Len(s) - k \in R
    BY <1>3, <1>4
  <2> QED
    BY <1>4, <2>1
<1> QED
  BY <1>5 DEF Kept

\* What the reader is given: the bytes of the parts, one after the other, perhaps not all.
Placed ==
    /\ parts \in Seq(Part) /\ bytes \in Seq(Int) /\ FrameEnd(0) = 0
    /\ \A k \in 0..Len(parts) : FrameEnd(k) \in Nat
    /\ Len(bytes) <= FrameEnd(Len(parts))
    /\ \A k \in 1..Len(parts) :
          /\ FrameEnd(k) = FrameEnd(k - 1) + Len(PartBytes(parts[k]))
          /\ \A j \in 1..Len(PartBytes(parts[k])) :
                FrameEnd(k - 1) + j <= Len(bytes) =>
                   bytes[FrameEnd(k - 1) + j] = PartBytes(parts[k])[j]

CutOff(b, a, cut) == b = SubSeq(a, 1, Len(a) - cut)

LEMMA CutSeq ==
  ASSUME NEW a \in Seq(Int), NEW cut \in Nat, NEW b, CutOff(b, a, cut)
  PROVE  b \in Seq(Int) /\ Prefixed(b, a)
<1>1. CASE Len(a) - cut >= 1
  BY <1>1 DEF CutOff, Prefixed
<1>2. CASE Len(a) - cut < 1
  <2>1. b = <<>>
    BY <1>2 DEF CutOff
  <2>2. Len(b) = 0 /\ b \in Seq(Int)
    BY <2>1
  <2>3. Len(a) \in Nat
    OBVIOUS
  <2> QED
    BY <2>2, <2>3 DEF Prefixed
<1> QED
  BY <1>1, <1>2

LEMMA PartsPlaced ==
  ASSUME parts \in Seq(Part), NEW cut \in Nat, CutOff(bytes, AllBytes(parts), cut)
  PROVE  Placed
<1> DEFINE n == Len(parts)
<1>1. PICK F : Laid(F, parts)
  BY LaidExists
<1>2. n \in Nat /\ \A k \in 0..n : F[k] \in Seq(Int)
  BY <1>1 DEF Laid
<1> HIDE DEF n
<1>10. n = Len(parts)
  BY DEF n
<1>3. \A k \in 0..n : FrameEnd(k) = Len(F[k])
  BY <1>1, <1>10, LaidUpTo DEF FrameEnd
<1>4. PICK a \in Seq(Int) : a = F[n] /\ a = AllBytes(parts)
  BY <1>1, <1>2, <1>10, AllBytesLaid
<1>5. CutOff(bytes, a, cut)
  BY <1>4
<1>6. bytes \in Seq(Int) /\ Len(bytes) <= Len(a) /\ \A i \in 1..Len(bytes) : bytes[i] = a[i]
  BY <1>5, CutSeq DEF Prefixed
<1>7. F[0] = <<>>
  BY <1>1 DEF Laid, Lays
<1>8. ASSUME NEW k \in 1..n
      PROVE  /\ FrameEnd(k) = FrameEnd(k - 1) + Len(PartBytes(parts[k]))
             /\ \A j \in 1..Len(PartBytes(parts[k])) :
                   FrameEnd(k - 1) + j <= Len(bytes) =>
                      bytes[FrameEnd(k - 1) + j] = PartBytes(parts[k])[j]
  <2>5. Longer(F[k - 1], PartBytes(parts[k]), F[k])
    BY <1>1, <1>10, LaidStep
  <2>1. /\ F[k - 1] \in Seq(Int) /\ F[k] \in Seq(Int) /\ PartBytes(parts[k]) \in Seq(Int)
        /\ Len(F[k]) = Len(F[k - 1]) + Len(PartBytes(parts[k]))
        /\ \A j \in 1..Len(PartBytes(parts[k])) : F[k][Len(F[k - 1]) + j] = PartBytes(parts[k])[j]
    BY <2>5 DEF Longer
  <2>6. k \in 0..n /\ k - 1 \in 0..n
    BY <1>2
  <2>2. FrameEnd(k) = Len(F[k]) /\ FrameEnd(k - 1) = Len(F[k - 1])
    BY <1>3, <2>6
  <2>3. \A x \in 1..Len(F[k]) : a[x] = F[k][x]
    <3>1. Prefixed(F[k], F[Len(parts)])
      BY <1>1, <1>10, <2>6, LaidGrows
    <3> QED
      BY <1>4, <1>10, <3>1 DEF Prefixed
  <2>4. ASSUME NEW j \in 1..Len(PartBytes(parts[k])), FrameEnd(k - 1) + j <= Len(bytes)
        PROVE  bytes[FrameEnd(k - 1) + j] = PartBytes(parts[k])[j]
    <3>1. Len(F[k - 1]) \in Nat /\ Len(PartBytes(parts[k])) \in Nat
      BY <2>1
    <3>2. PICK u, w \in Nat : u = Len(F[k - 1]) /\ w = Len(PartBytes(parts[k]))
      BY <3>1
    <3>3. Len(F[k]) = u + w /\ FrameEnd(k - 1) = u
      BY <2>1, <2>2, <3>2
    <3>6. PICK v \in Nat : v = Len(bytes)
      BY <1>6
    <3>7. u + j <= v /\ j \in 1..w
      BY <2>4, <3>2, <3>3, <3>6
    <3>4. u + j \in 1..(u + w) /\ u + j \in 1..Len(bytes)
      BY <3>6, <3>7
    <3>5. bytes[u + j] = a[u + j] /\ a[u + j] = F[k][u + j]
      BY <1>6, <2>3, <3>3, <3>4
    <3> QED
      BY <2>1, <3>2, <3>3, <3>5
  <2> QED
    BY <2>1, <2>2, <2>4
<1>9. /\ FrameEnd(0) = 0 /\ \A k \in 0..n : FrameEnd(k) \in Nat
      /\ Len(bytes) <= FrameEnd(n)
  <2>1. 0 \in 0..n /\ n \in 0..n /\ Len(<<>>) = 0
    BY <1>2
  <2>2. FrameEnd(0) = Len(F[0]) /\ FrameEnd(n) = Len(a)
    BY <1>3, <1>4, <1>10, <2>1
  <2>3. \A k \in 0..n : FrameEnd(k) \in Nat
    BY <1>2, <1>3
  <2>4. FrameEnd(0) = 0
    BY <1>7, <2>1, <2>2
  <2> QED
    BY <1>6, <2>2, <2>3, <2>4
<1> QED
  BY <1>6, <1>8, <1>9, <1>10 DEF Placed

-----------------------------------------------------------------------------
(* What a part looks like in the stream *)

\* There is no 0xFF up to S; behind S come the bytes f, as far as they arrive.
NoMark(b, from, S) ==
    from \in Nat /\ S \in Nat /\ from <= S /\ \A i \in (from + 1)..S : i <= Len(b) => b[i] # 255
Holds(b, S, f) == S \in Nat /\ \A j \in 1..Len(f) : S + j <= Len(b) => b[S + j] = f[j]

\* A frame from its SOI to its EOI.
Framed(f) ==
    /\ f \in Seq(Int) /\ Len(f) >= 4 /\ f[1] = 255 /\ f[2] = 216
    /\ f[Len(f) - 1] = 255 /\ f[Len(f)] = 217

Marked(p) == Proper(p) /\ p.error \in {None, 0}

LEMMA MarkedBytes ==
  ASSUME NEW p \in Part, Marked(p)
  PROVE  /\ \A i \in 1..Len(PartHeader(p)) :
               PartBytes(p)[i] = PartHeader(p)[i] /\ PartHeader(p)[i] # 255
         /\ \A j \in 1..Len(p.frame) : PartBytes(p)[Len(PartHeader(p)) + j] = p.frame[j]
<1>1. PICK h, f \in Seq(Int) : h = PartHeader(p) /\ f = p.frame
  BY PartTypes
<1>2. \A i \in 1..Len(h) : (h \o f)[i] = h[i]
  OBVIOUS
<1>3. \A j \in 1..Len(f) : (h \o f)[Len(h) + j] = f[j]
  OBVIOUS
<1>4. \A i \in 1..Len(h) : h[i] # 255
  <2>1. PICK g \in Seq(Int) : g = p.header
    BY PartTypes
  <2>2. \A i \in DOMAIN g : g[i] # 255
    BY <2>1 DEF Marked, Proper
  <2>3. CASE p.error = None
    <3>1. h = g
      BY <1>1, <2>1, <2>3 DEF PartHeader
    <3> QED
      BY <2>2, <3>1
  <2>4. CASE p.error = 0
    <3>1. p.error # None
      BY <2>4, FrameReaderAssumption
    <3>2. PICK v \in Int : v = 256 + Len(p.frame) + p.error /\ v > 255
      BY <1>1, <2>4
    <3>3. h = Append(g, v)
      BY <1>1, <2>1, <3>1, <3>2 DEF PartHeader
    <3>4. /\ Len(h) = Len(g) + 1 /\ h[Len(g) + 1] = v /\ DOMAIN g = 1..Len(g)
          /\ \A i \in 1..Len(g) : h[i] = g[i]
      BY <3>3
    <3>5. ASSUME NEW i \in 1..Len(h) PROVE h[i] # 255
      <4>1. i \in 1..Len(g) \/ i = Len(g) + 1
        BY <3>4
      <4>2. CASE i \in 1..Len(g)
        <5>1. i \in DOMAIN g
          BY <3>4, <4>2
        <5>2. g[i] # 255
          BY <2>2, <5>1
        <5>3. h[i] = g[i]
          BY <3>4, <4>2
        <5> QED
          BY <5>2, <5>3
      <4>3. CASE i = Len(g) + 1
        BY <3>2, <3>4, <4>3
      <4> QED
        BY <4>1, <4>2, <4>3
    <3> QED
      BY <3>5
  <2> QED
    BY <2>3, <2>4 DEF Marked
<1>5. PartBytes(p) = h \o f
  BY <1>1 DEF PartBytes
<1> QED
  BY <1>1, <1>2, <1>3, <1>4, <1>5

PartAt(k) ==
    /\ FrameStart(k) = FrameEnd(k - 1) + Len(PartHeader(parts[k]))
    /\ FrameEnd(k) = FrameStart(k) + Len(parts[k].frame)
    /\ NoMark(bytes, FrameEnd(k - 1), FrameStart(k))
    /\ Holds(bytes, FrameEnd(k - 1), PartHeader(parts[k]))
    /\ Holds(bytes, FrameStart(k), parts[k].frame)

LEMMA PartPlaced ==
  ASSUME Placed, NEW k \in 1..Len(parts), Marked(parts[k])
  PROVE  PartAt(k)
<1> DEFINE e == FrameEnd(k - 1)
           p == parts[k]
           h == Len(PartHeader(p))
           l == Len(p.frame)
           S == FrameStart(k)
<1>1. k \in 0..Len(parts) /\ k - 1 \in 0..Len(parts) /\ p \in Part
  BY DEF Placed
<1>2. e \in Nat /\ FrameEnd(k) \in Nat /\ FrameEnd(k) = e + Len(PartBytes(p))
  BY <1>1 DEF Placed
<1>3. \A j \in 1..Len(PartBytes(p)) : e + j <= Len(bytes) => bytes[e + j] = PartBytes(p)[j]
  BY DEF Placed
<1>4. h \in Nat /\ l \in Nat /\ Len(PartBytes(p)) = h + l
  <2>1. PICK q \in Part : q = p
    BY <1>1
  <2>2. /\ PartHeader(q) \in Seq(Int) /\ q.frame \in Seq(Int)
        /\ Len(PartBytes(q)) = Len(PartHeader(q)) + Len(q.frame)
    BY PartTypes
  <2> QED
    BY <2>1, <2>2
<1>5. /\ \A i \in 1..h : PartBytes(p)[i] = PartHeader(p)[i] /\ PartBytes(p)[i] # 255
      /\ \A j \in 1..l : PartBytes(p)[h + j] = p.frame[j]
  <2>1. PICK q \in Part : q = p /\ Marked(q)
    BY <1>1
  <2>2. /\ \A i \in 1..Len(PartHeader(q)) :
              PartBytes(q)[i] = PartHeader(q)[i] /\ PartHeader(q)[i] # 255
        /\ \A j \in 1..Len(q.frame) : PartBytes(q)[Len(PartHeader(q)) + j] = q.frame[j]
    BY <2>1, MarkedBytes
  <2> QED
    BY <2>1, <2>2
<1>6. S = FrameEnd(k) - l
  BY DEF FrameStart
<1>10. bytes \in Seq(Int)
  BY DEF Placed
<1> HIDE DEF e, p, h, l, S
<1>7. S = e + h /\ FrameEnd(k) = S + l /\ S \in Nat
  BY <1>2, <1>4, <1>6
<1>8. ASSUME NEW i \in (e + 1)..S, i <= Len(bytes) PROVE bytes[i] # 255
  <2>1. i - e \in 1..h /\ i - e \in 1..Len(PartBytes(p)) /\ e + (i - e) = i
    BY <1>2, <1>4, <1>7
  <2> QED
    BY <1>3, <1>5, <1>8, <2>1
<1>9. ASSUME NEW j \in 1..l, S + j <= Len(bytes) PROVE bytes[S + j] = p.frame[j]
  <2>1. h + j \in 1..Len(PartBytes(p)) /\ e + (h + j) = S + j
    BY <1>2, <1>4, <1>7
  <2> QED
    BY <1>3, <1>5, <1>9, <2>1
<1>11. NoMark(bytes, e, S)
  BY <1>2, <1>4, <1>7, <1>8 DEF NoMark
<1>12. Holds(bytes, S, p.frame)
  BY <1>7, <1>9 DEF Holds, l
<1>13. Holds(bytes, e, PartHeader(p))
  <2>1. ASSUME NEW i \in 1..h, e + i <= Len(bytes) PROVE bytes[e + i] = PartHeader(p)[i]
    <3>1. i \in 1..Len(PartBytes(p))
      BY <1>4
    <3> QED
      BY <1>3, <1>5, <2>1, <3>1
  <2> QED
    BY <1>2, <2>1 DEF Holds, h
<1> QED
  BY <1>7, <1>11, <1>12, <1>13 DEF PartAt, e, p, h, l, S

\* The beginning of a frame is found behind the header, if it arrived.
LEMMA BeginningFound ==
  ASSUME NEW b \in Seq(Int), NEW from \in Nat, NEW S \in Nat, NEW f,
         NoMark(b, from, S), Holds(b, S, f), Framed(f),
         S + 2 <= Len(b), S - from + 2 <= FrameMax
  PROVE  EndOfSequence(b, from, 216, FrameMax) = [found |-> "yes", read |-> S - from + 2]
<1> DEFINE m == S - from + 2
<1>1. from <= S /\ Len(b) \in Nat /\ Len(f) \in Nat /\ FrameMax \in Nat /\ Len(f) >= 4
  <2>1. f \in Seq(Int) /\ Len(f) >= 4
    BY DEF Framed
  <2> QED
    BY <2>1, FrameReaderAssumption DEF NoMark
<1>2. m \in 2..FrameMax /\ from \in 0..Len(b) /\ from + m = S + 2
  BY <1>1
<1>3. b[from + m - 1] = 255 /\ b[from + m] = 216
  <2>1. 1 \in 1..Len(f) /\ 2 \in 1..Len(f) /\ S + 1 <= Len(b)
    BY <1>1
  <2>2. b[S + 1] = f[1] /\ b[S + 2] = f[2]
    BY <2>1 DEF Holds
  <2>3. from + m - 1 = S + 1 /\ from + m = S + 2
    BY <1>1
  <2> QED
    BY <2>2, <2>3 DEF Framed
<1> HIDE DEF m
<1>4. ASSUME NEW i \in (from + 1)..(from + m - 2), b[i] = 255 PROVE FALSE
  <2>1. i \in (from + 1)..S /\ i <= Len(b)
    BY <1>2, <1>1
  <2> QED
    BY <1>4, <2>1 DEF NoMark
<1>6. Clear(b, from + 1, from + m - 2, 216)
  BY <1>4 DEF Clear
<1>5. EndOfSequence(b, from, 216, FrameMax) = [found |-> "yes", read |-> m]
  <2>1. MarkerAt(b, from, 216, m)
    BY <1>2, <1>3, <1>6 DEF MarkerAt
  <2> QED
    BY <1>1, <1>2, <2>1, MarkerFound
<1> QED
  BY <1>5 DEF m

LEMMA BeginningMissing ==
  ASSUME NEW b \in Seq(Int), NEW from \in Nat, NEW S \in Nat,
         NoMark(b, from, S), from <= Len(b), Len(b) < S + 2
  PROVE  EndOfSequence(b, from, 216, FrameMax).found # "yes"
<1>1. Len(b) \in Nat /\ FrameMax \in Nat /\ from \in 0..Len(b)
  BY FrameReaderAssumption
<1>2. ASSUME NEW i \in (from + 1)..(Len(b) - 1), b[i] = 255 PROVE FALSE
  <2>1. i \in (from + 1)..S /\ i <= Len(b)
    BY <1>1
  <2> QED
    BY <1>2, <2>1 DEF NoMark
<1>3. EndOfSequence(b, from, 216, FrameMax) =
         [found |-> IF Len(b) - from < FrameMax THEN "eof" ELSE "no",
          read |-> AtMost(Len(b) - from, FrameMax)]
  BY <1>1, <1>2, NoMarker
<1> QED
  BY <1>3

-----------------------------------------------------------------------------
(* The length of a frame *)

LEMMA DeclaredLength ==
  ASSUME NEW p \in Part, p.error = 0
  PROVE  ContentLength(PartHeader(p)) = Len(p.frame)
<1>1. PICK g \in Seq(Octet) : g = p.header
  BY DEF Part
<1>2. PICK l \in Nat : l = Len(p.frame)
  BY DEF Part
<1>3. PICK h : h = Append(g, 256 + l) /\ h = PartHeader(p)
  <2>1. p.error # None /\ 256 + l + 0 = 256 + l
    BY FrameReaderAssumption
  <2> QED
    BY <1>1, <1>2, <2>1 DEF PartHeader
<1>4. PICK n \in Nat : n = Len(g) + 1
  BY <1>1
<1>5. \A i \in 1..Len(g) : g[i] \in Octet
  BY <1>1
<1>6. DOMAIN h = 1..n /\ h[n] = 256 + l /\ \A i \in 1..Len(g) : h[i] = g[i]
  <2>1. g \in Seq(Int)
    BY <1>1 DEF Octet
  <2> QED
    BY <1>3, <1>4, <2>1
<1> DEFINE lines == {i \in DOMAIN h : h[i] >= 256}
<1>7. lines = {n}
  <2>1. ASSUME NEW i \in lines PROVE i = n
    <3>1. i \in 1..n /\ h[i] >= 256
      BY <1>6
    <3>2. CASE i \in 1..Len(g)
      <4>1. h[i] \in {0, 216, 217, 255}
        BY <1>5, <1>6, <3>2 DEF Octet
      <4> QED
        BY <3>1, <4>1
    <3> QED
      BY <1>4, <3>1, <3>2
  <2>2. n \in lines
    BY <1>2, <1>4, <1>6
  <2> QED
    BY <2>1, <2>2
<1>8. ContentLength(h) = IF lines = {} THEN None ELSE h[Max(lines)] - 256
  BY DEF ContentLength
<1> HIDE DEF lines
<1>9. Max(lines) = n
  BY <1>4, <1>7 DEF Max
<1> QED
  BY <1>2, <1>3, <1>6, <1>7, <1>8, <1>9

LEMMA HeaderExact ==
  ASSUME NEW b \in Seq(Int), NEW e \in Nat, NEW h \in Seq(Int), Holds(b, e, h), e + Len(h) <= Len(b)
  PROVE  SubSeq(b, e + 1, e + Len(h)) = h
<1> DEFINE t == SubSeq(b, e + 1, e + Len(h))
<1>1. Len(h) \in Nat /\ Len(b) \in Nat
  OBVIOUS
<1>2. t \in Seq(Int) /\ Len(t) = Len(h) /\ \A i \in 1..Len(h) : t[i] = b[e + i]
  BY <1>1
<1>3. \A i \in 1..Len(h) : b[e + i] = h[i]
  <2>1. ASSUME NEW i \in 1..Len(h) PROVE e + i <= Len(b)
    BY <1>1
  <2> QED
    BY <2>1 DEF Holds
<1> HIDE DEF t
<1>4. t = h
  <2>1. PICK n \in Nat : n = Len(h)
    BY <1>1
  <2>2. t \in [1..n -> Int] /\ h \in [1..n -> Int]
    BY <1>2, <2>1
  <2>3. \A i \in 1..n : t[i] = h[i]
    BY <1>2, <1>3, <2>1
  <2> QED
    BY <2>2, <2>3
<1> QED
  BY <1>4 DEF t

LEMMA NothingDeclared ==
  ASSUME NEW b \in Seq(Int), NEW e \in Nat, NEW h \in Seq(Octet), Holds(b, e, h),
         NEW from \in Nat, e <= from, from <= e + Len(h), e + Len(h) <= Len(b)
  PROVE  ContentLength(SubSeq(b, from + 1, e + Len(h))) = None
<1> DEFINE t == SubSeq(b, from + 1, e + Len(h))
<1>1. Len(h) \in Nat /\ Len(b) \in Nat /\ h \in Seq(Int)
  BY SMTT(30) DEF Octet
<1>2. PICK l \in Nat : l = (e + Len(h)) - from
  BY <1>1
<1>3. DOMAIN t = 1..l /\ \A i \in 1..l : t[i] = b[from + i]
  <2>1. CASE l = 0
    <3>1. t = <<>>
      BY <1>1, <1>2, <2>1
    <3> QED
      BY <2>1, <3>1
  <2>2. CASE l > 0
    <3>1. PICK last \in Nat : last = e + Len(h)
      BY <1>1
    <3>2. from + 1 >= 1 /\ from + 1 <= last /\ last <= Len(b) /\ last - (from + 1) + 1 = l
      BY <1>1, <1>2, <2>2, <3>1
    <3>3. t = SubSeq(b, from + 1, last)
      BY <3>1
    <3>4. Len(t) = l /\ DOMAIN t = 1..l
      BY <3>2, <3>3, SMTT(30)
    <3>5. \A i \in 1..l : t[i] = b[from + i]
      <4>1. ASSUME NEW i \in 1..l PROVE t[i] = b[(from + 1) + i - 1]
        BY <3>2, <3>3, <3>4
      <4>2. \A i \in 1..l : (from + 1) + i - 1 = from + i
        OBVIOUS
      <4> QED
        BY <4>1, <4>2
    <3> QED
      BY <3>4, <3>5
  <2> QED
    BY <1>2, <2>1, <2>2
<1> HIDE DEF t
<1>4. ASSUME NEW i \in DOMAIN t PROVE ~(t[i] >= 256)
  <2>1. i \in 1..l
    BY <1>3
  <2>2. PICK j \in 1..Len(h) : e + j = from + i /\ e + j <= Len(b)
    <3>1. PICK m, n \in Nat : m = Len(h) /\ n = Len(b)
      BY <1>1
    <3>2. from + l = e + m /\ e <= from /\ e + m <= n
      BY <1>2, <3>1
    <3>3. from + i - e \in 1..m /\ e + (from + i - e) = from + i /\ from + i <= n
      BY <2>1, <3>2
    <3> QED
      BY <3>1, <3>3
  <2>3. t[i] = h[j]
    BY <1>3, <2>1, <2>2 DEF Holds
  <2>4. h[j] \in {0, 216, 217, 255}
    BY DEF Octet
  <2> QED
    BY <2>3, <2>4
<1>5. {i \in DOMAIN t : t[i] >= 256} = {}
  BY <1>4
<1> QED
  BY <1>5 DEF ContentLength, t

\* A frame with one end, the last two bytes, that no fill byte hides.
Lone(f) ==
    /\ Framed(f)
    /\ \A i \in 1..(Len(f) - 2) : f[i] = 255 => f[i + 1] \notin {255, 217}

FrameAt(b, from, S, f) == b \in Seq(Int) /\ Lone(f) /\ NoMark(b, from, S) /\ Holds(b, S, f)

\* Up to the end of a frame nothing looks like one.
LEMMA ClearUpTo ==
  ASSUME NEW b, NEW from, NEW S, NEW f, FrameAt(b, from, S, f),
         NEW i \in Nat, i > from, i <= S + Len(f) - 2, i + 1 <= Len(b), b[i] = 255
  PROVE  b[i + 1] \notin {255, 217}
<1>0. b \in Seq(Int) /\ f \in Seq(Int) /\ Lone(f) /\ NoMark(b, from, S) /\ Holds(b, S, f)
  BY DEF FrameAt, Lone, Framed
<1>1. from \in Nat /\ S \in Nat /\ Len(f) \in Nat /\ Len(b) \in Nat /\ Len(f) >= 4
  <2>1. Len(f) \in Nat /\ Len(b) \in Nat
    BY <1>0
  <2> QED
    BY <1>0, <2>1 DEF Lone, Framed, NoMark
<1>2. i > S
  <2>1. CASE i <= S
    <3>1. i \in (from + 1)..S /\ i <= Len(b)
      BY <1>1, <2>1
    <3> QED
      BY <1>0, <3>1 DEF NoMark
  <2> QED
    BY <1>1, <2>1
<1>3. PICK j \in 1..(Len(f) - 2) :
        i = S + j /\ i + 1 = S + (j + 1) /\ j \in 1..Len(f) /\ j + 1 \in 1..Len(f)
  <2>1. i - S \in 1..(Len(f) - 2) /\ i = S + (i - S) /\ i + 1 = S + ((i - S) + 1)
        /\ i - S \in 1..Len(f) /\ (i - S) + 1 \in 1..Len(f)
    BY <1>1, <1>2
  <2> QED
    BY <2>1
<1>4. S + j <= Len(b) /\ S + (j + 1) <= Len(b)
  BY <1>1, <1>3
<1>5. b[S + j] = f[j] /\ b[S + (j + 1)] = f[j + 1]
  BY <1>0, <1>3, <1>4 DEF Holds
<1>6. f[j] = 255 => f[j + 1] \notin {255, 217}
  BY <1>0, SMTT(30) DEF Lone, Framed
<1> QED
  BY <1>3, <1>5, <1>6

LEMMA EndFound ==
  ASSUME NEW b, NEW from, NEW S, NEW f, FrameAt(b, from, S, f), S + Len(f) <= Len(b),
         NEW q \in Nat, from <= q, q <= S + Len(f) - 2, NEW max \in Nat, S + Len(f) <= q + max
  PROVE  EndOfSequence(b, q, 217, max) = [found |-> "yes", read |-> S + Len(f) - q]
<1>1. b \in Seq(Int) /\ f \in Seq(Int) /\ Lone(f) /\ NoMark(b, from, S) /\ Holds(b, S, f)
  BY DEF FrameAt, Lone, Framed
<1>2. PICK l, n \in Nat : l = Len(f) /\ n = Len(b)
  BY <1>1
<1>9. from \in Nat /\ S \in Nat /\ l >= 4 /\ f[l - 1] = 255 /\ f[l] = 217
  BY <1>1, <1>2 DEF NoMark, Lone, Framed
<1>3. PICK m \in Nat : m = S + l - q
  <2>1. S + l - q \in Nat
    BY <1>2, <1>9
  <2> QED
    BY <2>1
<1>4. S + l <= n /\ q \in 0..n /\ m \in 2..max /\ q + m = S + l
  BY <1>2, <1>3, <1>9
<1>5. b[q + m - 1] = 255 /\ b[q + m] = 217
  <2>1. l - 1 \in 1..l /\ l \in 1..l /\ S + (l - 1) <= n /\ S + (l - 1) = q + m - 1
    BY <1>4, <1>9
  <2>2. b[S + (l - 1)] = f[l - 1] /\ b[S + l] = f[l]
    BY <1>1, <1>2, <1>4, <2>1 DEF Holds
  <2>3. q + m - 1 = S + (l - 1) /\ q + m = S + l
    BY <1>4, <2>1
  <2>4. b[q + m - 1] = b[S + (l - 1)] /\ b[q + m] = b[S + l]
    BY <2>3
  <2>5. b[S + (l - 1)] = 255 /\ b[S + l] = 217
    BY <1>9, <2>2
  <2> QED
    BY <2>4, <2>5
<1>6. Clear(b, q + 1, q + m - 2, 217)
  <2>1. ASSUME NEW i \in (q + 1)..(q + m - 2), b[i] = 255 PROVE b[i + 1] \notin {255, 217}
    <3>1. i \in Nat /\ i > from /\ i <= S + Len(f) - 2 /\ i + 1 <= Len(b)
      BY <1>2, <1>4, <1>9
    <3> QED
      BY <2>1, <3>1, ClearUpTo
  <2> QED
    BY <2>1 DEF Clear
<1>7. MarkerAt(b, q, 217, m)
  BY <1>2, <1>4, <1>5, <1>6 DEF MarkerAt
<1>8. EndOfSequence(b, q, 217, max) = [found |-> "yes", read |-> m]
  <2>1. q \in 0..Len(b) /\ 217 \in Int
    BY <1>2, <1>4
  <2> QED
    BY <1>1, <1>4, <1>7, <2>1, MarkerFound
<1> QED
  BY <1>2, <1>3, <1>8

LEMMA EndMissing ==
  ASSUME NEW b, NEW from, NEW S, NEW f, FrameAt(b, from, S, f), NEW q \in Nat, from <= q,
         q <= Len(b), NEW max \in Nat, Len(b) < S + Len(f) \/ q + max < S + Len(f)
  PROVE  EndOfSequence(b, q, 217, max) =
            [found |-> IF Len(b) - q < max THEN "eof" ELSE "no",
             read |-> AtMost(Len(b) - q, max)]
<1>1. b \in Seq(Int) /\ f \in Seq(Int) /\ Lone(f) /\ NoMark(b, from, S) /\ Holds(b, S, f)
  BY DEF FrameAt, Lone, Framed
<1>2. PICK l, n \in Nat : l = Len(f) /\ n = Len(b)
  BY <1>1
<1>3. from \in Nat /\ S \in Nat /\ q \in 0..n /\ (n < S + l \/ q + max < S + l)
  BY <1>1, <1>2 DEF NoMark
<1>4. ASSUME NEW i \in (q + 1)..(n - 1), b[i] = 255, b[i + 1] = 217 PROVE i + 1 > q + max
  <2>1. CASE i <= S + l - 2
    <3>1. i \in Nat /\ i > from /\ i <= S + Len(f) - 2 /\ i + 1 <= Len(b)
      BY <1>2, <1>3, <2>1
    <3> QED
      BY <1>4, <3>1, ClearUpTo
  <2>2. CASE i > S + l - 2
    BY <1>3, <2>2
  <2> QED
    BY <1>3, <2>1, <2>2
<1>5. \A i \in (q + 1)..(Len(b) - 1) : ~(b[i] = 255 /\ b[i + 1] = 217) \/ i + 1 > q + max
  BY <1>2, <1>4
<1>6. q \in 0..Len(b) /\ 217 \in Int
  BY <1>2, <1>3
<1> QED
  BY <1>1, <1>5, <1>6, NoMarker


\* Around the length of the last frame.
Near(b, S, cl) ==
    LET q == AtMost(S + (cl \div 2 - 1), Len(b))
        end == EndOfSequence(b, q, 217, cl)
    IN CASE end.found = "yes" -> Length(cl \div 2 - 1 + end.read, q + end.read)
         [] end.found = "no" -> Length(-1, q + end.read)
         [] OTHER -> EndOfFile

LEMMA SimplifiedNear ==
  ASSUME NEW b, NEW S \in Nat, NEW cl \in Nat, cl >= 4
  PROVE  Simplified(b, S, cl) = Near(b, S, cl)
<1>1. PICK h \in Nat : h = cl \div 2 /\ h >= 2 /\ (3 * cl) \div 2 - h = cl
  <2>1. cl \div 2 \in Nat /\ cl \div 2 >= 2 /\ (3 * cl) \div 2 - cl \div 2 = cl
    OBVIOUS
  <2> QED
    BY <2>1
<1>2. /\ ~(cl < 0) /\ NonNegative((3 * cl) \div 2 - cl \div 2) = cl
      /\ NonNegative(-1 + cl \div 2) = cl \div 2 - 1 /\ -1 + cl \div 2 = cl \div 2 - 1
  BY <1>1 DEF NonNegative
<1> QED
  BY <1>2 DEF Simplified, Near

LEMMA SimplifiedFirst ==
  ASSUME NEW b \in Seq(Int), NEW S \in 0..Len(b)
  PROVE  Simplified(b, S, -1) = Length(-1, S)
<1>1. Len(b) \in Nat
  OBVIOUS
<1>2. NonNegative(-1 - 0) = 0 /\ NonNegative(-1 + 0) = 0 /\ AtMost(S + 0, Len(b)) = S
  BY <1>1 DEF NonNegative, AtMost
<1>3. EndOfSequence(b, S, 217, 0) = [found |-> "no", read |-> 0]
  <2>1. \A i \in (S + 1)..(Len(b) - 1) : ~(b[i] = 255 /\ b[i + 1] = 217) \/ i + 1 > S + 0
    BY <1>1
  <2>2. ~(Len(b) - S < 0) /\ AtMost(Len(b) - S, 0) = 0
    BY <1>1 DEF AtMost
  <2> QED
    BY <2>1, <2>2, NoMarker
<1>4. S + 0 = S
  OBVIOUS
<1> QED
  BY <1>2, <1>3, <1>4 DEF Simplified

\* The length of the last frame is none yet, or puts the search before the end of this one.
Guess(cl, l) == cl = -1 \/ (cl \in Nat /\ cl >= 4 /\ cl \div 2 <= l - 1)

\* In what Simplified gives, far is behind S and before the end of the window.
LEMMA NearFound ==
  ASSUME NEW b, NEW from, NEW S, NEW f, FrameAt(b, from, S, f), S + Len(f) <= Len(b),
         NEW cl, Guess(cl, Len(f))
  PROVE  \/ Simplified(b, S, cl) = Length(Len(f), S + Len(f))
         \/ \E far \in S..(S + Len(f)) : Simplified(b, S, cl) = Length(-1, far)
<1>1. b \in Seq(Int) /\ f \in Seq(Int) /\ Lone(f) /\ NoMark(b, from, S) /\ Holds(b, S, f)
  BY DEF FrameAt, Lone, Framed
<1>2. PICK l, n \in Nat : l = Len(f) /\ n = Len(b)
  BY <1>1
<1>3. from \in Nat /\ S \in Nat /\ l >= 4 /\ S + l <= n /\ from <= S
  BY <1>1, <1>2 DEF NoMark, Lone, Framed
<1>4. CASE cl = -1
  <2>1. S \in 0..Len(b) /\ S \in S..(S + Len(f))
    BY <1>2, <1>3
  <2> QED
    BY <1>1, <1>4, <2>1, SimplifiedFirst
<1>5. CASE cl # -1
  <2>1. cl \in Nat /\ cl >= 4 /\ cl \div 2 <= l - 1
    BY <1>2, <1>5 DEF Guess
  <2>2. PICK h \in Nat : h = cl \div 2 /\ h >= 2 /\ h <= l - 1
    BY <2>1
  <2>3. PICK q \in Nat : q = S + (h - 1)
    BY <1>3, <2>2
  <2>4. AtMost(S + (h - 1), n) = q /\ q >= S /\ q <= S + l - 2 /\ from <= q /\ q <= n
    BY <1>3, <2>2, <2>3 DEF AtMost
  <2>5. Simplified(b, S, cl) = Near(b, S, cl)
    BY <1>3, <2>1, SimplifiedNear
  <2>9. cl \in Nat /\ from <= q
    BY <2>1, <2>4
  <2>6. CASE S + l <= q + cl
    <3>4. q <= S + Len(f) - 2 /\ S + Len(f) <= q + cl
      BY <1>2, <2>4, <2>6
    <3>1. EndOfSequence(b, q, 217, cl) = [found |-> "yes", read |-> S + Len(f) - q]
      BY <2>9, <3>4, EndFound
    <3>2. Near(b, S, cl) = Length(h - 1 + (S + l - q), q + (S + l - q))
      BY <1>2, <2>2, <2>4, <3>1 DEF Near
    <3>3. h - 1 + (S + l - q) = l /\ q + (S + l - q) = S + l
      BY <1>3, <2>3
    <3> QED
      BY <1>2, <2>5, <3>2, <3>3
  <2>7. CASE S + l > q + cl
    <3>1. EndOfSequence(b, q, 217, cl) =
             [found |-> IF Len(b) - q < cl THEN "eof" ELSE "no",
              read |-> AtMost(Len(b) - q, cl)]
      <4>1. q <= Len(b) /\ q + cl < S + Len(f)
        BY <1>2, <1>3, <2>1, <2>4, <2>7
      <4> QED
        BY <2>9, <4>1, EndMissing
    <3>2. ~(Len(b) - q < cl) /\ AtMost(Len(b) - q, cl) = cl
      BY <1>2, <1>3, <2>1, <2>7 DEF AtMost
    <3>3. Near(b, S, cl) = Length(-1, q + cl)
      BY <1>2, <2>2, <2>4, <3>1, <3>2 DEF Near
    <3>4. q + cl \in S..(S + Len(f))
      BY <1>2, <1>3, <2>1, <2>4, <2>7
    <3> QED
      BY <2>5, <3>3, <3>4
  <2> QED
    BY <1>3, <2>1, <2>6, <2>7
<1> QED
  BY <1>4, <1>5

LEMMA NearMissing ==
  ASSUME NEW b, NEW from, NEW S, NEW f, FrameAt(b, from, S, f),
         S <= Len(b), Len(b) < S + Len(f), NEW cl, Guess(cl, Len(f))
  PROVE  \/ Simplified(b, S, cl) = EndOfFile
         \/ \E far \in S..Len(b) : Simplified(b, S, cl) = Length(-1, far)
<1>1. b \in Seq(Int) /\ f \in Seq(Int) /\ Lone(f) /\ NoMark(b, from, S) /\ Holds(b, S, f)
  BY DEF FrameAt, Lone, Framed
<1>2. PICK l, n \in Nat : l = Len(f) /\ n = Len(b)
  BY <1>1
<1>3. from \in Nat /\ S \in Nat /\ l >= 4 /\ S <= n /\ n < S + l /\ from <= S
  BY <1>1, <1>2 DEF NoMark, Lone, Framed
<1>4. CASE cl = -1
  <2>1. S \in 0..Len(b) /\ S \in S..Len(b)
    BY <1>2, <1>3
  <2> QED
    BY <1>1, <1>4, <2>1, SimplifiedFirst
<1>5. CASE cl # -1
  <2>1. cl \in Nat /\ cl >= 4 /\ cl \div 2 <= l - 1
    BY <1>2, <1>5 DEF Guess
  <2>2. PICK h \in Nat : h = cl \div 2 /\ h >= 2 /\ h <= l - 1
    BY <2>1
  <2>3. PICK q \in Nat : q = AtMost(S + (h - 1), n)
    BY <1>3, <2>2 DEF AtMost
  <2>4. q >= S /\ from <= q /\ q <= n
    BY <1>3, <2>2, <2>3, SMTT(30) DEF AtMost
  <2>5. Simplified(b, S, cl) = Near(b, S, cl)
    BY <1>3, <2>1, SimplifiedNear
  <2>6. EndOfSequence(b, q, 217, cl) =
           [found |-> IF Len(b) - q < cl THEN "eof" ELSE "no",
            read |-> AtMost(Len(b) - q, cl)]
    BY <1>2, <1>3, <2>1, <2>4, EndMissing, SMTT(30)
  <2>7. CASE n - q < cl
    <3>1. Near(b, S, cl) = EndOfFile
      BY <1>2, <2>2, <2>3, <2>6, <2>7 DEF Near
    <3> QED
      BY <2>5, <3>1
  <2>8. CASE ~(n - q < cl)
    <3>1. AtMost(n - q, cl) = cl /\ q + cl \in S..Len(b)
      BY <1>2, <1>3, <2>1, <2>4, <2>8 DEF AtMost
    <3>2. Near(b, S, cl) = Length(-1, q + cl)
      BY <1>2, <2>2, <2>3, <2>6, <2>8, <3>1 DEF Near
    <3> QED
      BY <2>5, <3>1, <3>2
  <2> QED
    BY <2>7, <2>8
<1> QED
  BY <1>4, <1>5

\* The length of a frame, by its marker: a header that came before it may be added.
LEMMA LengthFound ==
  ASSUME NEW b, NEW from, NEW S, NEW f, FrameAt(b, from, S, f), S + Len(f) <= Len(b),
         S - from + Len(f) <= FrameMax, NEW cl, Guess(cl, Len(f))
  PROVE  FindLength(b, from, S - from, cl) \in
            {Length(Len(f), S + Len(f)), Length(S - from + Len(f), S + Len(f))}
<1>1. b \in Seq(Int) /\ f \in Seq(Int) /\ Lone(f) /\ NoMark(b, from, S) /\ Holds(b, S, f)
  BY DEF FrameAt, Lone, Framed
<1>2. PICK l, n \in Nat : l = Len(f) /\ n = Len(b)
  BY <1>1
<1>3. /\ from \in Nat /\ S \in Nat /\ l >= 4 /\ S + l <= n /\ from <= S
      /\ FrameMax \in Nat /\ S - from + l <= FrameMax /\ from + (S - from) = S
  BY <1>1, <1>2, FrameReaderAssumption DEF NoMark, Lone, Framed
<1>4. CASE Simplified(b, S, cl) = Length(l, S + l)
  BY <1>2, <1>3, <1>4 DEF FindLength, Length
<1>5. ASSUME NEW far \in S..(S + l), Simplified(b, S, cl) = Length(-1, far)
      PROVE  FindLength(b, from, S - from, cl) = Length(S - from + l, S + l)
  <2>1. EndOfSequence(b, from, 217, FrameMax) = [found |-> "yes", read |-> S + l - from]
    <3>1. from <= from /\ from <= S + Len(f) - 2 /\ S + Len(f) <= from + FrameMax
      BY <1>2, <1>3
    <3>2. EndOfSequence(b, from, 217, FrameMax) = [found |-> "yes", read |-> S + Len(f) - from]
      BY <1>3, <3>1, EndFound
    <3> QED
      BY <1>2, <3>2
  <2>2. far - from <= FrameMax
    BY <1>3
  <2>3. S + l - from = S - from + l /\ from + (S + l - from) = S + l
    BY <1>3
  <2> QED
    BY <1>3, <1>5, <2>1, <2>2, <2>3, SMTT(30) DEF FindLength, Length
<1> QED
  BY <1>2, <1>4, <1>5, NearFound

LEMMA LengthMissing ==
  ASSUME NEW b, NEW from, NEW S, NEW f, FrameAt(b, from, S, f),
         S <= Len(b), Len(b) < S + Len(f),
         S - from + Len(f) <= FrameMax, NEW cl, Guess(cl, Len(f))
  PROVE  FindLength(b, from, S - from, cl) = EndOfFile
<1>1. b \in Seq(Int) /\ f \in Seq(Int) /\ Lone(f) /\ NoMark(b, from, S) /\ Holds(b, S, f)
  BY DEF FrameAt, Lone, Framed
<1>2. PICK l, n \in Nat : l = Len(f) /\ n = Len(b)
  BY <1>1
<1>3. /\ from \in Nat /\ S \in Nat /\ l >= 4 /\ S <= n /\ n < S + l /\ from <= S
      /\ FrameMax \in Nat /\ S - from + l <= FrameMax /\ from + (S - from) = S
  BY <1>1, <1>2, FrameReaderAssumption DEF NoMark, Lone, Framed
<1>4. CASE Simplified(b, S, cl) = EndOfFile
  BY <1>3, <1>4 DEF FindLength, EndOfFile
<1>5. ASSUME NEW far \in S..n, Simplified(b, S, cl) = Length(-1, far)
      PROVE  FindLength(b, from, S - from, cl) = EndOfFile
  <2>1. EndOfSequence(b, from, 217, FrameMax) =
           [found |-> "eof", read |-> AtMost(Len(b) - from, FrameMax)]
    <3>1. from <= Len(b) /\ Len(b) - from < FrameMax
      BY <1>2, <1>3
    <3> QED
      BY <1>2, <1>3, <3>1, EndMissing
  <2>2. far - from <= FrameMax
    BY <1>3
  <2> QED
    BY <1>3, <1>5, <2>1, <2>2, SMTT(30) DEF FindLength, Length, EndOfFile
<1> QED
  BY <1>2, <1>4, <1>5, NearMissing

-----------------------------------------------------------------------------
(* The reader's invariant *)

Seen == [from : Int, to : Int]

\* As long as the thread reads it is where a frame ended; if a search found the end, perhaps
\* a header further.
DeclaredSoFar ==
    /\ got \in Seq(Seen) /\ Len(got) <= Len(parts)
    /\ \A i \in 1..Len(got) : got[i] = [from |-> FrameStart(i), to |-> FrameEnd(i)]
    /\ status = "reading" => pos = FrameEnd(Len(got)) /\ pos <= Len(bytes)
    /\ status = "ended" => Len(got) = Len(parts) \/ Len(bytes) < FrameStart(Len(got) + 1) + 2
    /\ status = "crashed" => Len(got) < Len(parts) /\ Len(bytes) < FrameEnd(Len(got) + 1)

Header == Len(parts[1].header)
WholeSoFar ==
    /\ got \in Seq(Seen) /\ Len(got) <= Len(parts)
    /\ \A i \in 1..Len(got) :
          got[i].from = FrameStart(i) /\ got[i].to \in {FrameEnd(i), FrameEnd(i) + Header}
    /\ status = "reading" =>
          /\ pos \in {FrameEnd(Len(got)), FrameEnd(Len(got)) + Header} /\ pos <= Len(bytes)
          /\ IF Len(got) = 0 THEN pos = 0 /\ mContentLength = -1
             ELSE mContentLength \in {Len(parts[Len(got)].frame),
                                      Len(parts[Len(got)].frame) + Header}
    /\ status # "reading" =>
          Len(got) >= Len(parts) - 1 \/ Len(bytes) < FrameEnd(Len(got) + 2)

ReaderInv == Placed /\ (Declared => DeclaredSoFar) /\ (Regular => WholeSoFar)

LEMMA SameParts ==
  ASSUME UNCHANGED <<parts, bytes>>
  PROVE  /\ Placed' = Placed /\ Declared' = Declared /\ Regular' = Regular /\ Header' = Header
         /\ \A k : FrameEnd(k)' = FrameEnd(k) /\ FrameStart(k)' = FrameStart(k)
<1>1. \A k : FrameEnd(k)' = FrameEnd(k)
  BY DEF FrameEnd
<1>2. \A k : FrameStart(k)' = FrameStart(k)
  BY <1>1 DEF FrameStart
<1>3. Placed' = Placed
  BY <1>1 DEF Placed
<1>4. Declared' = Declared /\ Regular' = Regular /\ Header' = Header
  BY DEF Declared, Regular, Header
<1> QED
  BY <1>1, <1>2, <1>3, <1>4

LEMMA ReaderInvImplies == ReaderInv => FramesFound
<1> SUFFICES ASSUME ReaderInv PROVE FramesFound
  OBVIOUS
<1>1. DeclaredFramesExact
  <2> SUFFICES ASSUME Declared
               PROVE  /\ \A i \in DOMAIN got : i \in DOMAIN parts
                                /\ got[i] = [from |-> FrameStart(i), to |-> FrameEnd(i)]
                      /\ status = "ended" =>
                            Len(got) = Len(parts) \/ Len(bytes) < FrameStart(Len(got) + 1) + 2
                      /\ status = "crashed" =>
                            Len(got) < Len(parts) /\ Len(bytes) < FrameEnd(Len(got) + 1)
    BY DEF DeclaredFramesExact
  <2>1. DeclaredSoFar /\ parts \in Seq(Part)
    BY DEF ReaderInv, Placed
  <2>2. /\ DOMAIN got = 1..Len(got) /\ DOMAIN parts = 1..Len(parts)
        /\ Len(got) \in Nat /\ Len(parts) \in Nat
    BY <2>1 DEF DeclaredSoFar
  <2>3. \A i \in DOMAIN got : i \in DOMAIN parts
    <3>1. Len(got) <= Len(parts)
      BY <2>1 DEF DeclaredSoFar
    <3> QED
      BY <2>2, <3>1
  <2> QED
    BY <2>1, <2>2, <2>3 DEF DeclaredSoFar
<1>2. UndeclaredFramesWhole
  <2> SUFFICES ASSUME Regular
               PROVE  /\ \A i \in DOMAIN got :
                            /\ i \in DOMAIN parts /\ got[i].from = FrameStart(i)
                            /\ got[i].to \in {FrameEnd(i), FrameEnd(i) + Len(parts[i].header)}
                      /\ status # "reading" =>
                            Len(got) >= Len(parts) - 1 \/ Len(bytes) < FrameEnd(Len(got) + 2)
    BY DEF UndeclaredFramesWhole
  <2>1. WholeSoFar /\ parts \in Seq(Part)
    BY DEF ReaderInv, Placed
  <2>2. /\ DOMAIN got = 1..Len(got) /\ DOMAIN parts = 1..Len(parts)
        /\ Len(got) \in Nat /\ Len(parts) \in Nat
    BY <2>1 DEF WholeSoFar
  <2>3. ASSUME NEW i \in DOMAIN got
        PROVE  /\ i \in DOMAIN parts /\ got[i].from = FrameStart(i)
               /\ got[i].to \in {FrameEnd(i), FrameEnd(i) + Len(parts[i].header)}
    <3>1. i \in 1..Len(got) /\ i \in DOMAIN parts
      BY <2>1, <2>2 DEF WholeSoFar
    <3>2. Len(parts[i].header) = Header
      BY <3>1 DEF Regular, Header
    <3> QED
      BY <2>1, <3>1, <3>2 DEF WholeSoFar
  <2> QED
    BY <2>1, <2>3 DEF WholeSoFar
<1> QED
  BY <1>1, <1>2 DEF FramesFound

\* What readMjpegFrame does once it is known what it finds.
LEMMA NoBeginningRead ==
  ASSUME ReadMjpegFrame, EndOfSequence(bytes, pos, 216, FrameMax).found # "yes"
  PROVE  pos' = pos /\ got' = got /\ status' = "ended"
BY DEF ReadMjpegFrame, Ended

LEMMA BeginningRead ==
  ASSUME ReadMjpegFrame, NEW h \in Nat,
         EndOfSequence(bytes, pos, 216, FrameMax) = [found |-> "yes", read |-> h + 2]
  PROVE  \E end \in {FrameLength(h)} :
            \/ end.kind = "eof" /\ Crashed
            \/ end.kind = "io" /\ Retry(end.far) /\ UNCHANGED mContentLength
            \/ /\ end.kind = "length"
               /\ mContentLength' = end.length
               /\ IF end.far - pos > FrameMax THEN Retry(end.far)
                  ELSE IF end.length < 0 \/ ~ReadsFully(h + end.length) THEN Crashed
                  ELSE Frame(pos + h, pos + h + end.length)
<1>1. h + 2 - 2 = h
  OBVIOUS
<1> QED
  BY <1>1 DEF ReadMjpegFrame

\* A frame that ends with its marker does not stop the thread.
LEMMA FrameRead ==
  ASSUME NEW S \in Nat, NEW to \in Nat, Frame(S, to), NEW f, Framed(f), Holds(bytes, S, f),
         bytes \in Seq(Int), S + Len(f) <= to, to <= Len(bytes)
  PROVE  pos' = to /\ got' = Append(got, [from |-> S, to |-> to]) /\ status' = status
<1>1. PICK l, n \in Nat : l = Len(f) /\ n = Len(bytes)
  <2>2. f \in Seq(Int)
    BY DEF Framed
  <2>1. Len(f) \in Nat /\ Len(bytes) \in Nat
    BY <2>2
  <2> QED
    BY <2>1
<1>2. l >= 4 /\ f[l - 1] = 255 /\ f[l] = 217
  BY <1>1 DEF Framed
<1>3. /\ l - 1 \in 1..l /\ l \in 1..l /\ S + (l - 1) \in (S + 1)..(to - 1)
      /\ S + (l - 1) + 1 = S + l /\ S + (l - 1) <= n /\ S + l <= n
  BY <1>1, <1>2
<1>4. bytes[S + (l - 1)] = f[l - 1] /\ bytes[S + l] = f[l]
  BY <1>1, <1>3 DEF Holds
<1>5. bytes[S + (l - 1)] = 255
  BY <1>2, <1>4
<1>6. bytes[S + (l - 1) + 1] = bytes[S + l]
  BY <1>3
<1>7. bytes[S + (l - 1) + 1] = 217
  BY <1>2, <1>4, <1>6
<1>8. \E i \in (S + 1)..(to - 1) : bytes[i] = 255 /\ bytes[i + 1] = 217
  BY <1>3, <1>5, <1>7
<1> QED
  BY <1>8 DEF Frame

LEMMA MarkedFrame ==
  ASSUME NEW p \in Part, Proper(p)
  PROVE  Framed(p.frame) /\ Len(PartHeader(p)) + 2 <= FrameMax
<1>1. p.frame \in Seq(Int)
  BY PartTypes
<1> QED
  BY <1>1 DEF Framed, Proper

\* At the end of the last part nothing is left.
LEMMA AllRead ==
  ASSUME Placed, ReadMjpegFrame, pos \in Nat, pos >= FrameEnd(Len(parts)), pos <= Len(bytes)
  PROVE  pos' = pos /\ got' = got /\ status' = "ended"
<1>1. bytes \in Seq(Int) /\ Len(bytes) <= FrameEnd(Len(parts)) /\ FrameEnd(Len(parts)) \in Nat
  BY DEF Placed
<1>2. Len(bytes) \in Nat
  BY <1>1
<1>3. NoMark(bytes, pos, pos) /\ Len(bytes) < pos + 2
  BY <1>1, <1>2 DEF NoMark
<1> QED
  BY <1>1, <1>3, BeginningMissing, NoBeginningRead

LEMMA DeclaredStep ==
  ASSUME Placed, Declared, DeclaredSoFar, ReadMjpegFrame
  PROVE  DeclaredSoFar'
<1> DEFINE m == Len(got)
           n == Len(parts)
           k == m + 1
           S == FrameStart(k)
           l == Len(parts[k].frame)
<1>1. /\ m \in Nat /\ n \in Nat /\ m <= n
      /\ got \in Seq(Seen) /\ bytes \in Seq(Int) /\ Len(bytes) \in Nat
  <2>1. got \in Seq(Seen) /\ parts \in Seq(Part) /\ bytes \in Seq(Int) /\ m <= n
    BY DEF DeclaredSoFar, Placed
  <2> QED
    BY <2>1
<1>2. status = "reading" /\ UNCHANGED <<parts, bytes>>
  BY DEF ReadMjpegFrame
<1>3. pos = FrameEnd(m) /\ pos <= Len(bytes) /\ pos \in Nat
  <2>1. m \in 0..n
    BY <1>1
  <2> QED
    BY <1>2, <2>1 DEF DeclaredSoFar, Placed
<1>4. \A i : FrameEnd(i)' = FrameEnd(i) /\ FrameStart(i)' = FrameStart(i)
  BY <1>2, SameParts
<1>5. \A i \in 1..m : got[i] = [from |-> FrameStart(i), to |-> FrameEnd(i)]
  BY DEF DeclaredSoFar
<1> HIDE DEF m, n
<1>6. ASSUME got' = got, status' = "ended", m = n \/ Len(bytes) < FrameStart(m + 1) + 2
      PROVE  DeclaredSoFar'
  BY <1>1, <1>2, <1>4, <1>5, <1>6 DEF DeclaredSoFar, m, n
<1>7. CASE m = n
  <2>1. pos >= FrameEnd(Len(parts))
    BY <1>3, <1>7 DEF n
  <2>2. got' = got /\ status' = "ended"
    BY <1>3, <2>1, AllRead
  <2> QED
    BY <1>6, <1>7, <2>2
<1>8. CASE m < n
  <2>1. k \in 1..Len(parts) /\ k - 1 = m
    BY <1>1, <1>8 DEF n
  <2>2. parts[k] \in Part /\ Proper(parts[k]) /\ parts[k].error = 0 /\ Marked(parts[k])
    BY <2>1 DEF Placed, Declared, Marked
  <2>3. PartAt(k)
    BY <2>1, <2>2, PartPlaced
  <2>4. Framed(parts[k].frame) /\ Len(PartHeader(parts[k])) + 2 <= FrameMax
    BY <2>2, MarkedFrame
  <2>5. PartHeader(parts[k]) \in Seq(Int) /\ parts[k].frame \in Seq(Int)
    BY <2>2, PartTypes
  <2>6. l \in Nat /\ l >= 4 /\ parts[k].frame[1] = 255 /\ parts[k].frame[2] = 216
    BY <2>4, <2>5 DEF Framed
  <2> DEFINE h == Len(PartHeader(parts[k]))
  <2>7. /\ S = pos + h /\ FrameEnd(k) = S + l /\ NoMark(bytes, pos, S)
        /\ Holds(bytes, pos, PartHeader(parts[k])) /\ Holds(bytes, S, parts[k].frame)
    BY <1>3, <2>1, <2>3 DEF PartAt
  <2>8. h \in Nat /\ S \in Nat /\ h + 2 <= FrameMax
    BY <2>4, <2>5, <2>7 DEF NoMark
  <2> HIDE DEF S, h, l, k
  <2>9. CASE Len(bytes) < S + 2
    <3>1. EndOfSequence(bytes, pos, 216, FrameMax).found # "yes"
      BY <1>1, <1>3, <2>7, <2>8, <2>9, BeginningMissing
    <3>2. got' = got /\ status' = "ended"
      BY <3>1, NoBeginningRead
    <3> QED
      BY <1>6, <2>9, <3>2 DEF S, k
  <2>10. CASE S + 2 <= Len(bytes)
    <3>1. EndOfSequence(bytes, pos, 216, FrameMax) = [found |-> "yes", read |-> h + 2]
      <4>1. S - pos + 2 = h + 2 /\ S - pos + 2 <= FrameMax
        BY <1>3, <2>7, <2>8
      <4>2. EndOfSequence(bytes, pos, 216, FrameMax) = [found |-> "yes", read |-> S - pos + 2]
        <5>1. PICK f : f = parts[k].frame
          OBVIOUS
        <5>2. Framed(f) /\ NoMark(bytes, pos, S) /\ Holds(bytes, S, f)
          BY <2>4, <2>7, <5>1
        <5>3. bytes \in Seq(Int) /\ pos \in Nat /\ S \in Nat
          BY <1>1, <1>3, <2>8
        <5> QED
          BY <2>10, <4>1, <5>2, <5>3, BeginningFound
      <4> QED
        BY <4>1, <4>2
    <3>2. FrameLength(h) = Length(l, pos + h)
      <4>1. pos + h <= Len(bytes)
        BY <1>1, <2>7, <2>8, <2>10
      <4>2. SubSeq(bytes, pos + 1, pos + h) = PartHeader(parts[k])
        BY <1>1, <1>3, <2>5, <2>7, <4>1, HeaderExact DEF h
      <4>3. ContentLength(SubSeq(bytes, pos + 1, pos + h)) = l
        BY <2>2, <4>2, DeclaredLength DEF l
      <4>4. l # None
        BY <2>6, FrameReaderAssumption
      <4> QED
        BY <4>3, <4>4 DEF FrameLength
    <3>3. IF ~ReadsFully(h + l) THEN Crashed ELSE Frame(pos + h, pos + h + l)
      <4>1. ~(pos + h - pos > FrameMax) /\ ~(l < 0)
        BY <1>3, <2>6, <2>8, FrameReaderAssumption
      <4> QED
        <5>1. PICK end \in {FrameLength(h)} :
                 \/ end.kind = "eof" /\ Crashed
                 \/ end.kind = "io" /\ Retry(end.far) /\ UNCHANGED mContentLength
                 \/ /\ end.kind = "length"
                    /\ mContentLength' = end.length
                    /\ IF end.far - pos > FrameMax THEN Retry(end.far)
                       ELSE IF end.length < 0 \/ ~ReadsFully(h + end.length) THEN Crashed
                       ELSE Frame(pos + h, pos + h + end.length)
          BY <2>8, <3>1, BeginningRead
        <5>2. end.kind = "length" /\ end.length = l /\ end.far = pos + h
          BY <3>2 DEF Length
        <5>3. ~(end.far - pos > FrameMax) /\ ~(end.length < 0)
          <6>1. PICK far \in Int : far = pos + h /\ ~(far - pos > FrameMax)
            BY <1>3, <2>8, <4>1
          <6> QED
            BY <2>6, <5>2, <6>1
        <5>4. IF ~ReadsFully(h + end.length) THEN Crashed ELSE Frame(pos + h, pos + h + end.length)
          BY <5>1, <5>2, <5>3
        <5> QED
          BY <5>2, <5>4
    <3>4. CASE ~ReadsFully(h + l)
      <4>1. got' = got /\ status' = "crashed"
        BY <3>3, <3>4 DEF Crashed
      <4>2. Len(bytes) < FrameEnd(m + 1)
        BY <1>1, <1>3, <2>6, <2>7, <2>8, <3>4 DEF ReadsFully, k
      <4> QED
        BY <1>1, <1>2, <1>4, <1>5, <1>8, <4>1, <4>2 DEF DeclaredSoFar, m, n
    <3>5. CASE ReadsFully(h + l)
      <4>1. Frame(S, S + l) /\ S + l \in Nat /\ S + l <= Len(bytes)
        <5>1. pos + h = S /\ pos + h + l = S + l /\ pos + (h + l) = S + l
          BY <1>3, <2>6, <2>7, <2>8
        <5> QED
          BY <2>6, <2>8, <3>3, <3>5, <5>1 DEF ReadsFully
      <4>2. pos' = S + l /\ got' = Append(got, [from |-> S, to |-> S + l]) /\ status' = status
        <5>1. S + Len(parts[k].frame) <= S + l
          BY <2>6, <2>8 DEF l
        <5> QED
          BY <1>1, <2>4, <2>7, <2>8, <4>1, <5>1, FrameRead
      <4>3. [from |-> S, to |-> S + l] \in Seen
        BY <2>6, <2>8 DEF Seen
      <4>4. /\ got' \in Seq(Seen) /\ Len(got') = k
            /\ \A i \in 1..m : got'[i] = got[i]
            /\ got'[k] = [from |-> S, to |-> S + l]
        BY <1>1, <4>2, <4>3 DEF m, k
      <4>5. \A i \in 1..k : got'[i] = [from |-> FrameStart(i), to |-> FrameEnd(i)]
        <5>1. \A i \in 1..k : i \in 1..m \/ i = k
          BY <1>1 DEF k
        <5> QED
          BY <1>5, <2>7, <4>4, <5>1 DEF S
      <4> QED
        BY <1>2, <1>4, <2>1, <2>7, <4>1, <4>2, <4>4, <4>5 DEF DeclaredSoFar
    <3> QED
      BY <3>4, <3>5
  <2> QED
    BY <1>1, <2>8, <2>9, <2>10
<1> QED
  BY <1>1, <1>7, <1>8

LEMMA RegularPart ==
  ASSUME Placed, Regular, NEW k \in 1..Len(parts)
  PROVE  /\ parts[k].header \in Seq(Octet) /\ Len(parts[k].header) = Header /\ Header \in Nat
         /\ Lone(parts[k].frame)
         /\ Header + Len(parts[k].frame) <= FrameMax /\ Header + 2 <= FrameMax
         /\ NoMark(bytes, FrameEnd(k - 1), FrameStart(k))
         /\ Holds(bytes, FrameEnd(k - 1), parts[k].header)
         /\ Holds(bytes, FrameStart(k), parts[k].frame)
         /\ FrameStart(k) = FrameEnd(k - 1) + Header
         /\ FrameEnd(k) = FrameStart(k) + Len(parts[k].frame)
         /\ Len(PartBytes(parts[k])) = Header + Len(parts[k].frame)
<1>1. parts \in Seq(Part) /\ DOMAIN parts = 1..Len(parts) /\ parts[k] \in Part
  BY DEF Placed
<1>2. PICK p \in Part : p = parts[k]
  BY <1>1
<1>3. /\ Proper(p) /\ p.error = None /\ Len(p.header) = Header /\ Len(PartBytes(p)) <= FrameMax
      /\ ~\E i \in 1..(Len(p.frame) - 2) : p.frame[i] = 255 /\ p.frame[i + 1] \in {255, 217}
  <2>1. k \in DOMAIN parts
    BY <1>1
  <2> QED
    BY <1>2, <2>1, SMTT(30) DEF Regular, Header
<1>4. PartHeader(p) = p.header
  BY <1>3 DEF PartHeader
<1>5. Framed(p.frame) /\ Len(p.header) + 2 <= FrameMax
  BY <1>3, <1>4, MarkedFrame
<1>6. p.header \in Seq(Octet) /\ p.header \in Seq(Int) /\ Header \in Nat
  <2>1. p.header \in Seq(Octet)
    BY DEF Part
  <2>2. Len(p.header) \in Nat
    BY <2>1
  <2> QED
    BY <1>3, <2>1, <2>2, PartTypes
<1>7. Len(PartBytes(p)) = Header + Len(p.frame)
  BY <1>3, <1>4, PartTypes
<1>8. Lone(p.frame)
  BY <1>3, <1>5 DEF Lone
<1>9. PartAt(k)
  <2>1. Marked(parts[k])
    BY <1>2, <1>3 DEF Marked
  <2> QED
    BY <2>1, PartPlaced
<1> QED
  BY <1>2, <1>3, <1>4, <1>5, <1>6, <1>7, <1>8, <1>9 DEF PartAt

\* The next part is not there yet if this one, or the header behind it, is not.
LEMMA NextMissing ==
  ASSUME Placed, Regular, NEW k \in 1..Len(parts), Len(bytes) < FrameEnd(k) + Header
  PROVE  k >= Len(parts) \/ Len(bytes) < FrameEnd(k + 1)
<1> SUFFICES ASSUME k < Len(parts) PROVE Len(bytes) < FrameEnd(k + 1)
  BY DEF Placed
<1>1. k + 1 \in 1..Len(parts) /\ (k + 1) - 1 = k /\ k \in 0..Len(parts)
  BY DEF Placed
<1>2. /\ FrameStart(k + 1) = FrameEnd(k) + Header
      /\ FrameEnd(k + 1) = FrameStart(k + 1) + Len(parts[k + 1].frame)
      /\ Lone(parts[k + 1].frame) /\ Header \in Nat
  BY <1>1, RegularPart
<1>3. Len(parts[k + 1].frame) \in Nat
  <2>1. parts[k + 1].frame \in Seq(Int)
    BY <1>2 DEF Lone, Framed
  <2> QED
    BY <2>1
<1>4. FrameEnd(k) \in Nat /\ Len(bytes) \in Nat
  <2>1. bytes \in Seq(Int)
    BY DEF Placed
  <2> QED
    BY <1>1, <2>1 DEF Placed
<1> QED
  BY <1>2, <1>3, <1>4

LEMMA GuessHolds ==
  ASSUME Placed, Regular, NEW m \in 1..Len(parts), NEW k \in 1..Len(parts),
         NEW cl, cl \in {Len(parts[m].frame), Len(parts[m].frame) + Header}
  PROVE  Guess(cl, Len(parts[k].frame))
<1>1. Lone(parts[m].frame) /\ Lone(parts[k].frame) /\ Header \in Nat
  BY RegularPart
<1>2. PICK l, j \in Nat : l = Len(parts[k].frame) /\ j = Len(parts[m].frame) /\ l >= 4 /\ j >= 4
  <2>1. /\ parts[m].frame \in Seq(Int) /\ parts[k].frame \in Seq(Int)
        /\ Len(parts[m].frame) >= 4 /\ Len(parts[k].frame) >= 4
    BY <1>1 DEF Lone, Framed
  <2>2. Len(parts[m].frame) \in Nat /\ Len(parts[k].frame) \in Nat
    BY <2>1
  <2> QED
    BY <2>1, <2>2
<1>3. 2 * (Header + j) <= 3 * l
  <2>1. m \in DOMAIN parts /\ k \in DOMAIN parts
    BY DEF Placed
  <2>2. 2 * Len(PartBytes(parts[m])) <= 3 * Len(parts[k].frame)
    BY <2>1 DEF Regular
  <2>3. Len(PartBytes(parts[m])) = Header + Len(parts[m].frame)
    BY RegularPart
  <2> QED
    BY <1>2, <2>2, <2>3
<1>4. cl \in Nat /\ cl >= 4 /\ 2 * cl <= 3 * l
  BY <1>1, <1>2, <1>3, SMTT(30)
<1>5. cl \div 2 <= l - 1
  BY <1>2, <1>4
<1> QED
  BY <1>2, <1>4, <1>5 DEF Guess

LEMMA WholeStep ==
  ASSUME Placed, Regular, WholeSoFar, ReadMjpegFrame
  PROVE  WholeSoFar'
<1> DEFINE m == Len(got)
           n == Len(parts)
           k == m + 1
           S == FrameStart(k)
           l == Len(parts[k].frame)
           h == S - pos
<1>1. /\ m \in Nat /\ n \in Nat /\ m <= n
      /\ got \in Seq(Seen) /\ bytes \in Seq(Int) /\ Len(bytes) \in Nat
  <2>1. got \in Seq(Seen) /\ parts \in Seq(Part) /\ bytes \in Seq(Int) /\ m <= n
    BY DEF WholeSoFar, Placed
  <2> QED
    BY <2>1
<1>2. status = "reading" /\ UNCHANGED <<parts, bytes>>
  BY DEF ReadMjpegFrame
<1>3. /\ pos \in {FrameEnd(m), FrameEnd(m) + Header} /\ pos <= Len(bytes) /\ FrameEnd(m) \in Nat
      /\ m = 0 => pos = 0 /\ mContentLength = -1
      /\ m # 0 => mContentLength \in {Len(parts[m].frame), Len(parts[m].frame) + Header}
  <2>1. m \in 0..n
    BY <1>1
  <2> QED
    BY <1>2, <2>1 DEF WholeSoFar, Placed
<1>4. Header' = Header /\ \A i : FrameEnd(i)' = FrameEnd(i) /\ FrameStart(i)' = FrameStart(i)
  BY <1>2, SameParts
<1>5. \A i \in 1..m :
        got[i].from = FrameStart(i) /\ got[i].to \in {FrameEnd(i), FrameEnd(i) + Header}
  BY DEF WholeSoFar
<1> HIDE DEF m, n, h
<1>6. ASSUME got' = got, status' # "reading", m >= n - 1 \/ Len(bytes) < FrameEnd(m + 2)
      PROVE  WholeSoFar'
  BY <1>1, <1>2, <1>4, <1>5, <1>6 DEF WholeSoFar, m, n
<1>7. CASE m = n
  <2>1. ASSUME n = 0 PROVE pos \in Nat /\ pos >= FrameEnd(m)
    <3>1. pos = FrameEnd(m) /\ FrameEnd(m) = 0
      BY <1>3, <1>7, <2>1 DEF Placed
    <3> QED
      BY <3>1
  <2>4. ASSUME n # 0 PROVE pos \in Nat /\ pos >= FrameEnd(m)
    <3>1. n \in 1..Len(parts)
      BY <1>1, <2>4 DEF n
    <3>2. Header \in Nat
      BY <3>1, RegularPart
    <3>3. PICK e \in Nat : e = FrameEnd(m)
      BY <1>3
    <3> QED
      BY <1>3, <3>2, <3>3
  <2>2. pos \in Nat /\ pos >= FrameEnd(Len(parts))
    <3>1. pos \in Nat /\ pos >= FrameEnd(m) /\ FrameEnd(m) = FrameEnd(Len(parts))
      BY <1>7, <2>1, <2>4 DEF n
    <3> QED
      BY <3>1
  <2>3. got' = got /\ status' = "ended"
    BY <1>3, <2>2, AllRead
  <2> QED
    BY <1>1, <1>6, <1>7, <2>3
<1>8. CASE m < n
  <2>1. k \in 1..Len(parts) /\ k - 1 = m /\ k \in Nat
    BY <1>1, <1>8 DEF n
  <2>2. /\ parts[k].header \in Seq(Octet) /\ Len(parts[k].header) = Header /\ Header \in Nat
        /\ Lone(parts[k].frame)
        /\ Header + l <= FrameMax /\ Header + 2 <= FrameMax
        /\ NoMark(bytes, FrameEnd(m), S)
        /\ Holds(bytes, FrameEnd(m), parts[k].header)
        /\ Holds(bytes, S, parts[k].frame)
        /\ S = FrameEnd(m) + Header /\ FrameEnd(k) = S + l
    BY <2>1, RegularPart
  <2>3. l \in Nat /\ l >= 4 /\ Framed(parts[k].frame)
    <3>1. parts[k].frame \in Seq(Int) /\ l >= 4 /\ Framed(parts[k].frame)
      BY <2>2 DEF Lone, Framed
    <3> QED
      BY <3>1
  <2>4. Guess(mContentLength, l)
    <3>1. CASE m = 0
      <4>1. mContentLength = -1
        BY <1>3, <3>1
      <4> QED
        BY <4>1 DEF Guess
    <3>2. CASE m # 0
      <4>1. m \in 1..Len(parts)
        BY <1>1, <3>2 DEF n
      <4> QED
        BY <1>3, <2>1, <3>2, <4>1, GuessHolds
    <3> QED
      BY <3>1, <3>2
  <2> HIDE DEF S, l, k
  <2>10. PICK e, H, nb \in Nat : e = FrameEnd(m) /\ H = Header /\ nb = Len(bytes)
    <3>1. FrameEnd(m) \in Nat /\ Header \in Nat /\ Len(bytes) \in Nat
      BY <1>1, <1>3, <2>2
    <3> QED
      BY <3>1
  <2>11. /\ S = e + H /\ FrameEnd(k) = S + l /\ pos \in {e, e + H} /\ pos <= nb
         /\ H + l <= FrameMax /\ H + 2 <= FrameMax
    BY <1>3, <2>2, <2>10
  <2>12. FrameMax \in Nat /\ S \in Nat /\ pos \in Nat
    BY <2>10, <2>11, FrameReaderAssumption
  <2>13. h \in {0, H} /\ h \in Nat /\ h <= H /\ e <= pos /\ pos <= S /\ pos + h = S
    BY <2>10, <2>11, <2>12 DEF h
  <2>5. S \in Nat /\ pos \in Nat /\ pos + h = S /\ h + 2 = S - pos + 2 /\ h = S - pos
    BY <2>12, <2>13
  <2>6. FrameAt(bytes, pos, S, parts[k].frame)
    <3>1. NoMark(bytes, pos, S)
      <4>1. pos <= S /\ pos >= FrameEnd(m)
        BY <2>10, <2>13
      <4>2. \A i \in (pos + 1)..S : i \in (FrameEnd(m) + 1)..S
        BY <1>3, <2>5, <4>1
      <4> QED
        BY <2>2, <2>5, <4>1, <4>2 DEF NoMark
    <3> QED
      BY <1>1, <2>2, <3>1 DEF FrameAt
  <2>7. ASSUME Len(bytes) < FrameEnd(k) + Header PROVE m >= n - 1 \/ Len(bytes) < FrameEnd(m + 2)
    <3>1. k >= n \/ Len(bytes) < FrameEnd(k + 1)
      BY <2>1, <2>7, NextMissing DEF n
    <3>2. k + 1 = m + 2 /\ (k >= n => m >= n - 1)
      BY <1>1 DEF k
    <3> QED
      BY <3>1, <3>2
  <2>8. CASE Len(bytes) < S + 2
    <3>1. EndOfSequence(bytes, pos, 216, FrameMax).found # "yes"
      <4>1. NoMark(bytes, pos, S) /\ bytes \in Seq(Int) /\ pos <= Len(bytes)
        BY <1>3, <2>6 DEF FrameAt
      <4> QED
        BY <2>5, <2>8, <4>1, BeginningMissing
    <3>2. got' = got /\ status' = "ended"
      BY <3>1, NoBeginningRead
    <3>3. Len(bytes) < FrameEnd(k) + Header
      BY <2>3, <2>10, <2>11, <2>12, <2>8, SMTT(30)
    <3> QED
      BY <1>6, <2>7, <3>2, <3>3
  <2>9. CASE S + 2 <= Len(bytes)
    <3>1. h \in Nat /\ EndOfSequence(bytes, pos, 216, FrameMax) = [found |-> "yes", read |-> h + 2]
      <4>1. h \in Nat /\ S - pos + 2 <= FrameMax
        BY <2>11, <2>12, <2>13
      <4>2. PICK f : f = parts[k].frame
        OBVIOUS
      <4>3. Framed(f) /\ NoMark(bytes, pos, S) /\ Holds(bytes, S, f) /\ bytes \in Seq(Int)
        BY <2>3, <2>6, <4>2 DEF FrameAt
      <4>4. EndOfSequence(bytes, pos, 216, FrameMax) = [found |-> "yes", read |-> S - pos + 2]
        BY <2>5, <2>9, <4>1, <4>3, BeginningFound
      <4> QED
        BY <2>5, <4>1, <4>4
    <3>2. FrameLength(h) = FindLength(bytes, pos, S - pos, mContentLength)
      <4>1. ContentLength(SubSeq(bytes, pos + 1, pos + h)) = None
        <5>1. PICK g \in Seq(Octet) : g = parts[k].header
          BY <2>2
        <5>2. e + Len(g) = S /\ e <= pos /\ pos <= S /\ S <= Len(bytes)
          <6>1. Len(g) = H /\ S <= nb
            BY <2>2, <2>9, <2>10, <2>12, <5>1
          <6> QED
            BY <2>10, <2>11, <2>13, <6>1
        <5>3. Holds(bytes, e, g)
          BY <2>2, <2>10, <5>1
        <5>4. ContentLength(SubSeq(bytes, pos + 1, e + Len(g))) = None
          BY <1>1, <2>5, <5>2, <5>3, NothingDeclared
        <5> QED
          BY <2>5, <5>2, <5>4
      <4> QED
        BY <2>5, <4>1 DEF FrameLength
    <3>3. PICK end \in {FrameLength(h)} :
             \/ end.kind = "eof" /\ Crashed
             \/ end.kind = "io" /\ Retry(end.far) /\ UNCHANGED mContentLength
             \/ /\ end.kind = "length"
                /\ mContentLength' = end.length
                /\ IF end.far - pos > FrameMax THEN Retry(end.far)
                   ELSE IF end.length < 0 \/ ~ReadsFully(h + end.length) THEN Crashed
                   ELSE Frame(pos + h, pos + h + end.length)
      BY <3>1, BeginningRead
    <3>4. CASE Len(bytes) < S + l
      <4>1. FrameLength(h) = EndOfFile
        <5>1. S <= Len(bytes) /\ S - pos + l <= FrameMax
          <6>1. S - pos + l <= FrameMax
            BY <2>3, <2>11, <2>12, <2>13
          <6>2. S <= nb
            BY <2>9, <2>10, <2>12
          <6> QED
            BY <2>10, <6>1, <6>2
        <5> QED
          BY <2>4, <2>6, <3>2, <3>4, <5>1, LengthMissing DEF l
      <4>2. got' = got /\ status' = "crashed"
        BY <3>3, <4>1 DEF EndOfFile, Crashed
      <4>3. Len(bytes) < FrameEnd(k) + Header
        BY <2>3, <2>10, <2>11, <2>12, <3>4
      <4> QED
        BY <1>6, <2>7, <4>2, <4>3
    <3>5. CASE S + l <= Len(bytes)
      <4>1. PICK len \in {l, h + l} : FrameLength(h) = Length(len, S + l)
        <5>1. S - pos + l <= FrameMax /\ S - pos = h
          BY <2>3, <2>11, <2>12, <2>13
        <5>2. FindLength(bytes, pos, S - pos, mContentLength) \in
                 {Length(l, S + l), Length(S - pos + l, S + l)}
          BY <2>4, <2>6, <3>5, <5>1, LengthFound DEF l
        <5> QED
          BY <3>2, <5>1, <5>2
      <4>2. len \in Nat /\ len >= l /\ len \in {l, l + Header} /\ l + h = h + l
        BY <2>3, <2>10, <2>13, <4>1
      <4>3. /\ mContentLength' = len
            /\ IF ~ReadsFully(h + len) THEN Crashed ELSE Frame(pos + h, pos + h + len)
        <5>1. end.kind = "length" /\ end.length = len /\ end.far = S + l
          BY <4>1 DEF Length
        <5>2. ~(end.far - pos > FrameMax) /\ ~(end.length < 0)
          <6>1. PICK far \in Int : far = S + l /\ ~(far - pos > FrameMax)
            BY <2>3, <2>10, <2>11, <2>12, <2>13
          <6> QED
            BY <4>2, <5>1, <6>1
        <5>3. mContentLength' = end.length
              /\ IF ~ReadsFully(h + end.length) THEN Crashed
                 ELSE Frame(pos + h, pos + h + end.length)
          BY <3>3, <5>1, <5>2
        <5> QED
          BY <5>1, <5>3
      <4>4. CASE ~ReadsFully(h + len)
        <5>1. got' = got /\ status' = "crashed"
          BY <4>3, <4>4 DEF Crashed
        <5>2. Len(bytes) < FrameEnd(k) + Header
          <6>1. nb < pos + (h + len)
            BY <2>10, <2>12, <2>13, <4>2, <4>4 DEF ReadsFully
          <6>2. len <= l + H
            BY <2>3, <2>10, <4>2
          <6>3. nb < S + l + H
            BY <2>3, <2>10, <2>12, <2>13, <4>2, <6>1, <6>2
          <6> QED
            BY <2>10, <2>11, <6>3
        <5> QED
          BY <1>6, <2>7, <5>1, <5>2
      <4>5. CASE ReadsFully(h + len)
        <5>1. Frame(S, S + len) /\ S + len \in Nat /\ S + len <= Len(bytes)
          <6>1. pos + h = S /\ pos + h + len = S + len /\ pos + (h + len) = S + len
            BY <2>5, <4>2
          <6> QED
            BY <2>5, <4>2, <4>3, <4>5, <6>1 DEF ReadsFully
        <5>2. pos' = S + len /\ got' = Append(got, [from |-> S, to |-> S + len]) /\ status' = status
          <6>1. S + Len(parts[k].frame) <= S + len
            BY <2>3, <2>5, <4>2 DEF l
          <6> QED
            BY <1>1, <2>2, <2>3, <2>5, <5>1, <6>1, FrameRead
        <5>3. [from |-> S, to |-> S + len] \in Seen
          BY <2>5, <4>2 DEF Seen
        <5>4. /\ got' \in Seq(Seen) /\ Len(got') = k
              /\ \A i \in 1..m : got'[i] = got[i]
              /\ got'[k] = [from |-> S, to |-> S + len]
          BY <1>1, <5>2, <5>3 DEF m, k
        <5>5. S + len \in {FrameEnd(k), FrameEnd(k) + Header}
          <6>1. S + (l + H) = (S + l) + H
            BY <2>3, <2>10, <2>12
          <6> QED
            BY <2>10, <2>11, <4>2, <6>1
        <5>6. \A i \in 1..k :
                 got'[i].from = FrameStart(i) /\ got'[i].to \in {FrameEnd(i), FrameEnd(i) + Header}
          <6>1. \A i \in 1..k : i \in 1..m \/ i = k
            BY <1>1 DEF k
          <6> QED
            BY <1>5, <5>4, <5>5, <6>1 DEF S
        <5> QED
          BY <1>2, <1>4, <2>1, <4>2, <4>3, <5>1, <5>2, <5>4, <5>5, <5>6 DEF WholeSoFar, l
      <4> QED
        BY <4>4, <4>5
    <3> QED
      BY <1>1, <2>3, <2>5, <3>4, <3>5
  <2> QED
    BY <1>1, <2>5, <2>8, <2>9
<1> QED
  BY <1>1, <1>7, <1>8

LEMMA InitReader == Init => ReaderInv
<1> SUFFICES ASSUME Init PROVE ReaderInv
  OBVIOUS
<1>1. parts \in Seq(Part) /\ pos = 0 /\ mContentLength = -1 /\ got = <<>>
      /\ status \in {"reading", "stopped"}
  <2>1. CASE ReaderInit
    BY <2>1, FrameReaderAssumption DEF ReaderInit
  <2>2. CASE NoStream
    <3>1. <<>> \in Seq(Part)
      OBVIOUS
    <3> QED
      BY <2>2, <3>1 DEF NoStream
  <2> QED
    BY <2>1, <2>2 DEF Init
<1>2. Placed
  <2>1. CASE ReaderInit
    <3>1. PICK cut \in Cuts : CutOff(bytes, AllBytes(parts), cut)
      BY <2>1 DEF ReaderInit, CutOff
    <3>2. cut \in Nat
      BY FrameReaderAssumption
    <3> QED
      BY <1>1, <3>1, <3>2, PartsPlaced
  <2>2. CASE NoStream
    <3>1. parts = <<>> /\ bytes = <<>>
      BY <2>2 DEF NoStream
    <3>2. PICK F : Laid(F, parts)
      BY <1>1, LaidExists
    <3>3. Len(parts) = 0
      BY <3>1
    <3>4. AllBytes(parts) = <<>>
      <4>1. AllBytes(parts) = F[Len(parts)]
        BY <1>1, <3>2, AllBytesLaid
      <4>2. F[0] = <<>>
        BY <3>2 DEF Laid, Lays
      <4> QED
        BY <3>3, <4>1, <4>2
    <3>5. CutOff(<<>>, <<>>, 0)
      BY DEF CutOff
    <3> QED
      BY <1>1, <3>1, <3>4, <3>5, PartsPlaced
  <2> QED
    BY <2>1, <2>2 DEF Init
<1>3. /\ Len(got) = 0 /\ got \in Seq(Seen) /\ Len(parts) \in Nat
      /\ Len(bytes) \in Nat /\ FrameEnd(0) = 0
  <2>1. bytes \in Seq(Int) /\ FrameEnd(0) = 0
    BY <1>2 DEF Placed
  <2> QED
    BY <1>1, <2>1
<1>4. status # "reading" => Len(parts) = 0
  <2>1. CASE ReaderInit
    BY <2>1 DEF ReaderInit
  <2>2. CASE NoStream
    BY <2>2 DEF NoStream
  <2> QED
    BY <2>1, <2>2 DEF Init
<1>5. DeclaredSoFar
  BY <1>1, <1>3 DEF DeclaredSoFar
<1>6. WholeSoFar
  BY <1>1, <1>3, <1>4 DEF WholeSoFar
<1> QED
  BY <1>2, <1>5, <1>6 DEF ReaderInv

LEMMA NextReader == ReaderInv /\ [Next]_vars => ReaderInv'
<1> SUFFICES ASSUME ReaderInv, [Next]_vars PROVE ReaderInv'
  OBVIOUS
<1>1. CASE ReadMjpegFrame
  <2>1. /\ Placed' = Placed /\ Declared' = Declared /\ Regular' = Regular
    BY <1>1, SameParts DEF ReadMjpegFrame
  <2> QED
    BY <1>1, <2>1, DeclaredStep, WholeStep DEF ReaderInv
<1>2. CASE UNCHANGED readerVars
  <2>1. UNCHANGED <<parts, bytes, pos, mContentLength, got, status>>
    BY <1>2 DEF readerVars
  <2>2. /\ Placed' = Placed /\ Declared' = Declared /\ Regular' = Regular /\ Header' = Header
        /\ \A k : FrameEnd(k)' = FrameEnd(k) /\ FrameStart(k)' = FrameStart(k)
    BY <2>1, SameParts
  <2>3. DeclaredSoFar' = DeclaredSoFar
    BY <2>1, <2>2 DEF DeclaredSoFar
  <2>4. WholeSoFar' = WholeSoFar
    BY <2>1, <2>2 DEF WholeSoFar
  <2> QED
    BY <2>2, <2>3, <2>4 DEF ReaderInv
<1> QED
  BY <1>1, <1>2 DEF Next, Reads, Begins, Decodes, Frees, vars

\* The reader's inductive invariant: as long as the thread reads a stream whose frames are
\* all declared right, or none but regular, it is at the end of a frame or of the header
\* behind it, and the length it remembers puts the next search before the next end.
THEOREM ReaderInvariant == Spec => []ReaderInv
  BY InitReader, NextReader, PTL DEF Spec

\* readMjpegFrame finds the frames: with the right lengths declared each exactly, without
\* lengths each whole if the stream is regular, and it stops only where the stream does.
THEOREM EveryFrameFound == Spec => []FramesFound
  BY ReaderInvariant, ReaderInvImplies, PTL


----------------------------------------------------------------------------
(***************************************************************************)
(* Behind the decoder: the virtual arrays of JpegVirtualArray, for an      *)
(* array and a buffer of any height.                                       *)
(***************************************************************************)

\* An array that does not fit is given a buffer that is lower than it, and at least as high
\* as the highest access.
LEMMA RealizeBound ==
    ASSUME NEW n \in 1..RowsInArray, (RowsInArray - 1) \div MaxAccess + 1 > n
    PROVE  n * MaxAccess \in 1..RowsInArray /\ n * MaxAccess >= MaxAccess
  <1> DEFINE q == (RowsInArray - 1) \div MaxAccess
  <1>1. RowsInArray \in Nat /\ RowsInArray >= 1 /\ MaxAccess \in Nat /\ MaxAccess >= 1
    BY VirtualArrayAssumption
  <1>2. q \in Nat /\ MaxAccess * q <= RowsInArray - 1
    BY <1>1
  <1>3. n \in Nat /\ 1 <= n /\ n <= q
    BY <1>1, <1>2
  <1> HIDE DEF q
  <1>4. \A a, m, k \in Nat : m <= k => a * m <= a * k
    OBVIOUS
  <1>5. MaxAccess * n <= MaxAccess * q /\ MaxAccess * 1 <= MaxAccess * n
    BY <1>1, <1>2, <1>3, <1>4
  <1>6. n * MaxAccess = MaxAccess * n /\ n * MaxAccess \in Nat
    BY <1>1, <1>3
  <1> QED
    BY <1>1, <1>2, <1>5, <1>6

\* What an access finds in the store once the buffer is flushed: every row written so far.
LEMMA StoredRows ==
    ASSUME IInv, b_s_open, NEW r \in Row, r < first_undef_row
    PROVE  Stored[r] = array[r]
  <1> USE DEF IInv, TypeOK
  <1>1. CASE dirty /\ InBuffer(r)
    BY <1>1 DEF Stored, Window, InBuffer, DefinedRows, Row
  <1>2. CASE dirty /\ ~InBuffer(r)
    BY <1>2 DEF Stored, Window, InBuffer, DefinedRows, Row
  <1>3. CASE ~dirty
    BY <1>3 DEF Stored, InBuffer, DefinedRows
  <1> QED
    BY <1>1, <1>2, <1>3

-----------------------------------------------------------------------------
\* A caller that writes to a row it was given changes the array and the buffer alike.
LEMMA WriteIInv ==
    ASSUME IInv, NEW r \in Row, NEW v \in Values, Write(r, v)
    PROVE  IInv'
  <1> USE DEF IInv, TypeOK
  <1>1. r < first_undef_row /\ InBuffer(r) /\ dirty /\ r \in Int
    BY VirtualArrayAssumption DEF Write, GivenRows, InBuffer, Row
  <1>2. /\ mem_buffer' = [mem_buffer EXCEPT ![r - cur_start_row] = v]
        /\ array' = [array EXCEPT ![r] = v]
        /\ UNCHANGED <<accessed, rows_in_mem, b_s_open, cur_start_row, first_undef_row, dirty,
                       backing_store, failed>>
    BY DEF Write
  <1>3. TypeOK' /\ EnoughRows' /\ GivenRows'
    BY <1>1, <1>2 DEF EnoughRows, GivenRows
  <1>4. \A s \in Row : InBuffer(s) =>
           /\ s - cur_start_row \in 0..(rows_in_mem - 1)
           /\ mem_buffer[s - cur_start_row] = array[s] =>
                 mem_buffer'[s - cur_start_row] = array'[s]
    BY <1>1, <1>2, VirtualArrayAssumption DEF InBuffer, Row
  <1>5. Coherent'
    <2>1. \A s \in Accessible : InBuffer(s) /\ s \in Row
      BY VirtualArrayAssumption DEF Accessible, GivenRows, InBuffer, Row
    <2>2. Accessible' = Accessible
      BY <1>2 DEF Accessible
    <2> QED
      BY <1>2, <1>4, <2>1, <2>2 DEF Coherent
  <1>6. DefinedRows'
    <2> SUFFICES ASSUME NEW s \in Row, s < first_undef_row
                 PROVE  /\ InBuffer(s) => mem_buffer'[s - cur_start_row] = array'[s]
                        /\ ~InBuffer(s) => backing_store[s] = array'[s]
      BY <1>1, <1>2 DEF DefinedRows, InBuffer
    <2> QED
      BY <1>1, <1>2, <1>4 DEF DefinedRows
  <1>7. UndefinedRows'
    BY <1>1, <1>2, VirtualArrayAssumption DEF UndefinedRows, Row
  <1> QED
    BY <1>3, <1>5, <1>6, <1>7

\* The window that an access moves to is one of the array and holds what is asked for.
LEMMA NewStartWindow ==
    ASSUME IInv, NEW from \in Row, NEW to \in 1..RowsInArray,
           to > from, to - from <= MaxAccess
    PROVE  /\ NewStart(from, to) \in Row /\ NewStart(from, to) <= from
           /\ to <= NewStart(from, to) + rows_in_mem
  BY VirtualArrayAssumption DEF IInv, TypeOK, EnoughRows, NewStart, Row

\* After an access every defined row of the window is in the buffer, and so are those that
\* were asked for, defined or not.
LEMMA AccessedRows ==
    ASSUME IInv, NEW from \in Row, NEW to \in 1..RowsInArray,
           NEW start \in Row, NEW buffer \in [0..(rows_in_mem - 1) -> Values],
           start <= from, to <= start + rows_in_mem,
           \A r \in Row : r < first_undef_row /\ start <= r /\ r < start + rows_in_mem =>
              buffer[r - start] = array[r]
    PROVE  /\ Zeroed(buffer, start, from, to) \in [0..(rows_in_mem - 1) -> Values]
           /\ \A r \in Row :
                 /\ start <= r /\ r < start + rows_in_mem
                 /\ r < first_undef_row \/ (from <= r /\ r < to)
                 => Zeroed(buffer, start, from, to)[r - start] = array[r]
  <1> USE VirtualArrayAssumption DEF IInv, TypeOK, Row
  <1>1. Zeroed(buffer, start, from, to) \in [0..(rows_in_mem - 1) -> Values]
    BY DEF Zeroed
  <1>2. ASSUME NEW r \in Row, start <= r, r < start + rows_in_mem,
               r < first_undef_row \/ (from <= r /\ r < to)
        PROVE  Zeroed(buffer, start, from, to)[r - start] = array[r]
    <2>1. r - start \in 0..(rows_in_mem - 1) /\ start + (r - start) = r
      BY <1>2
    <2>2. CASE r < first_undef_row
      BY <1>2, <2>1, <2>2 DEF Zeroed
    <2>3. CASE r >= first_undef_row
      BY <1>2, <2>1, <2>3 DEF Zeroed, UndefinedRows
    <2> QED
      BY <1>2, <2>2, <2>3
  <1> QED
    BY <1>1, <1>2

\* An access moves the window and loses no row.
LEMMA AccessIInv ==
    ASSUME IInv, NEW from \in Row, NEW to \in 1..RowsInArray, NEW writable \in BOOLEAN,
           Access(from, to, writable)
    PROVE  IInv'
  <1> DEFINE start == IF InWindow(from, to) THEN cur_start_row ELSE NewStart(from, to)
             buffer == IF InWindow(from, to) THEN mem_buffer ELSE Loaded(start)
  <1>1. /\ UNCHANGED <<array, rows_in_mem, b_s_open>>
        /\ from \in Int /\ to \in Int /\ to > from /\ to - from <= MaxAccess /\ from >= 0
    BY VirtualArrayAssumption DEF Access, Row
  <1>2. CASE failed' = TRUE /\ accessed' = Nothing
             /\ UNCHANGED <<mem_buffer, cur_start_row, first_undef_row, dirty, backing_store>>
    <2>1. Accessible' = {} /\ GivenRows'
      BY <1>2, VirtualArrayAssumption DEF Accessible, GivenRows, Nothing, Row
    <2>2. accessed' \in [from : 0..RowsInArray, to : 0..RowsInArray, writable : BOOLEAN]
      BY <1>2, VirtualArrayAssumption DEF Nothing
    <2>3. TypeOK' /\ EnoughRows'
      BY <1>1, <1>2, <2>2 DEF IInv, TypeOK, EnoughRows
    <2>4. DefinedRows' /\ UndefinedRows'
      BY <1>1, <1>2 DEF IInv, DefinedRows, UndefinedRows, InBuffer
    <2> QED
      BY <2>1, <2>3, <2>4 DEF IInv, Coherent
  <1>3. CASE /\ InWindow(from, to) \/ b_s_open
             /\ ~(writable /\ first_undef_row < from)
             /\ cur_start_row' = start
             /\ backing_store' = IF InWindow(from, to) THEN backing_store ELSE Stored
             /\ mem_buffer' = Zeroed(buffer, start, from, to)
             /\ first_undef_row' = IF writable /\ first_undef_row < to THEN to
                                   ELSE first_undef_row
             /\ dirty' = (writable \/ (InWindow(from, to) /\ dirty))
             /\ accessed' = [from |-> from, to |-> to, writable |-> writable]
             /\ UNCHANGED failed
    <2>1. start \in Row /\ start <= from /\ to <= start + rows_in_mem
      BY <1>1, NewStartWindow DEF IInv, TypeOK, InWindow
    <2>2. Stored \in [Row -> Values]
      BY VirtualArrayAssumption DEF IInv, TypeOK, Stored, Window, Row
    <2>3. ~InWindow(from, to) => \A r \in Row : r < first_undef_row => Stored[r] = array[r]
      BY <1>3, StoredRows
    <2>4. buffer \in [0..(rows_in_mem - 1) -> Values]
      <3>1. Loaded(start) \in [0..(rows_in_mem - 1) -> Values]
        BY <2>2, VirtualArrayAssumption DEF IInv, TypeOK, Loaded, Window, Row
      <3> QED
        BY <3>1 DEF IInv, TypeOK
    <2>5. ASSUME NEW r \in Row, r < first_undef_row, start <= r, r < start + rows_in_mem
          PROVE  buffer[r - start] = array[r]
      <3>1. CASE InWindow(from, to)
        BY <2>5, <3>1 DEF IInv, DefinedRows, InBuffer
      <3>2. CASE ~InWindow(from, to)
        <4>1. r - start \in 0..(rows_in_mem - 1) /\ start + (r - start) = r
          BY <2>1, <2>5, VirtualArrayAssumption DEF IInv, TypeOK, Row
        <4>2. Loaded(start)[r - start] = Stored[r]
          BY <2>5, <4>1 DEF Loaded, Window
        <4> QED
          BY <2>3, <2>5, <3>2, <4>2
      <3> QED
        BY <3>1, <3>2
    <2> HIDE DEF start, buffer
    <2>6. /\ mem_buffer' \in [0..(rows_in_mem - 1) -> Values]
          /\ \A r \in Row :
                /\ start <= r /\ r < start + rows_in_mem
                /\ r < first_undef_row \/ (from <= r /\ r < to)
                => mem_buffer'[r - start] = array[r]
      <3>1. /\ Zeroed(buffer, start, from, to) \in [0..(rows_in_mem - 1) -> Values]
            /\ \A r \in Row :
                  /\ start <= r /\ r < start + rows_in_mem
                  /\ r < first_undef_row \/ (from <= r /\ r < to)
                  => Zeroed(buffer, start, from, to)[r - start] = array[r]
        BY <2>1, <2>4, <2>5, AccessedRows, ZenonT(30)
      <3>2. mem_buffer' = Zeroed(buffer, start, from, to)
        BY <1>3
      <3> QED
        BY <3>1, <3>2
    <2>7. TypeOK' /\ EnoughRows'
      <3>1. accessed' \in [from : 0..RowsInArray, to : 0..RowsInArray, writable : BOOLEAN]
        BY <1>1, <1>3, VirtualArrayAssumption DEF Row
      <3>2. first_undef_row' \in 0..RowsInArray /\ backing_store' \in [Row -> Values]
        BY <1>3, <2>2 DEF IInv, TypeOK
      <3>3. dirty' \in BOOLEAN /\ failed' \in BOOLEAN
        BY <1>3, Zenon DEF IInv, TypeOK
      <3>4. array' \in [Row -> Values] /\ rows_in_mem' \in 1..RowsInArray
            /\ b_s_open' \in BOOLEAN /\ cur_start_row' \in Row /\ EnoughRows'
        BY <1>1, <1>3, <2>1 DEF IInv, TypeOK, EnoughRows
      <3>5. mem_buffer' \in [0..(rows_in_mem' - 1) -> Values]
        BY <1>1, <2>6
      <3> QED
        BY <3>1, <3>2, <3>3, <3>4, <3>5, Zenon DEF TypeOK
    <2>8. GivenRows'
      BY <1>1, <1>3, <2>1, VirtualArrayAssumption DEF GivenRows, IInv, TypeOK
    <2>9. Coherent'
      BY <1>1, <1>3, <2>1, <2>6, VirtualArrayAssumption
      DEF Coherent, Accessible, Row, IInv, TypeOK
    <2>10. DefinedRows'
      <3> SUFFICES ASSUME NEW r \in Row, r < first_undef_row'
                   PROVE  /\ InBuffer(r)' => mem_buffer'[r - cur_start_row'] = array'[r]
                          /\ ~InBuffer(r)' \/ (~dirty' /\ b_s_open') =>
                                backing_store'[r] = array'[r]
        BY DEF DefinedRows
      <3>1. r < first_undef_row \/ (from <= r /\ r < to /\ writable)
        BY <1>1, <1>3, VirtualArrayAssumption DEF IInv, TypeOK, Row
      <3>2. InBuffer(r)' <=> (start <= r /\ r < start + rows_in_mem)
        BY <1>1, <1>3 DEF InBuffer
      <3>3. InBuffer(r)' => mem_buffer'[r - cur_start_row'] = array'[r]
        BY <1>1, <1>3, <2>6, <3>1, <3>2
      <3>4. ASSUME ~InBuffer(r)' \/ (~dirty' /\ b_s_open')
            PROVE  backing_store'[r] = array'[r]
        <4>1. r < first_undef_row
          BY <1>1, <1>3, <2>1, <3>1, <3>2, <3>4, VirtualArrayAssumption
          DEF IInv, TypeOK, Row
        <4>2. CASE InWindow(from, to)
          BY <1>1, <1>3, <3>2, <3>4, <4>1, <4>2
          DEF start, IInv, DefinedRows, InBuffer
        <4>3. CASE ~InWindow(from, to)
          BY <1>1, <1>3, <2>3, <4>1, <4>3
        <4> QED
          BY <4>2, <4>3
      <3> QED
        BY <3>3, <3>4
    <2>11. UndefinedRows'
      BY <1>1, <1>3, VirtualArrayAssumption DEF UndefinedRows, IInv, TypeOK, Row
    <2> QED
      BY <2>7, <2>8, <2>9, <2>10, <2>11 DEF IInv
  <1>4. \/ failed' = TRUE /\ accessed' = Nothing
           /\ UNCHANGED <<mem_buffer, cur_start_row, first_undef_row, dirty, backing_store>>
        \/ /\ InWindow(from, to) \/ b_s_open
           /\ ~(writable /\ first_undef_row < from)
           /\ cur_start_row' = start
           /\ backing_store' = IF InWindow(from, to) THEN backing_store ELSE Stored
           /\ mem_buffer' = Zeroed(buffer, start, from, to)
           /\ first_undef_row' = IF writable /\ first_undef_row < to THEN to
                                 ELSE first_undef_row
           /\ dirty' = (writable \/ (InWindow(from, to) /\ dirty))
           /\ accessed' = [from |-> from, to |-> to, writable |-> writable]
           /\ UNCHANGED failed
    BY DEF Access
  <1> QED
    BY <1>2, <1>3, <1>4

-----------------------------------------------------------------------------
\* The rows that a caller of access_virt_barray was given are those of the array, at any
\* height of the buffer, by the induction over IInv.
THEOREM VirtualArrayCoherent == ArraySpec => []Coherent
  <1>1. ArrayInit => IInv
    <2> SUFFICES ASSUME ArrayInit PROVE IInv
      OBVIOUS
    <2>1. PICK n \in 1..RowsInArray : Realize(n)
      BY DEF ArrayInit
    <2>2. rows_in_mem \in 1..RowsInArray /\ b_s_open \in BOOLEAN /\ EnoughRows
      BY <2>1, RealizeBound, VirtualArrayAssumption DEF Realize, EnoughRows
    <2>3. TypeOK
      <3>1. array \in [Row -> Values] /\ cur_start_row \in Row
        BY VirtualArrayAssumption DEF ArrayInit, Row
      <3>2. accessed \in [from : 0..RowsInArray, to : 0..RowsInArray, writable : BOOLEAN]
        BY VirtualArrayAssumption DEF ArrayInit, Nothing
      <3>3. first_undef_row \in 0..RowsInArray
        BY VirtualArrayAssumption DEF ArrayInit
      <3>4. dirty \in BOOLEAN /\ failed \in BOOLEAN
        BY Zenon DEF ArrayInit
      <3>5. /\ mem_buffer \in [0..(rows_in_mem - 1) -> Values]
            /\ backing_store \in [Row -> Values]
        BY Zenon DEF ArrayInit
      <3> QED
        BY <2>2, <3>1, <3>2, <3>3, <3>4, <3>5, Zenon DEF TypeOK
    <2> QED
      BY <2>2, <2>3, VirtualArrayAssumption
      DEF ArrayInit, IInv, Coherent, Accessible, DefinedRows, UndefinedRows, GivenRows, Row, Nothing
  <1>2. IInv /\ [ArrayNext]_arrayVars => IInv'
    <2> SUFFICES ASSUME IInv, [ArrayNext]_arrayVars PROVE IInv'
      OBVIOUS
    <2>1. ASSUME NEW from \in Row, NEW to \in 1..RowsInArray, NEW writable \in BOOLEAN,
                 Access(from, to, writable)
          PROVE  IInv'
      BY <2>1, AccessIInv
    <2>2. ASSUME NEW r \in Row, NEW v \in Values, Write(r, v) PROVE IInv'
      BY <2>2, WriteIInv
    <2>3. CASE UNCHANGED arrayVars
      BY <2>3 DEF arrayVars, IInv, TypeOK, EnoughRows, Coherent, Accessible, DefinedRows, InBuffer,
                  UndefinedRows, GivenRows
    <2> QED
      BY <2>1, <2>2, <2>3 DEF ArrayNext
  <1>3. IInv => Coherent
    BY DEF IInv
  <1> QED
    BY <1>1, <1>2, <1>3, PTL DEF ArraySpec
=============================================================================
