----------------------------- MODULE FrameReader -----------------------------
(***************************************************************************)
(* MjpegInputStream.readMjpegFrame, called in the loop of the render       *)
(* thread on one stream: parts of a header (which may declare the length   *)
(* of the frame) and a frame.  Frames are found by their markers, with a   *)
(* mark that is lost when more than FrameMax bytes are read beyond it.     *)
(*                                                                         *)
(* A byte is 255 (0xFF), 216 (0xD8), 217 (0xD9), 0 (anything else) or, in  *)
(* a header, 256 + n, which stands for the line Content-Length: n.         *)
(* What pixeltobmp makes of the bytes of a frame is not modelled here.     *)
(***************************************************************************)
EXTENDS Integers, SequencesExt, FiniteSetsExt

CONSTANTS FrameMax,  \* FRAME_MAX_LENGTH: the mark's limit, and the longest scan
          Streams,   \* what the DVR may send: sequences of parts
          Cuts,      \* how many bytes may be missing at the end of a stream
          None

\* A part: a header, a frame, and what the header declares the frame's length to be, off
\* by error; None: the header does not declare it.
Octet == {0, 216, 217, 255}
Part == [header : Seq(Octet), frame : Seq(Octet), error : Int \cup {None}]

ASSUME FrameReaderAssumption ==
    /\ FrameMax \in Nat \ {0} /\ Cuts \subseteq Nat /\ None \notin Int
    /\ Streams \subseteq Seq(Part)

VARIABLES
    parts,           \* the parts the DVR sends
    bytes,           \* the bytes of them that arrive
    pos,             \* the bytes consumed from the stream
    mContentLength,  \* the length of the last frame, -1 at first
    got,             \* history: where the frames that were returned began and ended
    status           \* of the render thread; "crashed": an exception ended the process

readerVars == <<parts, bytes, pos, mContentLength, got, status>>

PartHeader(p) ==
    IF p.error = None THEN p.header
    ELSE Append(p.header, 256 + Len(p.frame) + p.error)
PartBytes(p) == PartHeader(p) \o p.frame
AllBytes(s) == FlattenSeq([k \in DOMAIN s |-> PartBytes(s[k])])

\* Where the frame of part k begins and ends.
FrameEnd(k) == Len(AllBytes(SubSeq(parts, 1, k)))
FrameStart(k) == FrameEnd(k) - Len(parts[k].frame)

ReaderInit ==
    /\ parts \in Streams
    /\ \E cut \in Cuts :
          bytes = SubSeq(AllBytes(parts), 1, Len(AllBytes(parts)) - cut)
    /\ pos = 0
    /\ mContentLength = -1
    /\ got = <<>>
    /\ status = "reading"

----------------------------------------------------------------------------

AtMost(m, n) == IF m < n THEN m ELSE n
NonNegative(n) == IF n < 0 THEN 0 ELSE n

\* getEndOfSeqeunce from a position of the bytes b, for the marker <<255, last>>: the
\* number of bytes read to its end, at most max. A mismatch starts over with the next
\* byte, so a 255 that follows another one does not count as a beginning.
EndOfSequence(b, from, last, max) ==
    LET window == AtMost(Len(b) - from, max)
        seqIndex[i \in 0..window] ==
            IF i > 0 /\ b[from + i] = 255 /\ seqIndex[i - 1] = 0 THEN 1 ELSE 0
        ends == {i \in 1..window : seqIndex[i - 1] = 1 /\ b[from + i] = last}
    IN IF ends # {} THEN [found |-> "yes", read |-> Min(ends)]
       ELSE [found |-> IF Len(b) - from < max THEN "eof" ELSE "no", read |-> window]

\* parseContentLength: the last declaration counts; None without one (the exception
\* of parseInt(null)).
ContentLength(header) ==
    LET lines == {i \in DOMAIN header : header[i] >= 256}
    IN IF lines = {} THEN None ELSE header[Max(lines)] - 256

\* The results of looking for the end: a length (-1 if not found) with how far was read,
\* or the exception that leaves readMjpegFrame.
Length(n, far) == [kind |-> "length", length |-> n, far |-> far]
EndOfFile == [kind |-> "eof", length |-> -1, far |-> -1]
MarkLost(far) == [kind |-> "io", length |-> -1, far |-> far]

FaultSimplified(b, from, cl) ==   \* seeded bug: the local headerLen is the one that is skipped from
    LET startPos == IF cl < 0 THEN 0 ELSE cl \div 2
        endPos == IF cl < 0 THEN -1 ELSE (3 * cl) \div 2
        q == AtMost(from + startPos, Len(b))
        end == EndOfSequence(b, q, 217, NonNegative(endPos - startPos))
    IN CASE end.found = "yes" -> Length(-1 + startPos + end.read, q + end.read)
         [] end.found = "no" -> Length(-1, q + end.read)
         [] OTHER -> EndOfFile

\* getEndOfSeqeunceSimplified from the end of the header: around the length of the last
\* frame. The headerLen it uses is the field, which stays -1: it skips one byte less and
\* takes one off the result. Java's division truncates towards 0.
Simplified(b, from, cl) ==
    LET startPos == IF cl < 0 THEN 0 ELSE cl \div 2
        endPos == IF cl < 0 THEN -1 ELSE (3 * cl) \div 2
        q == AtMost(from + NonNegative(-1 + startPos), Len(b))
        end == EndOfSequence(b, q, 217, NonNegative(endPos - startPos))
    IN CASE end.found = "yes" -> Length(-1 + startPos + end.read, q + end.read)
         [] end.found = "no" -> Length(-1, q + end.read)
         [] OTHER -> EndOfFile

\* Without a length: around the last one, else from the mark (the header included).
FindLength(b, mark, headerLen, cl) ==
    LET near == Simplified(b, mark + headerLen, cl)
        whole == EndOfSequence(b, mark, 217, FrameMax)
    IN IF near.kind = "eof" \/ near.length >= 0 THEN near
       ELSE IF near.far - mark > FrameMax THEN MarkLost(near.far)
       ELSE CASE whole.found = "yes" -> Length(whole.read, mark + whole.read)
              [] whole.found = "no" -> Length(-1, mark + whole.read)
              [] OTHER -> EndOfFile

FaultFrameLength(headerLen) ==   \* seeded bug: the mark must outlast the frame as well
    LET declared == ContentLength(SubSeq(bytes, pos + 1, pos + headerLen))
    IN IF declared # None THEN Length(declared, pos + headerLen + declared)
       ELSE FindLength(bytes, pos, headerLen, mContentLength)

FrameLength(headerLen) ==
    LET declared == ContentLength(SubSeq(bytes, pos + 1, pos + headerLen))
    IN IF declared # None THEN Length(declared, pos + headerLen)
       ELSE FindLength(bytes, pos, headerLen, mContentLength)

\* What the loop of run() does with each outcome: -1 ends it; an IOException is
\* logged and forgotten, unless it has no message (EOFException), which Log.d does not
\* take; a negative length throws out of the thread.
Ended(at) == status' = "ended" /\ pos' = at /\ UNCHANGED got
Crashed == status' = "crashed" /\ UNCHANGED <<pos, got>>
FaultRetry(at) ==   \* seeded bug: the stream goes back to where the mark was
    UNCHANGED <<pos, got, status>>
Retry(at) == pos' = at /\ UNCHANGED <<got, status>>

ReadsFully(n) == pos + n <= Len(bytes)

\* A frame is given to pixeltobmp: one without its end may end the thread or the process.
Frame(from, to) ==
    /\ pos' = to
    /\ got' = Append(got, [from |-> from, to |-> to])
    /\ \/ UNCHANGED status
       \/ /\ ~\E i \in (from + 1)..(to - 1) : bytes[i] = 255 /\ bytes[i + 1] = 217
          /\ status' \in {"ended", "crashed"}

\* readMjpegFrame(bmp) and what run() does with its result. reset() fails when more than
\* FrameMax bytes were read since mark().
ReadMjpegFrame ==
    /\ status = "reading"
    /\ \E start \in {EndOfSequence(bytes, pos, 216, FrameMax)} :
        \/ start.found # "yes" /\ Ended(pos) /\ UNCHANGED mContentLength
        \/ /\ start.found = "yes"
           /\ \E headerLen \in {start.read - 2} : \E end \in {FrameLength(headerLen)} :
                \/ end.kind = "eof" /\ Crashed /\ UNCHANGED mContentLength
                \/ end.kind = "io" /\ Retry(end.far) /\ UNCHANGED mContentLength
                \/ /\ end.kind = "length"
                   /\ mContentLength' = end.length
                   /\ IF end.far - pos > FrameMax THEN Retry(end.far)
                      ELSE IF end.length < 0 \/ ~ReadsFully(headerLen + end.length) THEN Crashed
                      ELSE Frame(pos + headerLen, pos + headerLen + end.length)
    /\ UNCHANGED <<parts, bytes>>

ReaderSpec == ReaderInit /\ [][ReadMjpegFrame]_readerVars

----------------------------------------------------------------------------
(* Properties *)

\* A part as a camera sends it: a header without a marker, a frame from its SOI to its EOI.
\* The SOI is within the mark's limit.
Proper(p) ==
    LET last == Len(p.frame)
    IN /\ \A i \in DOMAIN p.header : p.header[i] # 255
       /\ last >= 4 /\ p.frame[1] = 255 /\ p.frame[2] = 216
       /\ p.frame[last - 1] = 255 /\ p.frame[last] = 217
       /\ Len(PartHeader(p)) + 2 <= FrameMax

\* With the right length in every header the reader returns the frames of the stream,
\* each once, in order and exactly, however long they are and whatever they hold. It ends
\* after the last of them, or with the SOI of one that did not arrive; it ends the process
\* only with a frame that did not arrive as a whole.
Declared == \A k \in DOMAIN parts : Proper(parts[k]) /\ parts[k].error = 0
DeclaredFramesExact ==
    Declared =>
        /\ \A i \in DOMAIN got :
              i \in DOMAIN parts /\ got[i] = [from |-> FrameStart(i), to |-> FrameEnd(i)]
        /\ status = "ended" =>
              Len(got) = Len(parts) \/ Len(bytes) < FrameStart(Len(got) + 1) + 2
        /\ status = "crashed" => Len(got) < Len(parts) /\ Len(bytes) < FrameEnd(Len(got) + 1)

\* Without lengths the ends of the frames are found by their markers, around the length
\* of the frame before. That works when the headers are equally long, no frame holds an
\* end of its own or hides its end behind a fill byte, the parts fit into the mark's
\* limit and the lengths of the frames, a header more or less, are within half of each
\* other.
Regular ==
    /\ \A k \in DOMAIN parts :
        /\ Proper(parts[k]) /\ parts[k].error = None
        /\ Len(parts[k].header) = Len(parts[1].header)
        /\ ~\E i \in 1..(Len(parts[k].frame) - 2) :
              parts[k].frame[i] = 255 /\ parts[k].frame[i + 1] \in {255, 217}
        /\ Len(PartBytes(parts[k])) <= FrameMax
    /\ \A k, l \in DOMAIN parts :
        2 * Len(PartBytes(parts[k])) <= 3 * Len(parts[l].frame)

\* Then every frame is returned whole, in order, and with no more than the next header,
\* except that the end of the stream may cost the last one that arrived.
UndeclaredFramesWhole ==
    Regular =>
        /\ \A i \in DOMAIN got :
              /\ i \in DOMAIN parts /\ got[i].from = FrameStart(i)
              /\ got[i].to \in {FrameEnd(i), FrameEnd(i) + Len(parts[i].header)}
        /\ status # "reading" =>
              Len(got) >= Len(parts) - 1 \/ Len(bytes) < FrameEnd(Len(got) + 2)

\* readMjpegFrame finds the frames of a stream by their lengths, or by their markers.
FramesFound == DeclaredFramesExact /\ UndeclaredFramesWhole

\* Every stream that ends is read to its end, or ends the process: the loop of the
\* render thread never spins on what it cannot read.
ReaderEnds == <>(status # "reading")
=============================================================================
