------------------------------ MODULE FramePath ------------------------------
(***************************************************************************)
(* The two halves of a turn of the render thread's loop: readMjpegFrame    *)
(* finds a frame in the stream (FrameReader), pixeltobmp decodes it        *)
(* (JpegDecoder). All that passes between them is the bytes of a frame,    *)
(* and the decoder is to cope with any: a behaviour is of the one, for any *)
(* stream, or of the other, for any frames.                                *)
(***************************************************************************)
EXTENDS FrameReader, JpegDecoder

VARIABLE half      \* "read" or "decode"

vars == <<readerVars, decoderVars, half>>

NoStream == parts = <<>> /\ bytes = <<>> /\ pos = 0 /\ mContentLength = -1 /\ got = <<>>
            /\ status = "stopped"

Reads == half = "read" /\ ReadMjpegFrame /\ UNCHANGED <<decoderVars, half>>
Begins == half = "decode" /\ PixelToBmp /\ UNCHANGED <<readerVars, half>>
Decodes == half = "decode" /\ Decode /\ UNCHANGED <<readerVars, half>>
Frees == half = "decode" /\ FreeCameraMemory /\ UNCHANGED <<readerVars, half>>

Init ==
    \/ half = "read" /\ ReaderInit /\ DecoderInit
    \/ half = "decode" /\ NoStream /\ DecoderInit

Next == Reads \/ Begins \/ Decodes \/ Frees

Spec == Init /\ [][Next]_vars

\* The render thread is scheduled, and the bytes of a stream that ended are there; a call of
\* pixeltobmp runs on.
FairSpec == Spec /\ WF_vars(Reads) /\ WF_vars(Decodes)
=============================================================================
