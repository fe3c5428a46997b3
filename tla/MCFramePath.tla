----------------------------- MODULE MCFramePath -----------------------------
EXTENDS FramePath

\* A frame is SOI, content and EOI; one has a fill byte before its EOI, one holds an EOI
\* (a thumbnail's), one is longer than the mark's limit.
FrameOf(content) == <<255, 216>> \o content \o <<255, 217>>
Zeros(n) == [i \in 1..n |-> 0]
MCHeaders == {Zeros(1), Zeros(3)}
MCFrames == {FrameOf(c) : c \in {Zeros(4), Zeros(5), <<0, 0, 255>>, <<255, 217, 0>>, Zeros(11)}}
Parts(errors) == [header : MCHeaders, frame : MCFrames, error : errors]

\* Up to three parts without lengths or with right ones, two of any kind.
UpTo(n, S) == UNION {[1..m -> S] : m \in 1..n}
MCStreams == UpTo(3, Parts({None})) \cup UpTo(3, Parts({0})) \cup UpTo(2, Parts({None, 0, -2, 3}))

Data(f) == [i \in 1..(f.height + RowLines - 1) \div RowLines |-> "row"]
Image(components, height) == [data |-> <<>>, components |-> components, height |-> height]
Header == <<"SOI", "DQT", "SOF">>

\* Frames as a camera sends them, with own tables, with several scans, and wrong ones.
Kinds(f) == {
    Header \o <<"SOS">> \o Data(f) \o <<"EOI">>,
    <<"SOI", "misc", "DQT", "DHT", "SOF", "SOS">> \o Data(f) \o <<"EOI">>,
    Header \o <<"SOS Y">> \o Data(f) \o <<"DHT", "SOS C">> \o Data(f) \o <<"EOI">>,
    Header \o <<"SOS Y">> \o Data(f) \o <<"EOI">>,
    Header \o <<"SOS">> \o Tail(Data(f)) \o <<"misc", "EOI">>,
    Header \o <<"SOS">> \o Data(f) \o <<"row", "SOS", "EOI">>,
    Header \o <<"EOI">>,
    Header \o <<"SOI">>, Header \o <<"SOF">>,
    <<"SOI", "SOF", "SOS">>, <<"SOI", "DQT", "SOS">>, <<"SOI", "bad">>, <<"DQT">> }

Cut(s) == {SubSeq(s, 1, n) : n \in 0..Len(s)}
Heights == {BmpHeight - 1, BmpHeight, BmpHeight + 1}
Images == {Image({"Y", "C"}, h) : h \in Heights}
Grey == Image({"Y"}, BmpHeight)
MCFiles ==
    UNION {{[f EXCEPT !.data = d] : d \in UNION {Cut(s) : s \in Kinds(f)}} : f \in Images}
    \cup {[Grey EXCEPT !.data = Header \o <<"SOS">> \o Data(Grey) \o <<"EOI">>]}
=============================================================================
