----------------------------- MODULE JpegEntropy -----------------------------
(***************************************************************************)
(* The Huffman decoder of a sequential scan and the restart markers: what  *)
(* decode_mcu makes of the next MCU when data, or markers, were lost or    *)
(* repeated on the way, and where it goes on.                              *)
(*                                                                         *)
(* A stream is a sequence of tokens: the bits of an MCU by its number,     *)
(* markers, and junk (bits that decode as some MCU). The source may run    *)
(* dry before any token. In a stream of the one scan of an image the DC    *)
(* values are coded as differences: an MCU comes out right if the one      *)
(* before it in its interval did.                                          *)
(***************************************************************************)
EXTENDS Integers, Sequences, FiniteSetsExt, SequencesExt

VARIABLES
    data,              \* the tokens of the scan
    restart_interval,  \* MCUs between two restart markers, 0 if there are none
    entropy            \* the entropy decoder and the marker reader: at is the next token

entropyVars == <<data, restart_interval, entropy>>

None == <<"none", 0>>
Junk == <<"junk", 0>>
Gray == <<"gray", 0>>       \* an MCU that was left as it is, zeroes
Invalid == <<"invalid", 0>> \* a marker under SOF0
EOI == <<"EOI", 0>>
MCU(k) == <<"MCU", k>>
RST(n) == <<"RST", n>>

Markers == {Invalid, EOI} \cup {RST(n) : n \in 0..7}

\* start_pass_huff_decoder, and get_sos for the number of the first restart marker.
StartPass(interval) ==
    [at |-> 1, unread_marker |-> None, insufficient_data |-> FALSE,
     restarts_to_go |-> interval, next_restart_num |-> 0, last_dc_val |-> None]

----------------------------------------------------------------------------
(* Restart markers. An operator that decodes gives [ok, e]: whether it got by with the       *)
(* tokens up to limit, and the decoder afterwards.                                            *)

Ok(e) == [ok |-> TRUE, e |-> e]
Suspended(e) == [ok |-> FALSE, e |-> e]

\* next_marker skips the data before it.
NextMarker(e, limit) ==
    LET ahead == {i \in e.at..limit : data[i] \in Markers}
    IN IF ahead = {} THEN Suspended([e EXCEPT !.at = limit + 1])
       ELSE Ok([e EXCEPT !.unread_marker = data[Min(ahead)], !.at = Min(ahead) + 1])

FaultRecoveryAction(marker, desired) ==   \* seeded bug: no marker is taken for a prior one
    CASE marker = Invalid -> "scan"
      [] marker = EOI -> "leave"
      [] marker \in {RST((desired + 1) % 8), RST((desired + 2) % 8)} -> "leave"
      [] OTHER -> "discard"

\* jpeg_resync_to_restart: what is done about a marker that is not the desired one.
RecoveryAction(marker, desired) ==
    CASE marker = Invalid -> "scan"
      [] marker = EOI -> "leave"
      [] marker \in {RST((desired + 1) % 8), RST((desired + 2) % 8)} -> "leave"
      [] marker \in {RST((desired - 1) % 8), RST((desired - 2) % 8)} -> "scan"
      [] OTHER -> "discard"

\* It scans forward as long as the marker is thought to be a prior one.
ResyncToRestart(e, limit) ==
    LET Scanned(marker) == RecoveryAction(marker, e.next_restart_num) = "scan"
        ahead == {i \in e.at..limit : data[i] \in Markers}
        found == {i \in ahead : ~Scanned(data[i])}
        Decide(d) ==
            IF RecoveryAction(d.unread_marker, e.next_restart_num) = "discard"
            THEN Ok([d EXCEPT !.unread_marker = None]) ELSE Ok(d)
    IN IF ~Scanned(e.unread_marker) THEN Decide(e)
       ELSE IF found = {}
       THEN Suspended([e EXCEPT !.at = limit + 1,
                                !.unread_marker = IF ahead = {} THEN @ ELSE data[Max(ahead)]])
       ELSE Decide([e EXCEPT !.at = Min(found) + 1, !.unread_marker = data[Min(found)]])

\* read_restart_marker: with the desired marker, or what is made of another one.
Matched(r, e, limit) ==
    IF ~r.ok THEN r
    ELSE IF r.e.unread_marker = RST(e.next_restart_num)
    THEN Ok([r.e EXCEPT !.unread_marker = None])
    ELSE ResyncToRestart(r.e, limit)
Expecting(r) == IF ~r.ok THEN r ELSE Ok([r.e EXCEPT !.next_restart_num = (@ + 1) % 8])
ReadRestartMarker(e, limit) ==
    Expecting(Matched(IF e.unread_marker = None THEN NextMarker(e, limit) ELSE Ok(e), e, limit))

\* A marker that was left unread makes the next interval an empty one.
Restarted(r) ==
    IF ~r.ok THEN r
    ELSE Ok([r.e EXCEPT !.last_dc_val = None, !.restarts_to_go = restart_interval,
                        !.insufficient_data = @ /\ r.e.unread_marker # None])
ProcessRestart(e, limit) == Restarted(ReadRestartMarker(e, limit))

----------------------------------------------------------------------------
(* decode_mcu *)

\* The MCUs whose DC values are coded as they are.
StartsInterval(k) == k = 0 \/ (restart_interval > 0 /\ k % restart_interval = 0)

\* What comes out for the bits of an MCU.
Decoded(e, token) ==
    IF /\ token[1] = "MCU"
       /\ e.last_dc_val = IF StartsInterval(token[2]) THEN None ELSE MCU(token[2] - 1)
    THEN token ELSE Junk

\* The MCU is made of the bits in the stream, or of zeroes when a marker is met. It adds its
\* value; out of data the MCU is not touched.
DecodeBits(e, limit) ==
    IF e.insufficient_data THEN [ok |-> TRUE, e |-> e, value |-> Gray]
    ELSE IF e.unread_marker = None /\ e.at > limit THEN [ok |-> FALSE, e |-> e, value |-> None]
    ELSE IF e.unread_marker = None /\ data[e.at] \notin Markers
    THEN LET value == Decoded(e, data[e.at])
         IN [ok |-> TRUE, value |-> value,
             e |-> [e EXCEPT !.at = @ + 1, !.last_dc_val = value]]
    ELSE [ok |-> TRUE, value |-> Junk,
          e |-> [e EXCEPT !.insufficient_data = TRUE, !.last_dc_val = Junk,
                          !.unread_marker = IF @ = None THEN data[e.at] ELSE @,
                          !.at = IF e.unread_marker = None THEN @ + 1 ELSE @]]

\* An MCU that was decoded counts for the restart interval.
Counted(b) ==
    IF ~b.ok THEN b ELSE [b EXCEPT !.e.restarts_to_go = IF restart_interval > 0 THEN @ - 1 ELSE @]
AfterRestart(r, limit) ==
    IF ~r.ok THEN [ok |-> FALSE, e |-> r.e, value |-> None] ELSE Counted(DecodeBits(r.e, limit))
DecodeMCU(e, limit) ==
    AfterRestart(IF restart_interval > 0 /\ e.restarts_to_go = 0 THEN ProcessRestart(e, limit) ELSE Ok(e),
                 limit)

\* The next n MCUs, or as many of them as the tokens up to limit are enough for.
Appended(r, d) ==
    [ok |-> d.ok, e |-> d.e, values |-> IF d.ok THEN Append(r.values, d.value) ELSE r.values]
DecodeMCUs(n, limit) ==
    FoldLeft(LAMBDA r, k : IF ~r.ok THEN r ELSE Appended(r, DecodeMCU(r.e, limit)),
             [ok |-> TRUE, e |-> entropy, values |-> <<>>],
             [k \in 1..n |-> k])

----------------------------------------------------------------------------
(* Streams *)

\* The scan of an image as an encoder writes it.
Intact(mcus, interval) ==
    LET unit == interval + 1
    IN IF interval = 0 THEN [k \in 1..mcus |-> MCU(k - 1)] \o <<EOI>>
       ELSE [t \in 1..(mcus + (mcus - 1) \div interval) |->
                IF t % unit = 0 THEN RST((t \div unit - 1) % 8)
                ELSE MCU(t - 1 - (t - 1) \div unit)] \o <<EOI>>

\* A torn stream: after token a there is some junk, and then it goes on with the marker at b,
\* further on or back.
Spliced(stream, a, junk, b) == SubSeq(stream, 1, a) \o junk \o SubSeq(stream, b, Len(stream))

\* The interval that token i is in, or ends.
IntervalOf(stream, i) == Cardinality({k \in 1..(i - 1) : stream[k][1] = "RST"})

\* The MCUs that cannot be expected to come out right: those of the intervals from that of
\* the junk to the one whose end was found. If that is more than two markers away, the
\* decoder may be misled for the rest of the scan.
Damaged(stream, a, b, mcus, interval) ==
    LET from == IntervalOf(stream, a + 1)
        to == IntervalOf(stream, b)
        last == IF to - from \in -2..2 THEN Max({from, to}) ELSE mcus
    IN {k \in 0..(mcus - 1) : interval = 0 \/ k \div interval \in from..last}
=============================================================================
