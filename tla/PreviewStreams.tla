---------------------------- MODULE PreviewStreams ----------------------------
(***************************************************************************)
(* What the live preview promises about the DVR's streams, with the        *)
(* threads left out: a preview has at most one stream at any time, counted *)
(* from the request until it is closed or refused; a stream that was opened*)
(* is attached to the view it was requested for and closed once.           *)
(***************************************************************************)
CONSTANTS Instance, Task, None

VARIABLES
  stream,   \* [Task -> state of the stream the task opens]
  owner     \* [Task -> the preview that requested it, or None]

svars == <<stream, owner>>

Held == {"requested", "open", "attached"}

Holds(i, t) == owner[t] = i /\ stream[t] \in Held

Init ==
  /\ stream = [t \in Task |-> "none"]
  /\ owner  = [t \in Task |-> None]

Request(i, t) ==
  /\ stream[t] = "none" /\ \A u \in Task : ~Holds(i, u)
  /\ stream' = [stream EXCEPT ![t] = "requested"]
  /\ owner'  = [owner EXCEPT ![t] = i]

Advance(t, from, to) ==
  /\ stream[t] = from
  /\ stream' = [stream EXCEPT ![t] = to]
  /\ UNCHANGED owner

\* The camera was switched: the stream is given up and another one requested.
Replace(i, t, u) ==
  /\ owner[t] = i /\ stream[t] = "attached" /\ stream[u] = "none"
  /\ \A w \in Task \ {t} : ~Holds(i, w)
  /\ stream' = [stream EXCEPT ![t] = "closed", ![u] = "requested"]
  /\ owner'  = [owner EXCEPT ![u] = i]

Next ==
  \/ \E i \in Instance, t \in Task : Request(i, t)
  \/ \E i \in Instance : \E t, u \in Task : Replace(i, t, u)
  \/ \E t \in Task : \/ Advance(t, "requested", "open")
                     \/ Advance(t, "requested", "failed")
                     \/ Advance(t, "open", "attached")
                     \/ Advance(t, "attached", "closed")

Spec == Init /\ [][Next]_svars
===============================================================================
