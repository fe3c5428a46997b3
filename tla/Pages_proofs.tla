----------------------------- MODULE Pages_proofs -----------------------------
(***************************************************************************)
(* What the user sees on two kinds of pages: the safety of SettingsPage,   *)
(* for any values, any number of requests that wait, and any number of     *)
(* edits, confirms and faults; at the end, that of ScreenMenu.             *)
(***************************************************************************)
EXTENDS SettingsPage, ScreenMenu, TLAPS

Text == Value \cup {Null, NullText}

GetRequest == [fields : SUBSET Field]
SetRequest ==
    {r \in [fields : SUBSET Field, values : UNION {[S -> Text] : S \in SUBSET Field},
            touched : SUBSET Field, doubtful : SUBSET Field, edited : BOOLEAN] :
        r.touched \subseteq r.fields /\ DOMAIN r.values = r.fields}

Types ==
    /\ fragment \in DOMAIN RequestsOf
    /\ queue \in Seq(GetRequest \cup SetRequest)
    /\ touched \in SUBSET Field
    /\ dvr \in [Field -> Text \ {Null}]
    /\ current \in [Field -> Text] /\ prefs \in [Field -> Text]

Sends(i, f) == IsSet(queue[i]) /\ f \in queue[i].fields
Touches(i, f) == IsSet(queue[i]) /\ f \in queue[i].touched

\* The value is the one that is wanted, if one is.
Right(f, v) == wanted[f] # Null => v = wanted[f]

\* A setting that is sent along, unedited and not doubtful, is the one that the DVR has: no
\* request before it sends that setting too.
QueueInv ==
    \A i \in DOMAIN queue : \A f \in Field :
        Sends(i, f) /\ f \notin queue[i].touched \cup queue[i].doubtful =>
            /\ Right(f, queue[i].values[f])
            /\ \A k \in 1..(i - 1) : ~Sends(k, f)

\* A setting on the page that is not stale, nor picked at another time, is the one that the
\* DVR has, and no request that waits will change it.
PageInv ==
    resumed => \A f \in Field \ (stale \cup leftover \cup touched) : Key(f) = f =>
        /\ Right(f, current[f])
        /\ \A i \in DOMAIN queue : ~Sends(i, f)

\* A picker keeps the value that was last confirmed.
PickerInv ==
    \A f \in Picker \ (leftover \cup touched) :
        /\ Right(f, current[f]) \/ \E i \in DOMAIN queue : Touches(i, f)
        /\ \A i \in DOMAIN queue :
              Touches(i, f) /\ (\A k \in DOMAIN queue : k > i => ~Touches(k, f))
              => queue[i].values[f] = current[f]

\* Only edits, and onResume of the internet page, enable the confirm icon.
IconInv ==
    /\ enabled => touched # {} \/ fragment = "internet"
    /\ ~resumed => touched = {}

IInv == Types /\ QueueInv /\ PageInv /\ PickerInv /\ IconInv /\ PrefsAgree /\ DvrAsWanted
        /\ ConfirmAgrees

-----------------------------------------------------------------------------
\* The requests of a page have no setting in common.
LEMMA PageRequests ==
  ASSUME fragment \in DOMAIN RequestsOf
  PROVE  /\ Len(Requests) \in Nat /\ DOMAIN Requests = 1..Len(Requests)
         /\ \A i \in DOMAIN Requests : Requests[i] \in SUBSET Field
         /\ \A i, k \in DOMAIN Requests : \A f \in Field :
               f \in Requests[i] /\ f \in Requests[k] => i = k
         /\ \A f \in Field : Key(f) \in Field /\ \E i \in DOMAIN Requests : f \in Requests[i]
<1>1. CASE fragment = "timezone"
  BY <1>1 DEF Requests, RequestsOf, Field, Key
<1>2. CASE fragment = "recordings"
  BY <1>2 DEF Requests, RequestsOf, Field, Key
<1>3. CASE fragment = "internet"
  BY <1>3 DEF Requests, RequestsOf, Field, Key
<1>4. CASE fragment = "vpn"
  BY <1>4 DEF Requests, RequestsOf, Field, Key
<1>5. CASE fragment = "wifi"
  BY <1>5 DEF Requests, RequestsOf, Field, Key
<1>6. DOMAIN RequestsOf = {"timezone", "recordings", "internet", "vpn", "wifi"}
  BY DEF RequestsOf
<1> QED
  BY <1>1, <1>2, <1>3, <1>4, <1>5, <1>6

\* long is q with n more requests, new, at its end.
Appended(q, new, n, long) ==
    /\ DOMAIN long = 1..(Len(q) + n)
    /\ Len(q) \in Nat /\ DOMAIN q = 1..Len(q)
    /\ \A k \in 1..Len(q) : long[k] = q[k]
    /\ \A k \in (Len(q) + 1)..(Len(q) + n) : long[k] = new[k - Len(q)]

\* Requests are added at the end of the queue.
LEMMA Queued ==
  ASSUME NEW S, NEW q \in Seq(S), NEW n \in Nat, NEW new \in [1..n -> S]
  PROVE  q \o new \in Seq(S) /\ Appended(q, new, n, q \o new)
BY DEF Appended

\* The service takes the first request.
LEMMA Served ==
  ASSUME NEW S, NEW q \in Seq(S), q # <<>>
  PROVE  /\ Tail(q) \in Seq(S) /\ DOMAIN Tail(q) = 1..(Len(q) - 1)
         /\ Len(q) \in Nat /\ DOMAIN q = 1..Len(q) /\ 1 \in DOMAIN q
         /\ Head(q) = q[1] /\ q[1] \in S
         /\ \A k \in 1..(Len(q) - 1) : Tail(q)[k] = q[k + 1]
OBVIOUS

\* The queue holds requests of the page, so that what the service does to the first of them
\* and to the settings is defined.
LEMMA Requested ==
  ASSUME IInv, queue # <<>>, IsSet(Head(queue))
  PROVE  /\ Head(queue) = queue[1] /\ 1 \in DOMAIN queue
         /\ queue[1].fields \in SUBSET Field /\ queue[1].values \in [queue[1].fields -> Text]
         /\ queue[1].touched \subseteq queue[1].fields
         /\ Query(queue[1]) \subseteq queue[1].fields
<1>1. queue[1] \in GetRequest \cup SetRequest /\ Head(queue) = queue[1] /\ 1 \in DOMAIN queue
  BY Served DEF IInv, Types
<1>2. queue[1] \in SetRequest
  BY <1>1 DEF GetRequest, IsSet
<1>3. /\ queue[1].fields \in SUBSET Field /\ queue[1].values \in [queue[1].fields -> Text]
      /\ queue[1].touched \subseteq queue[1].fields
  <2>1. PICK S \in SUBSET Field : queue[1].values \in [S -> Text]
    BY <1>2 DEF SetRequest
  <2> QED
    BY <1>2, <2>1 DEF SetRequest
<1> QED
  BY <1>1, <1>3 DEF Query

-----------------------------------------------------------------------------
\* The invariant: the DVR has what the user confirmed (DvrAsWanted), because what waits in the
\* queue or is on the page is what the DVR has or what was edited; and the preferences and
\* the confirm icon are right (PrefsAgree, ConfirmAgrees).
THEOREM SettingsIInv == Spec => []IInv
<1>1. Init => IInv
  <2> SUFFICES ASSUME Init PROVE IInv
    OBVIOUS
  <2>1. fragment \in DOMAIN RequestsOf
    BY DEF Init
  <2>2. queue \in Seq(GetRequest) /\ \A i \in DOMAIN queue : queue[i] \in GetRequest
    BY <2>1, PageRequests DEF Init, Gets, GetRequest
  <2>3. \A i \in DOMAIN queue : ~IsSet(queue[i])
    BY <2>2 DEF GetRequest, IsSet
  <2>4. queue \in Seq(GetRequest \cup SetRequest)
    BY <2>2
  <2>5. Types
    BY <2>1, <2>4, SettingsAssumption DEF Types, Init, Nothing, Text
  <2>6. PrefsAgree /\ DvrAsWanted
    BY DEF PrefsAgree, DvrAsWanted, Init
  <2> QED
    BY <2>3, <2>5, <2>6
       DEF IInv, QueueInv, PageInv, PickerInv, IconInv, ConfirmAgrees, Sends, Init
<1>2. IInv /\ [Next]_vars => IInv'
  <2> SUFFICES ASSUME IInv, [Next]_vars PROVE IInv'
    OBVIOUS
  <2>0. fragment \in DOMAIN RequestsOf /\ fragment' = fragment
    BY DEF IInv, Types, Next, vars, Select, Confirm, Cancel, Leave, Start, Kill, Edit, Get, Set
  <2>a. Field' = Field /\ Picker' = Picker /\ Requests' = Requests
    BY <2>0 DEF Field, Picker, Requests
  <2>b. GetRequest' = GetRequest /\ SetRequest' = SetRequest
    BY <2>a DEF GetRequest, SetRequest
  <2>c. Picker \subseteq Field
    BY DEF Picker
  <2>1. CASE Select
    <3> USE <2>1 DEF Select
    <3>1. Types'
      <4>1. \A f \in Field : CurrentOnResume(f) \in Text
        BY <2>0, PageRequests, SettingsAssumption DEF CurrentOnResume, Stored, IInv, Types, Text
      <4> QED
        BY <2>0, <2>a, <2>b, <4>1 DEF IInv, Types
    <3>2. QueueInv' /\ PickerInv'
      BY <2>a, <2>c DEF IInv, QueueInv, PickerInv, Sends, Touches, Right, CurrentOnResume
    <3>3. PageInv'
      <4> SUFFICES ASSUME NEW f \in Field, f \notin stale' \cup leftover \cup touched, Key(f) = f
                   PROVE  Right(f, current[f])' /\ \A i \in DOMAIN queue : ~Sends(i, f)'
        BY <2>a DEF PageInv
      <4>1. \A i \in DOMAIN queue : ~Sends(i, f) /\ f \notin queue[i].fields
        BY DEF Sends
      <4>2. CASE f \in Picker
        <5>1. \A i \in DOMAIN queue : ~Touches(i, f)
          <6> SUFFICES ASSUME NEW i \in DOMAIN queue, Touches(i, f) PROVE FALSE
            OBVIOUS
          <6>1. queue[i] \in SetRequest
            BY DEF IInv, Types, Touches, IsSet, GetRequest
          <6> QED
            BY <4>1, <6>1 DEF Touches, SetRequest
        <5>2. Right(f, current[f])
          BY <4>2, <5>1 DEF IInv, PickerInv
        <5> QED
          BY <4>1, <4>2, <5>2 DEF Right, CurrentOnResume, Sends
      <4>3. CASE f \notin Picker
        <5>1. current'[f] = dvr[f]
          BY <4>3 DEF CurrentOnResume, IInv, PrefsAgree
        <5> QED
          BY <4>1, <5>1 DEF Right, Sends, IInv, DvrAsWanted
      <4> QED
        BY <4>2, <4>3
    <3>4. IconInv' /\ ConfirmAgrees'
      BY <2>0, <2>a DEF IInv, IconInv, ConfirmAgrees, EnabledOnResume
    <3>5. PrefsAgree' /\ DvrAsWanted'
      BY <2>a DEF IInv, PrefsAgree, DvrAsWanted, Stored
    <3> QED
      BY <3>1, <3>2, <3>3, <3>4, <3>5 DEF IInv
  <2>2. CASE Confirm
    <3> USE <2>2 DEF Confirm, Main
    <3> DEFINE n == Len(Requests)
               New == [i \in 1..n |->
                            [fields |-> Requests[i],
                             values |-> [f \in Requests[i] |-> current[f]],
                             touched |-> touched \cap Requests[i],
                             doubtful |-> Doubtful \cap Requests[i],
                             edited |-> touched # {}]]
               m == Len(queue)
    <3>a. n \in Nat /\ DOMAIN Requests = 1..n /\ queue' = queue \o New
      BY <2>0, PageRequests
    <3>b. New \in [1..n -> SetRequest]
      <4> SUFFICES ASSUME NEW i \in 1..n PROVE New[i] \in SetRequest
        OBVIOUS
      <4>1. Requests[i] \in SUBSET Field
        BY <2>0, <3>a, PageRequests
      <4>2. [f \in Requests[i] |-> current[f]] \in [Requests[i] -> Text]
        BY <4>1 DEF IInv, Types
      <4>3. touched \subseteq Field /\ Doubtful \cap Requests[i] \subseteq Field
        BY <4>1 DEF IInv, Types
      <4> QED
        BY <4>1, <4>2, <4>3 DEF SetRequest
    <3>c. /\ queue' \in Seq(GetRequest \cup SetRequest) /\ DOMAIN queue' = 1..(m + n)
          /\ m \in Nat /\ DOMAIN queue = 1..m
          /\ \A k \in 1..m : queue'[k] = queue[k]
          /\ \A k \in (m + 1)..(m + n) : queue'[k] = New[k - m]
      <4>1. queue \in Seq(GetRequest \cup SetRequest) /\ New \in [1..n -> GetRequest \cup SetRequest]
        BY <3>b DEF IInv, Types
      <4> HIDE DEF New, n
      <4>2. queue \o New \in Seq(GetRequest \cup SetRequest)
            /\ Appended(queue, New, n, queue \o New)
        BY <3>a, <4>1, Queued
      <4> QED
        BY <3>a, <4>2 DEF Appended
    <3>d. \A k \in (m + 1)..(m + n) :
              /\ k - m \in 1..n /\ IsSet(queue'[k]) /\ queue'[k].fields = Requests[k - m]
              /\ queue'[k].touched = touched \cap Requests[k - m]
              /\ queue'[k].doubtful = Doubtful \cap Requests[k - m]
              /\ queue'[k].edited = (touched # {})
              /\ \A f \in Requests[k - m] : queue'[k].values[f] = current[f]
      BY <3>a, <3>c DEF IsSet
    <3>e. /\ resumed /\ ~resumed' /\ enabled /\ ~enabled' /\ touched' = {}
          /\ current' = [f \in Field |-> IF f \in Picker THEN current[f] ELSE Null]
          /\ leftover' = leftover \ touched /\ wanted' = wanted /\ dvr' = dvr
          /\ prefs' = prefs /\ unsure' = unsure
      OBVIOUS
    <3> HIDE <2>2 DEF New, n, m, Confirm, Main
    <3>1. Types'
      BY <2>0, <2>a, <2>b, <2>c, <3>c, <3>e, SettingsAssumption DEF IInv, Types, Text
    <3>2. QueueInv'
      <4> SUFFICES ASSUME NEW i \in 1..(m + n), NEW f \in Field, Sends(i, f)',
                          f \notin queue'[i].touched \cup queue'[i].doubtful
                   PROVE  Right(f, queue[i].values[f])' /\ \A k \in 1..(i - 1) : ~Sends(k, f)'
        BY <2>a, <3>c DEF QueueInv
      <4>1. CASE i \in 1..m
        <5>1. /\ queue'[i] = queue[i] /\ i \in DOMAIN queue
              /\ \A k \in 1..(i - 1) : k \in 1..m /\ queue'[k] = queue[k]
          BY <3>c, <4>1
        <5> QED
          BY <3>c, <3>e, <5>1 DEF IInv, QueueInv, Sends, Right
      <4>2. CASE i \notin 1..m
        <5>1. i \in (m + 1)..(m + n) /\ f \in Requests[i - m] /\ i - m \in 1..n
          BY <3>a, <3>c, <3>d, <4>2 DEF Sends
        <5>2. f \notin touched \cup Doubtful
          BY <3>d, <5>1
        <5>3. Right(f, current[f]) /\ \A k \in 1..m : ~Sends(k, f)
          BY <3>c, <3>e, <5>2 DEF Doubtful, IInv, PageInv
        <5>4. \A k \in 1..m : ~Sends(k, f)'
          BY <3>c, <5>3 DEF Sends
        <5>5. ASSUME NEW k \in (m + 1)..(m + n), k < i, Sends(k, f)' PROVE FALSE
          <6>1. f \in Requests[k - m] /\ k - m \in 1..n
            BY <3>d, <5>5 DEF Sends
          <6>2. k - m = i - m
            BY <2>0, <3>a, <5>1, <6>1, PageRequests
          <6> QED
            BY <3>c, <5>1, <5>5, <6>2
        <5>6. queue'[i].values[f] = current[f]
          BY <3>d, <5>1
        <5>7. \A k \in 1..(i - 1) : k \in 1..m \/ (k \in (m + 1)..(m + n) /\ k < i)
          BY <3>a, <3>c, <5>1
        <5> QED
          BY <3>e, <5>3, <5>4, <5>5, <5>6, <5>7 DEF Right
      <4> QED
        BY <4>1, <4>2
    <3>3. PageInv' /\ IconInv'
      BY <3>e DEF PageInv, IconInv
    <3>4. PickerInv'
      <4> SUFFICES ASSUME NEW f \in Picker, f \notin leftover'
                   PROVE  /\ Right(f, current[f])' \/ \E i \in DOMAIN queue' : Touches(i, f)'
                          /\ \A i \in DOMAIN queue' :
                                /\ Touches(i, f)'
                                /\ \A k \in DOMAIN queue' : k > i => ~Touches(k, f)'
                                => queue'[i].values[f] = current'[f]
        BY <2>a DEF PickerInv
      <4>1. f \in Field /\ current'[f] = current[f]
        BY <2>c, <3>e
      <4>2. PICK j \in 1..n : f \in Requests[j]
        BY <2>0, <3>a, <4>1, PageRequests
      <4>3. PICK l \in (m + 1)..(m + n) : l - m = j /\ l \in DOMAIN queue'
        <5>1. j + m \in (m + 1)..(m + n) /\ (j + m) - m = j /\ j + m \in DOMAIN queue'
          BY <3>a, <3>c
        <5> QED
          BY <5>1
      <4>4. \A i \in DOMAIN queue' : i \in 1..m \/ i \in (m + 1)..(m + n)
        BY <3>a, <3>c
      <4>5. CASE f \in touched
        <5>1. Touches(l, f)'
          BY <3>d, <4>2, <4>3, <4>5 DEF Touches
        <5>2. ASSUME NEW i \in (m + 1)..(m + n), Touches(i, f)'
              PROVE  queue'[i].values[f] = current[f]
          BY <3>d, <5>2 DEF Touches
        <5>3. \A i \in 1..m : l > i
          BY <3>c
        <5>4. ASSUME NEW i \in DOMAIN queue', Touches(i, f)',
                     \A k \in DOMAIN queue' : k > i => ~Touches(k, f)'
              PROVE  queue'[i].values[f] = current'[f]
          <6>1. i \notin 1..m
            BY <4>3, <5>1, <5>3, <5>4
          <6> QED
            BY <4>1, <4>4, <5>2, <5>4, <6>1
        <5> QED
          BY <4>3, <5>1, <5>4
      <4>6. CASE f \notin touched
        <5>1. \A i \in (m + 1)..(m + n) : ~Touches(i, f)'
          BY <3>d, <4>6 DEF Touches
        <5>2. \A i \in 1..m : Touches(i, f)' <=> Touches(i, f)
          BY <3>c DEF Touches
        <5>3. f \in Picker \ (leftover \cup touched)
          BY <3>e, <4>6
        <5>4. Right(f, current[f])' <=> Right(f, current[f])
          BY <3>e, <4>1 DEF Right
        <5>5. \A i \in 1..m : i \in DOMAIN queue' /\ i \in DOMAIN queue /\ queue'[i] = queue[i]
          BY <3>a, <3>c
        <5>6. \A i \in DOMAIN queue : i \in 1..m
          BY <3>c
        <5>7. Right(f, current[f]) \/ \E i \in DOMAIN queue : Touches(i, f)
          BY <5>3 DEF IInv, PickerInv
        <5>8. Right(f, current[f])' \/ \E i \in DOMAIN queue' : Touches(i, f)'
          BY <5>2, <5>4, <5>5, <5>6, <5>7
        <5>9. ASSUME NEW i \in DOMAIN queue', Touches(i, f)',
                     \A k \in DOMAIN queue' : k > i => ~Touches(k, f)'
              PROVE  queue'[i].values[f] = current'[f]
          <6>1. i \in 1..m
            BY <4>4, <5>1, <5>9
          <6>2. Touches(i, f) /\ \A k \in DOMAIN queue : k > i => ~Touches(k, f)
            BY <5>2, <5>5, <5>6, <5>9, <6>1
          <6>3. queue[i].values[f] = current[f]
            BY <5>3, <5>5, <6>1, <6>2 DEF IInv, PickerInv
          <6> QED
            BY <4>1, <5>5, <6>1, <6>3
        <5> QED
          BY <5>8, <5>9
      <4> QED
        BY <4>5, <4>6
    <3>5. ConfirmAgrees'
      <4> SUFFICES ASSUME NEW i \in 1..(m + n), IsSet(queue'[i])
                   PROVE  queue'[i].edited \/ fragment = "internet"
        BY <2>0, <3>c, <3>e DEF ConfirmAgrees
      <4>1. CASE i \in 1..m
        BY <3>c, <4>1 DEF IInv, ConfirmAgrees
      <4>2. CASE i \notin 1..m
        <5>1. i \in (m + 1)..(m + n)
          BY <3>a, <3>c, <4>2
        <5> QED
          BY <3>d, <3>e, <5>1 DEF IInv, IconInv
      <4> QED
        BY <4>1, <4>2
    <3>6. PrefsAgree' /\ DvrAsWanted'
      BY <2>a, <3>e DEF IInv, PrefsAgree, DvrAsWanted, Stored
    <3> QED
      BY <3>1, <3>2, <3>3, <3>4, <3>5, <3>6 DEF IInv
  <2>3. CASE Cancel
    <3> USE <2>3 DEF Cancel, Main
    <3>1. Types'
      BY <2>0, <2>a, <2>b, <2>c, SettingsAssumption DEF IInv, Types, Text
    <3>2. QueueInv' /\ PageInv' /\ PickerInv'
      BY <2>a, <2>c DEF IInv, QueueInv, PageInv, PickerInv, Sends, Touches, Right
    <3> QED
      BY <2>0, <2>a, <3>1, <3>2
         DEF IInv, IconInv, PrefsAgree, DvrAsWanted, ConfirmAgrees, Stored
  <2>4. CASE Leave \/ Start \/ Kill
    <3> USE DEF Gone
    <3>a. ~resumed' /\ ~enabled' /\ touched' = {} /\ leftover' = Picker
      BY <2>4 DEF Leave, Start, Kill
    <3>b. current' = Nothing /\ dvr' = dvr /\ prefs' = prefs /\ unsure' = unsure
      BY <2>4 DEF Leave, Start, Kill
    <3>c. /\ queue' \in Seq(GetRequest \cup SetRequest)
          /\ \A i \in DOMAIN queue' :
                IsSet(queue'[i]) => i \in DOMAIN queue /\ queue'[i] = queue[i]
          /\ \A i \in DOMAIN queue' : IsSet(queue'[i]) => \A k \in 1..(i - 1) :
                k \in DOMAIN queue /\ queue'[k] = queue[k]
          /\ (\E i \in DOMAIN queue' : IsSet(queue'[i])) => wanted' = wanted
      <4>1. CASE Leave
        BY <4>1 DEF Leave, IInv, Types
      <4>2. CASE Start
        <5>1. Gets \in [1..Len(Requests) -> GetRequest] /\ Len(Requests) \in Nat
          BY <2>0, PageRequests DEF Gets, GetRequest
        <5>2. queue \in Seq(GetRequest \cup SetRequest)
              /\ Gets \in [1..Len(Requests) -> GetRequest \cup SetRequest]
          BY <5>1 DEF IInv, Types
        <5>3. \A i \in 1..Len(Requests) : ~IsSet(Gets[i])
          BY <5>1 DEF GetRequest, IsSet
        <5>q. queue \o Gets \in Seq(GetRequest \cup SetRequest)
              /\ Appended(queue, Gets, Len(Requests), queue \o Gets)
          BY <5>1, <5>2, Queued
        <5>4. /\ queue \o Gets \in Seq(GetRequest \cup SetRequest)
              /\ DOMAIN (queue \o Gets) = 1..(Len(queue) + Len(Requests))
              /\ Len(queue) \in Nat /\ DOMAIN queue = 1..Len(queue)
              /\ \A k \in 1..Len(queue) : (queue \o Gets)[k] = queue[k]
              /\ \A k \in (Len(queue) + 1)..(Len(queue) + Len(Requests)) :
                    (queue \o Gets)[k] = Gets[k - Len(queue)]
          BY <5>q DEF Appended
        <5>5. \A i \in DOMAIN (queue \o Gets) : IsSet((queue \o Gets)[i]) => i \in 1..Len(queue)
          <6> SUFFICES ASSUME NEW i \in 1..(Len(queue) + Len(Requests)), i \notin 1..Len(queue)
                       PROVE  ~IsSet((queue \o Gets)[i])
            BY <5>4
          <6>1. i \in (Len(queue) + 1)..(Len(queue) + Len(Requests))
                /\ i - Len(queue) \in 1..Len(Requests)
            BY <5>1, <5>4
          <6> QED
            BY <5>3, <5>4, <6>1
        <5>6. \A i \in 1..Len(queue) : \A k \in 1..(i - 1) : k \in 1..Len(queue)
          BY <5>4
        <5> QED
          BY <4>2, <5>4, <5>5, <5>6 DEF Start
      <4>3. CASE Kill
        BY <4>3 DEF Kill
      <4> QED
        BY <2>4, <4>1, <4>2, <4>3
    <3>1. Types'
      BY <2>0, <2>a, <2>b, <3>a, <3>b, <3>c, SettingsAssumption DEF IInv, Types, Text, Nothing
    <3>2. QueueInv'
      BY <2>a, <3>c DEF IInv, QueueInv, Sends, Right
    <3>3. PageInv' /\ PickerInv' /\ IconInv'
      BY <2>a, <3>a DEF PageInv, PickerInv, IconInv
    <3>4. ConfirmAgrees'
      BY <2>0, <3>a, <3>c DEF IInv, ConfirmAgrees
    <3>5. PrefsAgree' /\ DvrAsWanted'
      <4>1. \A f \in Field : wanted'[f] \in {wanted[f], Null}
        BY <2>4 DEF Leave, Start, Kill
      <4> QED
        BY <2>a, <3>b, <4>1 DEF IInv, PrefsAgree, DvrAsWanted, Stored
    <3> QED
      BY <3>1, <3>2, <3>3, <3>4, <3>5 DEF IInv
  <2>5. CASE \E f \in Field, v \in Value : Edit(f, v)
    <3> PICK f \in Field, v \in Value : Edit(f, v)
      BY <2>5
    <3> USE DEF Edit
    <3>1. Types'
      BY <2>0, <2>a, <2>b DEF IInv, Types, Text
    <3>2. \A g \in Field : g \notin touched' => current'[g] = current[g] /\ g \notin touched
      BY DEF IInv, Types
    <3>3. QueueInv' /\ PageInv'
      BY <2>a, <3>2 DEF IInv, QueueInv, PageInv, Sends, Right
    <3>4. PickerInv'
      BY <2>a, <2>c, <3>2 DEF IInv, PickerInv, Touches, Right
    <3>5. IconInv' /\ ConfirmAgrees'
      BY <2>0, <2>a DEF IInv, Types, IconInv, ConfirmAgrees, Changed
    <3>6. PrefsAgree' /\ DvrAsWanted'
      BY <2>a DEF IInv, PrefsAgree, DvrAsWanted, Stored
    <3> QED
      BY <3>1, <3>3, <3>4, <3>5, <3>6 DEF IInv
  <2>6. ASSUME (\E ok \in BOOLEAN : Get(ok)) \/ (\E outcome \in Outcome : Set(outcome))
        PROVE  IInv'
    <3>a. /\ queue' \in Seq(GetRequest \cup SetRequest) /\ DOMAIN queue' = 1..(Len(queue) - 1)
          /\ Len(queue) \in Nat /\ DOMAIN queue = 1..Len(queue) /\ 1 \in DOMAIN queue
          /\ \A k \in 1..(Len(queue) - 1) : queue'[k] = queue[k + 1]
      <4>1. queue # <<>> /\ queue' = Tail(queue) /\ queue \in Seq(GetRequest \cup SetRequest)
        BY <2>6 DEF Get, Set, IInv, Types
      <4> QED
        BY <4>1, Served
    <3>b. \A k \in DOMAIN queue' :
              k \in Int /\ k + 1 \in DOMAIN queue /\ queue'[k] = queue[k + 1]
      BY <3>a
    <3>d. /\ resumed' = resumed /\ enabled' = enabled /\ loaded' = loaded /\ current' = current
          /\ touched' = touched /\ stale' = stale /\ leftover' = leftover
      BY <2>6 DEF Get, Set, pageVars
    <3>e. ASSUME NEW f \in Field
          PROVE  /\ ~Sends(1, f) => wanted'[f] = wanted[f]
                 /\ Touches(1, f) => wanted'[f] \in {queue[1].values[f], Null}
                 /\ ~Touches(1, f) => wanted'[f] \in {wanted[f], Null}
      <4>1. CASE \E ok \in BOOLEAN : Get(ok)
        <5>1. ~IsSet(queue[1]) /\ wanted' = wanted
          BY <4>1, Served DEF Get, IInv, Types
        <5> QED
          BY <5>1 DEF Touches
      <4>2. ASSUME NEW outcome \in Outcome, Set(outcome)
            PROVE  <3>e!2
        <5>1. /\ IsSet(queue[1]) /\ wanted'[f] = Wanted(queue[1], f, outcome.applied)
              /\ queue[1].touched \subseteq queue[1].fields
              /\ Query(queue[1]) \subseteq queue[1].fields
          BY <4>2, Requested DEF Set
        <5> QED
          BY <5>1 DEF Wanted, Sends, Touches
      <4> QED
        BY <2>6, <4>1, <4>2
    <3>1. Types'
      <4>1. prefs' \in [Field -> Text] /\ dvr' \in [Field -> Text \ {Null}]
        <5>1. CASE \E ok \in BOOLEAN : Get(ok)
          BY <5>1 DEF Get, IInv, Types
        <5>2. ASSUME NEW outcome \in Outcome, Set(outcome) PROVE <4>1
          <6>1. /\ Head(queue) = queue[1] /\ Query(queue[1]) \subseteq queue[1].fields
                /\ \A f \in queue[1].fields : queue[1].values[f] \in Text
            BY <5>2, Requested DEF Set
          <6>2. \A v \in Text : Sent(v) \in Text \ {Null}
            BY SettingsAssumption DEF Sent, Text
          <6> QED
            BY <5>2, <6>1, <6>2 DEF Set, IInv, Types
        <5> QED
          BY <2>6, <5>1, <5>2
      <4> QED
        BY <2>0, <2>a, <2>b, <3>a, <3>d, <4>1 DEF IInv, Types, Text
    <3>2. QueueInv'
      <4> SUFFICES ASSUME NEW i \in DOMAIN queue', NEW f \in Field, Sends(i, f)',
                          f \notin queue'[i].touched \cup queue'[i].doubtful
                   PROVE  Right(f, queue[i].values[f])' /\ \A k \in 1..(i - 1) : ~Sends(k, f)'
        BY <2>a DEF QueueInv
      <4>1. /\ i + 1 \in DOMAIN queue /\ queue'[i] = queue[i + 1] /\ Sends(i + 1, f)
            /\ 1 \in 1..((i + 1) - 1)
        BY <3>a, <3>b DEF Sends
      <4>2. Right(f, queue[i + 1].values[f]) /\ \A k \in 1..((i + 1) - 1) : ~Sends(k, f)
        BY <4>1 DEF IInv, QueueInv
      <4>3. \A k \in 1..(i - 1) : k + 1 \in 1..((i + 1) - 1) /\ queue'[k] = queue[k + 1]
        BY <3>a
      <4>4. \A k \in 1..(i - 1) : ~Sends(k, f)'
        BY <4>2, <4>3 DEF Sends
      <4>5. wanted'[f] = wanted[f]
        BY <3>e, <4>1, <4>2
      <4> QED
        BY <4>1, <4>2, <4>4, <4>5 DEF Right
    <3>3. PageInv'
      <4> SUFFICES ASSUME resumed, NEW f \in Field, f \notin stale \cup leftover \cup touched,
                          Key(f) = f
                   PROVE  Right(f, current[f])' /\ \A i \in DOMAIN queue' : ~Sends(i, f)'
        BY <2>a, <3>d DEF PageInv
      <4>1. Right(f, current[f]) /\ \A i \in DOMAIN queue : ~Sends(i, f)
        BY DEF IInv, PageInv
      <4>2. wanted'[f] = wanted[f]
        BY <3>a, <3>e, <4>1
      <4> QED
        BY <3>b, <3>d, <4>1, <4>2 DEF Right, Sends
    <3>4. PickerInv'
      <4> SUFFICES ASSUME NEW f \in Picker, f \notin leftover \cup touched
                   PROVE  /\ Right(f, current[f])' \/ \E i \in DOMAIN queue' : Touches(i, f)'
                          /\ \A i \in DOMAIN queue' :
                                /\ Touches(i, f)'
                                /\ \A k \in DOMAIN queue' : k > i => ~Touches(k, f)'
                                => queue'[i].values[f] = current'[f]
        BY <2>a, <3>d DEF PickerInv
      <4>1. \A i \in DOMAIN queue' : Touches(i, f)' <=> Touches(i + 1, f)
        BY <3>b DEF Touches
      <4>2. ASSUME NEW i \in DOMAIN queue, Touches(i, f),
                   \A k \in DOMAIN queue : k > i => ~Touches(k, f)
            PROVE  queue[i].values[f] = current[f]
        BY <4>2 DEF IInv, PickerInv
      <4>3. ASSUME NEW i \in DOMAIN queue', Touches(i, f)',
                   \A k \in DOMAIN queue' : k > i => ~Touches(k, f)'
            PROVE  queue'[i].values[f] = current'[f]
        <5>1. ASSUME NEW k \in DOMAIN queue, k > i + 1 PROVE ~Touches(k, f)
          <6>1. k - 1 \in DOMAIN queue' /\ k - 1 > i /\ (k - 1) + 1 = k
            BY <3>a, <5>1
          <6> QED
            BY <4>1, <4>3, <6>1
        <5> QED
          BY <3>b, <3>d, <4>1, <4>2, <4>3, <5>1
      <4>4. ASSUME \A i \in DOMAIN queue' : ~Touches(i, f)' PROVE Right(f, current[f])'
        <5>1. ASSUME NEW k \in DOMAIN queue, k # 1 PROVE ~Touches(k, f)
          <6>1. k - 1 \in DOMAIN queue' /\ (k - 1) + 1 = k
            BY <3>a, <5>1
          <6> QED
            BY <4>1, <4>4, <6>1
        <5>2. CASE Touches(1, f)
          <6>1. queue[1].values[f] = current[f]
            BY <3>a, <4>2, <5>1, <5>2
          <6> QED
            BY <2>c, <3>d, <3>e, <5>2, <6>1 DEF Right
        <5>3. CASE ~Touches(1, f)
          <6>1. Right(f, current[f])
            BY <5>1, <5>3 DEF IInv, PickerInv
          <6> QED
            BY <2>c, <3>d, <3>e, <5>3, <6>1 DEF Right
        <5> QED
          BY <5>2, <5>3
      <4> QED
        BY <4>3, <4>4
    <3>5. IconInv' /\ ConfirmAgrees'
      BY <2>0, <2>a, <3>b, <3>d DEF IInv, IconInv, ConfirmAgrees
    <3>6. DvrAsWanted'
      <4>1. CASE \E ok \in BOOLEAN : Get(ok)
        BY <2>a, <4>1 DEF Get, IInv, DvrAsWanted
      <4>2. ASSUME NEW outcome \in Outcome, Set(outcome), NEW f \in Field
            PROVE  wanted'[f] \in {dvr'[f], Null}
        <5>1. /\ IsSet(queue[1]) /\ wanted'[f] = Wanted(queue[1], f, outcome.applied)
              /\ dvr'[f] = IF outcome.applied /\ f \in Query(queue[1])
                           THEN Sent(queue[1].values[f]) ELSE dvr[f]
              /\ Query(queue[1]) \subseteq queue[1].fields
          BY <4>2, Requested DEF Set
        <5>2. wanted[f] \in {dvr[f], Null}
          BY DEF IInv, DvrAsWanted
        <5>3. CASE outcome.applied /\ f \in Query(queue[1])
          <6>1. f \notin queue[1].touched \cup queue[1].doubtful => Right(f, queue[1].values[f])
            BY <3>a, <5>1, <5>3 DEF IInv, QueueInv, Sends
          <6> QED
            BY <5>1, <5>3, <6>1 DEF Wanted, Sent, Right
        <5>4. CASE ~(outcome.applied /\ f \in Query(queue[1]))
          BY <5>1, <5>2, <5>4 DEF Wanted
        <5> QED
          BY <5>3, <5>4
      <4> QED
        BY <2>6, <2>a, <4>1, <4>2 DEF DvrAsWanted
    <3>7. PrefsAgree'
      <4>1. CASE \E ok \in BOOLEAN : Get(ok)
        BY <2>a, <4>1 DEF Get, IInv, PrefsAgree, Stored, Types
      <4>2. ASSUME NEW outcome \in Outcome, Set(outcome), NEW f \in Field
            PROVE  (Stored(f) = dvr[f])' \/ f \in unsure'
        <5> DEFINE request == queue[1]
        <5>1. /\ unsure' = Unsure(request, outcome)
              /\ dvr'[f] = IF outcome.applied /\ f \in Query(request)
                           THEN Sent(request.values[f]) ELSE dvr[f]
              /\ prefs'[f] = IF Accepted(outcome.response) /\ f \in request.fields
                             THEN request.values[f] ELSE prefs[f]
              /\ Query(request) \subseteq request.fields
          BY <4>2, Requested DEF Set
        <5>2. Stored(f) = dvr[f] \/ f \in unsure
          BY DEF IInv, PrefsAgree
        <5> HIDE DEF request
        <5>3. CASE outcome.applied /\ outcome.response # "IOException"
          <6>1. Accepted(outcome.response)
            BY <2>0, <5>3 DEF Outcome, Accepted
          <6>2. unsure' = (unsure \ Query(request))
                         \cup {g \in request.fields : request.values[g] = Null}
                         \cup (request.fields \ Query(request))
            BY <5>1, <5>3 DEF Unsure
          <6> QED
            BY <5>1, <5>2, <5>3, <6>1, <6>2 DEF Stored, Sent
        <5>4. CASE outcome.applied /\ outcome.response = "IOException"
          <6>1. ~Accepted(outcome.response) /\ unsure' = unsure \cup Query(request)
            BY <5>1, <5>4 DEF Accepted, Unsure
          <6> QED
            BY <5>1, <5>2, <6>1 DEF Stored
        <5>5. CASE ~outcome.applied
          <6>1. outcome.response # "HTTP_OK"
            BY <5>5 DEF Outcome
          <6>2. unsure \subseteq unsure'
            BY <5>1, <5>5 DEF Unsure
          <6>3. Accepted(outcome.response) => request.fields \subseteq unsure'
            BY <5>1, <5>5, <6>1 DEF Unsure, Accepted
          <6> QED
            BY <5>1, <5>2, <5>5, <6>2, <6>3 DEF Stored
        <5> QED
          BY <5>3, <5>4, <5>5
      <4> QED
        BY <2>6, <2>a, <4>1, <4>2 DEF PrefsAgree
    <3> QED
      BY <3>1, <3>2, <3>3, <3>4, <3>5, <3>6, <3>7 DEF IInv
  <2>7. CASE UNCHANGED vars
    <3> USE <2>7 DEF vars, pageVars
    <3>1. Types' /\ QueueInv' /\ PageInv'
      BY <2>0, <2>a, <2>b DEF IInv, Types, QueueInv, PageInv, Sends, Right
    <3>2. PickerInv'
      BY <2>a DEF IInv, PickerInv, Touches, Right
    <3> QED
      BY <2>0, <2>a, <3>1, <3>2 DEF IInv, IconInv, PrefsAgree, DvrAsWanted, ConfirmAgrees, Stored
  <2> QED
    BY <2>1, <2>2, <2>3, <2>4, <2>5, <2>6, <2>7 DEF Next
<1> QED
  BY <1>1, <1>2, PTL DEF Spec

\* For any values and any number of edits, confirms and faults: what the user confirmed is
\* what the DVR has (DvrAsWanted).
THEOREM AsConfirmed == Spec => []DvrAsWanted
BY SettingsIInv, PTL DEF IInv

\* The preferences that the pages show are the DVR's settings, but for the exceptions that
\* the code itself makes (PrefsAgree).
THEOREM Preferences == Spec => []PrefsAgree
BY SettingsIInv, PTL DEF IInv

\* Nothing is confirmed that was not edited, except on the internet page, and an edit can
\* be confirmed (ConfirmAgrees).
THEOREM ConfirmIcon == Spec => []ConfirmAgrees
BY SettingsIInv, PTL DEF IInv

-----------------------------------------------------------------------------
(***************************************************************************)
(* The menu over the preview and the player. What ScreenMenu says of it    *)
(* when no animation runs holds for any number of posted callbacks.        *)
(***************************************************************************)

MenuTypes ==
    /\ page \in {"Preview", "VideoPlayEX"}
    /\ activity \in {"stopped", "paused", "resumed"}
    /\ mShowingMenu \in BOOLEAN /\ toolbar \in BOOLEAN
    /\ bottomBar \in BOOLEAN /\ controls \in BOOLEAN
    /\ animation \in {"none", "requested", "running"}

\* The buttons of the player go with the menu, also while an animation runs.
ButtonsAgree ==
    activity = "resumed" /\ page = "VideoPlayEX" =>
        /\ controls => mShowingMenu
        /\ mShowingMenu /\ ~controls => "resume" \in excuses

\* An animation has hidden the tool bar from its start on, unless the menu was shown again.
BarsAgree ==
    activity = "resumed" =>
        /\ animation = "none" => bottomBar = mShowingMenu
        /\ animation = "none" /\ "animation" \notin excuses => toolbar = mShowingMenu
        /\ animation = "running" /\ "animation" \notin excuses => ~toolbar

MenuIInv == MenuTypes /\ ButtonsAgree /\ BarsAgree

\* When no animation runs, a touch hides what is shown and shows what is hidden, but for the
\* two exceptions that MenuAgrees names (toggleMenu against the callbacks of the animations).
THEOREM MenuAtRest == MenuSpec => []MenuAgrees
<1> USE DEF MenuIInv, MenuTypes, ButtonsAgree, BarsAgree
<1>1. MenuInit => MenuIInv
  BY DEF MenuInit
<1>2. MenuIInv /\ [MenuNext]_screenVars => MenuIInv'
  <2> SUFFICES ASSUME MenuIInv, [MenuNext]_screenVars PROVE MenuIInv'
    OBVIOUS
  <2>1. CASE OnStart
    BY <2>1 DEF OnStart, menuVars
  <2>2. CASE OnResume
    BY <2>2 DEF OnResume
  <2>3. CASE OnPause
    BY <2>3 DEF OnPause, menuVars
  <2>4. CASE OnStop
    BY <2>4 DEF OnStop, menuVars
  <2>5. CASE ToggleHide
    BY <2>5 DEF ToggleHide
  <2>6. CASE ToggleShow
    BY <2>6 DEF ToggleShow
  <2>7. CASE Click
    BY <2>7 DEF Click, menuVars
  <2>8. CASE StartTracking
    BY <2>8 DEF StartTracking, menuVars
  <2>9. CASE StopTracking
    BY <2>9 DEF StopTracking, menuVars
  <2>10. CASE HideUIControl
    BY <2>10 DEF HideUIControl
  <2>11. CASE AnimationStart
    BY <2>11 DEF AnimationStart
  <2>12. CASE AnimationEnd
    BY <2>12 DEF AnimationEnd
  <2>13. CASE UNCHANGED screenVars
    BY <2>13 DEF screenVars, menuVars
  <2> QED
    BY <2>1, <2>2, <2>3, <2>4, <2>5, <2>6, <2>7, <2>8, <2>9, <2>10, <2>11, <2>12, <2>13
       DEF MenuNext
<1>3. MenuIInv => MenuAgrees
  BY DEF MenuAgrees
<1> QED
  BY <1>1, <1>2, <1>3, PTL DEF MenuSpec
=============================================================================
