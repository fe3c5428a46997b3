-------------------------- MODULE SystemMode_proofs --------------------------
(***************************************************************************)
(* Proofs about SystemMode, for a queue of any length.                     *)
(***************************************************************************)
EXTENDS SystemMode, TLAPS

\* The mode that the service found, or set without a refusal, is the DVR's: the
\* one handler thread is the only one that changes it.
ServiceInv ==
  /\ pc \in {"list", "store"} => mode = dvr
  /\ pc = "save" /\ doubt = "none" => mode = dvr

\* For a list of recordings that missed nothing, storage mode has the last word.
LastInv ==
  page = "Records" /\ resumed /\ missed = {} =>
    /\ \A k \in DOMAIN queue : queue[k] = "uvc" =>
         \E j \in DOMAIN queue : j > k /\ queue[j] = "msdc"
    /\ pc \in {"post", "save"} /\ mode = "uvc" =>
         \E j \in DOMAIN queue : queue[j] = "msdc"

IInv ==
  /\ TypeOK /\ ServiceInv /\ LastInv
  /\ PreviewModePending /\ RecordsModeExplained /\ ModeTrusted

-----------------------------------------------------------------------------
\* Every step of the pages, the service and the system keeps the types.
LEMMA TypeStep == TypeOK /\ [Next]_vars => TypeOK'
  <1> SUFFICES ASSUME TypeOK, [Next]_vars PROVE TypeOK'
    OBVIOUS
  <1> USE QueueAssumption DEF TypeOK, uiVars, serviceVars, Mode, Page
  <1>0. \A S : <<>> \in Seq(S) /\ Len(<<>>) = 0
    OBVIOUS
  <1>1. CASE OnResume
    BY <1>1 DEF OnResume, CheckSystemMode, StartService, Needs, PrefFor
  <1>2. CASE OnPause
    BY <1>0, <1>2 DEF OnPause
  <1>3. ASSUME NEW q \in Page, Leave(q) PROVE TypeOK'
    BY <1>0, <1>3 DEF Leave
  <1>4. CASE ReceiveSysMode
    <2>1. CASE page = "Preview"
      <3>1. bcast' \in Seq(Mode \cup {"sys", "unreachable"}) /\ CheckSystemMode("Preview")
        BY <1>4, <2>1 DEF ReceiveSysMode
      <3>2. UNCHANGED <<page, resumed, pc, mode, dvr, pref, doubt>> /\ resumed
        BY <1>4 DEF ReceiveSysMode
      <3>3. CASE PrefFor("Preview") = "uvc"
        BY <3>1, <3>2, <3>3 DEF CheckSystemMode, Needs
      <3>4. CASE PrefFor("Preview") # "uvc"
        <4>1. StartService("uvc") /\ missed' = {}
          BY <3>1, <3>4 DEF CheckSystemMode, Needs
        <4>2. queue' \in Seq(Mode \cup {"all"}) /\ Len(queue') <= MaxQueue
          BY <4>1 DEF StartService
        <4> QED
          BY <3>1, <3>2, <4>1, <4>2
      <3> QED
        BY <3>3, <3>4
    <2>2. CASE page = "Records"
      <3>1. bcast # <<>> /\ bcast' = Tail(bcast) /\ resumed
        BY <1>4, <2>2 DEF ReceiveSysMode
      <3>2. bcast' \in Seq(Mode \cup {"sys", "unreachable"})
        BY <3>1
      <3> QED
        BY <1>4, <2>2, <3>1, <3>2 DEF ReceiveSysMode
    <2> QED
      BY <1>4, <2>1, <2>2 DEF ReceiveSysMode
  <1>5. CASE ReceiveAllInfo
    BY <1>0, <1>5 DEF ReceiveAllInfo
  <1>6. CASE Take
    BY <1>6 DEF Take
  <1>7. CASE Post
    BY <1>7 DEF Post
  <1>8. CASE Save
    BY <1>8 DEF Save
  <1>9. CASE Notify
    BY <1>9 DEF Notify, Broadcast
  <1>10. CASE Probe
    <2>1. bcast' \in Seq(Mode \cup {"sys", "unreachable"}) /\ (~resumed => bcast' = <<>>)
      <3>1. PICK b \in Mode \cup {"unreachable"} : Broadcast(b, {"Main"})
        BY <1>10 DEF Probe
      <3> QED
        BY <3>1 DEF Broadcast
    <2> QED
      BY <1>10, <2>1 DEF Probe
  <1>11. CASE GetRecordingList
    BY <1>11 DEF GetRecordingList
  <1>12. CASE Store
    BY <1>12 DEF Store
  <1>13. CASE Kill
    <2>1. resumed' \in BOOLEAN
      BY <1>13, Zenon DEF Kill
    <2>2. queue' \in Seq(Mode \cup {"all"}) /\ Len(queue') = 0
      BY <1>13 DEF Kill
    <2>3. bcast' \in Seq(Mode \cup {"sys", "unreachable"})
      BY <1>13 DEF Kill
    <2>4. dvr' \in Mode
      BY <1>13 DEF Kill
    <2> QED
      BY <1>13, <2>1, <2>2, <2>3, <2>4 DEF Kill
  <1>14. CASE UNCHANGED vars
    BY <1>14 DEF vars
  <1> QED
    BY <1>1, <1>2, <1>3, <1>4, <1>5, <1>6, <1>7, <1>8, <1>9, <1>10, <1>11, <1>12, <1>13, <1>14
    DEF Next, UI, Service

\* Every step keeps the inductive invariant: Take moves the first intent into the
\* handler thread, so what is Coming stays the same but for "all".
LEMMA InvStep == IInv /\ TypeOK' /\ [Next]_vars => IInv'
  <1> SUFFICES ASSUME IInv, TypeOK', [Next]_vars PROVE IInv'
    OBVIOUS
  <1> USE DEF IInv, TypeOK, uiVars, serviceVars, Mode, Page,
              ServiceInv, LastInv, PreviewModePending, RecordsModeExplained, ModeTrusted,
              Coming, Setting, Needs, PrefFor
  <1>1. CASE OnResume
    <2>1. ServiceInv' /\ ModeTrusted'
      BY <1>1 DEF OnResume
    <2>2. UNCHANGED <<page, pc, mode, bcast, dvr, pref, doubt>> /\ resumed'
      BY <1>1 DEF OnResume
    <2>3. CASE page \notin {"Preview", "Records"}
      BY <2>1, <2>2, <2>3
    <2>4. CASE page \in {"Preview", "Records"} /\ PrefFor(page) = Needs(page)
      <3>1. queue' = queue /\ missed' = IF Coming \subseteq {Needs(page), "all"} THEN {} ELSE {"overtaken"}
        BY <1>1, <2>4 DEF OnResume, CheckSystemMode
      <3> QED
        BY <2>1, <2>2, <2>4, <3>1
    <2>5. CASE page \in {"Preview", "Records"} /\ PrefFor(page) # Needs(page)
      <3>1. queue' = Append(queue, Needs(page)) /\ missed' = {}
        BY <1>1, <2>5 DEF OnResume, CheckSystemMode, StartService
      <3>2. /\ Len(queue') = Len(queue) + 1 /\ queue'[Len(queue) + 1] = Needs(page)
            /\ \A k \in DOMAIN queue : queue'[k] = queue[k]
            /\ DOMAIN queue' = 1 .. (Len(queue) + 1) /\ DOMAIN queue = 1 .. Len(queue)
        BY <3>1
      <3>3. Needs(page) \in Coming'
        BY <3>2, SMTT(30)
      <3> QED
        BY <2>1, <2>2, <2>5, <3>1, <3>2, <3>3
    <2> QED
      BY <2>3, <2>4, <2>5
  <1>2. CASE OnPause
    BY <1>2 DEF OnPause
  <1>3. ASSUME NEW q \in Page, Leave(q) PROVE IInv'
    BY <1>3 DEF Leave
  <1>4. CASE ReceiveSysMode
    BY <1>4 DEF ReceiveSysMode, CheckSystemMode, StartService
  <1>5. CASE ReceiveAllInfo
    BY <1>5 DEF ReceiveAllInfo
  <1>6. CASE Take
    <2>1. /\ queue # <<>> /\ queue' = Tail(queue) /\ pc = "idle" /\ Len(queue) \in Nat \ {0}
          /\ UNCHANGED <<page, resumed, bcast, dvr, pref, doubt, missed>>
      BY <1>6 DEF Take
    <2>2. /\ DOMAIN queue = 1 .. Len(queue) /\ DOMAIN queue' = 1 .. (Len(queue) - 1)
          /\ \A k \in DOMAIN queue' : queue'[k] = queue[k + 1]
          /\ Head(queue) = queue[1]
      BY <2>1
    <2>3. \A k \in DOMAIN queue : k > 1 => k - 1 \in DOMAIN queue' /\ queue'[k - 1] = queue[k]
      BY <2>1, <2>2
    <2>4. \/ Head(queue) = "all" /\ pc' = "probe" /\ mode' = mode
          \/ Head(queue) \in Mode /\ pc' = "post" /\ mode' = Head(queue)
      BY <1>6 DEF Take
    <2>5. Coming' \subseteq Coming /\ Coming \subseteq Coming' \cup {"all"}
      <3>1. \A k \in DOMAIN queue' : queue'[k] \in Coming
        BY <2>1, <2>2
      <3>2. pc' = "post" => mode' \in Coming
        BY <2>1, <2>2, <2>4
      <3>3. Coming' \subseteq Coming
        BY <2>4, <3>1, <3>2
      <3>4. \A k \in DOMAIN queue : k > 1 => queue[k] \in Coming'
        BY <2>3
      <3>5. queue[1] \in Coming' \cup {"all"}
        BY <2>2, <2>4
      <3>6. \A k \in DOMAIN queue : queue[k] \in Coming' \cup {"all"}
        BY <2>1, <2>2, <3>4, <3>5
      <3> QED
        BY <2>1, <3>3, <3>6, SMTT(30)
    <2>6. LastInv'
      <3> SUFFICES ASSUME page = "Records", resumed, missed = {}
                   PROVE  /\ \A k \in DOMAIN queue' : queue'[k] = "uvc" =>
                               \E j \in DOMAIN queue' : j > k /\ queue'[j] = "msdc"
                          /\ pc' \in {"post", "save"} /\ mode' = "uvc" =>
                               \E j \in DOMAIN queue' : queue'[j] = "msdc"
        BY <2>1
      <3>1. ASSUME NEW k \in DOMAIN queue', queue'[k] = "uvc"
            PROVE  \E j \in DOMAIN queue' : j > k /\ queue'[j] = "msdc"
        <4>1. PICK j \in DOMAIN queue : j > k + 1 /\ queue[j] = "msdc"
          BY <2>1, <2>2, <3>1
        <4>2. j - 1 \in DOMAIN queue' /\ queue'[j - 1] = "msdc" /\ j - 1 > k
          BY <2>1, <2>2, <2>3, <4>1
        <4> QED
          BY <4>2
      <3>2. ASSUME pc' \in {"post", "save"}, mode' = "uvc"
            PROVE  \E j \in DOMAIN queue' : queue'[j] = "msdc"
        <4>1. PICK j \in DOMAIN queue : j > 1 /\ queue[j] = "msdc"
          BY <2>1, <2>2, <2>4, <3>2
        <4> QED
          BY <2>3, <4>1
      <3> QED
        BY <3>1, <3>2
    <2>7. PreviewModePending' /\ RecordsModeExplained'
      <3> HIDE DEF Coming
      <3> QED
        BY <2>1, <2>4, <2>5
    <2> QED
      BY <2>1, <2>4, <2>6, <2>7
  <1>7. CASE Post
    BY <1>7 DEF Post
  <1>8. CASE Save
    BY <1>8 DEF Save
  <1>9. CASE Notify
    BY <1>9 DEF Notify, Broadcast
  <1>10. CASE Probe
    BY <1>10 DEF Probe, Broadcast
  <1>11. CASE GetRecordingList
    BY <1>11 DEF GetRecordingList
  <1>12. CASE Store
    BY <1>12 DEF Store
  <1>13. CASE Kill
    BY <1>13 DEF Kill
  <1>14. CASE UNCHANGED vars
    BY <1>14 DEF vars
  <1> QED
    BY <1>1, <1>2, <1>3, <1>4, <1>5, <1>6, <1>7, <1>8, <1>9, <1>10, <1>11, <1>12, <1>13, <1>14
    DEF Next, UI, Service

-----------------------------------------------------------------------------
\* Every reachable state is well typed, nothing is on its way to a page that is not on screen
\* (the receivers are registered in onResume, unregistered in onPause), and the inductive
\* invariant holds.
THEOREM Invariance == Spec => [](TypeOK /\ IInv)
  <1>1. Init => TypeOK
    <2> SUFFICES ASSUME Init PROVE TypeOK
      OBVIOUS
    <2>1. resumed \in BOOLEAN
      BY Zenon DEF Init
    <2>2. queue \in Seq(Mode \cup {"all"}) /\ Len(queue) = 0
      BY DEF Init
    <2>3. bcast \in Seq(Mode \cup {"sys", "unreachable"})
      BY DEF Init
    <2> QED
      BY <2>1, <2>2, <2>3, QueueAssumption DEF Init, TypeOK, Mode, Page
  <1>2. Init => IInv
    BY <1>1 DEF Init, IInv, ServiceInv, LastInv, PreviewModePending, RecordsModeExplained,
                ModeTrusted, Coming, Setting, PrefFor, Needs
  <1>3. IInv /\ [Next]_vars => IInv'
    BY InvStep, TypeStep DEF IInv
  <1>4. IInv => TypeOK
    BY DEF IInv
  <1> QED
    BY <1>2, <1>3, <1>4, PTL DEF Spec

\* A preview on screen without its mode has it coming or will check again
\* (Preview.checkSystemMode and the receiver's recreate), but for GET_ALL_INFO.
THEOREM PreviewPending == Spec => []PreviewModePending
  <1>1. IInv => PreviewModePending
    BY DEF IInv
  <1> QED
    BY <1>1, Invariance, PTL

\* A list of recordings that lost its mode did so for one of the reasons recorded
\* (Records.checkSystemMode runs in onResume only).
THEOREM RecordsExplained == Spec => []RecordsModeExplained
  <1>1. IInv => RecordsModeExplained
    BY DEF IInv
  <1> QED
    BY <1>1, Invariance, PTL

\* SP_SYSTEM_MODE is the DVR's mode after an unambiguous answer: the one handler
\* thread of DvrInfoService both switches the DVR and writes the preference.
THEOREM PreferenceTrusted == Spec => []ModeTrusted
  <1>1. IInv => ModeTrusted
    BY DEF IInv
  <1> QED
    BY <1>1, Invariance, PTL
===============================================================================
