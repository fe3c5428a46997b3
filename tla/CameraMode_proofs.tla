--------------------------- MODULE CameraMode_proofs ---------------------------
(***************************************************************************)
(* Proofs about CameraMode, for any number of requests at a time and a     *)
(* queue of any length.                                                    *)
(***************************************************************************)
EXTENDS CameraMode, TLAPS

\* While the last request ran alone, it is the only one: its broadcast and its
\* thread carry the same camera, which is the DVR's from the answer on, and then
\* the preference.
AloneInv ==
  last = "alone" =>
    /\ \A c, d \in Busy : c = d
    /\ \A c \in Busy : \A k \in DOMAIN bcast : bcast[k] = target[c]
    /\ \A c \in Busy : call[c] = "save" => target[c] = dvr
    /\ pc # "idle" => Busy = {} /\ bcast = <<>>
    /\ pc = "store" => found = dvr
    /\ pc = "idle" /\ Busy = {} =>
         pref = dvr /\ \A k \in DOMAIN bcast : bcast[k] = dvr

IInv == TypeOK /\ AloneInv /\ IconComing /\ CameraPrefExplained

-----------------------------------------------------------------------------
\* What an added intent or broadcast does to the sequence.
LEMMA Added ==
  ASSUME NEW S, NEW s \in Seq(S), NEW e \in S
  PROVE  /\ Append(s, e) \in Seq(S) /\ Append(s, e) # <<>>
         /\ DOMAIN s = 1 .. Len(s) /\ DOMAIN Append(s, e) = 1 .. (Len(s) + 1)
         /\ \A k \in DOMAIN s : Append(s, e)[k] = s[k]
         /\ Append(s, e)[Len(s) + 1] = e
  OBVIOUS

\* What the taking of the first one does.
LEMMA Taken ==
  ASSUME NEW S, NEW s \in Seq(S), s # <<>>
  PROVE  /\ Head(s) = s[1] /\ Head(s) \in S /\ 1 \in DOMAIN s
         /\ Tail(s) \in Seq(S) /\ DOMAIN Tail(s) = 1 .. (Len(s) - 1)
         /\ \A k \in DOMAIN Tail(s) : k + 1 \in DOMAIN s /\ Tail(s)[k] = s[k + 1]
         /\ \A k \in DOMAIN s : k # 1 => k - 1 \in DOMAIN Tail(s) /\ Tail(s)[k - 1] = s[k]
  OBVIOUS

-----------------------------------------------------------------------------
\* Every step of Preview, the handler thread and the POST threads keeps the types.
LEMMA TypeStep == TypeOK /\ [Next]_vars => TypeOK'
  <1> SUFFICES ASSUME TypeOK, [Next]_vars PROVE TypeOK'
    OBVIOUS
  <1> USE DEF TypeOK, serviceVars, callVars
  <1>1. CASE OnResume
    BY <1>1 DEF OnResume, CheckCameraStatus, Other, Camera
  <1>2. CASE OnPause
    <2>1. <<>> \in Seq(Camera)
      OBVIOUS
    <2> QED
      BY <1>2, <2>1 DEF OnPause
  <1>3. CASE GetAllInfo
    BY <1>3, Added DEF GetAllInfo
  <1>4. CASE CameraClick
    BY <1>4, Added DEF CameraClick
  <1>5. CASE ReceiveCamMode
    <2>1. Head(bcast) \in Camera /\ bcast' \in Seq(Camera)
      BY <1>5, Taken DEF ReceiveCamMode
    <2> QED
      BY <1>5, <2>1 DEF ReceiveCamMode, CheckCameraStatus, Other, Camera
  <1>6. CASE TakeGetAll
    <2>1. queue' \in Seq(Camera \cup {"all"})
      BY <1>6, Taken DEF TakeGetAll
    <2> QED
      BY <1>6, <2>1 DEF TakeGetAll, Started
  <1>7. CASE ReadCamera
    BY <1>7 DEF ReadCamera
  <1>8. CASE StoreCamera
    BY <1>8 DEF StoreCamera
  <1>9. ASSUME NEW c \in Call, TakeSetCam(c) PROVE TypeOK'
    <2>1. Head(queue) \in Camera /\ queue' \in Seq(Camera \cup {"all"})
      BY <1>9, Taken DEF TakeSetCam
    <2>2. bcast' \in Seq(Camera)
      BY <1>9, <2>1, Added DEF TakeSetCam, Broadcast
    <2> QED
      BY <1>9, <2>1, <2>2 DEF TakeSetCam, Started
  <1>10. ASSUME NEW c \in Call, Post(c) PROVE TypeOK'
    BY <1>10 DEF Post, Failed
  <1>11. ASSUME NEW c \in Call, Save(c) PROVE TypeOK'
    BY <1>11 DEF Save
  <1>12. CASE UNCHANGED vars
    BY <1>12 DEF vars
  <1> QED
    BY <1>1, <1>2, <1>3, <1>4, <1>5, <1>6, <1>7, <1>8, <1>9, <1>10, <1>11, <1>12 DEF Next

-----------------------------------------------------------------------------
\* Every step keeps an icon on screen, or what brings it back: the click queues
\* the request, and the request is taken together with its broadcast.
LEMMA IconStep == TypeOK /\ IconComing /\ [Next]_vars => IconComing'
  <1> SUFFICES ASSUME TypeOK, IconComing, [Next]_vars, resumed', icon' = "none"
               PROVE  Waiting' # {} \/ bcast' # <<>>
    BY DEF IconComing
  <1> USE DEF TypeOK, serviceVars, callVars, IconComing, Waiting
  <1>1. CASE OnResume
    BY <1>1 DEF OnResume, CheckCameraStatus, Other, Camera
  <1>2. CASE OnPause \/ GetAllInfo
    BY <1>2 DEF OnPause, GetAllInfo
  <1>3. CASE CameraClick
    <2>1. icon # "all" /\ icon \in Camera \cup {"all"} /\ queue' = Append(queue, icon)
      BY <1>3 DEF CameraClick, Camera
    <2>2. Len(queue) + 1 \in Waiting'
      BY <2>1, Added
    <2> QED
      BY <2>2
  <1>4. CASE ReceiveCamMode
    BY <1>4, Taken DEF ReceiveCamMode, CheckCameraStatus, Other, Camera
  <1>5. CASE TakeGetAll
    <2>1. CASE bcast # <<>>
      BY <1>5, <2>1 DEF TakeGetAll
    <2>2. CASE bcast = <<>>
      <3>1. PICK k \in DOMAIN queue : queue[k] # "all"
        BY <1>5, <2>2 DEF TakeGetAll
      <3>2. k # 1 /\ queue' = Tail(queue) /\ queue # <<>>
        BY <1>5, <3>1, Taken DEF TakeGetAll
      <3>3. k - 1 \in Waiting'
        BY <3>1, <3>2, Taken
      <3> QED
        BY <3>3
    <2> QED
      BY <2>1, <2>2
  <1>6. CASE ReadCamera \/ StoreCamera
    BY <1>6 DEF ReadCamera, StoreCamera
  <1>7. ASSUME NEW c \in Call, TakeSetCam(c) PROVE bcast' # <<>>
    <2>1. Head(queue) \in Camera /\ resumed
      BY <1>7, Taken DEF TakeSetCam
    <2> QED
      BY <1>7, <2>1, Added DEF TakeSetCam, Broadcast
  <1>8. ASSUME NEW c \in Call, Post(c) \/ Save(c) PROVE Waiting' # {} \/ bcast' # <<>>
    BY <1>8 DEF Post, Save
  <1>9. CASE UNCHANGED vars
    BY <1>9 DEF vars
  <1> QED
    BY <1>1, <1>2, <1>3, <1>4, <1>5, <1>6, <1>7, <1>8, <1>9 DEF Next

-----------------------------------------------------------------------------
\* Every step keeps what is known of a request that ran alone.
LEMMA AloneStep == TypeOK /\ AloneInv /\ [Next]_vars => AloneInv'
  <1> SUFFICES ASSUME TypeOK, AloneInv, [Next]_vars, last' = "alone" PROVE AloneInv'
    BY DEF AloneInv
  <1> USE DEF TypeOK, serviceVars, callVars, AloneInv, Busy
  <1>1. CASE OnResume \/ GetAllInfo \/ CameraClick
    BY <1>1 DEF OnResume, GetAllInfo, CameraClick
  <1>2. CASE OnPause
    BY <1>2 DEF OnPause
  <1>3. CASE ReceiveCamMode
    <2>1. /\ bcast # <<>> /\ bcast' = Tail(bcast) /\ pref' = Head(bcast)
          /\ UNCHANGED <<pc, found, call, target, dvr, last>>
      BY <1>3 DEF ReceiveCamMode
    <2>2. \A k \in DOMAIN bcast' : \E j \in DOMAIN bcast : bcast'[k] = bcast[j]
      BY <2>1, Taken
    <2>3. \E j \in DOMAIN bcast : pref' = bcast[j]
      BY <2>1, Taken
    <2> QED
      BY <2>1, <2>2, <2>3
  <1>4. CASE TakeGetAll
    BY <1>4 DEF TakeGetAll, Started
  <1>5. CASE ReadCamera
    BY <1>5 DEF ReadCamera
  <1>6. CASE StoreCamera
    BY <1>6 DEF StoreCamera
  <1>7. ASSUME NEW c \in Call, TakeSetCam(c) PROVE AloneInv'
    <2>1. Busy = {} /\ bcast = <<>> /\ pc = "idle" /\ pc' = "idle"
      BY <1>7 DEF TakeSetCam, Started
    <2>2. Busy' = {c} /\ call'[c] = "post" /\ target'[c] = Head(queue)
      BY <1>7, <2>1 DEF TakeSetCam
    <2>3. Head(queue) \in Camera
      BY <1>7, Taken DEF TakeSetCam
    <2>4. \A k \in DOMAIN bcast' : bcast'[k] = Head(queue)
      BY <1>7, <2>1, <2>3, Added DEF TakeSetCam, Broadcast
    <2> QED
      BY <2>1, <2>2, <2>4
  <1>8. ASSUME NEW c \in Call, Post(c) PROVE AloneInv'
    <2>1. call[c] = "post" /\ call' = [call EXCEPT ![c] = "save"] /\ dvr' = target[c] /\ last' = last
      BY <1>8 DEF Post, Failed
    <2>2. c \in Busy /\ Busy' = Busy /\ pc = "idle"
      BY <2>1
    <2> QED
      BY <1>8, <2>1, <2>2 DEF Post
  <1>9. ASSUME NEW c \in Call, Save(c) PROVE AloneInv'
    <2>1. /\ call[c] = "save" /\ call' = [call EXCEPT ![c] = "free"] /\ pref' = target[c]
          /\ UNCHANGED <<pc, found, target, bcast, dvr, last>>
      BY <1>9 DEF Save
    <2>2. c \in Busy /\ Busy' = {} /\ target[c] = dvr /\ pc = "idle"
      BY <2>1
    <2>3. \A k \in DOMAIN bcast : bcast[k] = dvr
      BY <2>1, <2>2
    <2> QED
      BY <2>1, <2>2, <2>3
  <1>10. CASE UNCHANGED vars
    BY <1>10 DEF vars
  <1> QED
    BY <1>1, <1>2, <1>3, <1>4, <1>5, <1>6, <1>7, <1>8, <1>9, <1>10 DEF Next

-----------------------------------------------------------------------------
\* The app starts right, every step keeps it so (TypeStep, IconStep, AloneStep), and when
\* nothing is under way any more, what is known of the last request is the property: the
\* variables keep their types, and the inductive invariant holds, whatever the DVR answers.
THEOREM CameraIInv == Spec => [](TypeOK /\ IInv)
  <1>1. Init => TypeOK
    <2> SUFFICES ASSUME Init PROVE TypeOK
      OBVIOUS
    <2>1. resumed \in BOOLEAN
      BY Zenon DEF Init
    <2>2. queue \in Seq(Camera \cup {"all"}) /\ bcast \in Seq(Camera)
      BY DEF Init
    <2> QED
      BY <2>1, <2>2 DEF Init, TypeOK
  <1>2. AloneInv => CameraPrefExplained
    BY DEF AloneInv, CameraPrefExplained, Quiet
  <1>3. Init => IInv
    <2> SUFFICES ASSUME Init PROVE IInv
      OBVIOUS
    <2>1. AloneInv /\ IconComing
      BY DEF Init, AloneInv, IconComing
    <2> QED
      BY <1>1, <1>2, <2>1 DEF IInv
  <1>4. IInv /\ [Next]_vars => IInv'
    <2>1. AloneInv' => CameraPrefExplained'
      BY <1>2, PTL
    <2> QED
      BY <2>1, TypeStep, IconStep, AloneStep DEF IInv
  <1>5. IInv => TypeOK
    BY DEF IInv
  <1> QED
    BY <1>3, <1>4, <1>5, PTL DEF Spec

\* After a request that ran alone and was not refused, SP_PREVIEW_CAMERA is the
\* DVR's camera (Preview.onReceive and handleActionSetCamInfo write the same).
THEOREM CameraPreference == Spec => []CameraPrefExplained
  <1>1. IInv => CameraPrefExplained
    BY DEF IInv
  <1> QED
    BY CameraIInv, <1>1, PTL

\* The preview on screen shows a camera icon or has one coming: GET_CAM_MODE is
\* broadcast as the request is taken.
THEOREM CameraIcon == Spec => []IconComing
  <1>1. IInv => IconComing
    BY DEF IInv
  <1> QED
    BY CameraIInv, <1>1, PTL
===============================================================================
