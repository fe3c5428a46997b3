------------------------------ MODULE CameraMode ------------------------------
(***************************************************************************)
(* Switching the camera of the preview.  Preview shows the icon of the     *)
(* camera that is not in the preference SP_PREVIEW_CAMERA; a click hides it*)
(* and sends SET_CAM_MODE to DvrInfoService, which starts a thread for the *)
(* POST and at once broadcasts the new mode back.  Preview then writes the *)
(* preference and shows the other icon; the thread writes the preference   *)
(* again when the DVR has answered.  GET_ALL_INFO, sent by the start page, *)
(* copies the DVR's camera to the preference too.                          *)
(*                                                                         *)
(* The recording channel is front and rear throughout, or there would be   *)
(* nothing to switch (both icons are then disabled).                       *)
(*                                                                         *)
(* An operator whose name begins with Fault is the definition after it with*)
(* a seeded bug; nothing refers to it, and a property must notice it.      *)
(***************************************************************************)
EXTENDS Naturals, Sequences, FiniteSets

CONSTANT Call   \* the SET_CAM_MODE requests on their way at one time (a bound)

ASSUME CallAssumption == IsFiniteSet(Call)

Camera == {"cha", "chb"}

VARIABLES
  resumed,  \* Preview is on screen, with its receiver registered
  icon,     \* the camera whose icon is shown, or "none"
  queue,    \* intents of the service: a camera is SET_CAM_MODE, "all" GET_ALL_INFO
  pc,       \* what the handler thread is doing
  found,    \* the camera it read from the DVR
  call,     \* [Call -> state of the thread in handleActionSetCamInfo]
  target,   \* [Call -> the camera that the thread sets]
  bcast,    \* GET_CAM_MODE broadcasts on their way to Preview
  dvr,      \* the DVR's preview camera
  pref,     \* SP_PREVIEW_CAMERA
  last      \* history: how the camera was set or read last

serviceVars == <<pc, found>>
callVars == <<call, target>>
vars == <<resumed, icon, queue, serviceVars, callVars, bcast, dvr, pref, last>>

-----------------------------------------------------------------------------
Other(c) == IF c = "cha" THEN "chb" ELSE "cha"

Busy == {c \in Call : call[c] # "free"}

Waiting == {k \in DOMAIN queue : queue[k] # "all"}

Init ==
  /\ resumed = FALSE /\ icon = "none"
  /\ queue = <<>> /\ pc = "idle" /\ bcast = <<>>
  /\ dvr \in Camera /\ pref \in Camera /\ found = dvr
  /\ call = [c \in Call |-> "free"] /\ target = [c \in Call |-> dvr]
  /\ last = "unknown"

-----------------------------------------------------------------------------
(* The UI thread                                                           *)

\* Nothing is shown that was hidden by a click.
FaultCheckCameraStatus(camera) == icon' = icon

\* checkCameraStatus shows the icon of the camera to change to.
CheckCameraStatus(camera) == icon' = Other(camera)

\* Preview.onResume.
OnResume ==
  /\ ~resumed /\ resumed' = TRUE /\ CheckCameraStatus(pref)
  /\ UNCHANGED <<queue, serviceVars, callVars, bcast, dvr, pref, last>>

\* Preview.onPause: the receiver is unregistered.
OnPause ==
  /\ resumed /\ resumed' = FALSE /\ bcast' = <<>>
  /\ UNCHANGED <<icon, queue, serviceVars, callVars, dvr, pref, last>>

\* The start page asks for everything, once at a time here.
GetAllInfo ==
  /\ ~resumed /\ \A k \in DOMAIN queue : queue[k] # "all"
  /\ queue' = Append(queue, "all")
  /\ UNCHANGED <<resumed, icon, serviceVars, callVars, bcast, dvr, pref, last>>

\* A click on the camera icon hides it.
CameraClick ==
  /\ resumed /\ icon # "none"
  /\ Cardinality(Busy) + Cardinality(Waiting) < Cardinality(Call)
  /\ queue' = Append(queue, icon) /\ icon' = "none"
  /\ UNCHANGED <<resumed, serviceVars, callVars, bcast, dvr, pref, last>>

\* Preview.onReceive of GET_CAM_MODE writes the preference.
ReceiveCamMode ==
  /\ resumed /\ bcast # <<>> /\ bcast' = Tail(bcast)
  /\ pref' = Head(bcast) /\ CheckCameraStatus(Head(bcast))
  /\ UNCHANGED <<resumed, queue, serviceVars, callVars, dvr, last>>

-----------------------------------------------------------------------------
(* DvrInfoService                                                          *)

\* The history: a request starts alone, or while another is under way.
Started == last' = IF Busy = {} /\ bcast = <<>> THEN "alone" ELSE "overlap"

Failed == last' = IF last = "alone" THEN "failed" ELSE last

Broadcast(b) == bcast' = IF resumed THEN Append(bcast, b) ELSE bcast

\* The broadcast is left to the answer of the DVR.
FaultTakeQuietly(c) ==
  /\ pc = "idle" /\ queue # <<>> /\ Head(queue) # "all" /\ c \notin Busy
  /\ queue' = Tail(queue)
  /\ call' = [call EXCEPT ![c] = "post"] /\ target' = [target EXCEPT ![c] = Head(queue)]
  /\ Started
  /\ UNCHANGED <<resumed, icon, serviceVars, bcast, dvr, pref>>

\* SET_CAM_MODE: a thread for the POST, and the broadcast without waiting for it.
TakeSetCam(c) ==
  /\ pc = "idle" /\ queue # <<>> /\ Head(queue) # "all" /\ c \notin Busy
  /\ queue' = Tail(queue)
  /\ call' = [call EXCEPT ![c] = "post"] /\ target' = [target EXCEPT ![c] = Head(queue)]
  /\ Broadcast(Head(queue))
  /\ Started
  /\ UNCHANGED <<resumed, icon, serviceVars, dvr, pref>>

TakeGetAll ==
  /\ pc = "idle" /\ queue # <<>> /\ Head(queue) = "all"
  /\ queue' = Tail(queue) /\ pc' = "read"
  /\ Started
  /\ UNCHANGED <<resumed, icon, found, callVars, bcast, dvr, pref>>

\* getCameraSetting: the page of the DVR, or an exception.
ReadCamera ==
  /\ pc = "read"
  /\ \/ pc' = "store" /\ found' = dvr
     \/ pc' = "idle" /\ UNCHANGED found
  /\ last' = IF pc' = "idle" THEN "unknown" ELSE last
  /\ UNCHANGED <<resumed, icon, queue, callVars, bcast, dvr, pref>>

StoreCamera ==
  /\ pc = "store" /\ pc' = "idle" /\ pref' = found
  /\ UNCHANGED <<resumed, icon, queue, found, callVars, bcast, dvr, last>>

\* setCameraMode: the DVR switches and answers 200, 400 or 404; it answers one of
\* these without switching; it switches and the answer is lost, or is another;
\* or it does not switch.
Post(c) ==
  /\ call[c] = "post"
  /\ \/ call' = [call EXCEPT ![c] = "save"] /\ dvr' = target[c] /\ UNCHANGED last
     \/ call' = [call EXCEPT ![c] = "save"] /\ Failed /\ UNCHANGED dvr
     \/ call' = [call EXCEPT ![c] = "free"] /\ Failed /\ dvr' = target[c]
     \/ call' = [call EXCEPT ![c] = "free"] /\ Failed /\ UNCHANGED dvr
  /\ UNCHANGED <<resumed, icon, queue, serviceVars, target, bcast, pref>>

\* The answer is not recorded.
FaultSave(c) ==
  /\ call[c] = "save" /\ call' = [call EXCEPT ![c] = "free"]
  /\ UNCHANGED <<resumed, icon, queue, serviceVars, target, bcast, dvr, pref, last>>

Save(c) ==
  /\ call[c] = "save" /\ call' = [call EXCEPT ![c] = "free"] /\ pref' = target[c]
  /\ UNCHANGED <<resumed, icon, queue, serviceVars, target, bcast, dvr, last>>

Next ==
  \/ OnResume \/ OnPause \/ GetAllInfo \/ CameraClick \/ ReceiveCamMode
  \/ TakeGetAll \/ ReadCamera \/ StoreCamera
  \/ \E c \in Call : TakeSetCam(c) \/ Post(c) \/ Save(c)

Spec == Init /\ [][Next]_vars

\* The handler thread and the UI looper run; the network may hang (ReadCamera,
\* Post) and the user may do nothing.
Fairness == /\ WF_vars(TakeGetAll) /\ WF_vars(\E c \in Call : TakeSetCam(c))
            /\ WF_vars(StoreCamera) /\ WF_vars(ReceiveCamMode)

FairSpec == Spec /\ Fairness

-----------------------------------------------------------------------------
(* Properties                                                              *)

\* The variables have their types.
TypeOK ==
  /\ resumed \in BOOLEAN /\ icon \in Camera \cup {"none"}
  /\ queue \in Seq(Camera \cup {"all"}) /\ bcast \in Seq(Camera)
  /\ pc \in {"idle", "read", "store"} /\ found \in Camera
  /\ call \in [Call -> {"free", "post", "save"}] /\ target \in [Call -> Camera]
  /\ dvr \in Camera /\ pref \in Camera /\ last \in {"unknown", "alone", "overlap", "failed"}

\* No request is under way.
Quiet == Busy = {} /\ Waiting = {} /\ bcast = <<>> /\ pc = "idle"

\* Preview saves the mode that it is sent ``to ensure cam mode is correct'': when
\* it has saved it and nothing else is under way, it is the DVR's camera.
CameraPrefCorrect ==
  [][ReceiveCamMode /\ Quiet' => pref' = dvr']_vars

\* With nothing under way the preference is the DVR's camera, unless the last
\* POST failed or was refused with a status taken for success, or requests (or a
\* request and GET_ALL_INFO) overlapped: the broadcast and the thread, in either
\* order, write the same.
CameraPrefExplained == Quiet /\ last = "alone" => pref = dvr

\* A click never leaves the preview without an icon to click: a request or its
\* broadcast is on the way as long as both are hidden.
IconComing ==
  resumed /\ icon = "none" => Waiting # {} \/ bcast # <<>>

\* A hidden icon comes back, unless the handler thread hangs in GET_ALL_INFO.
IconReturns ==
  resumed /\ icon = "none" ~> (~resumed \/ icon # "none" \/ pc = "read")
===============================================================================
