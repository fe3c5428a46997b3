------------------------------ MODULE SystemMode ------------------------------
(***************************************************************************)
(* The DVR is either recording ("uvc": the preview works) or a storage     *)
(* ("msdc": its recordings can be listed).  Preview and Records each need  *)
(* one of the two; a page that comes on screen compares what it needs with *)
(* the preference SP_SYSTEM_MODE, the app's only knowledge of the DVR, and *)
(* asks DvrInfoService to switch the DVR when they differ.                 *)
(*                                                                         *)
(* The UI thread, the one handler thread of the IntentService and the DVR  *)
(* interleave; a broadcast reaches the receiver that was registered when it*)
(* was sent, if it is still registered.  The process may be killed at any  *)
(* time: the preference and the DVR's mode survive it.                     *)
(*                                                                         *)
(* An operator whose name begins with Fault is the definition after it with*)
(* a seeded bug; nothing refers to it, and a property must notice it.      *)
(***************************************************************************)
EXTENDS Naturals, Sequences

CONSTANT MaxQueue   \* intents waiting for the service (a bound)

ASSUME QueueAssumption == MaxQueue \in Nat

Mode == {"uvc", "msdc"}
Page == {"Main", "Preview", "Records", "Settings"}

VARIABLES
  page,     \* the activity on top
  resumed,  \* it is on screen, with its receiver registered
  queue,    \* intents of the service: a mode is SET_SYS_MODE, "all" is GET_ALL_INFO
  pc,       \* what the handler thread is doing
  mode,     \* the mode that it sets, or that it found
  bcast,    \* broadcasts on their way to the page on screen
  dvr,      \* the DVR's mode
  pref,     \* SP_SYSTEM_MODE, or "unset" since the app was installed
  doubt,    \* history: why pref may not be the DVR's mode, or "none"
  missed    \* history: why the page on screen may lack its mode for good

uiVars      == <<page, resumed>>
serviceVars == <<pc, mode>>
vars == <<uiVars, queue, serviceVars, bcast, dvr, pref, doubt, missed>>

-----------------------------------------------------------------------------
\* The mode that checkSystemMode of Preview and Records asks for.
Needs(p) == IF p = "Preview" THEN "uvc" ELSE "msdc"

\* The preference as checkSystemMode reads it: each page has its own default.
PrefFor(p) == IF pref = "unset" THEN Needs(p) ELSE pref

\* The handler thread is in handleActionSetSysInfo.
Setting == pc \in {"post", "save", "notify"}

\* What is still to be set.
Coming == {queue[k] : k \in DOMAIN queue} \cup {mode : x \in {pc} \cap {"post", "save"}}

\* The app was just installed; whatever a later start finds, Kill leaves it.
Init ==
  /\ page = "Main" /\ resumed = FALSE
  /\ queue = <<>> /\ pc = "idle" /\ bcast = <<>>
  /\ dvr \in Mode /\ mode = dvr /\ pref = "unset"
  /\ doubt = "unset" /\ missed = {}

-----------------------------------------------------------------------------
(* The UI thread                                                           *)

\* startService, within the bound.
StartService(intent) == Len(queue) < MaxQueue /\ queue' = Append(queue, intent)

\* The mode is not asked for.
FaultCheckSystemMode(p) == missed' = {} /\ UNCHANGED queue

\* checkSystemMode: a preference that is about to be overwritten still counts.
CheckSystemMode(p) ==
  \/ PrefFor(p) # Needs(p) /\ StartService(Needs(p)) /\ missed' = {}
  \/ /\ PrefFor(p) = Needs(p) /\ UNCHANGED queue
     /\ missed' = IF Coming \subseteq {Needs(p), "all"} THEN {} ELSE {"overtaken"}

\* onResume: the receiver is registered, then the mode is checked.
OnResume ==
  /\ ~resumed /\ resumed' = TRUE
  /\ \/ page = "Main" /\ StartService("all") /\ missed' = {}
     \/ page \in {"Preview", "Records"} /\ CheckSystemMode(page)
     \/ page = "Settings" /\ missed' = {} /\ UNCHANGED queue
  /\ UNCHANGED <<page, serviceVars, bcast, dvr, pref, doubt>>

\* onPause: the receiver is unregistered, what was on its way to it is lost.
OnPause ==
  /\ resumed /\ resumed' = FALSE /\ bcast' = <<>>
  /\ UNCHANGED <<page, queue, serviceVars, dvr, pref, doubt, missed>>

\* An icon of the bottom bar starts another page and finishes this one, or back
\* ends the app, which is then started anew.
Leave(q) ==
  /\ resumed /\ page \notin {"Main", q}
  /\ page' = q /\ resumed' = FALSE /\ bcast' = <<>>
  /\ UNCHANGED <<queue, serviceVars, dvr, pref, doubt, missed>>

\* Preview does as Records does: the broadcast ends the progress indicator.
FaultReceiveSysMode ==
  /\ resumed /\ bcast # <<>> /\ Head(bcast) = "sys"
  /\ bcast' = Tail(bcast) /\ UNCHANGED <<queue, missed>>
  /\ UNCHANGED <<uiVars, serviceVars, dvr, pref, doubt>>

\* onReceive of GET_SYS_MODE.  Preview recreates itself and so checks the mode
\* again, with a new receiver; Records only shows the list it has.
ReceiveSysMode ==
  /\ resumed /\ bcast # <<>> /\ Head(bcast) = "sys"
  /\ \/ page = "Preview" /\ bcast' = <<>> /\ CheckSystemMode("Preview")
     \/ page = "Records" /\ bcast' = Tail(bcast) /\ UNCHANGED <<queue, missed>>
  /\ UNCHANGED <<uiVars, serviceVars, dvr, pref, doubt>>

\* MainActivity.onReceive: the page for the mode found, or the VPN settings.
ReceiveAllInfo ==
  /\ resumed /\ bcast # <<>> /\ Head(bcast) # "sys"
  /\ page' = CASE Head(bcast) = "uvc" -> "Preview"
               [] Head(bcast) = "msdc" -> "Records"
               [] OTHER -> "Main"
  /\ resumed' = FALSE /\ bcast' = <<>>
  /\ UNCHANGED <<queue, serviceVars, dvr, pref, doubt, missed>>

-----------------------------------------------------------------------------
(* The handler thread of DvrInfoService                                    *)

\* sendBroadcast, to the receiver registered now by one of the pages.
Broadcast(b, pages) ==
  bcast' = IF resumed /\ page \in pages THEN Append(bcast, b) ELSE bcast

\* onHandleIntent, one intent after the other.
Take ==
  /\ pc = "idle" /\ queue # <<>> /\ queue' = Tail(queue)
  /\ \/ Head(queue) = "all" /\ pc' = "probe" /\ UNCHANGED mode
     \/ Head(queue) # "all" /\ pc' = "post" /\ mode' = Head(queue)
  /\ UNCHANGED <<uiVars, bcast, dvr, pref, doubt, missed>>

\* The preference is written after an exception as well.
FaultPost ==
  /\ pc = "post" /\ pc' = "save"
  /\ \/ dvr' = mode /\ doubt' = "none"
     \/ UNCHANGED <<dvr, doubt>>
  /\ UNCHANGED <<uiVars, queue, mode, bcast, pref, missed>>

\* The POST of setSystemMode: the DVR switches and answers; it answers without
\* switching (the response code is not looked at); it switches and the answer
\* is lost; or it is not reached.
Post ==
  /\ pc = "post"
  /\ \/ pc' = "save" /\ dvr' = mode /\ doubt' = "none"
     \/ pc' = "save" /\ doubt' = "refused" /\ UNCHANGED dvr
     \/ pc' = "notify" /\ dvr' = mode /\ doubt' = "lost"
     \/ pc' = "notify" /\ UNCHANGED <<dvr, doubt>>
  /\ missed' = IF pc' = "notify" /\ resumed /\ mode = Needs(page)
                 THEN missed \cup {"failed"} ELSE missed
  /\ UNCHANGED <<uiVars, queue, mode, bcast, pref>>

\* setSystemMode commits the preference.
Save ==
  /\ pc = "save" /\ pc' = "notify" /\ pref' = mode
  /\ UNCHANGED <<uiVars, queue, mode, bcast, dvr, doubt, missed>>

\* handleActionSetSysInfo broadcasts, whatever became of the POST.
Notify ==
  /\ pc = "notify" /\ pc' = "idle" /\ Broadcast("sys", {"Preview", "Records"})
  /\ UNCHANGED <<uiVars, queue, mode, dvr, pref, doubt, missed>>

\* A DVR that is not reached is not reported.
FaultProbe ==
  /\ pc = "probe"
  /\ \/ mode' = dvr /\ Broadcast(dvr, {"Main"})
        /\ pc' = IF dvr = "msdc" THEN "list" ELSE "store"
     \/ pc' = "idle" /\ UNCHANGED <<mode, bcast>>
  /\ UNCHANGED <<uiVars, queue, dvr, pref, doubt, missed>>

\* handleActionGetAllInfo: which page of the DVR answers tells its mode; the
\* broadcast starts that page before the preference is written.
Probe ==
  /\ pc = "probe"
  /\ \/ mode' = dvr /\ Broadcast(dvr, {"Main"})
        /\ pc' = IF dvr = "msdc" THEN "list" ELSE "store"
     \/ pc' = "idle" /\ Broadcast("unreachable", {"Main"}) /\ UNCHANGED mode
  /\ UNCHANGED <<uiVars, queue, dvr, pref, doubt, missed>>

\* In storage mode the list of recordings is downloaded first.
GetRecordingList ==
  /\ pc = "list" /\ pc' = "store"
  /\ UNCHANGED <<uiVars, queue, mode, bcast, dvr, pref, doubt, missed>>

Store ==
  /\ pc = "store" /\ pc' = "idle" /\ pref' = mode /\ doubt' = "none"
  /\ missed' = IF resumed /\ page # "Main" THEN missed \cup {"startup"} ELSE missed
  /\ UNCHANGED <<uiVars, queue, mode, bcast, dvr>>

-----------------------------------------------------------------------------
\* The process is killed; the system starts it again with the page on top.
Kill ==
  /\ resumed' = FALSE /\ queue' = <<>> /\ bcast' = <<>> /\ pc' = "idle"
  /\ dvr' \in {dvr} \cup {mode : x \in {pc} \cap {"post"}}
  /\ doubt' = IF pc \in {"post", "save"} THEN "lost" ELSE doubt
  /\ UNCHANGED <<page, mode, pref, missed>>

UI == \/ OnResume \/ OnPause \/ \E q \in Page : Leave(q)
      \/ ReceiveSysMode \/ ReceiveAllInfo

Service == Take \/ Post \/ Save \/ Notify \/ Probe \/ GetRecordingList \/ Store

Next == UI \/ Service \/ Kill

Spec == Init /\ [][Next]_vars

\* The handler thread and the UI looper run; nothing is assumed of the network
\* (Post, Probe, GetRecordingList), the user or the system.
Fairness == /\ WF_vars(Take) /\ WF_vars(Save) /\ WF_vars(Notify) /\ WF_vars(Store)
            /\ WF_vars(ReceiveSysMode) /\ WF_vars(ReceiveAllInfo)

FairSpec == Spec /\ Fairness

-----------------------------------------------------------------------------
(* Properties                                                              *)

\* The variables have their types, and nothing is on its way to a page that is
\* not on screen.
TypeOK ==
  /\ page \in Page /\ resumed \in BOOLEAN
  /\ queue \in Seq(Mode \cup {"all"}) /\ Len(queue) <= MaxQueue
  /\ pc \in {"idle", "post", "save", "notify", "probe", "list", "store"}
  /\ mode \in Mode /\ dvr \in Mode /\ pref \in Mode \cup {"unset"}
  /\ bcast \in Seq(Mode \cup {"sys", "unreachable"})
  /\ ~resumed => bcast = <<>>
  /\ doubt \in {"none", "unset", "refused", "lost"}
  /\ missed \subseteq {"overtaken", "failed", "startup"}

\* A preview on screen without its mode, as far as the preference says, has it
\* coming, or a broadcast that makes it check again, even if the other mode was
\* being set as it came on screen; only the late preference of GET_ALL_INFO can
\* leave it.
PreviewModePending ==
  page = "Preview" /\ resumed /\ PrefFor("Preview") # "uvc" =>
    \/ "uvc" \in Coming \/ Setting
    \/ \E k \in DOMAIN bcast : bcast[k] = "sys"
    \/ "startup" \in missed

\* The list of recordings is on screen without its mode, as far as the preference
\* says, only while that is being set, after a failure to set it, when the opposite switch was still under way
\* as the page came on screen, or by the late preference of GET_ALL_INFO.
RecordsModeExplained ==
  page = "Records" /\ resumed /\ PrefFor("Records") # "msdc" =>
    "msdc" \in Coming \/ missed # {}

\* The preference is the DVR's mode, unless it was never written, a refusal was
\* ignored or an answer was lost: the service sets and queries the mode one intent
\* at a time.
ModeTrusted == doubt = "none" /\ pc # "save" => pref = dvr

\* The page on top believes that the DVR is in its mode, for a reason that is none.
Mistaken(why) == PrefFor(page) = Needs(page) /\ doubt = why

\* A DVR whose preview stays on screen is switched to its mode.  The app gives up,
\* without another attempt, when it believes to have it: after a refusal that was
\* saved as a success, when no preference was ever written (the default counts), or
\* after a switch to the other mode of which it lost the answer.  Otherwise the
\* network hangs or fails again and again, or GET_ALL_INFO overwrote the preference.
PreviewReachesMode ==
  <>[](page = "Preview" /\ resumed) =>
    \/ <>[](dvr = "uvc")
    \/ \E why \in {"refused", "unset", "lost"} : <>[]Mistaken(why)
    \/ <>[](pc \in {"post", "probe", "list"})
    \/ []<>(pc = "notify" /\ pref # mode)
    \/ <>[]("startup" \in missed)

\* The start page that stays on screen is left for another, unless the network
\* hangs: an unreachable DVR is reported too.
StartupEnds ==
  <>[](page = "Main" /\ resumed) => <>[](pc \in {"post", "probe", "list"})
===============================================================================
