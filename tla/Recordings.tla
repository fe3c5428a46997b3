----------------------------- MODULE Recordings -----------------------------
(***************************************************************************)
(* The recordings: the page that lists them (Records), the player that is  *)
(* opened from it (VideoPlayEX), and the threads of DvrInfoService that    *)
(* download the list and save clips to the phone or to an OTG device.      *)
(*                                                                         *)
(* Clips are numbered; a list shows a set of clips in their order, and the *)
(* service's answers name clips by their position in the list that was     *)
(* shown when the save was requested.                                      *)
(***************************************************************************)
EXTENDS Integers, FiniteSets

CONSTANTS Clip,    \* the clips that the DVR may list
          Job,     \* threads that save
          Lister,  \* threads that download the list
          None

ASSUME RecordingsAssumption == Clip \subseteq Nat /\ IsFiniteSet(Clip)

VARIABLES
    pref,       \* SP_RECORDING_LIST, None before it was written
    lister,     \* the threads that download the list
    page,       \* where the user is: "resuming" is inside onResume of Records, "opening"
                \* before that of VideoPlayEX, "videoAway" left it for another app
    shown,      \* mDataList of Records
    selected,   \* its items that are selected
    saveOn,     \* mSaveToPhone is enabled
    otgOn,      \* mSaveToOTG is enabled
    allOn,      \* mSelectAll is selected
    message,    \* the UPDATE_TOOL_BAR message that waits in mHandler
    refreshed,  \* history: the items were replaced while a save was enabled
    otgReady,   \* mIsOTGReady
    usb,        \* an OTG device is attached
    missed,     \* history: it was detached while no receiver listened
    clicked,    \* EXTRA_VIDEO_ITEM_ID, and how long the list was then
    videoList,  \* mDataList of VideoPlayEX
    job,        \* the threads that save
    modeAsked,  \* SET_SYS_MODE is with the service
    indicator,  \* mMenuLoadingIndicator is visible
    silent,     \* history: an answer that the indicator waits for will not come
    crashed     \* the exception that ended the process

lists == <<pref, lister>>
toolbar == <<saveOn, otgOn, allOn, message>>
device == <<otgReady, usb, missed>>
player == <<clicked, videoList>>
vars == <<lists, page, shown, selected, refreshed, toolbar, device, player, job,
          modeAsked, indicator, silent, crashed>>

Idle == [pc |-> "idle", list |-> {}]
NoJob == [pc |-> "idle", kind |-> "phone", items |-> {}, list |-> {}]

Listing == {l \in Lister : lister[l].pc # "idle"}
Saving == {j \in Job : job[j].pc # "idle"}

\* The clip of getRecordingList of VideoPlayEX when no list was ever stored.
Sample == 0

\* indexOf: the number of clips listed before c.
Position(c, list) == Cardinality({d \in list : d < c})

\* GET_ALL_INFO of the start page may still be downloading the list.
Init ==
    /\ pref \in {None, {}}
    /\ \E busy \in SUBSET Lister :
          /\ Cardinality(busy) <= 1
          /\ lister = [l \in Lister |-> IF l \in busy THEN [Idle EXCEPT !.pc = "get"] ELSE Idle]
    /\ page = "away" /\ shown = {} /\ selected = {} /\ refreshed = FALSE
    /\ saveOn = FALSE /\ otgOn = FALSE /\ allOn = FALSE /\ message = "none"
    /\ otgReady = FALSE /\ usb = FALSE /\ missed = FALSE
    /\ clicked = [pos |-> 0, of |-> 0] /\ videoList = {}
    /\ job = [j \in Job |-> NoJob]
    /\ modeAsked = FALSE /\ indicator = FALSE /\ silent = FALSE /\ crashed = "no"

----------------------------------------------------------------------------
(* The list *)

\* updateList: new items, none of them selected; the buttons stay as they are.
UpdateList ==
    /\ shown' = IF pref = None THEN shown ELSE pref
    /\ selected' = IF pref = None THEN selected ELSE {}
    /\ refreshed' = (refreshed \/ (pref # None /\ (saveOn \/ otgOn \/ selected # {})))

FaultGetRecordingList(l) ==   \* seeded bug: the list is requested only if there is none
    /\ lister[l].pc = "idle"
    /\ lister' = IF pref = None THEN [lister EXCEPT ![l] = [Idle EXCEPT !.pc = "get"]] ELSE lister

\* ACTION_GET_RECORDING_LIST starts a thread.
GetRecordingList(l) ==
    /\ lister[l].pc = "idle"
    /\ lister' = [lister EXCEPT ![l] = [Idle EXCEPT !.pc = "get"]]

\* DVRClient.getRecordingList: what the DVR lists now; a failure keeps the old list.
Download(l) ==
    /\ lister[l].pc = "get"
    /\ \/ \E list \in SUBSET Clip : lister' = [lister EXCEPT ![l] = [pc |-> "store", list |-> list]]
       \/ lister' = [lister EXCEPT ![l].pc = "notify"]
    /\ UNCHANGED <<pref, page, shown, selected, refreshed, toolbar, device, player, job,
                   modeAsked, indicator, silent, crashed>>

StoreList(l) ==
    /\ lister[l].pc = "store"
    /\ pref' = lister[l].list
    /\ lister' = [lister EXCEPT ![l] = [Idle EXCEPT !.pc = "notify"]]
    /\ UNCHANGED <<page, shown, selected, refreshed, toolbar, device, player, job,
                   modeAsked, indicator, silent, crashed>>

\* NotifyRecordingListChange: a broadcast for the receiver that is registered now.
NotifyRecordingListChange(l) ==
    /\ lister[l].pc = "notify"
    /\ lister' = [lister EXCEPT ![l] = Idle]
    /\ IF page = "records" THEN UpdateList ELSE UNCHANGED <<shown, selected, refreshed>>
    /\ UNCHANGED <<pref, page, toolbar, device, player, job, modeAsked, indicator, silent,
                   crashed>>

----------------------------------------------------------------------------
(* Records *)

\* A new page, or the same one again (from the player, or from another app);
\* onResume begins with updateList, before the receiver is registered.
OpenRecords(fresh) ==
    /\ page \in {"away", "video"}
    /\ page' = "resuming"
    /\ clicked' = [pos |-> 0, of |-> 0] /\ videoList' = {}
    /\ IF fresh
       THEN /\ page = "away"
            /\ shown' = IF pref = None THEN {} ELSE pref
            /\ selected' = {} /\ allOn' = FALSE /\ refreshed' = FALSE
            /\ otgReady' = FALSE /\ missed' = FALSE
            /\ indicator' = FALSE /\ silent' = FALSE
       ELSE UpdateList /\ UNCHANGED <<allOn, otgReady, missed, indicator, silent>>
    /\ UNCHANGED <<lists, saveOn, otgOn, message, usb, job, modeAsked, crashed>>

\* The rest of onResume: the receivers, the buttons, checkSystemMode (which may have
\* to ask for the storage mode), the list.
RegisterReceiver(l, wrongMode) ==
    /\ page = "resuming"
    /\ page' = "records"
    /\ saveOn' = FALSE /\ otgOn' = FALSE /\ refreshed' = FALSE
    /\ indicator' = (indicator \/ wrongMode)
    /\ modeAsked' = (modeAsked \/ wrongMode)
    /\ GetRecordingList(l)
    /\ UNCHANGED <<pref, shown, selected, allOn, message, device, player, job, silent, crashed>>

\* GET_SYS_MODE after the switch.
ModeAnswer ==
    /\ modeAsked
    /\ modeAsked' = FALSE
    /\ IF page = "records"
       THEN UpdateList /\ indicator' = FALSE /\ silent' = FALSE
       ELSE silent' = TRUE /\ UNCHANGED <<shown, selected, refreshed, indicator>>
    /\ UNCHANGED <<lists, page, toolbar, device, player, job, crashed>>

\* onPause for another page or another app.
Leave ==
    /\ message = "none"
    /\ \/ page = "records" /\ page' = "away" /\ UNCHANGED player
       \/ page = "video" /\ page' \in {"away", "videoAway"} /\ videoList' = {}
          /\ clicked' = IF page' = "away" THEN [pos |-> 0, of |-> 0] ELSE clicked
    /\ UNCHANGED <<lists, shown, selected, refreshed, toolbar, device, job, modeAsked,
                   indicator, silent, crashed>>

\* A click on the check mark of an item (VideoItemAdapter). Its message is handled before
\* the next click; a broadcast may come in between.
ToggleItem(c) ==
    /\ page = "records"
    /\ c \in shown
    /\ message = "none"
    /\ selected' = IF c \in selected THEN selected \ {c} ELSE selected \cup {c}
    /\ message' = IF c \in selected THEN "unselect" ELSE "select"
    /\ UNCHANGED <<lists, page, shown, refreshed, saveOn, otgOn, allOn, device, player, job,
                   modeAsked, indicator, silent, crashed>>

FaultUpdateToolBar ==   \* seeded bug: an unselection leaves the save buttons alone
    /\ message # "none"
    /\ message' = "none"
    /\ saveOn' = (saveOn \/ message = "select")
    /\ otgOn' = (otgOn \/ (message = "select" /\ otgReady))
    /\ allOn' = (message = "select" /\ (allOn \/ selected = shown))
    /\ UNCHANGED <<lists, page, shown, selected, refreshed, device, player, job,
                   modeAsked, indicator, silent, crashed>>

\* mHandler.handleMessage.
UpdateToolBar ==
    /\ message # "none"
    /\ message' = "none"
    /\ IF message = "unselect"
       THEN /\ saveOn' = (saveOn /\ selected # {})
            /\ otgOn' = (otgOn /\ selected # {})
            /\ allOn' = FALSE
       ELSE /\ saveOn' = TRUE
            /\ otgOn' = (otgOn \/ otgReady)
            /\ allOn' = (allOn \/ selected = shown)
    /\ UNCHANGED <<lists, page, shown, selected, refreshed, device, player, job,
                   modeAsked, indicator, silent, crashed>>

SelectAll ==
    /\ page = "records"
    /\ message = "none"
    /\ allOn' = ~allOn
    /\ saveOn' = ~allOn
    /\ otgOn' = (~allOn /\ (otgOn \/ otgReady))
    /\ selected' = IF allOn THEN {} ELSE shown
    /\ UNCHANGED <<lists, page, shown, refreshed, message, device, player, job, modeAsked,
                   indicator, silent, crashed>>

FaultItemClick(pos) ==   \* seeded bug: rows are counted from 1
    /\ page = "records"
    /\ pos \in 0..Cardinality(shown)
    /\ message = "none"
    /\ page' = "opening"
    /\ clicked' = [pos |-> pos + 1, of |-> Cardinality(shown)]
    /\ selected' = {} /\ allOn' = FALSE /\ saveOn' = FALSE /\ otgOn' = FALSE
    /\ UNCHANGED <<lists, shown, refreshed, message, device, videoList, job, modeAsked,
                   indicator, silent, crashed>>

\* A click on the row at a position; the footer is the row after the last one.
\* resetSelectState, then the player is started.
ItemClick(pos) ==
    /\ page = "records"
    /\ pos \in 0..Cardinality(shown)
    /\ message = "none"
    /\ page' = "opening"
    /\ clicked' = [pos |-> pos, of |-> Cardinality(shown)]
    /\ selected' = {} /\ allOn' = FALSE /\ saveOn' = FALSE /\ otgOn' = FALSE
    /\ UNCHANGED <<lists, shown, refreshed, message, device, videoList, job, modeAsked,
                   indicator, silent, crashed>>

\* onResume of VideoPlayEX, for the first time or again: the stored list, and the clip
\* at the position that was clicked.
VideoResume ==
    /\ page \in {"opening", "videoAway"}
    /\ message = "none"
    /\ videoList' = IF pref = None THEN {Sample} ELSE pref
    /\ IF clicked.pos < Cardinality(videoList')
       THEN page' = "video" /\ UNCHANGED crashed
       ELSE crashed' = "position" /\ UNCHANGED page
    /\ UNCHANGED <<lists, shown, selected, refreshed, toolbar, device, clicked, job,
                   modeAsked, indicator, silent>>

----------------------------------------------------------------------------
(* Saving *)

NewJob(j, kind, items, list) ==
    /\ job[j].pc = "idle"
    /\ job' = [job EXCEPT ![j] = [pc |-> "start", kind |-> kind, items |-> items, list |-> list]]

\* The two save buttons of Records.
SaveSelected(j, kind) ==
    /\ page = "records"
    /\ message = "none"
    /\ IF kind = "phone" THEN saveOn ELSE otgOn
    /\ NewJob(j, kind, selected, shown)
    /\ indicator' = TRUE
    /\ UNCHANGED <<lists, page, shown, selected, refreshed, toolbar, device, player,
                   modeAsked, silent, crashed>>

\* The save buttons of VideoPlayEX save the current clip, any of the list as the user
\* moves through it. (Saving the sample clip is left out.)
SaveCurrent(j, kind, c) ==
    /\ page = "video"
    /\ c \in videoList
    /\ kind = "otg" => usb
    /\ NewJob(j, kind, {c}, videoList)
    /\ UNCHANGED <<lists, page, shown, selected, refreshed, toolbar, device, player,
                   modeAsked, indicator, silent, crashed>>

\* The list of the page whose receiver is registered.
Listed == IF page = "records" THEN shown ELSE videoList

\* The receivers: the indicator is hidden, then each saved item is looked up. The answer
\* of an early failure carries no array, and its length is read all the same.
Receive(j, early, saved) ==
    /\ job' = [job EXCEPT ![j].pc = "idle"]
    /\ IF page \in {"records", "video"}
       THEN /\ crashed' =
                 IF early THEN "noArray"
                 ELSE IF \E c \in saved : Position(c, job[j].list) >= Cardinality(Listed)
                 THEN "index" ELSE "no"
            /\ indicator' = (indicator /\ page = "video")
            /\ silent' = (page = "video")
       ELSE silent' = TRUE /\ UNCHANGED <<indicator, crashed>>
    /\ UNCHANGED <<lists, page, shown, selected, refreshed, toolbar, device, player, modeAsked>>

FaultStartSave(j) ==   \* seeded bug: the early returns do not send their answer
    /\ job[j].pc = "start"
    /\ job' = [job EXCEPT ![j].pc = IF job[j].kind = "otg" /\ ~usb THEN "idle" ELSE "copy"]
    /\ UNCHANGED <<lists, page, shown, selected, refreshed, toolbar, device, player,
                   modeAsked, indicator, silent, crashed>>

\* The checks before the downloads: the phone's storage or the device's file system may
\* fail. Without a device nothing is answered.
StartSave(j) ==
    /\ job[j].pc = "start"
    /\ IF job[j].kind = "otg" /\ ~usb
       THEN /\ job' = [job EXCEPT ![j].pc = "idle"]
            /\ silent' = TRUE
            /\ UNCHANGED <<lists, page, shown, selected, refreshed, toolbar, device, player,
                           modeAsked, indicator, crashed>>
       ELSE \/ Receive(j, TRUE, {})
            \/ /\ job' = [job EXCEPT ![j].pc = "copy"]
               /\ UNCHANGED <<lists, page, shown, selected, refreshed, toolbar, device,
                              player, modeAsked, indicator, silent, crashed>>

\* ACTION_SAVE_TO_PROGRESS.
Progress(j) ==
    /\ job[j].pc = "copy"
    /\ job[j].items # {}
    /\ page = "records"
    /\ indicator' = TRUE
    /\ UNCHANGED <<lists, page, shown, selected, refreshed, toolbar, device, player, job,
                   modeAsked, silent, crashed>>

\* The answer after the downloads: any of them may have failed. On a device a file that
\* cannot be created ends the job as the early failures do.
Answer(j) ==
    /\ job[j].pc = "copy"
    /\ \/ \E saved \in SUBSET job[j].items : Receive(j, FALSE, saved)
       \/ job[j].kind = "otg" /\ job[j].items # {} /\ Receive(j, TRUE, {})

----------------------------------------------------------------------------
(* The OTG device *)

FaultDetach ==   \* seeded bug: only the button is disabled
    /\ usb
    /\ usb' = FALSE
    /\ IF page = "records"
       THEN otgOn' = FALSE /\ UNCHANGED <<otgReady, missed>>
       ELSE missed' = TRUE /\ UNCHANGED <<otgReady, otgOn>>
    /\ UNCHANGED <<lists, page, shown, selected, refreshed, saveOn, allOn, message, player,
                   job, modeAsked, indicator, silent, crashed>>

Detach ==
    /\ usb
    /\ usb' = FALSE
    /\ IF page = "records"
       THEN otgReady' = FALSE /\ otgOn' = FALSE /\ UNCHANGED missed
       ELSE missed' = TRUE /\ UNCHANGED <<otgReady, otgOn>>
    /\ UNCHANGED <<lists, page, shown, selected, refreshed, saveOn, allOn, message, player,
                   job, modeAsked, indicator, silent, crashed>>

\* The button is disabled if something is selected.
Attach ==
    /\ ~usb
    /\ usb' = TRUE
    /\ IF page = "records"
       THEN /\ otgReady' = TRUE
            /\ otgOn' = (otgOn /\ selected = {})
            /\ missed' = FALSE
       ELSE UNCHANGED <<otgReady, otgOn, missed>>
    /\ UNCHANGED <<lists, page, shown, selected, refreshed, saveOn, allOn, message, player,
                   job, modeAsked, indicator, silent, crashed>>

\* ACTION_USB_PERMISSION: the user was asked when the device was attached or the page
\* came up, and answers while the device is there.
Permission(granted) ==
    /\ usb
    /\ page = "records"
    /\ otgReady' = granted
    /\ otgOn' = (granted /\ otgOn /\ selected = {})
    /\ missed' = FALSE
    /\ UNCHANGED <<lists, page, shown, selected, refreshed, saveOn, allOn, message, usb,
                   player, job, modeAsked, indicator, silent, crashed>>

----------------------------------------------------------------------------

Step ==
    \/ \E l \in Lister : Download(l) \/ StoreList(l) \/ NotifyRecordingListChange(l)
    \/ \E fresh \in BOOLEAN : OpenRecords(fresh)
    \/ \E l \in Lister, wrongMode \in BOOLEAN : RegisterReceiver(l, wrongMode)
    \/ ModeAnswer \/ Leave
    \/ \E c \in Clip : ToggleItem(c)
    \/ UpdateToolBar \/ SelectAll
    \/ \E pos \in 0..Cardinality(shown) : ItemClick(pos)
    \/ VideoResume
    \/ \E j \in Job, kind \in {"phone", "otg"} : SaveSelected(j, kind)
    \/ \E j \in Job, kind \in {"phone", "otg"}, c \in Clip : SaveCurrent(j, kind, c)
    \/ \E j \in Job : StartSave(j) \/ Progress(j) \/ Answer(j)
    \/ Attach \/ Detach
    \/ \E granted \in BOOLEAN : Permission(granted)

\* A process that ended does nothing more.
Next == crashed = "no" /\ Step

Spec == Init /\ [][Next]_vars

----------------------------------------------------------------------------
(* Properties *)

\* The page shows the stored list whenever no thread is between storing one and
\* telling: the receiver is registered after the list was read, but the request
\* that onResume ends with brings the broadcast that was lost in between.
ShownListFresh ==
    page = "records" /\ Listing = {} /\ pref # None => shown = pref

\* The progress indicator of Records is visible only while something is under way
\* that ends with an answer, unless that answer was sent while the page was not on
\* screen, or the job found no device and says nothing.
IndicatorExplained == indicator => Saving # {} \/ modeAsked \/ silent

\* The save buttons are enabled without a selection only when the list was replaced
\* under it, or when "select all" selected nothing.
SaveEnabledExplained ==
    page = "records" /\ (saveOn \/ otgOn) /\ selected = {} /\ message = "none"
        => refreshed \/ allOn

\* Records takes a device for ready only while it is attached, unless it was detached
\* while the page was not on screen.
OtgReadyExplained == otgReady => usb \/ missed

\* An answer or a click that refers to a row that is not there needs a list that got
\* shorter between the request and its use, or a click on the footer. This is about rows
\* only: an early failure, of which any page on screen hears, always ends the process.
CrashExplained ==
    /\ crashed = "index" => \E j \in Job : Cardinality(Listed) < Cardinality(job[j].list)
    /\ crashed = "position" => clicked.pos = clicked.of \/ Cardinality(videoList) < clicked.of
=============================================================================
