--------------------------- MODULE Recordings_proofs ---------------------------
(***************************************************************************)
(* The safety of Recordings, for any clips, any number of threads that     *)
(* save and any number that download the list.                             *)
(***************************************************************************)
EXTENDS Recordings, FiniteSetTheorems, TLAPS

Lists == SUBSET (Clip \cup {Sample})

ListerState == [pc : {"idle", "get", "store", "notify"}, list : Lists]

JobState == [pc : {"idle", "start", "copy"}, kind : {"phone", "otg"}, items : Lists, list : Lists]

Types ==
    /\ pref \in Lists \cup {None}
    /\ lister \in [Lister -> ListerState]
    /\ shown \in Lists /\ selected \in SUBSET shown
    /\ videoList \in Lists
    /\ job \in [Job -> JobState] /\ \A j \in Job : job[j].items \subseteq job[j].list

\* Messages are handled before the page is left. While one waits that something was selected,
\* nothing is selected only if the list was replaced meanwhile.
MessageInv ==
    /\ message \in {"none", "select", "unselect"}
    /\ message # "none" => page = "records"
    /\ message = "select" /\ selected = {} => refreshed


-----------------------------------------------------------------------------
\* Lists and the states of the threads that the actions name.
LEMMA StateTypes ==
  /\ {} \in Lists /\ {Sample} \in Lists
  /\ \A list \in SUBSET Clip : list \in Lists
  /\ \A list \in Lists : \A part \in SUBSET list : part \in Lists
  /\ Idle \in ListerState /\ NoJob \in JobState
  /\ \A s \in ListerState, pc \in {"idle", "get", "store", "notify"} :
        [s EXCEPT !.pc = pc] \in ListerState
BY DEF Lists, Idle, NoJob, ListerState, JobState

\* A thread that saves starts with some clips of a list, and keeps them.
LEMMA JobTypes ==
  ASSUME job \in [Job -> JobState], \A i \in Job : job[i].items \subseteq job[i].list,
         NEW j \in Job,
         \/ UNCHANGED job
         \/ \E pc \in {"idle", "copy"} : job' = [job EXCEPT ![j].pc = pc]
         \/ \E kind \in {"phone", "otg"}, list \in Lists : \E items \in SUBSET list :
               job' = [job EXCEPT ![j] = [pc |-> "start", kind |-> kind, items |-> items,
                                          list |-> list]]
  PROVE  job' \in [Job -> JobState] /\ \A i \in Job : job'[i].items \subseteq job'[i].list
<1>1. CASE \E pc \in {"idle", "copy"} : job' = [job EXCEPT ![j].pc = pc]
  BY <1>1 DEF JobState
<1>2. ASSUME NEW kind \in {"phone", "otg"}, NEW list \in Lists, NEW items \in SUBSET list,
             job' = [job EXCEPT ![j] = [pc |-> "start", kind |-> kind, items |-> items,
                                        list |-> list]]
      PROVE  job' \in [Job -> JobState] /\ \A i \in Job : job'[i].items \subseteq job'[i].list
  <2>1. [pc |-> "start", kind |-> kind, items |-> items, list |-> list] \in JobState
    BY StateTypes DEF JobState
  <2> QED
    BY <1>2, <2>1
<1> QED
  BY <1>1, <1>2

\* Every variable keeps its type: only clips that are listed are selected, and only clips of
\* the list that was shown are saved.
THEOREM RecordingsTypes == Spec => [](Types /\ MessageInv)
<1> USE DEF Types, MessageInv
<1>1. Init => Types /\ MessageInv
  <2> SUFFICES ASSUME Init PROVE Types /\ MessageInv
    OBVIOUS
  <2>1. PICK busy \in SUBSET Lister :
            lister = [l \in Lister |-> IF l \in busy THEN [Idle EXCEPT !.pc = "get"] ELSE Idle]
    BY DEF Init
  <2>2. lister \in [Lister -> ListerState]
    BY <2>1, StateTypes
  <2>3. job \in [Job -> JobState] /\ \A j \in Job : job[j].items \subseteq job[j].list
    BY StateTypes DEF Init, NoJob
  <2> QED
    BY <2>2, <2>3, StateTypes DEF Init
<1>2. Types /\ MessageInv /\ [Next]_vars => Types' /\ MessageInv'
  <2> SUFFICES ASSUME Types, MessageInv, [Next]_vars PROVE Types' /\ MessageInv'
    OBVIOUS
  <2> USE DEF lists, toolbar, device, player
  <2>1. ASSUME NEW l \in Lister, Download(l) PROVE Types' /\ MessageInv'
    <3>1. \E u \in ListerState : lister' = [lister EXCEPT ![l] = u]
      <4>1. CASE \E list \in SUBSET Clip :
                   lister' = [lister EXCEPT ![l] = [pc |-> "store", list |-> list]]
        BY <4>1, StateTypes DEF ListerState
      <4>2. CASE lister' = [lister EXCEPT ![l].pc = "notify"]
        BY <4>2, StateTypes
      <4> QED
        BY <2>1, <4>1, <4>2 DEF Download
    <3>2. lister' \in [Lister -> ListerState]
      BY <3>1
    <3> QED
      BY <2>1, <3>2 DEF Download
  <2>2. ASSUME NEW l \in Lister, StoreList(l) PROVE Types' /\ MessageInv'
    <3>1. lister' \in [Lister -> ListerState]
      BY <2>2, StateTypes DEF StoreList
    <3>2. lister[l].list \in Lists
      BY DEF ListerState
    <3> QED
      BY <2>2, <3>1, <3>2 DEF StoreList
  <2>3. ASSUME NEW l \in Lister, NotifyRecordingListChange(l) PROVE Types' /\ MessageInv'
    <3>1. lister' \in [Lister -> ListerState]
      BY <2>3, StateTypes DEF NotifyRecordingListChange
    <3>2. lister[l].list \in Lists
      BY DEF ListerState
    <3> QED
      BY <2>3, <3>1, <3>2 DEF NotifyRecordingListChange, UpdateList
  <2>4. ASSUME NEW fresh \in BOOLEAN, OpenRecords(fresh) PROVE Types' /\ MessageInv'
    BY <2>4, StateTypes DEF OpenRecords, UpdateList
  <2>5. ASSUME NEW l \in Lister, NEW wrongMode \in BOOLEAN, RegisterReceiver(l, wrongMode) PROVE Types' /\ MessageInv'
    <3>1. lister' \in [Lister -> ListerState]
      BY <2>5, StateTypes DEF RegisterReceiver, GetRecordingList
    <3>2. lister[l].list \in Lists
      BY DEF ListerState
    <3> QED
      BY <2>5, <3>1, <3>2 DEF RegisterReceiver, GetRecordingList
  <2>6. CASE ModeAnswer
    BY <2>6 DEF ModeAnswer, UpdateList
  <2>7. CASE Leave
    BY <2>7, StateTypes DEF Leave
  <2>8. ASSUME NEW c \in Clip, ToggleItem(c) PROVE Types' /\ MessageInv'
    BY <2>8 DEF ToggleItem
  <2>9. CASE UpdateToolBar
    BY <2>9 DEF UpdateToolBar
  <2>10. CASE SelectAll
    BY <2>10 DEF SelectAll
  <2>11. ASSUME NEW pos \in 0..Cardinality(shown), ItemClick(pos) PROVE Types' /\ MessageInv'
    BY <2>11 DEF ItemClick
  <2>12. CASE VideoResume
    BY <2>12, StateTypes DEF VideoResume
  <2>13. ASSUME NEW j \in Job, NEW kind \in {"phone", "otg"}, SaveSelected(j, kind) PROVE Types' /\ MessageInv'
    <3>1. job' \in [Job -> JobState] /\ \A i \in Job : job'[i].items \subseteq job'[i].list
      <4>1. selected \in SUBSET shown /\ shown \in Lists
        OBVIOUS
      <4> QED
        BY <2>13, <4>1, JobTypes DEF SaveSelected, NewJob
    <3> QED
      BY <2>13, <3>1 DEF SaveSelected, NewJob
  <2>14. ASSUME NEW j \in Job, NEW kind \in {"phone", "otg"}, NEW c \in Clip, SaveCurrent(j, kind, c) PROVE Types' /\ MessageInv'
    <3>1. job' \in [Job -> JobState] /\ \A i \in Job : job'[i].items \subseteq job'[i].list
      <4>1. {c} \in SUBSET videoList
        BY <2>14 DEF SaveCurrent
      <4> QED
        BY <2>14, <4>1, JobTypes DEF SaveCurrent, NewJob
    <3> QED
      BY <2>14, <3>1 DEF SaveCurrent, NewJob
  <2>15. ASSUME NEW j \in Job, StartSave(j) PROVE Types' /\ MessageInv'
    <3>1. job' \in [Job -> JobState] /\ \A i \in Job : job'[i].items \subseteq job'[i].list
      BY <2>15, JobTypes DEF StartSave, Receive
    <3> QED
      BY <2>15, <3>1 DEF StartSave, Receive
  <2>16. ASSUME NEW j \in Job, Progress(j) PROVE Types' /\ MessageInv'
    BY <2>16 DEF Progress
  <2>17. ASSUME NEW j \in Job, Answer(j) PROVE Types' /\ MessageInv'
    <3>1. job' \in [Job -> JobState] /\ \A i \in Job : job'[i].items \subseteq job'[i].list
      BY <2>17, JobTypes DEF Answer, Receive
    <3> QED
      BY <2>17, <3>1 DEF Answer, Receive
  <2>18. CASE Attach
    BY <2>18 DEF Attach
  <2>19. CASE Detach
    BY <2>19 DEF Detach
  <2>20. ASSUME NEW granted \in BOOLEAN, Permission(granted) PROVE Types' /\ MessageInv'
    BY <2>20 DEF Permission
  <2>21. CASE UNCHANGED vars
    BY <2>21 DEF vars
  <2> QED
    BY <2>1, <2>2, <2>3, <2>4, <2>5, <2>6, <2>7, <2>8, <2>9, <2>10, <2>11, <2>12, <2>13, <2>14, <2>15, <2>16, <2>17, <2>18, <2>19, <2>20, <2>21 DEF Next, Step
<1> QED
  BY <1>1, <1>2, PTL DEF Spec

-----------------------------------------------------------------------------
\* The page shows the stored list unless a download is on its way (NotifyRecordingListChange
\* against updateList and the registration of the receiver).
THEOREM ListFresh == Spec => []ShownListFresh
<1>1. Init => ShownListFresh
  BY DEF Init, ShownListFresh
<1>2. Types /\ ShownListFresh /\ [Next]_vars => ShownListFresh'
  <2> SUFFICES ASSUME Types, ShownListFresh, [Next]_vars PROVE ShownListFresh'
    OBVIOUS
  <2> USE DEF ShownListFresh, Listing
  <2>1. CASE UNCHANGED <<lists, page, shown>>
    BY <2>1 DEF lists
  <2>2. ASSUME NEW l \in Lister, Download(l) \/ StoreList(l) PROVE ShownListFresh'
    <3>1. lister'[l].pc \in {"store", "notify"}
      BY <2>2 DEF Download, StoreList, Types, ListerState, Idle
    <3> QED
      BY <3>1
  <2>3. ASSUME NEW l \in Lister, NotifyRecordingListChange(l) PROVE ShownListFresh'
    BY <2>3 DEF NotifyRecordingListChange, UpdateList
  <2>4. ASSUME NEW fresh \in BOOLEAN, OpenRecords(fresh) PROVE ShownListFresh'
    BY <2>4 DEF OpenRecords
  <2>5. ASSUME NEW l \in Lister, NEW wrongMode \in BOOLEAN, RegisterReceiver(l, wrongMode)
        PROVE  ShownListFresh'
    BY <2>5 DEF RegisterReceiver, GetRecordingList, Types, Idle
  <2>6. CASE ModeAnswer
    BY <2>6 DEF ModeAnswer, UpdateList, lists
  <2>7. CASE UNCHANGED <<lists, shown>> /\ page' # "records"
    BY <2>7
  <2>8. ASSUME ~UNCHANGED <<lists, page, shown>>, ~(UNCHANGED <<lists, shown>> /\ page' # "records")
        PROVE  \/ \E l \in Lister : Download(l) \/ StoreList(l) \/ NotifyRecordingListChange(l)
               \/ \E fresh \in BOOLEAN : OpenRecords(fresh)
               \/ \E l \in Lister, wrongMode \in BOOLEAN : RegisterReceiver(l, wrongMode)
               \/ ModeAnswer
    BY <2>8 DEF Next, Step, vars, Leave, ToggleItem, UpdateToolBar, SelectAll, ItemClick,
       VideoResume, SaveSelected, SaveCurrent, NewJob, StartSave, Receive, Progress, Answer,
       Attach, Detach, Permission
  <2> QED
    BY <2>1, <2>2, <2>3, <2>4, <2>5, <2>6, <2>7, <2>8
<1> QED
  BY <1>1, <1>2, RecordingsTypes, PTL DEF Spec

\* The progress indicator has a job or a mode switch to end it, or an answer was lost or never
\* sent (showing it in Records against the receivers and the early failures).
THEOREM Indicator == Spec => []IndicatorExplained
<1>1. Init => IndicatorExplained
  BY DEF Init, IndicatorExplained
<1>2. Types /\ IndicatorExplained /\ [Next]_vars => IndicatorExplained'
  <2> SUFFICES ASSUME Types, IndicatorExplained, [Next]_vars PROVE IndicatorExplained'
    OBVIOUS
  <2> USE DEF IndicatorExplained, Saving
  <2>1. CASE UNCHANGED <<job, modeAsked, indicator, silent>>
    BY <2>1
  <2>2. ASSUME NEW fresh \in BOOLEAN, OpenRecords(fresh) PROVE IndicatorExplained'
    BY <2>2 DEF OpenRecords
  <2>3. ASSUME NEW l \in Lister, NEW wrongMode \in BOOLEAN, RegisterReceiver(l, wrongMode)
        PROVE  IndicatorExplained'
    BY <2>3 DEF RegisterReceiver
  <2>4. CASE ModeAnswer
    BY <2>4 DEF ModeAnswer
  <2>5. ASSUME NEW j \in Job, NEW kind \in {"phone", "otg"}, SaveSelected(j, kind)
        PROVE  IndicatorExplained'
    BY <2>5 DEF SaveSelected, NewJob, Types
  <2>6. ASSUME NEW j \in Job, NEW kind \in {"phone", "otg"}, NEW c \in Clip,
               SaveCurrent(j, kind, c)
        PROVE  IndicatorExplained'
    BY <2>6 DEF SaveCurrent, NewJob, Types
  <2>7. ASSUME NEW j \in Job, StartSave(j) PROVE IndicatorExplained'
    BY <2>7, ZenonT(30) DEF StartSave, Receive, Types, JobState
  <2>8. ASSUME NEW j \in Job, Progress(j) PROVE IndicatorExplained'
    BY <2>8 DEF Progress
  <2>9. ASSUME NEW j \in Job, Answer(j) PROVE IndicatorExplained'
    BY <2>9 DEF Answer, Receive
  <2>10. ASSUME ~UNCHANGED <<job, modeAsked, indicator, silent>>
         PROVE  \/ \E fresh \in BOOLEAN : OpenRecords(fresh)
                \/ \E l \in Lister, wrongMode \in BOOLEAN : RegisterReceiver(l, wrongMode)
                \/ ModeAnswer
                \/ \E j \in Job, kind \in {"phone", "otg"} : SaveSelected(j, kind)
                \/ \E j \in Job, kind \in {"phone", "otg"}, c \in Clip : SaveCurrent(j, kind, c)
                \/ \E j \in Job : StartSave(j) \/ Progress(j) \/ Answer(j)
    BY <2>10 DEF Next, Step, vars, Download, StoreList, NotifyRecordingListChange, Leave,
       ToggleItem, UpdateToolBar, SelectAll, ItemClick, VideoResume, Attach, Detach, Permission
  <2> QED
    BY <2>1, <2>2, <2>3, <2>4, <2>5, <2>6, <2>7, <2>8, <2>9, <2>10
<1> QED
  BY <1>1, <1>2, RecordingsTypes, PTL DEF Spec

\* Records takes a device for ready only while it is there or its detachment was missed (the
\* receiver of Records against attach, detach and permission).
THEOREM OtgFlag == Spec => []OtgReadyExplained
<1>1. Init => OtgReadyExplained
  BY DEF Init, OtgReadyExplained
<1>2. OtgReadyExplained /\ [Next]_vars => OtgReadyExplained'
  <2> SUFFICES ASSUME OtgReadyExplained, [Next]_vars PROVE OtgReadyExplained'
    OBVIOUS
  <2> USE DEF OtgReadyExplained
  <2>1. CASE UNCHANGED device
    BY <2>1 DEF device
  <2>2. ASSUME NEW fresh \in BOOLEAN, OpenRecords(fresh) PROVE OtgReadyExplained'
    BY <2>2 DEF OpenRecords
  <2>3. CASE Attach \/ Detach
    BY <2>3 DEF Attach, Detach
  <2>4. ASSUME NEW granted \in BOOLEAN, Permission(granted) PROVE OtgReadyExplained'
    BY <2>4 DEF Permission
  <2>5. ASSUME ~UNCHANGED device
        PROVE  \/ \E fresh \in BOOLEAN : OpenRecords(fresh)
               \/ Attach \/ Detach
               \/ \E granted \in BOOLEAN : Permission(granted)
    BY <2>5 DEF Next, Step, vars, Download, StoreList, NotifyRecordingListChange,
       RegisterReceiver, ModeAnswer, Leave, ToggleItem, UpdateToolBar, SelectAll, ItemClick,
       VideoResume, SaveSelected, SaveCurrent, StartSave, Receive, Progress, Answer
  <2> QED
    BY <2>1, <2>2, <2>3, <2>4, <2>5
<1> QED
  BY <1>1, <1>2, PTL DEF Spec

\* The save buttons are enabled without a selection only after the list was replaced under it,
\* or by selecting all of nothing (mHandler, updateList and the buttons of Records).
THEOREM SaveButtons == Spec => []SaveEnabledExplained
<1>1. Init => SaveEnabledExplained
  BY DEF Init, SaveEnabledExplained
<1>2. Types /\ MessageInv /\ SaveEnabledExplained /\ [Next]_vars => SaveEnabledExplained'
  <2> SUFFICES ASSUME MessageInv, SaveEnabledExplained, [Next]_vars PROVE SaveEnabledExplained'
    OBVIOUS
  <2> USE DEF SaveEnabledExplained, MessageInv
  <2>1. CASE UNCHANGED <<page, selected, refreshed, toolbar>> \/ page' # "records"
    BY <2>1 DEF toolbar
  <2>2. ASSUME NEW l \in Lister, NotifyRecordingListChange(l) PROVE SaveEnabledExplained'
    BY <2>2 DEF NotifyRecordingListChange, UpdateList, toolbar
  <2>3. ASSUME NEW l \in Lister, NEW wrongMode \in BOOLEAN, RegisterReceiver(l, wrongMode)
        PROVE  SaveEnabledExplained'
    BY <2>3 DEF RegisterReceiver
  <2>4. CASE ModeAnswer
    BY <2>4 DEF ModeAnswer, UpdateList, toolbar
  <2>5. ASSUME NEW c \in Clip, ToggleItem(c) PROVE SaveEnabledExplained'
    BY <2>5 DEF ToggleItem
  <2>6. CASE UpdateToolBar
    BY <2>6 DEF UpdateToolBar
  <2>7. CASE SelectAll
    BY <2>7 DEF SelectAll
  <2>8. CASE Attach \/ Detach
    BY <2>8 DEF Attach, Detach
  <2>9. ASSUME NEW granted \in BOOLEAN, Permission(granted) PROVE SaveEnabledExplained'
    BY <2>9 DEF Permission
  <2>10. ASSUME ~UNCHANGED <<page, selected, refreshed, toolbar>>, page' = "records"
         PROVE  \/ \E l \in Lister : NotifyRecordingListChange(l)
                \/ \E l \in Lister, wrongMode \in BOOLEAN : RegisterReceiver(l, wrongMode)
                \/ ModeAnswer \/ (\E c \in Clip : ToggleItem(c))
                \/ UpdateToolBar \/ SelectAll \/ Attach \/ Detach
                \/ \E granted \in BOOLEAN : Permission(granted)
    BY <2>10 DEF Next, Step, vars, Download, StoreList, OpenRecords, Leave, ItemClick,
       VideoResume, SaveSelected, SaveCurrent, StartSave, Receive, Progress, Answer
  <2> QED
    BY <2>1, <2>2, <2>3, <2>4, <2>5, <2>6, <2>7, <2>8, <2>9, <2>10
<1> QED
  BY <1>1, <1>2, RecordingsTypes, PTL DEF Spec

-----------------------------------------------------------------------------
\* A row that was clicked is at most the footer.
ClickInv == clicked.pos \in Int /\ clicked.of \in Int /\ clicked.pos <= clicked.of

\* No position is used that is not there unless the list got shorter or the footer was clicked
\* (the receivers of Records and VideoPlayEX, and onResume of VideoPlayEX).
THEOREM RowsThere == Spec => []CrashExplained
<1>0. ASSUME NEW list \in Lists, NEW c \in list
      PROVE  /\ IsFiniteSet(list) /\ Cardinality(list) \in Nat
             /\ Position(c, list) \in Nat /\ Position(c, list) < Cardinality(list)
  <2>1. IsFiniteSet(Clip \cup {Sample})
    BY RecordingsAssumption, FS_AddElement
  <2>2. IsFiniteSet(list)
    BY <2>1, FS_Subset DEF Lists
  <2>3. c \in Nat
    BY RecordingsAssumption DEF Lists, Sample
  <2> DEFINE before == {d \in list : d < c}
  <2>4. before \subseteq list /\ c \notin before
    BY <2>3
  <2>5. IsFiniteSet(before) /\ Cardinality(before) <= Cardinality(list)
        /\ Cardinality(before) # Cardinality(list)
    BY <2>2, <2>4, FS_Subset
  <2>6. Cardinality(before) \in Nat /\ Cardinality(list) \in Nat
    BY <2>2, <2>5, FS_CardinalityType
  <2> QED
    BY <2>2, <2>5, <2>6 DEF Position
<1>1. Init => CrashExplained /\ ClickInv
  BY DEF Init, CrashExplained, ClickInv
<1>2. Types /\ CrashExplained /\ ClickInv /\ [Next]_vars => CrashExplained' /\ ClickInv'
  <2> SUFFICES ASSUME Types, CrashExplained, ClickInv, [Next]_vars
               PROVE  CrashExplained' /\ ClickInv'
    OBVIOUS
  <2>1. CASE UNCHANGED vars
    BY <2>1 DEF vars, player, CrashExplained, ClickInv, Listed
  <2>2. CASE crashed' = "no" /\ UNCHANGED clicked
    BY <2>2 DEF CrashExplained, ClickInv
  <2>3. ASSUME crashed' = "no", clicked' = [pos |-> 0, of |-> 0]
        PROVE  CrashExplained' /\ ClickInv'
    BY <2>3 DEF CrashExplained, ClickInv
  <2>4. ASSUME NEW pos \in 0..Cardinality(shown), ItemClick(pos), crashed = "no"
        PROVE  CrashExplained' /\ ClickInv'
    <3>1. IsFiniteSet(shown)
      BY RecordingsAssumption, FS_AddElement, FS_Subset DEF Types, Lists
    <3>2. Cardinality(shown) \in Nat
      BY <3>1, FS_CardinalityType
    <3> QED
      BY <2>4, <3>2 DEF ItemClick, CrashExplained, ClickInv
  <2>5. ASSUME VideoResume, crashed = "no" PROVE CrashExplained' /\ ClickInv'
    <3>1. videoList' \in Lists
      BY <2>5 DEF VideoResume, Types, Lists
    <3>2. IsFiniteSet(videoList')
      BY <3>1, RecordingsAssumption, FS_AddElement, FS_Subset DEF Lists
    <3>3. Cardinality(videoList') \in Nat
      BY <3>2, FS_CardinalityType
    <3> QED
      BY <2>5, <3>3 DEF VideoResume, CrashExplained, ClickInv
  <2>6. ASSUME NEW j \in Job, NEW early \in BOOLEAN, NEW saved \in SUBSET job[j].list,
               Receive(j, early, saved), crashed = "no"
        PROVE  CrashExplained' /\ ClickInv'
    <3>1. ClickInv' /\ UNCHANGED <<page, shown, videoList, clicked>>
      BY <2>6 DEF Receive, ClickInv, player
    <3>2. job[j].list \in Lists /\ job'[j].list = job[j].list
      BY <2>6 DEF Receive, Types, JobState
    <3>3. Listed' = Listed /\ Listed \in Lists
      BY <3>1 DEF Listed, Types
    <3>4. Cardinality(Listed) \in Nat
      <4>1. IsFiniteSet(Listed)
        BY <3>3, RecordingsAssumption, FS_AddElement, FS_Subset DEF Lists
      <4> QED
        BY <4>1, FS_CardinalityType
    <3>5. crashed' \in {"no", "noArray", "index"}
      BY <2>6 DEF Receive
    <3>6. ASSUME crashed' = "index" PROVE Cardinality(Listed) < Cardinality(job[j].list)
      <4>1. PICK c \in saved : Position(c, job[j].list) >= Cardinality(Listed)
        BY <2>6, <3>6 DEF Receive
      <4> QED
        BY <2>6, <3>2, <3>4, <4>1, <1>0
    <3> QED
      BY <3>1, <3>2, <3>3, <3>5, <3>6 DEF CrashExplained
  <2>7. ASSUME Step, crashed = "no", crashed' # "no" \/ ~UNCHANGED clicked,
               ~(crashed' = "no" /\ clicked' = [pos |-> 0, of |-> 0])
        PROVE  \/ \E pos \in 0..Cardinality(shown) : ItemClick(pos)
               \/ VideoResume
               \/ \E j \in Job : \E early \in BOOLEAN, saved \in SUBSET job[j].list :
                     Receive(j, early, saved)
    <3>1. ASSUME NEW j \in Job, StartSave(j) \/ Answer(j),
                 crashed' # "no" \/ ~UNCHANGED clicked
          PROVE  \E early \in BOOLEAN, saved \in SUBSET job[j].list : Receive(j, early, saved)
      BY <2>7, <3>1 DEF StartSave, Answer, Types, player
    <3> QED
      BY <2>7, <3>1 DEF Step, Download, StoreList, NotifyRecordingListChange, OpenRecords,
         RegisterReceiver, ModeAnswer, Leave, ToggleItem, UpdateToolBar, SelectAll,
         SaveSelected, SaveCurrent, Progress, Attach, Detach, Permission, player
  <2> QED
    BY <2>1, <2>2, <2>3, <2>4, <2>5, <2>6, <2>7 DEF Next
<1> QED
  <2>1. Spec => [](CrashExplained /\ ClickInv)
    BY <1>1, <1>2, RecordingsTypes, PTL DEF Spec
  <2> QED
    BY <2>1, PTL
================================================================================
