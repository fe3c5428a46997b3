------------------------ MODULE MjpegPlayback_proofs ------------------------
(***************************************************************************)
(* Proofs about MjpegPlayback, for any number of preview instances and of  *)
(* ReadDVR executions.                                                     *)
(***************************************************************************)
EXTENDS MjpegPlayback, TLAPS

\* A request for a stream of i is in flight.
Requested(i) == \E t \in Task : taskFor[t] = i /\ status[t] \in InFlight

\* stopPlayback was called for a view that was streaming, by onPause or a click.
Interrupted(i) == joining = i /\ then # "surface"

\* While mRun is set the view holds a stream and a thread that was started, and
\* neither suspend flag is set; once it is clear, and the join is over, the view
\* holds no stream, and no thread but the one its constructor made.
ViewInv ==
  \A i \in Instance :
    /\ thread[i] # None => View(thread[i]) = i
    /\ mRun[i] => /\ thread[i] # None /\ mIn[i] # None /\ joining # i
                  /\ rpc[thread[i]] \in Alive \cup {"ended"}
                  /\ ~suspending[i] /\ ~mIsSuspend[i]
    /\ ~mRun[i] /\ joining # i => /\ mIn[i] = None
                                  /\ thread[i] # None => thread[i] = i /\ rpc[i] = "new"
    /\ mIn[i] # None => taskFor[mIn[i]] = i /\ status[mIn[i]] \in {"played", "late"}
    /\ mIsSuspend[i] => ~Interrupted(i)

\* A render thread in its loop is the one its view refers to and will join; past
\* the head of the loop its surface is valid.  Only the constructors' threads
\* exist unstarted, and a task's thread is born with the delivery of its stream.
ThreadInv ==
  \A th \in Thread :
    /\ rpc[th] \in Alive => /\ View(th) \in Instance /\ thread[View(th)] = th
                            /\ mIn[View(th)] # None
                            /\ rpc[th] # "loop" => SurfaceValid(View(th))
    /\ th \in Task => /\ rpc[th] # "new"
                      /\ rpc[th] # "unborn" => status[th] \in {"played", "late"}

\* A request is in flight only for a view that holds nothing and awaits nothing
\* else, and there is one per view.
TaskInv ==
  \A t \in Task :
    /\ status[t] \in InFlight =>
         LET i == taskFor[t]
         IN  /\ ~mRun[i] /\ mIn[i] = None /\ ~mIsSuspend[i] /\ ~Interrupted(i)
             /\ \A u \in Task : taskFor[u] = i /\ status[u] \in InFlight => u = t
    /\ t \in open <=> status[t] = "opened" \/ (taskFor[t] # None /\ mIn[taskFor[t]] = t)

\* Where the activity is in its life limits what the UI thread and the view do.
LifeInv ==
  \A i \in Instance :
    /\ joining = i => /\ ~mRun[i] /\ then # "nothing"
                      /\ then = "surface" <=> life[i] # "resumed"
    /\ life[i] = "absent" => /\ thread[i] = None /\ rpc[i] = "unborn"
                             /\ ~mRun[i] /\ ~mIsSuspend[i] /\ ~Requested(i) /\ joining # i
    /\ life[i] = "resumed" => ~mIsSuspend[i]
    /\ life[i] # "resumed" /\ mIn[i] # None => status[mIn[i]] = "late"

Living(i) == life[i] \notin {"absent", "destroyed"}

\* An instance on screen, or that may return to it, is the only one of its kind.
ScreenInv ==
  \A i, j \in Instance :
    /\ i # j /\ Living(i) /\ Living(j)
    /\ life[i] = "resumed" \/ ~finishing[i]
    => finishing[j] /\ life[j] # "resumed"

\* No thread fails on a null source, a null canvas or a thread started twice.
ThreadSafe == crash \in {"none", "badFrame", "nullBuffer"}

\* The native buffer is lost only to a late stream.
BufferInv ==
  rgb = "freed" \/ crash = "nullBuffer" => \E t \in Task : status[t] = "late"

\* The inductive invariant of the core.
IInv ==
  /\ TypeOK /\ ViewInv /\ ThreadInv /\ TaskInv /\ LifeInv /\ ScreenInv
  /\ ThreadSafe

-----------------------------------------------------------------------------
\* Every step of the three kinds of threads keeps the types, and the bookkeeping
\* of which task was executed.
LEMMA TypeStep == TypeOK /\ [Next]_vars => TypeOK'
  <1> SUFFICES ASSUME TypeOK, [Next]_vars PROVE TypeOK'
    OBVIOUS
  <1> USE NameAssumption DEF TypeOK, uiVars, viewVars, taskVars, Alive, InFlight, Posted
  <1>1. ASSUME NEW i \in Instance, NEW t \in Task, Launch(i,t) PROVE TypeOK'
    BY <1>1 DEF Launch, Execute, Thread
  <1>2. ASSUME NEW i \in Instance, Resume(i) PROVE TypeOK'
    BY <1>2 DEF Resume, ResumeMJpegVideo, Execute
  <1>3. ASSUME NEW i \in Instance, Pause(i) PROVE TypeOK'
    <2>1. CASE mRun[i]
      <3>1. BeginStop(i, "pause") /\ UNCHANGED life
        BY <2>1, <1>3, Zenon DEF Pause
      <3>2. UNCHANGED <<finishing, mIsSuspend, surfaceDone, mIn, thread,
                        taskVars, rpc, open, rgb, crash>>
        BY <1>3, Zenon DEF Pause
      <3> QED
        BY <3>1, <3>2 DEF BeginStop
    <2>2. CASE ~mRun[i]
      BY <1>3, <2>2 DEF Pause
    <2> QED
      BY <2>1, <2>2
  <1>4. ASSUME NEW i \in Instance, CameraClick(i) PROVE TypeOK'
    BY <1>4 DEF CameraClick, BeginStop
  <1>5. ASSUME NEW i \in Instance, Leave(i) PROVE TypeOK'
    BY <1>5 DEF Leave
  <1>6. ASSUME NEW i \in Instance, Stop(i) PROVE TypeOK'
    BY <1>6 DEF Stop
  <1>7. ASSUME NEW i \in Instance, Destroy(i) PROVE TypeOK'
    BY <1>7 DEF Destroy, Freed
  <1>8. ASSUME NEW i \in Instance, SurfaceCreated(i) PROVE TypeOK'
    BY <1>8 DEF SurfaceCreated
  <1>9. ASSUME NEW i \in Instance, SurfaceDestroyed(i) PROVE TypeOK'
    BY <1>9 DEF SurfaceDestroyed, BeginStop
  <1>10. ASSUME NEW i \in Instance, JoinReturns(i) PROVE TypeOK'
    <2>1. CASE then = "pause"
      BY <1>10, <2>1, ZenonT(30) DEF JoinReturns
    <2>2. CASE then = "click"
      <3>1. PICK t \in Task : Execute(i, t)
        BY <1>10, <2>2 DEF JoinReturns, ResumeMJpegVideo
      <3>2. /\ thread' = [thread EXCEPT ![i] = None]
            /\ open' = open \ {mIn[i]}
            /\ mIn' = [mIn EXCEPT ![i] = None]
            /\ joining' = None /\ then' = "nothing"
            /\ mIsSuspend' = [mIsSuspend EXCEPT ![i] = FALSE]
            /\ UNCHANGED <<life, finishing, surfaceDone, mRun, suspending, rpc, rgb, crash>>
        BY <1>10, <2>2 DEF JoinReturns, ResumeMJpegVideo
      <3> QED
        BY <3>1, <3>2 DEF Execute
    <2>3. CASE then = "surface"
      BY <1>10, <2>3 DEF JoinReturns
    <2> QED
      BY <1>10, <2>1, <2>2, <2>3 DEF JoinReturns
  <1>11. ASSUME NEW t \in Task, Connect(t) PROVE TypeOK'
    BY <1>11 DEF Connect, Thread
  <1>12. ASSUME NEW t \in Task, Connected(t) PROVE TypeOK'
    BY <1>12, ZenonT(30) DEF Connected, Thread
  <1>13. ASSUME NEW t \in Task, PostExecute(t) PROVE TypeOK'
    <2>1. CASE status[t] = "opened"
      <3>1. taskFor[t] \in Instance
        BY <2>1
      <3>2. SetSource(taskFor[t], t)
        BY <1>13, <2>1 DEF PostExecute
      <3>3. mIn' \in [Instance -> Task \cup {None}] /\ mRun' \in [Instance -> BOOLEAN]
            /\ suspending' \in [Instance -> BOOLEAN]
        BY <3>1, <3>2 DEF SetSource
      <3>4. thread' \in [Instance -> Thread \cup {None}]
        BY <3>1, <3>2 DEF SetSource, Thread
      <3>5. rpc' \in [Thread -> {"unborn", "new", "dead", "ended"} \cup Alive]
            /\ crash' \in {"none", "alreadyStarted"}
        BY <1>13, <3>2 DEF PostExecute, UIFree, SetSource, Thread
      <3>6. status' \in [Task -> {"unused", "played", "late", "failed"} \cup InFlight]
            /\ (\A u \in Task : taskFor[u] = None <=> status'[u] = "unused")
        BY <1>13, <2>1 DEF PostExecute
      <3> QED
        BY <1>13, <3>3, <3>4, <3>5, <3>6 DEF PostExecute
    <2>2. CASE status[t] = "refused"
      BY <1>13, <2>2 DEF PostExecute
    <2> QED
      BY <1>13, <2>1, <2>2 DEF PostExecute
  <1>14. ASSUME NEW th \in Thread, Exit(th) PROVE TypeOK'
    BY <1>14 DEF Exit, At, Goto, Thread
  <1>15. ASSUME NEW th \in Thread, BeginRead(th) PROVE TypeOK'
    BY <1>15, ZenonT(30) DEF BeginRead, At, Goto, Thread
  <1>16. ASSUME NEW th \in Thread, ReadFails(th) PROVE TypeOK'
    BY <1>16 DEF ReadFails, At, Goto, Thread
  <1>17. ASSUME NEW th \in Thread, EndOfStream(th) PROVE TypeOK'
    BY <1>17 DEF EndOfStream, At, Goto, Thread
  <1>18. ASSUME NEW th \in Thread, BadFrame(th) PROVE TypeOK'
    BY <1>18 DEF BadFrame, At, Goto, Thread
  <1>19. ASSUME NEW th \in Thread, BeginDecode(th) PROVE TypeOK'
    BY <1>19 DEF BeginDecode, At, Goto, Thread
  <1>20. ASSUME NEW th \in Thread, EndDecode(th) PROVE TypeOK'
    <2>1. CASE Goto(th, "draw")
      BY <1>20, <2>1 DEF EndDecode, Goto, Thread
    <2>2. CASE Goto(th, "ended")
      BY <1>20, <2>2 DEF EndDecode, Goto, Thread
    <2> QED
      BY <1>20, <2>1, <2>2 DEF EndDecode
  <1>21. ASSUME NEW th \in Thread, Draw(th) PROVE TypeOK'
    BY <1>21, ZenonT(30) DEF Draw, At, Goto, Thread
  <1>22. CASE UNCHANGED vars
    BY <1>22 DEF vars
  <1>23. ASSUME NEW th \in Thread, NullBuffer(th) PROVE TypeOK'
    BY <1>23 DEF NullBuffer, At
  <1> QED
    BY <1>1, <1>2, <1>3, <1>4, <1>5, <1>6, <1>7, <1>8, <1>9, <1>10, <1>11, <1>12, <1>13, <1>14, <1>15, <1>16, <1>17, <1>18, <1>19, <1>20, <1>21, <1>22, <1>23 DEF Next, UI, ReadDVR, Render

-----------------------------------------------------------------------------
\* Every step preserves the inductive invariant.
LEMMA InvStep == IInv /\ TypeOK' /\ [Next]_vars => IInv'
  <1> SUFFICES ASSUME IInv, TypeOK', [Next]_vars PROVE IInv'
    OBVIOUS
  <1> USE NameAssumption
      DEF TypeOK, IInv, ViewInv, ThreadInv, TaskInv, LifeInv, ScreenInv, ThreadSafe,
          Alive, InFlight, Posted, Thread, View, SurfaceValid, Requested, Interrupted, Living, UIFree,
          uiVars, viewVars, taskVars
  <1>1. ASSUME NEW i \in Instance, NEW t \in Task, Launch(i, t) PROVE IInv'
    <2>1. ViewInv'
      BY <1>1 DEF Launch, Execute
    <2>2. ThreadInv'
      BY <1>1 DEF Launch, Execute
    <2>3. TaskInv'
      BY <1>1 DEF Launch, Execute
    <2>4. LifeInv'
      BY <1>1 DEF Launch, Execute
    <2>6. ScreenInv'
      BY <1>1 DEF Launch, Execute
    <2>7. ThreadSafe'
      BY <1>1 DEF Launch, Execute
    <2> QED
      BY <2>1, <2>2, <2>3, <2>4, <2>6, <2>7
  <1>2. ASSUME NEW i \in Instance, Resume(i) PROVE IInv'
    <2>1. CASE mIsSuspend[i]
      <3>e. PICK t \in Task : Execute(i, t)
        BY <1>2, <2>1 DEF Resume, ResumeMJpegVideo
      <3>f. /\ life[i] \in {"paused", "stopped"} /\ ~finishing[i]
            /\ life' = [life EXCEPT ![i] = "resumed"] /\ joining = None
            /\ mIsSuspend' = [mIsSuspend EXCEPT ![i] = FALSE]
            /\ UNCHANGED <<finishing, joining, then, viewVars, rpc, open, rgb, crash>>
        BY <1>2 DEF Resume, ResumeMJpegVideo
      <3>1. ViewInv'
        BY <2>1, <3>e, <3>f DEF Execute
      <3>2. ThreadInv'
        BY <2>1, <3>e, <3>f DEF Execute
      <3>3. TaskInv'
        BY <2>1, <3>e, <3>f DEF Execute
      <3>4. LifeInv'
        BY <2>1, <3>e, <3>f DEF Execute
      <3>6. ScreenInv'
        BY <2>1, <3>e, <3>f DEF Execute
      <3>7. ThreadSafe'
        BY <2>1, <3>e, <3>f DEF Execute
      <3> QED
        BY <3>1, <3>2, <3>3, <3>4, <3>6, <3>7
    <2>2. CASE ~mIsSuspend[i]
      <3>1. ViewInv'
        BY <1>2, <2>2 DEF Resume, ResumeMJpegVideo
      <3>2. ThreadInv'
        BY <1>2, <2>2 DEF Resume, ResumeMJpegVideo
      <3>3. TaskInv'
        BY <1>2, <2>2 DEF Resume, ResumeMJpegVideo
      <3>4. LifeInv'
        BY <1>2, <2>2 DEF Resume, ResumeMJpegVideo
      <3>6. ScreenInv'
        BY <1>2, <2>2 DEF Resume, ResumeMJpegVideo
      <3>7. ThreadSafe'
        BY <1>2, <2>2 DEF Resume, ResumeMJpegVideo
      <3> QED
        BY <3>1, <3>2, <3>3, <3>4, <3>6, <3>7
    <2> QED
      BY <2>1, <2>2
  <1>3. ASSUME NEW i \in Instance, Pause(i) PROVE IInv'
    <2>1. ViewInv'
      BY <1>3 DEF Pause, BeginStop
    <2>2. ThreadInv'
      BY <1>3 DEF Pause, BeginStop
    <2>3. TaskInv'
      BY <1>3 DEF Pause, BeginStop
    <2>4. LifeInv'
      BY <1>3 DEF Pause, BeginStop
    <2>6. ScreenInv'
      BY <1>3 DEF Pause, BeginStop
    <2>7. ThreadSafe'
      BY <1>3 DEF Pause, BeginStop
    <2> QED
      BY <2>1, <2>2, <2>3, <2>4, <2>6, <2>7
  <1>4. ASSUME NEW i \in Instance, CameraClick(i) PROVE IInv'
    <2>1. ViewInv'
      BY <1>4 DEF CameraClick, BeginStop
    <2>2. ThreadInv'
      BY <1>4 DEF CameraClick, BeginStop
    <2>3. TaskInv'
      BY <1>4 DEF CameraClick, BeginStop
    <2>4. LifeInv'
      BY <1>4 DEF CameraClick, BeginStop
    <2>6. ScreenInv'
      BY <1>4 DEF CameraClick, BeginStop
    <2>7. ThreadSafe'
      BY <1>4 DEF CameraClick, BeginStop
    <2> QED
      BY <2>1, <2>2, <2>3, <2>4, <2>6, <2>7
  <1>5. ASSUME NEW i \in Instance, Leave(i) PROVE IInv'
    BY <1>5 DEF Leave
  <1>6. ASSUME NEW i \in Instance, Stop(i) PROVE IInv'
    BY <1>6 DEF Stop
  <1>7. ASSUME NEW i \in Instance, Destroy(i) PROVE IInv'
    <2>1. ViewInv'
      BY <1>7 DEF Destroy
    <2>2. ThreadInv'
      BY <1>7 DEF Destroy
    <2>3. TaskInv'
      BY <1>7 DEF Destroy
    <2>4. LifeInv'
      BY <1>7 DEF Destroy
    <2>6. ScreenInv'
      BY <1>7 DEF Destroy
    <2>7. ThreadSafe'
      BY <1>7 DEF Destroy
    <2> QED
      BY <2>1, <2>2, <2>3, <2>4, <2>6, <2>7
  <1>8. ASSUME NEW i \in Instance, SurfaceCreated(i) PROVE IInv'
    BY <1>8 DEF SurfaceCreated
  <1>9. ASSUME NEW i \in Instance, SurfaceDestroyed(i) PROVE IInv'
    <2>1. ViewInv'
      BY <1>9 DEF SurfaceDestroyed, BeginStop
    <2>2. ThreadInv'
      BY <1>9 DEF SurfaceDestroyed, BeginStop
    <2>3. TaskInv'
      BY <1>9 DEF SurfaceDestroyed, BeginStop
    <2>4. LifeInv'
      BY <1>9 DEF SurfaceDestroyed, BeginStop
    <2>6. ScreenInv'
      BY <1>9 DEF SurfaceDestroyed, BeginStop
    <2>7. ThreadSafe'
      BY <1>9 DEF SurfaceDestroyed, BeginStop
    <2> QED
      BY <2>1, <2>2, <2>3, <2>4, <2>6, <2>7
  <1>10. ASSUME NEW i \in Instance, JoinReturns(i) PROVE IInv'
    <2>f. /\ joining = i /\ crash = "none" /\ CanJoin(i)
          /\ thread' = [thread EXCEPT ![i] = None]
          /\ open' = open \ {mIn[i]}
          /\ mIn' = [mIn EXCEPT ![i] = None]
          /\ joining' = None /\ then' = "nothing"
          /\ UNCHANGED <<finishing, surfaceDone, mRun, suspending, rpc, rgb, crash>>
      BY <1>10 DEF JoinReturns
    <2>1. CASE then = "pause"
      <3>f. /\ mIsSuspend' = [mIsSuspend EXCEPT ![i] = TRUE]
            /\ life' = [life EXCEPT ![i] = "paused"]
            /\ UNCHANGED taskVars
        BY <1>10, <2>1 DEF JoinReturns
      <3>1. ViewInv'
        BY <2>f, <2>1, <3>f DEF CanJoin
      <3>2. ThreadInv'
        BY <2>f, <2>1, <3>f DEF CanJoin
      <3>3. TaskInv'
        BY <2>f, <2>1, <3>f DEF CanJoin
      <3>4. LifeInv'
        BY <2>f, <2>1, <3>f DEF CanJoin
      <3>6. ScreenInv'
        BY <2>f, <2>1, <3>f DEF CanJoin
      <3>7. ThreadSafe'
        BY <2>f, <2>1, <3>f DEF CanJoin
      <3> QED
        BY <3>1, <3>2, <3>3, <3>4, <3>6, <3>7
    <2>2. CASE then = "click"
      <3>e. PICK t \in Task : Execute(i, t)
        BY <1>10, <2>2 DEF JoinReturns, ResumeMJpegVideo
      <3>f. mIsSuspend' = [mIsSuspend EXCEPT ![i] = FALSE] /\ UNCHANGED life
        BY <1>10, <2>2 DEF JoinReturns, ResumeMJpegVideo
      <3>1. ViewInv'
        BY <2>f, <2>2, <3>e, <3>f DEF CanJoin, Execute
      <3>2. ThreadInv'
        BY <2>f, <2>2, <3>e, <3>f DEF CanJoin, Execute
      <3>3. TaskInv'
        BY <2>f, <2>2, <3>e, <3>f DEF CanJoin, Execute
      <3>4. LifeInv'
        BY <2>f, <2>2, <3>e, <3>f DEF CanJoin, Execute
      <3>6. ScreenInv'
        BY <2>f, <2>2, <3>e, <3>f DEF CanJoin, Execute
      <3>7. ThreadSafe'
        BY <2>f, <2>2, <3>e, <3>f DEF CanJoin, Execute
      <3> QED
        BY <3>1, <3>2, <3>3, <3>4, <3>6, <3>7
    <2>3. CASE then = "surface"
      <3>f. UNCHANGED <<mIsSuspend, life, taskVars>>
        BY <1>10, <2>3 DEF JoinReturns
      <3>1. ViewInv'
        BY <2>f, <2>3, <3>f DEF CanJoin
      <3>2. ThreadInv'
        BY <2>f, <2>3, <3>f DEF CanJoin
      <3>3. TaskInv'
        BY <2>f, <2>3, <3>f DEF CanJoin
      <3>4. LifeInv'
        BY <2>f, <2>3, <3>f DEF CanJoin
      <3>6. ScreenInv'
        BY <2>f, <2>3, <3>f DEF CanJoin
      <3>7. ThreadSafe'
        BY <2>f, <2>3, <3>f DEF CanJoin
      <3> QED
        BY <3>1, <3>2, <3>3, <3>4, <3>6, <3>7
    <2> QED
      BY <1>10, <2>1, <2>2, <2>3 DEF JoinReturns
  <1>11. ASSUME NEW t \in Task, Connect(t) PROVE IInv'
    BY <1>11 DEF Connect
  <1>12. ASSUME NEW t \in Task, Connected(t) PROVE IInv'
    <2>1. CASE status' = [status EXCEPT ![t] = "opened"] /\ open' = open \cup {t}
      <3>1. ViewInv'
        BY <1>12, <2>1 DEF Connected
      <3>2. ThreadInv'
        BY <1>12, <2>1 DEF Connected
      <3>3. TaskInv'
        BY <1>12, <2>1 DEF Connected
      <3>4. LifeInv'
        BY <1>12, <2>1 DEF Connected
      <3>6. ScreenInv'
        BY <1>12, <2>1 DEF Connected
      <3>7. ThreadSafe'
        BY <1>12, <2>1 DEF Connected
      <3> QED
        BY <3>1, <3>2, <3>3, <3>4, <3>6, <3>7
    <2>2. CASE status' = [status EXCEPT ![t] = "refused"] /\ UNCHANGED open
      <3>1. ViewInv'
        BY <1>12, <2>2 DEF Connected
      <3>2. ThreadInv'
        BY <1>12, <2>2 DEF Connected
      <3>3. TaskInv'
        BY <1>12, <2>2 DEF Connected
      <3>4. LifeInv'
        BY <1>12, <2>2 DEF Connected
      <3>6. ScreenInv'
        BY <1>12, <2>2 DEF Connected
      <3>7. ThreadSafe'
        BY <1>12, <2>2 DEF Connected
      <3> QED
        BY <3>1, <3>2, <3>3, <3>4, <3>6, <3>7
    <2> QED
      BY <1>12, <2>1, <2>2 DEF Connected
  <1>13. ASSUME NEW t \in Task, PostExecute(t) PROVE IInv'
    <2>1. CASE status[t] = "opened"
      <3> DEFINE i == taskFor[t]
      <3> DEFINE th == IF suspending[i] \/ thread[i] = None THEN t ELSE thread[i]
      <3>a. i \in Instance /\ ~mRun[i] /\ mIn[i] = None /\ ~mIsSuspend[i] /\ ~Interrupted(i)
        BY <2>1
      <3>b. th \in Thread /\ rpc[th] \in {"unborn", "new"} /\ View(th) = i
        <4>1. joining # i
          BY <1>13, <3>a DEF PostExecute
        <4>2. rpc[t] = "unborn" /\ View(t) = i
          BY <2>1
        <4>3. thread[i] # None => thread[i] = i /\ rpc[i] = "new" /\ View(i) = i
          BY <3>a, <4>1
        <4> QED
          BY <3>a, <4>2, <4>3
      <3>c. /\ mIn'  = [mIn EXCEPT ![i] = t]
            /\ mRun' = [mRun EXCEPT ![i] = TRUE]
            /\ suspending' = [suspending EXCEPT ![i] = FALSE]
            /\ thread' = [thread EXCEPT ![i] = th]
            /\ rpc' = [rpc EXCEPT ![th] = "loop"]
            /\ UNCHANGED <<uiVars, surfaceDone, taskFor, open, rgb, crash>>
            /\ joining = None
        BY <1>13, <2>1, <3>b DEF PostExecute, SetSource
      <3>d. status' = [status EXCEPT ![t] = IF life[i] = "resumed" THEN "played" ELSE "late"]
        BY <1>13, <2>1 DEF PostExecute
      <3>e. th = i \/ th = t
        BY <1>13, <3>a DEF PostExecute
      <3> HIDE DEF th
      <3>1. ViewInv'
        BY <2>1, <3>a, <3>b, <3>c, <3>d, <3>e DEF i
      <3>2. ThreadInv'
        BY <2>1, <3>a, <3>b, <3>c, <3>d, <3>e DEF i
      <3>3. TaskInv'
        BY <2>1, <3>a, <3>b, <3>c, <3>d, <3>e DEF i
      <3>4. LifeInv'
        BY <2>1, <3>a, <3>b, <3>c, <3>d, <3>e DEF i
      <3>6. ScreenInv'
        BY <2>1, <3>a, <3>b, <3>c, <3>d, <3>e DEF i
      <3>7. ThreadSafe'
        BY <2>1, <3>a, <3>b, <3>c, <3>d, <3>e DEF i
      <3> QED
        BY <3>1, <3>2, <3>3, <3>4, <3>6, <3>7
    <2>2. CASE status[t] = "refused"
      <3>a. /\ status' = [status EXCEPT ![t] = "failed"] /\ joining = None
            /\ UNCHANGED <<uiVars, viewVars, taskFor, rpc, open, rgb, crash>>
        BY <1>13, <2>2 DEF PostExecute
      <3>1. ViewInv'
        BY <2>2, <3>a DEF View
      <3>2. ThreadInv'
        BY <2>2, <3>a DEF View
      <3>3. TaskInv'
        BY <2>2, <3>a DEF View
      <3>4. LifeInv'
        BY <2>2, <3>a DEF View
      <3>6. ScreenInv'
        BY <2>2, <3>a DEF View
      <3>7. ThreadSafe'
        BY <2>2, <3>a DEF View
      <3> QED
        BY <3>1, <3>2, <3>3, <3>4, <3>6, <3>7
    <2> QED
      BY <1>13, <2>1, <2>2 DEF PostExecute
  <1>14. ASSUME NEW th \in Thread, Exit(th) PROVE IInv'
    BY <1>14 DEF Exit, At, Goto
  <1>15. ASSUME NEW th \in Thread, BeginRead(th) PROVE IInv'
    BY <1>15 DEF BeginRead, At, Goto
  <1>16. ASSUME NEW th \in Thread, ReadFails(th) PROVE IInv'
    BY <1>16 DEF ReadFails, At, Goto
  <1>17. ASSUME NEW th \in Thread, EndOfStream(th) PROVE IInv'
    BY <1>17 DEF EndOfStream, At, Goto
  <1>18. ASSUME NEW th \in Thread, BadFrame(th) PROVE IInv'
    BY <1>18 DEF BadFrame, At, Goto
  <1>19. ASSUME NEW th \in Thread, BeginDecode(th) PROVE IInv'
    BY <1>19 DEF BeginDecode, At, Goto
  <1>20. ASSUME NEW th \in Thread, EndDecode(th) PROVE IInv'
    BY <1>20 DEF EndDecode, At, Goto
  <1>21. ASSUME NEW th \in Thread, Draw(th) PROVE IInv'
    BY <1>21 DEF Draw, At, Goto
  <1>22. CASE UNCHANGED vars
    BY <1>22 DEF vars
  <1>23. ASSUME NEW th \in Thread, NullBuffer(th) PROVE IInv'
    BY <1>23 DEF NullBuffer, At
  <1> QED
    BY <1>1, <1>2, <1>3, <1>4, <1>5, <1>6, <1>7, <1>8, <1>9, <1>10, <1>11, <1>12, <1>13, <1>14, <1>15, <1>16, <1>17, <1>18, <1>19, <1>20, <1>21, <1>22, <1>23
    DEF Next, UI, ReadDVR, Render

-----------------------------------------------------------------------------
\* The types and the inductive invariant hold before any activity is launched, and then in
\* every state the preview reaches.
THEOREM Invariance == Spec => [](TypeOK /\ IInv)
  <1>1. Init => TypeOK
    BY DEF Init, TypeOK
  <1>2. Init => IInv
    BY <1>1, NameAssumption
       DEF Init, IInv, ViewInv, ThreadInv, TaskInv, LifeInv, ScreenInv,
           ThreadSafe, Requested, Interrupted, Living, Thread, View, InFlight, Posted, Alive
  <1>3. IInv /\ [Next]_vars => IInv'
    BY TypeStep, InvStep DEF IInv
  <1>4. IInv => TypeOK
    BY DEF IInv
  <1> QED
    BY <1>2, <1>3, <1>4, PTL DEF Spec


\* A view never has two render threads running.
THEOREM RenderThreadUnique == Spec => []OneRenderThread
  <1>1. IInv => OneRenderThread
    BY NameAssumption
       DEF IInv, TypeOK, Alive, InFlight, Posted, Thread, OneRenderThread, ThreadInv
  <1> QED
    BY Invariance, <1>1, PTL

\* A preview never has two streams or requests for one.
THEOREM ConnectionUnique == Spec => []SingleConnection
  <1>1. IInv => SingleConnection
    BY NameAssumption
       DEF IInv, TypeOK, Alive, InFlight, Posted, Thread, SingleConnection, TaskInv, ViewInv
  <1> QED
    BY Invariance, <1>1, PTL

\* An open stream is held by its view or on its way to it.
THEOREM StreamsHeld == Spec => []NoStreamDropped
  <1>1. IInv => NoStreamDropped
    BY NameAssumption
       DEF IInv, TypeOK, Alive, InFlight, Posted, Thread, NoStreamDropped, TaskInv
  <1> QED
    BY Invariance, <1>1, PTL

-----------------------------------------------------------------------------
(***************************************************************************)
(* Why a preview does not play.  Requests are made in the order of the     *)
(* tasks, so that the one in flight is the last, and the stream that comes *)
(* of it is the last one's.                                                *)
(***************************************************************************)

\* The tasks that were executed come before those that were not.
InOrder ==
  \A t, u \in Task : status[t] = "unused" /\ status[u] # "unused" => u < t

\* A request in flight, and the stream that a view holds, are of its last request.
LastHeld ==
  \A i \in Instance :
    /\ \A t \in Task : taskFor[t] = i /\ status[t] \in InFlight => LastRequest(i, t)
    /\ mIn[i] # None => LastRequest(i, mIn[i])

\* The last request of i is under way, was refused, or came late.
Explained(i) ==
  \E t \in Task : LastRequest(i, t) /\ status[t] \in InFlight \cup {"failed", "late"}

\* A view whose stream is gone has a reconnection to come, or a reason.
Lost(i) == life[i] # "absent" /\ ~mRun[i] /\ ~mIsSuspend[i] /\ ~Interrupted(i)
LossInv == InOrder /\ LastHeld /\ \A i \in Instance : Lost(i) => Explained(i)

\* ReadDVR.execute makes a last request, and leaves those of other views.
LEMMA RequestMade ==
  ASSUME TypeOK, InOrder, LastHeld, NEW i \in Instance, NEW t \in Task, Execute(i, t)
  PROVE  /\ InOrder' /\ LastRequest(i, t)' /\ status'[t] = "queued"
         /\ \A j \in Instance \ {i}, u \in Task :
              LastRequest(j, u) => LastRequest(j, u)' /\ u # t /\ status'[u] = status[u]
  <1> USE NameAssumption DEF TypeOK, Execute, InOrder, LastRequest
  <1>1. \A u \in Task : taskFor[u] = i => u < t
    OBVIOUS
  <1>2. InOrder'
    OBVIOUS
  <1>3. LastRequest(i, t)' /\ status'[t] = "queued"
    BY <1>1
  <1>4. ASSUME NEW j \in Instance \ {i}, NEW u \in Task, LastRequest(j, u)
        PROVE  LastRequest(j, u)' /\ u # t /\ status'[u] = status[u]
    BY <1>4
  <1> QED
    BY <1>2, <1>3, <1>4

\* A step that executes a task for i, and leaves i's view without stream.
LEMMA LossRequest ==
  ASSUME TypeOK, NEW i \in Instance, NEW t \in Task, Execute(i, t), LossInv, mIn'[i] = None,
         \A u \in Task : taskFor[u] = i => status[u] \notin InFlight,
         \A j \in Instance \ {i} : mIn'[j] = mIn[j] /\ (Lost(j)' => Lost(j))
  PROVE  LossInv'
  <1>1. /\ InOrder' /\ LastRequest(i, t)' /\ status'[t] = "queued"
        /\ \A j \in Instance \ {i}, u \in Task :
             LastRequest(j, u) => LastRequest(j, u)' /\ u # t /\ status'[u] = status[u]
    BY RequestMade DEF LossInv
  <1>2. /\ taskFor' = [taskFor EXCEPT ![t] = i] /\ status' = [status EXCEPT ![t] = "queued"]
        /\ taskFor[t] = None /\ i # None
    BY NameAssumption DEF Execute, TypeOK
  <1>3. LastHeld'
    <2>1. ASSUME NEW u \in Task, taskFor'[u] = i, status'[u] \in InFlight PROVE u = t
      BY <1>2, <2>1 DEF TypeOK
    <2>2. ASSUME NEW j \in Instance \ {i}, NEW u \in Task, taskFor'[u] = j, status'[u] \in InFlight
          PROVE  LastRequest(j, u)'
      <3>1. taskFor[u] = j /\ status[u] \in InFlight
        BY <1>2, <2>2 DEF TypeOK
      <3> QED
        BY <1>1, <3>1 DEF LossInv, LastHeld
    <2>3. ASSUME NEW j \in Instance \ {i}, mIn'[j] # None PROVE LastRequest(j, mIn[j])'
      BY <1>1, <2>3 DEF LossInv, LastHeld, TypeOK
    <2> QED
      BY <1>1, <2>1, <2>2, <2>3 DEF LastHeld, InFlight
  <1>4. ASSUME NEW j \in Instance, Lost(j)' PROVE Explained(j)'
    <2>1. CASE j = i
      BY <1>1, <2>1 DEF Explained, InFlight
    <2>2. CASE j # i
      <3>1. PICK u \in Task : LastRequest(j, u) /\ status[u] \in InFlight \cup {"failed", "late"}
        BY <1>4, <2>2 DEF LossInv, Explained
      <3> QED
        BY <1>1, <2>2, <3>1 DEF Explained, InFlight
    <2> QED
      BY <2>1, <2>2
  <1> QED
    BY <1>1, <1>3, <1>4 DEF LossInv

\* A step that makes no request and ends none: what is lost was lost before, or
\* explained already.
LEMMA LossKept ==
  ASSUME LossInv, taskFor' = taskFor, status' = status,
         \A i \in Instance : /\ mIn'[i] \in {mIn[i], None}
                             /\ Lost(i)' => Lost(i) \/ Explained(i)
  PROVE  LossInv'
  <1> USE DEF LossInv, LastHeld, LastRequest, Explained, InOrder, InFlight, Posted
  <1>1. InOrder' /\ LastHeld'
    OBVIOUS
  <1>2. \A i \in Instance : Explained(i) => Explained(i)'
    OBVIOUS
  <1> QED
    BY <1>1, <1>2

\* Every step keeps the explanations.
LEMMA LossStep == IInv /\ LossInv /\ [Next]_vars => LossInv'
  <1> SUFFICES ASSUME IInv, LossInv, [Next]_vars PROVE LossInv'
    OBVIOUS
  <1> TypeOK
    BY DEF IInv
  <1> USE DEF Lost, Interrupted, UIFree, uiVars, viewVars, taskVars
  <1>1. ASSUME NEW i \in Instance, NEW t \in Task, Launch(i, t) PROVE LossInv'
    <2>1. \A u \in Task : taskFor[u] = i => status[u] \notin InFlight
      BY <1>1 DEF Launch, IInv, LifeInv, Requested
    <2>2. mIn'[i] = None
      BY <1>1 DEF Launch, IInv, LifeInv, ViewInv
    <2> QED
      BY <1>1, <2>1, <2>2, LossRequest DEF Launch, TypeOK
  <1>2. ASSUME NEW i \in Instance, Resume(i) PROVE LossInv'
    <2>1. CASE mIsSuspend[i]
      <3>1. PICK t \in Task : Execute(i, t)
        BY <1>2, <2>1 DEF Resume, ResumeMJpegVideo
      <3>2. /\ life' = [life EXCEPT ![i] = "resumed"] /\ joining' = joining /\ then' = then
            /\ mIsSuspend' = [mIsSuspend EXCEPT ![i] = FALSE] /\ mRun' = mRun /\ mIn' = mIn
            /\ joining = None
        BY <1>2 DEF Resume, ResumeMJpegVideo
      <3>3. ~mRun[i] /\ mIn[i] = None
        BY <2>1, <3>2, NameAssumption DEF IInv, ViewInv
      <3>4. \A u \in Task : taskFor[u] = i => status[u] \notin InFlight
        BY <2>1 DEF IInv, TaskInv
      <3> QED
        BY <3>1, <3>2, <3>3, <3>4, LossRequest DEF TypeOK
    <2>2. CASE ~mIsSuspend[i]
      <3>1. /\ UNCHANGED <<taskVars, joining, then, mRun, mIn>> /\ life[i] # "absent"
            /\ life' = [life EXCEPT ![i] = "resumed"]
            /\ mIsSuspend' = [mIsSuspend EXCEPT ![i] = FALSE]
        BY <1>2, <2>2 DEF Resume, ResumeMJpegVideo
      <3> QED
        BY <2>2, <3>1, LossKept DEF TypeOK
    <2> QED
      BY <2>1, <2>2
  <1>3. ASSUME NEW i \in Instance, Pause(i) PROVE LossInv'
    <2>1. \A j \in Instance : Lost(j)' => Lost(j)
      <3>1. CASE mRun[i]
        BY <1>3, <3>1, NameAssumption DEF Pause, BeginStop, TypeOK
      <3>2. CASE ~mRun[i]
        BY <1>3, <3>2, NameAssumption DEF Pause, TypeOK
      <3> QED
        BY <3>1, <3>2
    <2> QED
      BY <1>3, <2>1, LossKept DEF Pause
  <1>4. ASSUME NEW i \in Instance, CameraClick(i) PROVE LossInv'
    <2>1. \A j \in Instance : Lost(j)' => Lost(j)
      BY <1>4, NameAssumption DEF CameraClick, BeginStop, TypeOK
    <2> QED
      BY <1>4, <2>1, LossKept DEF CameraClick
  <1>5. ASSUME NEW i \in Instance, Leave(i) PROVE LossInv'
    BY <1>5, LossKept DEF Leave
  <1>6. ASSUME NEW i \in Instance, Stop(i) PROVE LossInv'
    BY <1>6, LossKept DEF Stop, TypeOK
  <1>7. ASSUME NEW i \in Instance, Destroy(i) PROVE LossInv'
    BY <1>7, LossKept DEF Destroy, TypeOK
  <1>8. ASSUME NEW i \in Instance, SurfaceCreated(i) PROVE LossInv'
    BY <1>8, LossKept DEF SurfaceCreated
  <1>9. ASSUME NEW i \in Instance, SurfaceDestroyed(i) PROVE LossInv'
    <2>1. mRun[i] => Explained(i)
      <3> SUFFICES ASSUME mRun[i] PROVE Explained(i)
        OBVIOUS
      <3>1. mIn[i] # None /\ status[mIn[i]] = "late"
        BY <1>9 DEF SurfaceDestroyed, IInv, LifeInv, ViewInv
      <3>2. mIn[i] \in Task /\ LastRequest(i, mIn[i])
        BY <3>1 DEF LossInv, LastHeld, TypeOK
      <3> QED
        BY <3>1, <3>2 DEF Explained
    <2>2. \A j \in Instance : j # i => (Lost(j)' => Lost(j))
      BY <1>9, NameAssumption DEF SurfaceDestroyed, BeginStop, TypeOK
    <2>3. Lost(i)' => Lost(i) \/ mRun[i]
      BY <1>9, NameAssumption DEF SurfaceDestroyed, BeginStop, TypeOK
    <2>4. taskFor' = taskFor /\ status' = status /\ mIn' = mIn
      BY <1>9 DEF SurfaceDestroyed
    <2> QED
      BY <2>1, <2>2, <2>3, <2>4, LossKept
  <1>10. ASSUME NEW i \in Instance, JoinReturns(i) PROVE LossInv'
    <2>1. /\ joining = i /\ joining' = None /\ mRun' = mRun /\ life[i] # "absent"
          /\ mIn' = [mIn EXCEPT ![i] = None] /\ i # None /\ ~mRun[i]
      BY <1>10, NameAssumption DEF JoinReturns, IInv, LifeInv
    <2>2. CASE then = "pause"
      <3>1. /\ mIsSuspend' = [mIsSuspend EXCEPT ![i] = TRUE]
            /\ life' = [life EXCEPT ![i] = "paused"] /\ UNCHANGED taskVars
        BY <1>10, <2>2 DEF JoinReturns
      <3> QED
        BY <2>1, <2>2, <3>1, LossKept DEF TypeOK
    <2>3. CASE then = "click"
      <3>1. PICK t \in Task : Execute(i, t)
        BY <1>10, <2>3 DEF JoinReturns, ResumeMJpegVideo
      <3>2. mIsSuspend' = [mIsSuspend EXCEPT ![i] = FALSE] /\ life' = life
        BY <1>10, <2>3 DEF JoinReturns, ResumeMJpegVideo
      <3>3. \A u \in Task : taskFor[u] = i => status[u] \notin InFlight
        BY <2>1, <2>3 DEF IInv, TaskInv
      <3> QED
        BY <2>1, <3>1, <3>2, <3>3, LossRequest DEF TypeOK
    <2>4. CASE then = "surface"
      <3>1. UNCHANGED <<mIsSuspend, life, taskVars>>
        BY <1>10, <2>4 DEF JoinReturns
      <3> QED
        BY <2>1, <2>4, <3>1, LossKept DEF TypeOK
    <2> QED
      BY <1>10, <2>2, <2>3, <2>4 DEF JoinReturns
  <1>11. ASSUME NEW t \in Task, Connect(t) \/ Connected(t) PROVE LossInv'
    <2>1. /\ taskFor' = taskFor /\ mIn' = mIn /\ \A i \in Instance : Lost(i)' => Lost(i)
          /\ status[t] \in InFlight
          /\ \E v \in InFlight : status' = [status EXCEPT ![t] = v]
      BY <1>11 DEF Connect, Connected, InFlight, Posted
    <2> QED
      BY <2>1 DEF LossInv, InOrder, LastHeld, LastRequest, Explained, TypeOK, InFlight, Posted
  <1>12. ASSUME NEW t \in Task, PostExecute(t) PROVE LossInv'
    <2>1. taskFor' = taskFor /\ status[t] \in InFlight /\ UNCHANGED uiVars
      BY <1>12 DEF PostExecute, InFlight, Posted
    <2>2. CASE status[t] = "opened"
      <3> DEFINE i == taskFor[t]
      <3>1. /\ mIn' = [mIn EXCEPT ![i] = t] /\ mRun' = [mRun EXCEPT ![i] = TRUE]
            /\ \E v \in {"played", "late"} : status' = [status EXCEPT ![t] = v]
        BY <1>12, <2>2 DEF PostExecute, SetSource
      <3>2. i \in Instance /\ LastRequest(i, t) /\ ~Lost(i)'
        BY <2>1, <2>2, <3>1 DEF LossInv, LastHeld, TypeOK
      <3>3. \A j \in Instance : j # i => (Lost(j)' => Lost(j)) /\ mIn'[j] = mIn[j]
        BY <2>1, <3>1 DEF TypeOK
      <3>4. InOrder' /\ LastHeld'
        BY <2>1, <3>1, <3>2, <3>3
           DEF LossInv, InOrder, LastHeld, LastRequest, TypeOK, InFlight, Posted
      <3>5. ASSUME NEW j \in Instance, Lost(j)' PROVE Explained(j)'
        <4>1. j # i /\ Lost(j)
          <5>1. j # i
            BY <2>1, <3>1, <3>5 DEF TypeOK
          <5> QED
            BY <3>3, <3>5, <5>1
        <4>2. PICK u \in Task : LastRequest(j, u) /\ status[u] \in InFlight \cup {"failed", "late"}
          BY <4>1 DEF LossInv, Explained
        <4>3. u # t
          BY <4>1, <4>2 DEF LastRequest
        <4> QED
          BY <2>1, <3>1, <4>2, <4>3 DEF Explained, LastRequest, TypeOK, InFlight, Posted
      <3> QED
        BY <3>4, <3>5 DEF LossInv
    <2>3. CASE status[t] = "refused"
      <3>1. status' = [status EXCEPT ![t] = "failed"] /\ UNCHANGED <<mIn, mRun>>
        BY <1>12, <2>3 DEF PostExecute
      <3> QED
        BY <2>1, <3>1
           DEF LossInv, InOrder, LastHeld, LastRequest, Explained, TypeOK, InFlight, Posted
    <2> QED
      BY <1>12, <2>2, <2>3 DEF PostExecute, Posted
  <1>13. ASSUME NEW th \in Thread, Render(th) PROVE LossInv'
    <2>1. UNCHANGED <<uiVars, viewVars, taskVars>>
      BY <1>13 DEF Render, Exit, BeginRead, ReadFails, EndOfStream, BadFrame, BeginDecode,
                   EndDecode, NullBuffer, Draw, Goto
    <2> QED
      BY <2>1, LossKept
  <1>14. CASE UNCHANGED vars
    BY <1>14, LossKept DEF vars
  <1> QED
    BY <1>1, <1>2, <1>3, <1>4, <1>5, <1>6, <1>7, <1>8, <1>9, <1>10, <1>11, <1>12, <1>13, <1>14
    DEF Next, UI, ReadDVR

\* A preview on screen has a render thread at work (MjpegView.run), or its last request
\* tells why not: under way, refused, late, or played to the end of its stream.
THEOREM LossExplained == Spec => []PreviewLossExplained
  <1>1. Init => LossInv
    BY NameAssumption
       DEF Init, LossInv, InOrder, LastHeld, LastRequest, Explained, Lost, InFlight, Posted
  <1>2. IInv /\ LossInv /\ [Next]_vars => LossInv'
    BY LossStep
  <1>3. IInv /\ LossInv => PreviewLossExplained
    <2> SUFFICES ASSUME IInv, LossInv, NEW i \in Instance,
                        life[i] = "resumed", joining # i, ~Playing(i)
                 PROVE  \E t \in Task :
                          /\ LastRequest(i, t)
                          /\ \/ status[t] \in InFlight \cup {"failed", "late"}
                             \/ status[t] = "played" /\ mIn[i] = t /\ rpc[thread[i]] = "ended"
      BY DEF PreviewLossExplained
    <2>1. CASE mRun[i]
      <3>1. /\ mIn[i] \in Task /\ status[mIn[i]] \in {"played", "late"}
            /\ rpc[thread[i]] = "ended"
        BY <2>1 DEF IInv, ViewInv, TypeOK, Playing
      <3>2. LastRequest(i, mIn[i])
        BY <3>1, NameAssumption DEF LossInv, LastHeld
      <3> QED
        BY <3>1, <3>2
    <2>2. CASE ~mRun[i]
      <3>1. Lost(i)
        BY <2>2 DEF Lost, Interrupted, IInv, LifeInv
      <3> QED
        BY <3>1 DEF LossInv, Explained
    <2> QED
      BY <2>1, <2>2
  <1> QED
    BY <1>1, <1>2, <1>3, Invariance, PTL DEF Spec

\* Off screen only late streams are played.
THEOREM BackgroundLate == Spec => []BackgroundPlaybackIsLate
  <1>1. IInv => BackgroundPlaybackIsLate
    BY NameAssumption
       DEF IInv, TypeOK, Alive, InFlight, Posted, Thread, BackgroundPlaybackIsLate, LifeInv, ViewInv
  <1> QED
    BY Invariance, <1>1, PTL

\* Two threads share the native buffer only through a late stream.
THEOREM DecodersApart == Spec => []DecodersExclusive
  <1>1. IInv => DecodersExclusive
    <2> SUFFICES ASSUME IInv, NEW th \in Thread, NEW other \in Thread, th # other,
                        rpc[th] = "decode", rpc[other] = "decode"
                 PROVE  \E t \in {mIn[View(th)], mIn[View(other)]} : status[t] = "late"
      BY DEF DecodersExclusive
    <2> USE NameAssumption DEF IInv, TypeOK, Alive, InFlight, Posted, Thread
    <2>1. /\ View(th) \in Instance /\ mIn[View(th)] # None
          /\ View(other) \in Instance /\ mIn[View(other)] # None
          /\ View(th) # View(other)
      BY DEF ThreadInv
    <2>2. life[View(th)] # "resumed" \/ life[View(other)] # "resumed"
      BY <2>1 DEF ScreenInv, Living
    <2> QED
      BY <2>1, <2>2 DEF LifeInv
  <1> QED
    BY Invariance, <1>1, PTL

-----------------------------------------------------------------------------
\* stopPlayback closes a stream only when nobody can be reading it: it has joined the one
\* thread that reads it.
THEOREM CloseLast == Spec => CloseAfterLastRead
  <1>1. IInv /\ [Next]_vars =>
          [\A t \in open \ open' : \A th \in Thread :
              View(th) = taskFor[t] => rpc[th] \notin Alive]_vars
    <2> SUFFICES ASSUME IInv, Next, NEW t \in open \ open', NEW th \in Thread,
                        View(th) = taskFor[t], rpc[th] \in Alive
                 PROVE  FALSE
      OBVIOUS
    <2>1. PICK i \in Instance : JoinReturns(i)
      BY DEF Next, UI, ReadDVR, Render, Launch, Resume, Pause, CameraClick, Leave, Stop, Destroy,
             SurfaceCreated, SurfaceDestroyed, Connect, Connected, PostExecute, Exit, BeginRead,
             ReadFails, EndOfStream, BadFrame, BeginDecode, EndDecode, NullBuffer, Draw, Goto
    <2>2. CanJoin(i) /\ open' = open \ {mIn[i]}
      BY <2>1 DEF JoinReturns
    <2>3. taskFor[t] = i
      BY <2>2, NameAssumption DEF IInv, ViewInv, TypeOK
    <2>4. thread[i] = th
      BY <2>3 DEF IInv, ThreadInv
    <2> QED
      BY <2>2, <2>4, NameAssumption DEF CanJoin, Thread
  <1> QED
    BY Invariance, <1>1, PTL DEF Spec, CloseAfterLastRead

\* Only onDestroy frees the native buffer, and only through a view's stream.
LEMMA FreeStep ==
  ASSUME IInv, [Next]_vars
  PROVE  [rgb = "allocated" /\ rgb' = "freed" => \E i \in Instance :
            life[i] = "stopped" /\ mRun[i] /\ status[mIn[i]] = "late"]_vars
  <1> SUFFICES ASSUME Next, rgb = "allocated", rgb' = "freed"
               PROVE  \E i \in Instance :
                        life[i] = "stopped" /\ mRun[i] /\ status[mIn[i]] = "late"
    OBVIOUS
  <1>1. PICK i \in Instance : Destroy(i)
    BY DEF Next, UI, ReadDVR, Render, Launch, Resume, Pause, CameraClick, Leave, Stop, JoinReturns,
           SurfaceCreated, SurfaceDestroyed, Connect, Connected, PostExecute, Exit, BeginRead,
           ReadFails, EndOfStream, BadFrame, BeginDecode, EndDecode, NullBuffer, Draw, Goto
  <1>2. life[i] = "stopped" /\ joining # i /\ mIn[i] # None
    BY <1>1, NameAssumption DEF Destroy, UIFree
  <1>3. mRun[i] /\ status[mIn[i]] = "late"
    BY <1>2 DEF IInv, ViewInv, LifeInv
  <1> QED
    BY <1>2, <1>3

\* onDestroy frees the native buffer only under a late stream.
THEOREM FreedLate == Spec => FreedOnlyByLatePlayback
  BY Invariance, FreeStep, PTL DEF Spec, FreedOnlyByLatePlayback

\* No interleaving of callbacks, results and frames starts a started thread,
\* reads a null source or draws on a null canvas; and the native buffer is missing
\* only after a stream was delivered to a preview that was not on screen.
THEOREM NoCrash == Spec => []NoLifecycleCrash
  <1>1. Init => BufferInv
    BY DEF Init, BufferInv
  <1>2. ASSUME TypeOK, [Next]_vars, NEW t \in Task, status[t] = "late"
        PROVE  status'[t] = "late"
    <2> USE <1>2 DEF TypeOK, Posted, taskVars
    <2>1. ASSUME NEW i \in Instance, UI(i) PROVE status'[t] = "late"
      BY <2>1 DEF UI, Launch, Resume, ResumeMJpegVideo, Execute, Pause, CameraClick, Leave, Stop,
                  Destroy, SurfaceCreated, SurfaceDestroyed, JoinReturns
    <2>2. ASSUME NEW u \in Task, ReadDVR(u) PROVE status'[t] = "late"
      BY <2>2 DEF ReadDVR, Connect, Connected, PostExecute
    <2>3. ASSUME NEW th \in Thread, Render(th) PROVE status'[t] = "late"
      BY <2>3 DEF Render, Exit, BeginRead, ReadFails, EndOfStream, BadFrame,
                  BeginDecode, EndDecode, NullBuffer, Draw, Goto
    <2> QED
      BY <2>1, <2>2, <2>3 DEF Next, vars
  <1>3. IInv /\ BufferInv /\ [Next]_vars => BufferInv'
    <2> SUFFICES ASSUME IInv, BufferInv, [Next]_vars, rgb' = "freed" \/ crash' = "nullBuffer"
                 PROVE  \E t \in Task : status'[t] = "late"
      BY DEF BufferInv
    <2> SUFFICES \E t \in Task : status[t] = "late"
      BY <1>2 DEF IInv
    <2>1. CASE rgb = "freed" \/ crash = "nullBuffer"
      BY <2>1 DEF BufferInv
    <2>2. CASE rgb # "freed" /\ crash # "nullBuffer" /\ rgb' = "freed"
      <3>1. rgb = "allocated" /\ ~UNCHANGED vars
        <4>1. rgb' \in {rgb, "allocated", Freed}
          BY DEF Next, UI, ReadDVR, Render, Launch, Resume, Pause, CameraClick, Leave, Stop, Destroy,
                 JoinReturns, SurfaceCreated, SurfaceDestroyed, Connect, Connected, PostExecute,
                 Exit, BeginRead, ReadFails, EndOfStream, BadFrame, BeginDecode, EndDecode,
                 NullBuffer, Draw, Goto, vars
        <4> QED
          BY <2>2, <4>1 DEF Freed, vars
      <3>2. PICK i \in Instance :
              life[i] = "stopped" /\ mRun[i] /\ status[mIn[i]] = "late"
        BY <2>2, <3>1, FreeStep
      <3> QED
        BY <3>2 DEF IInv, ViewInv, TypeOK
    <2>3. CASE rgb # "freed" /\ crash # "nullBuffer" /\ crash' = "nullBuffer"
      BY <2>3 DEF Next, UI, ReadDVR, Render, Launch, Resume, Pause, CameraClick, Leave, Stop, Destroy,
                  JoinReturns, SurfaceCreated, SurfaceDestroyed, Connect, Connected, PostExecute,
                  SetSource, Exit, BeginRead, ReadFails, EndOfStream, BadFrame, BeginDecode,
                  EndDecode, NullBuffer, Draw, Goto, vars
    <2> QED
      BY <2>1, <2>2, <2>3
  <1>4. IInv /\ BufferInv => NoLifecycleCrash
    BY DEF IInv, ThreadSafe, BufferInv, NoLifecycleCrash
  <1> QED
    BY Invariance, <1>1, <1>3, <1>4, PTL DEF Spec

-----------------------------------------------------------------------------
\* A step that leaves the tasks and the open streams alone stutters.
LEMMA StreamStutter ==
  ASSUME UNCHANGED <<status, taskFor, open>>
  PROVE  UNCHANGED Streams!svars
  BY DEF Streams!svars, StreamOf

\* Executing a ReadDVR for a view that holds nothing requests a stream.
LEMMA StreamRequest ==
  ASSUME IInv, NEW i \in Instance, NEW t \in Task, Execute(i, t), open' = open,
         ~Requested(i), mIn[i] = None
  PROVE  Streams!Request(i, t)
  <1> DEFINE s == [u \in Task |-> StreamOf(u)]
  <1>1. s[t] = "none"
    BY DEF Execute, StreamOf
  <1>2. \A u \in Task : taskFor[u] = i => StreamOf(u) \notin {"requested", "open", "attached"}
    BY NameAssumption DEF IInv, TypeOK, TaskInv, Requested, StreamOf, InFlight, Posted
  <1>3. \A u \in Task : StreamOf(u)' = IF u = t THEN "requested" ELSE StreamOf(u)
    BY DEF Execute, StreamOf, IInv, TypeOK
  <1>4. taskFor' = [taskFor EXCEPT ![t] = i]
    BY DEF Execute
  <1> QED
    BY <1>1, <1>2, <1>3, <1>4 DEF Streams!Request, Streams!Holds, Streams!Held

\* stopPlayback closes the stream the view holds; a camera switch requests
\* another in its place.
LEMMA StreamJoin ==
  ASSUME IInv, NEW i \in Instance, JoinReturns(i)
  PROVE  [Streams!Next]_(Streams!svars)
  <1> DEFINE src == mIn[i]
  <1> USE NameAssumption
  <1>1. joining = i /\ open' = open \ {src}
    BY DEF JoinReturns
  <1>a. src # None => src \in Task /\ taskFor[src] = i /\ StreamOf(src) = "attached"
    BY DEF IInv, TypeOK, ViewInv, TaskInv, StreamOf
  <1>2. CASE then = "click"
    <2>1. PICK u \in Task : Execute(i, u)
      BY <1>2 DEF JoinReturns, ResumeMJpegVideo
    <2>2. ~Requested(i)
      BY <1>1, <1>2 DEF IInv, TaskInv, Requested, Interrupted
    <2>3. CASE src = None
      <3>1. open' = open
        <4>1. None \notin open
          BY DEF IInv, TypeOK
        <4> QED
          BY <1>1, <2>3, <4>1
      <3> QED
        BY <2>1, <2>2, <2>3, <3>1, StreamRequest DEF Streams!Next
    <2>4. CASE src # None
      <3>1. src \in Task /\ taskFor[src] = i /\ StreamOf(src) = "attached"
        BY <1>a, <2>4
      <3>2. StreamOf(u) = "none"
        BY <2>1 DEF Execute, StreamOf
      <3>3. \A w \in Task \ {src} : taskFor[w] = i =>
               StreamOf(w) \notin {"requested", "open", "attached"}
        BY <2>2 DEF IInv, TypeOK, TaskInv, Requested, StreamOf, InFlight, Posted
      <3>4. \A w \in Task : StreamOf(w)' = IF w = u THEN "requested"
                                          ELSE IF w = src THEN "closed" ELSE StreamOf(w)
        <4>1. \A w \in Task : status'[w] = IF w = u THEN "queued" ELSE status[w]
          BY <2>1 DEF Execute, IInv, TypeOK
        <4>2. status[src] \in {"played", "late"} /\ status[u] = "unused"
          BY <2>1, <2>4 DEF Execute, IInv, ViewInv
        <4> QED
          BY <1>1, <4>1, <4>2 DEF StreamOf
      <3>5. taskFor' = [taskFor EXCEPT ![u] = i]
        BY <2>1 DEF Execute
      <3>6. Streams!Replace(i, src, u)
        BY <3>1, <3>2, <3>3, <3>4, <3>5 DEF Streams!Replace, Streams!Holds, Streams!Held
      <3> QED
        BY <3>1, <3>6 DEF Streams!Next
    <2> QED
      BY <2>3, <2>4
  <1>3. CASE then # "click"
    <2>1. UNCHANGED taskVars
      BY <1>3 DEF JoinReturns
    <2>2. CASE src = None
      <3>1. open' = open
        <4>1. None \notin open
          BY DEF IInv, TypeOK
        <4> QED
          BY <1>1, <2>2, <4>1
      <3> QED
        BY <2>1, <3>1, StreamStutter DEF taskVars
    <2>3. CASE src # None
      <3>1. src \in Task /\ taskFor[src] = i /\ StreamOf(src) = "attached"
        BY <1>a, <2>3
      <3>2. status[src] \in {"played", "late"}
        BY <2>3 DEF IInv, ViewInv
      <3>3. \A w \in Task : StreamOf(w)' = IF w = src THEN "closed" ELSE StreamOf(w)
        BY <1>1, <2>1, <3>2 DEF StreamOf, taskVars
      <3>4. Streams!Advance(src, "attached", "closed")
        BY <2>1, <3>1, <3>3 DEF Streams!Advance, taskVars
      <3> QED
        BY <3>1, <3>4 DEF Streams!Next
    <2> QED
      BY <2>2, <2>3
  <1> QED
    BY <1>2, <1>3

\* The preview implements the abstract life of its streams.
THEOREM Refinement == Spec => StreamsSpec
  <1>1. Init => Streams!Init
    BY DEF Init, Streams!Init, StreamOf
  <1>2. IInv /\ [Next]_vars => [Streams!Next]_(Streams!svars)
    <2> SUFFICES ASSUME IInv, [Next]_vars
                 PROVE  [Streams!Next]_(Streams!svars)
      OBVIOUS
    <2> USE NameAssumption
    <2>1. ASSUME NEW i \in Instance, NEW t \in Task, Launch(i, t)
          PROVE  [Streams!Next]_(Streams!svars)
      <3>1. Execute(i, t) /\ open' = open
        BY <2>1 DEF Launch
      <3>2. life[i] = "absent"
        BY <2>1 DEF Launch
      <3>3. ~Requested(i) /\ mIn[i] = None
        BY <3>2 DEF IInv, LifeInv, ViewInv
      <3> QED
        BY <3>1, <3>3, StreamRequest DEF Streams!Next
    <2>2. ASSUME NEW i \in Instance, Resume(i)
          PROVE  [Streams!Next]_(Streams!svars)
      <3>1. open' = open /\ joining # i
        BY <2>2 DEF Resume, UIFree
      <3>2. CASE mIsSuspend[i]
        <4>1. PICK t \in Task : Execute(i, t)
          BY <2>2, <3>2 DEF Resume, ResumeMJpegVideo
        <4>2. ~Requested(i) /\ mIn[i] = None
          BY <3>1, <3>2 DEF IInv, ViewInv, TaskInv, Requested
        <4> QED
          BY <3>1, <4>1, <4>2, StreamRequest DEF Streams!Next
      <3>3. CASE ~mIsSuspend[i]
        BY <2>2, <3>3, StreamStutter DEF Resume, ResumeMJpegVideo, taskVars
      <3> QED
        BY <3>2, <3>3
    <2>3. ASSUME NEW i \in Instance, JoinReturns(i)
          PROVE  [Streams!Next]_(Streams!svars)
      BY <2>3, StreamJoin
    <2>4. ASSUME NEW t \in Task, ReadDVR(t)
          PROVE  [Streams!Next]_(Streams!svars)
      <3>1. CASE Connect(t)
        <4>1. \A u \in Task : StreamOf(u)' = StreamOf(u)
          BY <3>1 DEF Connect, StreamOf, IInv, TypeOK
        <4>2. taskFor' = taskFor
          BY <3>1 DEF Connect
        <4> QED
          BY <4>1, <4>2 DEF Streams!svars
      <3>2. CASE Connected(t)
        <4>1. taskFor' = taskFor
          BY <3>2 DEF Connected
        <4>2. StreamOf(t) = "requested"
          BY <3>2 DEF Connected, StreamOf
        <4>3. CASE status' = [status EXCEPT ![t] = "opened"] /\ open' = open \cup {t}
          <5>1. \A u \in Task : StreamOf(u)' = IF u = t THEN "open" ELSE StreamOf(u)
            BY <4>3 DEF StreamOf, IInv, TypeOK
          <5>2. Streams!Advance(t, "requested", "open")
            BY <4>1, <4>2, <5>1 DEF Streams!Advance
          <5> QED
            BY <5>2 DEF Streams!Next
        <4>4. CASE status' = [status EXCEPT ![t] = "refused"] /\ UNCHANGED open
          <5>1. \A u \in Task : StreamOf(u)' = StreamOf(u)
            BY <3>2, <4>4 DEF Connected, StreamOf, IInv, TypeOK
          <5> QED
            BY <4>1, <5>1 DEF Streams!svars
        <4> QED
          BY <3>2, <4>3, <4>4 DEF Connected
      <3>3. CASE PostExecute(t)
        <4>1. taskFor' = taskFor /\ open' = open
          BY <3>3 DEF PostExecute
        <4>2. CASE status[t] = "opened"
          <5>1. StreamOf(t) = "open"
            BY <4>2 DEF StreamOf
          <5>2. t \in open
            BY <4>2 DEF IInv, TaskInv
          <5>3. status'[t] \in {"played", "late"} /\ \A u \in Task \ {t} : status'[u] = status[u]
            BY <3>3, <4>2 DEF PostExecute, IInv, TypeOK
          <5>4. \A u \in Task : StreamOf(u)' = IF u = t THEN "attached" ELSE StreamOf(u)
            BY <4>1, <5>2, <5>3 DEF StreamOf
          <5>5. Streams!Advance(t, "open", "attached")
            BY <4>1, <5>1, <5>4 DEF Streams!Advance
          <5> QED
            BY <5>5 DEF Streams!Next
        <4>3. CASE status[t] = "refused"
          <5>1. StreamOf(t) = "requested"
            BY <4>3 DEF StreamOf
          <5>2. status' = [status EXCEPT ![t] = "failed"]
            BY <3>3, <4>3 DEF PostExecute
          <5>3. \A u \in Task : StreamOf(u)' = IF u = t THEN "failed" ELSE StreamOf(u)
            BY <4>1, <5>2 DEF StreamOf, IInv, TypeOK
          <5>4. Streams!Advance(t, "requested", "failed")
            BY <4>1, <5>1, <5>3 DEF Streams!Advance
          <5> QED
            BY <5>4 DEF Streams!Next
        <4> QED
          BY <3>3, <4>2, <4>3 DEF PostExecute, Posted
      <3> QED
        BY <2>4, <3>1, <3>2, <3>3 DEF ReadDVR
    <2>5. ASSUME NEW i \in Instance,
                 \/ Pause(i) \/ CameraClick(i) \/ Leave(i) \/ Stop(i) \/ Destroy(i)
                 \/ SurfaceCreated(i) \/ SurfaceDestroyed(i)
          PROVE  [Streams!Next]_(Streams!svars)
      BY <2>5, StreamStutter DEF Pause, CameraClick, Leave, Stop, Destroy, SurfaceCreated,
                                 SurfaceDestroyed, taskVars
    <2>6. ASSUME NEW th \in Thread, Render(th)
          PROVE  [Streams!Next]_(Streams!svars)
      BY <2>6, StreamStutter DEF Render, Exit, BeginRead, ReadFails, EndOfStream, BadFrame,
                                 BeginDecode, EndDecode, NullBuffer, Draw, Goto, taskVars
    <2>7. CASE UNCHANGED vars
      BY <2>7, StreamStutter DEF vars, taskVars
    <2> QED
      BY <2>1, <2>2, <2>3, <2>4, <2>5, <2>6, <2>7 DEF Next, UI
  <1> QED
    BY Invariance, <1>1, <1>2, PTL DEF Spec, StreamsSpec, Streams!Spec
===============================================================================
