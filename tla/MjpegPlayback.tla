---------------------------- MODULE MjpegPlayback ----------------------------
(***************************************************************************)
(* The live preview: Preview activities, the MjpegView each of them owns,  *)
(* the ReadDVR tasks that open the DVR's MJPEG stream, and the render      *)
(* threads that read, decode and draw it.                                  *)
(*                                                                         *)
(* Three kinds of threads interleave: the UI thread (activity and surface  *)
(* callbacks, clicks, onPostExecute), the one background thread of         *)
(* AsyncTask's serial executor, and the render threads.  The UI thread     *)
(* blocks in Thread.join inside stopPlayback; while `joining' is a view no *)
(* other UI action is enabled.                                             *)
(*                                                                         *)
(* A ReadDVR execution t names the stream it opens and the render thread   *)
(* that setSource creates for it; the render thread created by the         *)
(* constructor of i's MjpegView is named i.                                *)
(*                                                                         *)
(* An operator whose name begins with Fault is the definition after it with*)
(* a seeded bug; nothing refers to it, and a property must notice it.      *)
(***************************************************************************)
EXTENDS Naturals

CONSTANTS
  Instance,   \* Preview activity instances, each with its own MjpegView
  Task,       \* ReadDVR executions, in the order they are queued (a bound)
  None        \* null

ASSUME NameAssumption ==
  /\ Task \subseteq Nat
  /\ Instance \cap Task = {}
  /\ None \notin Instance \cup Task

Thread == Instance \cup Task

VARIABLES
  life,        \* [Instance -> activity state]
  finishing,   \* [Instance -> BOOLEAN] finish() or recreate() was called
  mIsSuspend,  \* [Instance -> BOOLEAN] Preview.mIsSuspend
  surfaceDone, \* [Instance -> BOOLEAN] MjpegView.surfaceDone
  mRun,        \* [Instance -> BOOLEAN] MjpegView.mRun
  suspending,  \* [Instance -> BOOLEAN] MjpegView.suspending
  mIn,         \* [Instance -> Task \cup {None}] MjpegView.mIn
  thread,      \* [Instance -> Thread \cup {None}] MjpegView.thread
  joining,     \* the view whose stopPlayback the UI thread is in, or None
  then,        \* what the UI thread does once that stopPlayback returns
  status,      \* [Task -> state of the ReadDVR execution]
  taskFor,     \* [Task -> the instance that executed it, or None]
  rpc,         \* [Thread -> where the render thread is in run(); "dead" once it left the
               \* loop, "ended" once it returned out of the loop]
  open,        \* the streams opened and not closed
  rgb,         \* the native decoder's buffer: never allocated, allocated, or freed
  crash        \* the uncaught exception that ended the process, or "none"

uiVars   == <<life, finishing, mIsSuspend, joining, then>>
viewVars == <<surfaceDone, mRun, suspending, mIn, thread>>
taskVars == <<status, taskFor>>
vars     == <<uiVars, viewVars, taskVars, rpc, open, rgb, crash>>

-----------------------------------------------------------------------------
\* free(rgb), if it was allocated; the image size of the last frame is kept.
Freed == IF rgb = "allocated" THEN "freed" ELSE rgb

Alive == {"loop", "read", "decode", "draw"}

\* The background part of a ReadDVR is over and onPostExecute is posted.
Posted == {"opened", "refused"}
InFlight == {"queued", "connecting"} \cup Posted

\* The view whose fields a render thread uses (MjpegViewThread is an inner class).
View(th) == IF th \in Task THEN taskFor[th] ELSE th

\* The surface may be drawn on until the surfaceDestroyed callback returns.
SurfaceValid(i) == surfaceDone[i] \/ (joining = i /\ then = "surface")

UIFree == joining = None /\ crash = "none"

Init ==
  /\ life        = [i \in Instance |-> "absent"]
  /\ finishing   = [i \in Instance |-> FALSE]
  /\ mIsSuspend  = [i \in Instance |-> FALSE]
  /\ surfaceDone = [i \in Instance |-> FALSE]
  /\ mRun        = [i \in Instance |-> FALSE]
  /\ suspending  = [i \in Instance |-> FALSE]
  /\ mIn         = [i \in Instance |-> None]
  /\ thread      = [i \in Instance |-> None]
  /\ joining = None /\ then = "nothing"
  /\ status  = [t \in Task |-> "unused"]
  /\ taskFor = [t \in Task |-> None]
  /\ rpc     = [th \in Thread |-> "unborn"]
  /\ open = {} /\ rgb = "none" /\ crash = "none"

-----------------------------------------------------------------------------
(* The UI thread: ReadDVR.execute, stopPlayback, setSource.                *)

\* An execution that does not remember whose it is.
FaultExecute(i, t) ==
  /\ status[t] = "unused"
  /\ \A u \in Task : status[u] = "unused" => t <= u
  /\ status'  = [status EXCEPT ![t] = "queued"]
  /\ UNCHANGED taskFor

\* new ReadDVR().execute(url): queued behind every earlier execution.
Execute(i, t) ==
  /\ status[t] = "unused"
  /\ \A u \in Task : status[u] = "unused" => t <= u
  /\ status'  = [status EXCEPT ![t] = "queued"]
  /\ taskFor' = [taskFor EXCEPT ![t] = i]

\* The bound on the model: an execution is left for a reconnection.
TaskLeft == \E t \in Task : status[t] = "unused"

\* The loop of the render thread is not told to end.
FaultBeginStop(i, next) ==
  /\ suspending' = IF mRun[i] THEN [suspending EXCEPT ![i] = TRUE] ELSE suspending
  /\ joining' = i /\ then' = next
  /\ UNCHANGED mRun

\* stopPlayback up to thread.join(); `next' is the rest of its caller.
BeginStop(i, next) ==
  /\ suspending' = IF mRun[i] THEN [suspending EXCEPT ![i] = TRUE] ELSE suspending
  /\ mRun' = [mRun EXCEPT ![i] = FALSE]
  /\ joining' = i
  /\ then' = next

\* setSource(source) for a source that is not null.
SetSource(i, src) ==
  LET th == IF suspending[i] \/ thread[i] = None THEN src ELSE thread[i]
  IN  /\ mIn'  = [mIn EXCEPT ![i] = src]
      /\ mRun' = [mRun EXCEPT ![i] = TRUE]
      /\ suspending' = [suspending EXCEPT ![i] = FALSE]
      /\ thread' = [thread EXCEPT ![i] = th]
      /\ IF rpc[th] \in {"unborn", "new"}
           THEN rpc' = [rpc EXCEPT ![th] = "loop"] /\ UNCHANGED crash
           ELSE crash' = "alreadyStarted" /\ UNCHANGED rpc

-----------------------------------------------------------------------------
(* The UI thread: activity callbacks.                                      *)

\* onCreate, onStart, onResume of a new instance.  The other instances are
\* paused, and on their way out: a page finishes itself when it starts another.
Launch(i, t) ==
  /\ UIFree /\ life[i] = "absent"
  /\ \A j \in Instance : /\ life[j] # "resumed"
                         /\ life[j] \in {"absent", "destroyed"} \/ finishing[j]
  /\ life'   = [life EXCEPT ![i] = "resumed"]
  /\ thread' = [thread EXCEPT ![i] = i]
  /\ rpc'    = [rpc EXCEPT ![i] = "new"]
  /\ Execute(i, t)
  /\ UNCHANGED <<finishing, mIsSuspend, joining, then,
                 surfaceDone, mRun, suspending, mIn, open, rgb, crash>>

\* mIsSuspend is left set, and the next onResume reconnects once more.
FaultReconnectTwice(i, wasSuspended) ==
  /\ mIsSuspend' = [mIsSuspend EXCEPT ![i] = wasSuspended]
  /\ \/ wasSuspended /\ \E t \in Task : Execute(i, t)
     \/ ~wasSuspended /\ UNCHANGED taskVars

\* mIsSuspend is cleared and nothing reconnects.
FaultNoReconnect(i, wasSuspended) ==
  mIsSuspend' = [mIsSuspend EXCEPT ![i] = FALSE] /\ UNCHANGED taskVars

\* resumeMJpegVideo: reconnect, if pauseMJpegVideo stopped a playback.
ResumeMJpegVideo(i, wasSuspended) ==
  /\ mIsSuspend' = [mIsSuspend EXCEPT ![i] = FALSE]
  /\ \/ wasSuspended /\ \E t \in Task : Execute(i, t)
     \/ ~wasSuspended /\ UNCHANGED taskVars

\* onResume of an instance that is paused or stopped.
Resume(i) ==
  /\ UIFree /\ life[i] \in {"paused", "stopped"} /\ ~finishing[i]
  /\ life' = [life EXCEPT ![i] = "resumed"]
  /\ ResumeMJpegVideo(i, mIsSuspend[i])
  /\ UNCHANGED <<finishing, joining, then, viewVars, rpc, open, rgb, crash>>

\* onPause without pauseMJpegVideo.
FaultPause(i) ==
  /\ UIFree /\ life[i] = "resumed"
  /\ life' = [life EXCEPT ![i] = "paused"]
  /\ UNCHANGED <<finishing, mIsSuspend, joining, then, viewVars,
                 taskVars, rpc, open, rgb, crash>>

\* onPause: pauseMJpegVideo stops the playback if the view is streaming.
Pause(i) ==
  /\ UIFree /\ life[i] = "resumed"
  /\ \/ mRun[i] /\ BeginStop(i, "pause") /\ UNCHANGED life
     \/ /\ ~mRun[i]
        /\ life' = [life EXCEPT ![i] = "paused"]
        /\ UNCHANGED <<suspending, mRun, joining, then>>
  /\ UNCHANGED <<finishing, mIsSuspend, surfaceDone, mIn, thread,
                 taskVars, rpc, open, rgb, crash>>

\* A click on the camera icon, or any other: a view that is not streaming is
\* neither stopped nor reconnected, so that click changes nothing here.
CameraClick(i) ==
  /\ UIFree /\ life[i] = "resumed" /\ mRun[i] /\ TaskLeft
  /\ BeginStop(i, "click")
  /\ UNCHANGED <<life, finishing, mIsSuspend, surfaceDone, mIn, thread,
                 taskVars, rpc, open, rgb, crash>>

\* finish() (another page was chosen, back) or recreate() (system mode set).
Leave(i) ==
  /\ UIFree /\ life[i] = "resumed" /\ ~finishing[i]
  /\ finishing' = [finishing EXCEPT ![i] = TRUE]
  /\ UNCHANGED <<life, mIsSuspend, joining, then, viewVars,
                 taskVars, rpc, open, rgb, crash>>

Stop(i) ==
  /\ UIFree /\ life[i] = "paused"
  /\ life' = [life EXCEPT ![i] = "stopped"]
  /\ UNCHANGED <<finishing, mIsSuspend, joining, then, viewVars,
                 taskVars, rpc, open, rgb, crash>>

\* freeCameraMemory frees without asking whether the view has a stream.
FaultDestroy(i) ==
  /\ UIFree /\ life[i] = "stopped"
  /\ life' = [life EXCEPT ![i] = "destroyed"]
  /\ rgb' = Freed
  /\ UNCHANGED <<finishing, mIsSuspend, joining, then, viewVars,
                 taskVars, rpc, open, crash>>

\* onDestroy; freeCameraMemory reaches the native code only through mIn.
Destroy(i) ==
  /\ UIFree /\ life[i] = "stopped"
  /\ life' = [life EXCEPT ![i] = "destroyed"]
  /\ rgb' = IF mIn[i] # None THEN Freed ELSE rgb
  /\ UNCHANGED <<finishing, mIsSuspend, joining, then, viewVars,
                 taskVars, rpc, open, crash>>

-----------------------------------------------------------------------------
(* The UI thread: surface callbacks and the return of Thread.join.         *)

SurfaceCreated(i) ==
  /\ UIFree /\ life[i] \in {"resumed", "paused"} /\ ~surfaceDone[i]
  /\ surfaceDone' = [surfaceDone EXCEPT ![i] = TRUE]
  /\ UNCHANGED <<uiVars, mRun, suspending, mIn, thread,
                 taskVars, rpc, open, rgb, crash>>

\* surfaceDestroyed without stopPlayback.
FaultSurfaceDestroyed(i) ==
  /\ UIFree /\ life[i] \notin {"absent", "resumed"} /\ surfaceDone[i]
  /\ surfaceDone' = [surfaceDone EXCEPT ![i] = FALSE]
  /\ UNCHANGED <<uiVars, mRun, suspending, mIn, thread,
                 taskVars, rpc, open, rgb, crash>>

\* The window is hidden by a pause or a stop, or removed after onDestroy.
SurfaceDestroyed(i) ==
  /\ UIFree /\ life[i] \notin {"absent", "resumed"} /\ surfaceDone[i]
  /\ surfaceDone' = [surfaceDone EXCEPT ![i] = FALSE]
  /\ BeginStop(i, "surface")
  /\ UNCHANGED <<life, finishing, mIsSuspend, mIn, thread,
                 taskVars, rpc, open, rgb, crash>>

\* A join that gives up waiting.
FaultCanJoin(i) == i \in Instance

\* thread.join() returns at once for null, unstarted and ended threads.
CanJoin(i) == thread[i] # None => rpc[thread[i]] \notin Alive

\* stopPlayback from the return of join, and the rest of its caller.
JoinReturns(i) ==
  /\ joining = i /\ crash = "none" /\ CanJoin(i)
  /\ thread' = [thread EXCEPT ![i] = None]
  /\ open' = open \ {mIn[i]}
  /\ mIn' = [mIn EXCEPT ![i] = None]
  /\ joining' = None /\ then' = "nothing"
  /\ \/ /\ then = "pause"
        /\ mIsSuspend' = [mIsSuspend EXCEPT ![i] = TRUE]
        /\ life' = [life EXCEPT ![i] = "paused"]
        /\ UNCHANGED taskVars
     \/ then = "click" /\ ResumeMJpegVideo(i, TRUE) /\ UNCHANGED life
     \/ then = "surface" /\ UNCHANGED <<mIsSuspend, life, taskVars>>
  /\ UNCHANGED <<finishing, surfaceDone, mRun, suspending, rpc, rgb, crash>>

-----------------------------------------------------------------------------
(* ReadDVR: doInBackground on the serial executor, onPostExecute on the UI *)

\* The executor takes the oldest queued execution when it has none running.
Connect(t) ==
  /\ crash = "none" /\ status[t] = "queued"
  /\ \A u \in Task : status[u] # "connecting" /\ (status[u] = "queued" => t <= u)
  /\ status' = [status EXCEPT ![t] = "connecting"]
  /\ UNCHANGED <<uiVars, viewVars, taskFor, rpc, open, rgb, crash>>

\* doInBackground returns a stream, or null after an exception.
Connected(t) ==
  /\ crash = "none" /\ status[t] = "connecting"
  /\ \/ status' = [status EXCEPT ![t] = "opened"] /\ open' = open \cup {t}
     \/ status' = [status EXCEPT ![t] = "refused"] /\ UNCHANGED open
  /\ UNCHANGED <<uiVars, viewVars, taskFor, rpc, rgb, crash>>

\* A late result is dropped, and its stream is not closed.
FaultPostExecute(t) ==
  /\ UIFree /\ status[t] \in Posted
  /\ \A u \in Task : status[u] \in Posted => t <= u
  /\ \/ /\ status[t] = "opened" /\ life[taskFor[t]] = "resumed"
        /\ status' = [status EXCEPT ![t] = "played"]
        /\ SetSource(taskFor[t], t)
     \/ /\ status[t] = "refused" \/ life[taskFor[t]] # "resumed"
        /\ status' = [status EXCEPT ![t] = "failed"]
        /\ UNCHANGED <<mIn, mRun, suspending, thread, rpc, crash>>
  /\ UNCHANGED <<uiVars, surfaceDone, taskFor, open, rgb>>

\* A result waits until its preview is on screen, and the later ones behind it.
FaultDeliver(t) ==
  /\ UIFree /\ status[t] \in Posted /\ life[taskFor[t]] = "resumed"
  /\ \A u \in Task : status[u] \in Posted => t <= u
  /\ \/ /\ status[t] = "opened"
        /\ status' = [status EXCEPT ![t] = "played"]
        /\ SetSource(taskFor[t], t)
     \/ /\ status[t] = "refused"
        /\ status' = [status EXCEPT ![t] = "failed"]
        /\ UNCHANGED <<mIn, mRun, suspending, thread, rpc, crash>>
  /\ UNCHANGED <<uiVars, surfaceDone, taskFor, open, rgb>>

\* onPostExecute, in the order the results were posted.  Nothing cancels it
\* when its activity is paused or destroyed: the status keeps that it was late.
PostExecute(t) ==
  /\ UIFree /\ status[t] \in Posted
  /\ \A u \in Task : status[u] \in Posted => t <= u
  /\ \/ /\ status[t] = "opened"
        /\ status' = [status EXCEPT ![t] =
                        IF life[taskFor[t]] = "resumed" THEN "played" ELSE "late"]
        /\ SetSource(taskFor[t], t)
     \/ /\ status[t] = "refused"
        /\ status' = [status EXCEPT ![t] = "failed"]
        /\ UNCHANGED <<mIn, mRun, suspending, thread, rpc, crash>>
  /\ UNCHANGED <<uiVars, surfaceDone, taskFor, open, rgb>>

-----------------------------------------------------------------------------
(* A render thread: MjpegViewThread.run                                    *)

At(th, pc) == crash = "none" /\ rpc[th] = pc

Goto(th, pc) ==
  /\ rpc' = [rpc EXCEPT ![th] = pc]
  /\ UNCHANGED <<uiVars, viewVars, taskVars, open, crash>>

\* while (mRun) reads FALSE.
Exit(th) == At(th, "loop") /\ ~mRun[View(th)] /\ Goto(th, "dead") /\ UNCHANGED rgb

\* while (mRun) reads TRUE and if (surfaceDone) reads TRUE.  Neither field is
\* volatile: mRun may be read as it was before stopPlayback, and surfaceDone as
\* it was before the surfaceDestroyed in progress.
BeginRead(th) ==
  /\ At(th, "loop") /\ SurfaceValid(View(th)) /\ UNCHANGED rgb
  /\ IF mIn[View(th)] # None
       THEN Goto(th, "read")
       ELSE crash' = "nullSource" /\ UNCHANGED <<uiVars, viewVars, taskVars, rpc, open>>

\* readMjpegFrame throws an IOException, which run() logs and forgets.
ReadFails(th) == At(th, "read") /\ Goto(th, "loop") /\ UNCHANGED rgb

\* readMjpegFrame returns -1: run() returns, mRun stays TRUE.
EndOfStream(th) == At(th, "read") /\ Goto(th, "ended") /\ UNCHANGED rgb

\* No end of image was found: readFully is asked for -1 bytes and throws.
BadFrame(th) ==
  /\ At(th, "read") /\ crash' = "badFrame"
  /\ UNCHANGED <<uiVars, viewVars, taskVars, rpc, open, rgb>>

\* A frame was read: processimage allocates the buffer it decodes into, unless
\* the decoder gives the frame up before.
BeginDecode(th) ==
  At(th, "read") /\ Goto(th, "decode") /\ rgb' \in {"allocated", rgb}

\* pixeltobmp returns 0 or, for a bitmap of another size, -1: no frame has the size -1
\* that IMG_WIDTH and IMG_HEIGHT have before the first allocation.
EndDecode(th) ==
  /\ At(th, "decode") /\ UNCHANGED rgb
  /\ \/ rgb # "none" /\ Goto(th, "draw")
     \/ Goto(th, "ended")

\* pixeltobmp copies from the null pointer that freeCameraMemory left.
NullBuffer(th) ==
  /\ At(th, "decode") /\ rgb = "freed" /\ crash' = "nullBuffer"
  /\ UNCHANGED <<uiVars, viewVars, taskVars, rpc, open, rgb>>

\* lockCanvas returns null without a surface, and drawBitmap is called on it.
Draw(th) ==
  /\ At(th, "draw") /\ UNCHANGED rgb
  /\ IF SurfaceValid(View(th))
       THEN Goto(th, "loop")
       ELSE crash' = "nullCanvas" /\ UNCHANGED <<uiVars, viewVars, taskVars, rpc, open>>

Render(th) ==
  \/ Exit(th) \/ BeginRead(th) \/ ReadFails(th) \/ EndOfStream(th)
  \/ BadFrame(th) \/ BeginDecode(th) \/ EndDecode(th) \/ NullBuffer(th) \/ Draw(th)

UI(i) ==
  \/ \E t \in Task : Launch(i, t)
  \/ Resume(i) \/ Pause(i) \/ CameraClick(i) \/ Leave(i) \/ Stop(i) \/ Destroy(i)
  \/ SurfaceCreated(i) \/ SurfaceDestroyed(i) \/ JoinReturns(i)

ReadDVR(t) == Connect(t) \/ Connected(t) \/ PostExecute(t)

Next ==
  \/ \E i \in Instance : UI(i)
  \/ \E t \in Task : ReadDVR(t)
  \/ \E th \in Thread : Render(th)

Spec == Init /\ [][Next]_vars

-----------------------------------------------------------------------------
(* Fairness.  The UI looper and the serial executor are FIFO queues, so a  *)
(* posted result and a queued execution are not passed over for ever.  A   *)
(* runnable render thread is scheduled, and one that is at the head of its *)
(* loop again and again reads the FALSE written to mRun in the end: the    *)
(* loop makes calls, so its reads are not hoisted.  Nothing is assumed of  *)
(* the network, which has no timeout here (BeginDecode, EndOfStream,       *)
(* ReadFails, Connected), of the native decoder (EndDecode), or of the     *)
(* user and the system (every other UI action).                            *)
QueueFairness ==
  \A t \in Task : WF_vars(Connect(t)) /\ SF_vars(PostExecute(t))

ThreadFairness ==
  /\ \A i \in Instance : WF_vars(JoinReturns(i))
  /\ \A th \in Thread : SF_vars(Exit(th)) /\ WF_vars(BeginRead(th)) /\ WF_vars(Draw(th))

FairSpec == Spec /\ QueueFairness /\ ThreadFairness

-----------------------------------------------------------------------------
(* Properties                                                              *)

\* The variables have their types, a task has an instance exactly when it was
\* executed, and only what opened a stream can be holding one.
TypeOK ==
  /\ life \in [Instance -> {"absent", "resumed", "paused", "stopped", "destroyed"}]
  /\ finishing \in [Instance -> BOOLEAN]
  /\ mIsSuspend \in [Instance -> BOOLEAN]
  /\ surfaceDone \in [Instance -> BOOLEAN]
  /\ mRun \in [Instance -> BOOLEAN]
  /\ suspending \in [Instance -> BOOLEAN]
  /\ mIn \in [Instance -> Task \cup {None}]
  /\ thread \in [Instance -> Thread \cup {None}]
  /\ joining \in Instance \cup {None}
  /\ then \in {"nothing", "pause", "click", "surface"}
  /\ status \in [Task -> {"unused", "played", "late", "failed"} \cup InFlight]
  /\ taskFor \in [Task -> Instance \cup {None}]
  /\ \A t \in Task : taskFor[t] = None <=> status[t] = "unused"
  /\ rpc \in [Thread -> {"unborn", "new", "dead", "ended"} \cup Alive]
  /\ open \subseteq Task
  /\ rgb \in {"none", "allocated", "freed"}
  /\ crash \in {"none", "alreadyStarted", "nullSource", "nullCanvas", "nullBuffer", "badFrame"}

\* No order of lifecycle callbacks, results and frames starts a started thread
\* (MjpegView.startPlayback), reads from a null mIn, or draws on the null canvas
\* of a destroyed surface (run); a late stream is needed for one to be decoded
\* without the native buffer.  A frame without end marker does end the process.
NoLifecycleCrash ==
  \/ crash \in {"none", "badFrame"}
  \/ crash = "nullBuffer" /\ \E t \in Task : status[t] = "late"

\* A view never has two render threads: the one replaced was joined.
OneRenderThread ==
  \A th, other \in Thread :
    rpc[th] \in Alive /\ rpc[other] \in Alive /\ View(th) = View(other) => th = other

\* A preview never has two streams, or a stream and a request for another:
\* the DVR is asked again only after stopPlayback closed the stream before.
SingleConnection ==
  \A t, u \in Task :
    /\ status[t] \in InFlight \/ t \in open
    /\ status[u] \in InFlight \/ u \in open
    /\ taskFor[t] = taskFor[u]
    => t = u

\* A stream that is open is held by the view it was requested for, or on its
\* way there: none is dropped without being closed.
NoStreamDropped ==
  \A t \in open : status[t] = "opened" \/ mIn[taskFor[t]] = t

\* The view has a render thread at work: one in its loop, whether the surface is
\* there yet, and whatever the reads return (a read that fails is tried again).
Playing(i) == mRun[i] /\ thread[i] # None /\ rpc[thread[i]] \in Alive

\* The last time that the preview asked for a stream.
LastRequest(i, t) == taskFor[t] = i /\ \A u \in Task : taskFor[u] = i => u <= t

\* A preview on screen plays, or its last request tells why it does not: it is
\* under way; it was refused; its result came while the preview was not on screen;
\* or its stream is the one the view holds, and the render thread returned at the
\* end of it or at a frame for another bitmap (run, with mRun left TRUE).  The
\* pairing of mIsSuspend and suspending loses no other reconnection; after the end
\* of a stream a click on the camera icon, or a pause, brings one.
PreviewLossExplained ==
  \A i \in Instance :
    life[i] = "resumed" /\ joining # i /\ ~Playing(i) =>
      \E t \in Task :
        /\ LastRequest(i, t)
        /\ \/ status[t] \in InFlight \cup {"failed", "late"}
           \/ status[t] = "played" /\ mIn[i] = t /\ rpc[thread[i]] = "ended"

\* Off screen, a view plays only a stream whose ReadDVR finished late.
BackgroundPlaybackIsLate ==
  \A i \in Instance : life[i] # "resumed" /\ mRun[i] => status[mIn[i]] = "late"

\* Two render threads, of any views, decode into the one native buffer only
\* when one of them plays a stream that came late.
DecodersExclusive ==
  \A th, other \in Thread :
    /\ th # other /\ rpc[th] = "decode" /\ rpc[other] = "decode"
    => \E t \in {mIn[View(th)], mIn[View(other)]} : status[t] = "late"

\* stopPlayback closes a stream only when no render thread of its view can
\* still be reading it.
CloseAfterLastRead ==
  [][\A t \in open \ open' : \A th \in Thread :
       View(th) = taskFor[t] => rpc[th] \notin Alive]_vars

\* onDestroy frees the native buffer only for a view still playing a late
\* stream; a preview that was stopped in order leaves the buffer to the next.
FreedOnlyByLatePlayback ==
  [][rgb = "allocated" /\ rgb' = "freed" => \E i \in Instance :
       life[i] = "stopped" /\ mRun[i] /\ status[mIn[i]] = "late"]_vars

\* The stream each task opens, as PreviewStreams sees it.
StreamOf(t) ==
  CASE status[t] = "unused" -> "none"
    [] status[t] \in {"queued", "connecting", "refused"} -> "requested"
    [] status[t] = "opened" -> "open"
    [] status[t] = "failed" -> "failed"
    [] OTHER -> IF t \in open THEN "attached" ELSE "closed"

Streams == INSTANCE PreviewStreams WITH
  stream <- [t \in Task |-> StreamOf(t)],
  owner  <- taskFor

\* The preview keeps the promise about its streams.
StreamsSpec == Streams!Spec

\* The UI thread leaves stopPlayback, or the render thread it joins is for ever
\* in a network read or in the decoder (or the process ended).
UIUnblocked ==
  \/ []<>(joining = None)
  \/ <>[](\E th \in Thread : joining = View(th) /\ rpc[th] \in {"read", "decode"})
  \/ <>(crash # "none")

\* Every ReadDVR that was queued ends, unless one before it hangs in its
\* connection, the UI thread hangs in stopPlayback, or the process ended.
ReadDVRCompletes ==
  \A t \in Task :
    \/ status[t] = "queued" ~> status[t] \in {"played", "late", "failed"}
    \/ <>[](\E u \in Task : status[u] = "connecting")
    \/ <>[](joining # None)
    \/ <>(crash # "none")
=============================================================================
