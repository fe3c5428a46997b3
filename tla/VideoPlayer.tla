---------------------------- MODULE VideoPlayer ----------------------------
(***************************************************************************)
(* The video player VideoPlayEX around ExoPlayer: the item whose name it   *)
(* shows and that it saves, the timer that moves the seek bar, and the     *)
(* progress view over the video. Its list, and what a save does, are in    *)
(* Recordings, its menu in ScreenMenu.                                     *)
(*                                                                         *)
(* ExoPlayer 2.4 (external) plays the items one after the other; it        *)
(* reports its states later, but setPlayWhenReady calls the listener       *)
(* before it returns. A seek to where the player already is, which it      *)
(* ignores, is left out.                                                   *)
(***************************************************************************)
EXTENDS Integers, Sequences

CONSTANTS LastItem,    \* items are 0..LastItem
          MaxSaves,    \* bound: saves that are not answered
          MaxStrays    \* bound: this many stray timers or more

ASSUME PlayerAssumption == LastItem \in Nat /\ MaxSaves \in Nat /\ MaxStrays \in Nat \ {0}

Item == 0..LastItem

VARIABLES
    activity,           \* "paused", "resumed", "finished"
    position,           \* the item in the intent
    mWindowIndex,
    mCurrentVideoItem,  \* its name is the title
    window,             \* what the player plays
    playWhenReady,
    playbackState,      \* as the listener was told: "IDLE", "BUFFERING", "READY", "ENDED"
    seeking,            \* a seek is not reported yet
    ticking,            \* is mUpdateUITimer scheduled?
    strays,             \* other timers that still are
    progressView,       \* visible?
    saves,              \* what the service has to save, in order
    advanced,           \* history: the player went on by itself since it was told an item
    restarted,          \* history: a timer was started over a running one
    unanswered          \* history: a save to OTG ended without an answer

playerVars == <<window, playWhenReady, playbackState, seeking>>
itemVars == <<mWindowIndex, mCurrentVideoItem, advanced>>
timerVars == <<ticking, strays, restarted>>
vars == <<activity, position, itemVars, playerVars, timerVars, progressView, saves, unanswered>>

Init ==
    /\ activity = "paused"
    /\ position \in Item
    /\ mWindowIndex = 0 /\ mCurrentVideoItem = position /\ advanced = FALSE
    /\ window = 0 /\ playWhenReady = FALSE /\ playbackState = "IDLE" /\ seeking = FALSE
    /\ ticking = FALSE /\ strays = 0 /\ restarted = FALSE
    /\ progressView = FALSE /\ saves = <<>> /\ unanswered = FALSE

Lesser(a, b) == IF a < b THEN a ELSE b

\* startUITimer n times: the timer that mUpdateUITimer held goes on.
StartUITimer(n) ==
    LET orphans == IF n = 0 THEN 0 ELSE IF ticking THEN n ELSE n - 1
    IN /\ strays' = Lesser(strays + orphans, MaxStrays)
       /\ restarted' = (restarted \/ orphans > 0)

\* onPlayerStateChanged: STATE_PLAYING of the framework is STATE_READY of ExoPlayer. How
\* often it starts a timer when setPlayWhenReady is called.
Started == IF playbackState = "READY" THEN 1 ELSE 0

----------------------------------------------------------------------------
(* The activity *)

OnResume ==
    /\ activity = "paused"
    /\ activity' = "resumed"
    /\ mCurrentVideoItem' = position /\ mWindowIndex' = position /\ advanced' = FALSE
    /\ window' = position /\ playWhenReady' = TRUE
    /\ playbackState' = "BUFFERING" /\ seeking' = FALSE
    /\ UNCHANGED <<position, timerVars, progressView, saves, unanswered>>

FaultRelease == UNCHANGED timerVars   \* seeded bug: releasePlayer leaves the timer

\* stopUITimer of releasePlayer.
Release == ticking' = FALSE /\ UNCHANGED <<strays, restarted>>

\* onPause, because of another page, the back button or onPlayerError.
OnPause ==
    /\ activity = "resumed"
    /\ activity' \in {"paused", "finished"}
    /\ Release
    /\ playbackState' = "IDLE" /\ playWhenReady' = FALSE /\ seeking' = FALSE
    /\ UNCHANGED <<position, itemVars, window, progressView, saves, unanswered>>

----------------------------------------------------------------------------
(* The player *)

\* It has enough data: onPlayerStateChanged sets the seek bar, starts a timer and hides the
\* progress view.
Ready ==
    /\ activity = "resumed" /\ playbackState = "BUFFERING" /\ ~seeking
    /\ playbackState' = "READY"
    /\ StartUITimer(1) /\ ticking' = TRUE
    /\ progressView' = FALSE
    /\ UNCHANGED <<activity, position, itemVars, window, playWhenReady, seeking, saves,
                   unanswered>>

\* It has none, or was told to seek: nothing is done with that.
Buffering ==
    /\ activity = "resumed" /\ playbackState # "IDLE"
    /\ seeking \/ playbackState = "READY"
    /\ playbackState' = "BUFFERING" /\ seeking' = FALSE
    /\ UNCHANGED <<activity, position, itemVars, window, playWhenReady, timerVars,
                   progressView, saves, unanswered>>

\* The item is over: onPositionDiscontinuity, or STATE_ENDED, only write the log.
EndOfItem ==
    /\ activity = "resumed" /\ playbackState = "READY" /\ playWhenReady /\ ~seeking
    /\ IF window < LastItem
       THEN window' = window + 1 /\ advanced' = TRUE /\ UNCHANGED playbackState
       ELSE playbackState' = "ENDED" /\ UNCHANGED <<window, advanced>>
    /\ UNCHANGED <<activity, position, mWindowIndex, mCurrentVideoItem, playWhenReady, seeking,
                   timerVars, progressView, saves, unanswered>>

----------------------------------------------------------------------------
(* The user *)

\* nextVideo and previousVideo, around the ends of the list.
Wrapped(item) == IF item > LastItem THEN 0 ELSE IF item < 0 THEN LastItem ELSE item

FaultSeekTo(item) ==   \* seeded bug: the title stays
    /\ mWindowIndex' = item /\ window' = item /\ seeking' = TRUE /\ advanced' = FALSE
    /\ UNCHANGED mCurrentVideoItem

SeekTo(item) ==
    /\ mWindowIndex' = item /\ window' = item /\ seeking' = TRUE /\ advanced' = FALSE
    /\ mCurrentVideoItem' = item

Skip(step) ==
    /\ activity = "resumed"
    /\ SeekTo(Wrapped(mWindowIndex + step))
    /\ progressView' = TRUE
    /\ UNCHANGED <<activity, position, playWhenReady, playbackState, timerVars, saves,
                   unanswered>>

\* Pausing starts a timer, in the listener, and cancels it; playing starts one or two.
PlayPause ==
    /\ activity = "resumed"
    /\ playWhenReady' = ~playWhenReady
    /\ IF playWhenReady THEN StartUITimer(Started) /\ ticking' = FALSE
                        ELSE StartUITimer(Started + 1) /\ ticking' = TRUE
    /\ progressView' = (progressView /\ playbackState # "READY")
    /\ UNCHANGED <<activity, position, itemVars, window, playbackState, seeking, saves,
                   unanswered>>

\* setPlayWhenReady, which the listener hears of if it changes anything.
SetPlayWhenReady(play) ==
    /\ playWhenReady' = play
    /\ IF play # playWhenReady
       THEN StartUITimer(Started) /\ ticking' = (ticking \/ Started = 1)
       ELSE UNCHANGED timerVars

\* onStopTrackingTouch: a seek within the item.
StopTracking ==
    /\ activity = "resumed"
    /\ SetPlayWhenReady(TRUE)
    /\ seeking' = TRUE
    /\ progressView' = (progressView /\ (playWhenReady \/ playbackState # "READY"))
    /\ UNCHANGED <<activity, position, itemVars, window, playbackState, saves, unanswered>>

\* Save to phone or to OTG: the video stops and the service is given the current item.
Save(to) ==
    /\ activity = "resumed" /\ Len(saves) < MaxSaves
    /\ SetPlayWhenReady(FALSE)
    /\ progressView' = TRUE
    /\ saves' = Append(saves, to)
    /\ UNCHANGED <<activity, position, itemVars, window, playbackState, seeking, unanswered>>

----------------------------------------------------------------------------
(* The service, of which only a page that is resumed hears *)

Progress ==
    /\ saves # <<>>
    /\ progressView' = (progressView \/ activity = "resumed")
    /\ UNCHANGED <<activity, position, itemVars, playerVars, timerVars, saves, unanswered>>

FaultAnswer ==   \* seeded bug: the answer does not hide the progress view
    /\ saves # <<>>
    /\ saves' = Tail(saves)
    /\ unanswered' \in {unanswered, unanswered \/ Head(saves) = "OTG"}
    /\ UNCHANGED <<activity, position, itemVars, playerVars, timerVars, progressView>>

\* A save to OTG without a device has no answer.
Answer ==
    /\ saves # <<>>
    /\ saves' = Tail(saves)
    /\ \/ progressView' = (progressView /\ activity # "resumed") /\ UNCHANGED unanswered
       \/ Head(saves) = "OTG" /\ unanswered' = TRUE /\ UNCHANGED progressView
    /\ UNCHANGED <<activity, position, itemVars, playerVars, timerVars>>

\* The answer to a save that failed early has no array of results, whose length the
\* receiver reads: the process ends, with its timers and the service's saves.
EarlyFailure ==
    /\ saves # <<>> /\ activity = "resumed"
    /\ activity' = "finished" /\ saves' = <<>> /\ progressView' = FALSE
    /\ ticking' = FALSE /\ strays' = 0
    /\ playbackState' = "IDLE" /\ playWhenReady' = FALSE /\ seeking' = FALSE
    /\ UNCHANGED <<position, itemVars, window, restarted, unanswered>>

----------------------------------------------------------------------------

Next ==
    \/ OnResume \/ OnPause
    \/ Ready \/ Buffering \/ EndOfItem
    \/ (\E step \in {-1, 1} : Skip(step))
    \/ PlayPause \/ StopTracking
    \/ (\E to \in {"phone", "OTG"} : Save(to))
    \/ Progress \/ Answer \/ EarlyFailure

Spec == Init /\ [][Next]_vars

\* The player gets its data or reports an error, which finishes the activity; the service
\* ends its saves. The user does not skip for ever before a video is there.
FairSpec ==
    /\ Spec
    /\ WF_vars(Buffering /\ seeking) /\ SF_vars(Ready) /\ SF_vars(Answer)

----------------------------------------------------------------------------
(* Properties *)

\* The title, and what is saved, is the item that is played, and the next skip starts from
\* it, unless the player went on by itself (nothing listens to that).
ItemPlayed ==
    activity = "resumed" /\ ~advanced =>
        /\ mCurrentVideoItem = window /\ mWindowIndex = window
        /\ window \in Item

\* A page that is not on screen has no timer ticking, unless one was started over another,
\* which then ticks until the process ends.
NoStrayTimer == activity # "resumed" => ~ticking /\ (strays > 0 => restarted)

\* The progress view goes away, or the page does (with the process, after an early failure),
\* unless a save to OTG was not answered: a lost answer is made up for by the player that is
\* made anew.
ProgressEnds ==
    activity = "resumed" /\ progressView
        ~> (~progressView \/ activity # "resumed" \/ unanswered)
=============================================================================
