----------------------------- MODULE ScreenMenu -----------------------------
(***************************************************************************)
(* The menu of the preview and of the video player (Preview and            *)
(* VideoPlayEX have the same code for it): a tool bar and a bottom bar,    *)
(* and the player's buttons, that a touch shows or hides and that hide     *)
(* themselves 1.5 s after the last use, by an animation of 0.5 s.          *)
(*                                                                         *)
(* Everything runs on the UI thread, one callback at a time; posted        *)
(* callbacks, frames, the user and the activity manager come in any order. *)
(***************************************************************************)
EXTENDS Integers

CONSTANTS MaxPosts   \* bound: HideUIControl callbacks that are waiting

ASSUME MenuAssumption == MaxPosts \in Nat \ {0}

VARIABLES
    page,          \* which of the two
    activity,      \* "stopped", "paused" (on screen, not in front), "resumed"
    mShowingMenu,
    toolbar, bottomBar, controls,   \* visible? controls is the player's mViewControlGroup
    posts,         \* HideUIControl callbacks in the main looper
    animation,     \* of both bars: "none", "requested", "running"
    tracking,      \* a finger is on the seek bar
    excuses        \* history: why what is visible may not be what mShowingMenu says

menuVars == <<mShowingMenu, toolbar, bottomBar, controls>>
screenVars == <<page, activity, menuVars, posts, animation, tracking, excuses>>

\* After onCreate: the layouts show everything.
MenuInit ==
    /\ page \in {"Preview", "VideoPlayEX"}
    /\ activity = "stopped"
    /\ mShowingMenu = FALSE /\ toolbar = TRUE /\ bottomBar = TRUE /\ controls = TRUE
    /\ posts = 0 /\ animation = "none" /\ tracking = FALSE /\ excuses = {}

----------------------------------------------------------------------------
(* The activity manager *)

OnStart ==
    /\ activity = "stopped" /\ posts < MaxPosts
    /\ activity' = "paused"
    /\ posts' = posts + 1
    /\ UNCHANGED <<page, menuVars, animation, tracking, excuses>>

\* The player's buttons are not shown again, and no callback is posted.
OnResume ==
    /\ activity = "paused"
    /\ activity' = "resumed"
    /\ mShowingMenu' = TRUE /\ toolbar' = TRUE /\ bottomBar' = TRUE
    /\ excuses' = (IF animation = "none" THEN {} ELSE {"animation"})
                  \cup (IF controls THEN {} ELSE {"resume"})
                  \cup (IF posts > 0 \/ animation # "none" THEN {} ELSE {"unposted"})
    /\ UNCHANGED <<page, controls, posts, animation, tracking>>

OnPause ==
    /\ activity = "resumed"
    /\ activity' = "paused" /\ tracking' = FALSE
    /\ UNCHANGED <<page, menuVars, posts, animation, excuses>>

OnStop ==
    /\ activity = "paused"
    /\ activity' = "stopped"
    /\ UNCHANGED <<page, menuVars, posts, animation, tracking, excuses>>

----------------------------------------------------------------------------
(* The user *)

\* toggleMenu, when the menu is shown: the callbacks are removed, a running animation is not.
ToggleHide ==
    /\ activity = "resumed" /\ mShowingMenu
    /\ mShowingMenu' = FALSE /\ toolbar' = FALSE /\ bottomBar' = FALSE
    /\ controls' = (controls /\ page = "Preview")
    /\ posts' = 0
    /\ excuses' = {}
    /\ UNCHANGED <<page, activity, animation, tracking>>

FaultToggleShow ==   \* seeded bug: the menu is shown for good
    /\ activity = "resumed" /\ ~mShowingMenu
    /\ mShowingMenu' = TRUE /\ toolbar' = TRUE /\ bottomBar' = TRUE /\ controls' = TRUE
    /\ excuses' = IF animation = "none" THEN {} ELSE {"animation"}
    /\ UNCHANGED <<page, activity, posts, animation, tracking>>

\* toggleMenu, when it is hidden.
ToggleShow ==
    /\ activity = "resumed" /\ ~mShowingMenu /\ posts < MaxPosts
    /\ mShowingMenu' = TRUE /\ toolbar' = TRUE /\ bottomBar' = TRUE /\ controls' = TRUE
    /\ posts' = posts + 1
    /\ excuses' = IF animation = "none" THEN {} ELSE {"animation"}
    /\ UNCHANGED <<page, activity, animation, tracking>>

\* Where the user can touch a button: views that an animation moves still take touches.
Touchable == IF page = "Preview" THEN toolbar \/ animation # "none" ELSE controls

\* The camera icon, or play, rewind and forward: the 1.5 s begin anew.
Click ==
    /\ activity = "resumed" /\ Touchable
    /\ posts' = 1 /\ excuses' = excuses \ {"unposted"}
    /\ UNCHANGED <<page, activity, menuVars, animation, tracking>>

\* The seek bar keeps the menu while it is dragged.
StartTracking ==
    /\ activity = "resumed" /\ page = "VideoPlayEX" /\ controls /\ ~tracking
    /\ tracking' = TRUE /\ posts' = 0
    /\ UNCHANGED <<page, activity, menuVars, animation, excuses>>

StopTracking ==
    /\ activity = "resumed" /\ tracking /\ posts < MaxPosts
    /\ tracking' = FALSE /\ posts' = posts + 1 /\ excuses' = excuses \ {"unposted"}
    /\ UNCHANGED <<page, activity, menuVars, animation>>

----------------------------------------------------------------------------
(* The main looper *)

\* HideUIControl: startAnimation again restarts a running animation.
HideUIControl ==
    /\ posts > 0
    /\ posts' = posts - 1
    /\ IF mShowingMenu THEN bottomBar' = FALSE /\ animation' = "requested"
                       ELSE UNCHANGED <<bottomBar, animation>>
    /\ UNCHANGED <<page, activity, mShowingMenu, toolbar, controls, tracking, excuses>>

\* onAnimationStart of the tool bar, at the next frame.
AnimationStart ==
    /\ activity # "stopped" /\ animation = "requested"
    /\ animation' = "running" /\ toolbar' = FALSE
    /\ UNCHANGED <<page, activity, mShowingMenu, bottomBar, controls, posts, tracking, excuses>>

FaultAnimationEnd ==   \* seeded bug: only the bars are hidden
    /\ activity # "stopped" /\ animation = "running"
    /\ animation' = "none" /\ bottomBar' = FALSE
    /\ controls' = (controls /\ page = "Preview")
    /\ UNCHANGED <<page, activity, mShowingMenu, toolbar, posts, tracking, excuses>>

\* onAnimationEnd of the bottom bar.
AnimationEnd ==
    /\ activity # "stopped" /\ animation = "running"
    /\ animation' = "none" /\ bottomBar' = FALSE /\ mShowingMenu' = FALSE
    /\ controls' = (controls /\ page = "Preview")
    /\ UNCHANGED <<page, activity, toolbar, posts, tracking, excuses>>

----------------------------------------------------------------------------

MenuNext ==
    \/ OnStart \/ OnResume \/ OnPause \/ OnStop
    \/ ToggleHide \/ ToggleShow \/ Click \/ StartTracking \/ StopTracking
    \/ HideUIControl \/ AnimationStart \/ AnimationEnd

MenuSpec == MenuInit /\ [][MenuNext]_screenVars

\* A posted callback runs: the user does not touch a button within every 1.5 s for ever. An
\* animation ends before a callback that was posted meanwhile can restart it.
MenuFairSpec ==
    /\ MenuSpec
    /\ WF_screenVars(HideUIControl) /\ WF_screenVars(AnimationStart) /\ SF_screenVars(AnimationEnd)

----------------------------------------------------------------------------
(* Properties *)

\* Once an animation is over, mShowingMenu says what is on the screen, so that a touch shows
\* a hidden menu and hides a shown one. The code allows two exceptions: a menu that was shown
\* while an animation hides it keeps its tool bar until the next touch; the player's buttons
\* stay hidden when the activity comes back.
MenuAgrees ==
    activity = "resumed" /\ animation = "none" =>
        /\ bottomBar = mShowingMenu
        /\ "animation" \notin excuses => toolbar = mShowingMenu
        /\ page = "VideoPlayEX" =>
              /\ controls => mShowingMenu
              /\ mShowingMenu /\ ~controls => "resume" \in excuses

\* A menu that is shown hides itself, unless the user or the activity manager is faster, or a
\* finger is on the seek bar. One exception: after a pause without a stop nothing hides it,
\* because it is onStart that posts the callback.
MenuHides ==
    activity = "resumed" /\ mShowingMenu /\ "unposted" \notin excuses
        ~> (~mShowingMenu \/ tracking \/ activity = "stopped")
=============================================================================
