-------------------------- MODULE VideoPlayer_proofs --------------------------
(***************************************************************************)
(* The item and the timers of VideoPlayer, for any number of items, saves  *)
(* and stray timers.                                                       *)
(***************************************************************************)
EXTENDS VideoPlayer, TLAPS

Types ==
    /\ activity \in {"paused", "resumed", "finished"}
    /\ position \in Item /\ mWindowIndex \in Item /\ window \in Item
    /\ advanced \in BOOLEAN
    /\ playWhenReady \in BOOLEAN
    /\ ticking \in BOOLEAN /\ strays \in Nat /\ restarted \in BOOLEAN

\* A timer that nothing can stop was started over another.
StraysExplained == strays > 0 => restarted

IInv == Types /\ ItemPlayed /\ NoStrayTimer /\ StraysExplained

\* However often a timer is started: what goes on was started over another.
LEMMA StartedTimers ==
  ASSUME Types, StraysExplained, NEW n \in 0..2, StartUITimer(n)
  PROVE  strays' \in Nat /\ restarted' \in BOOLEAN /\ StraysExplained'
<1> DEFINE orphans == IF n = 0 THEN 0 ELSE IF ticking THEN n ELSE n - 1
<1>1. orphans \in Nat /\ Lesser(strays + orphans, MaxStrays) \in Nat
  BY PlayerAssumption DEF Types, Lesser
<1>2. strays' = Lesser(strays + orphans, MaxStrays) /\ restarted' = (restarted \/ orphans > 0)
  BY DEF StartUITimer
<1>3. Lesser(strays + orphans, MaxStrays) > 0 => strays > 0 \/ orphans > 0
  BY <1>1, PlayerAssumption DEF Types, Lesser
<1> HIDE DEF orphans
<1> QED
  BY <1>1, <1>2, <1>3 DEF StraysExplained

\* setPlayWhenReady only starts timers.
LEMMA SetPlay ==
  ASSUME Types, StraysExplained, NEW play \in BOOLEAN, SetPlayWhenReady(play)
  PROVE  /\ strays' \in Nat /\ restarted' \in BOOLEAN /\ ticking' \in BOOLEAN
         /\ StraysExplained' /\ playWhenReady' \in BOOLEAN
<1>1. Started \in 0..2
  BY DEF Started
<1>2. CASE play # playWhenReady
  BY <1>1, <1>2, StartedTimers DEF SetPlayWhenReady, Types
<1>3. CASE play = playWhenReady
  BY <1>3 DEF SetPlayWhenReady, Types, timerVars, StraysExplained
<1> QED
  BY <1>2, <1>3

\* The invariant of the player: the window stays in the list, and is the item named unless
\* the player went on by itself.
THEOREM PlayerIInv == Spec => []IInv
<1>1. Init => IInv
  <2> SUFFICES ASSUME Init PROVE IInv
    OBVIOUS
  <2>1. 0 \in Item
    BY PlayerAssumption DEF Item
  <2>2. Types
    BY <2>1 DEF Init, Types
  <2>3. ~(strays > 0)
    BY DEF Init
  <2> QED
    BY <2>2, <2>3 DEF Init, IInv, ItemPlayed, NoStrayTimer, StraysExplained
<1>2. IInv /\ [Next]_vars => IInv'
  <2> SUFFICES ASSUME IInv, [Next]_vars PROVE IInv'
    OBVIOUS
  <2> USE DEF IInv, itemVars, playerVars, timerVars
  <2>1. CASE OnResume
    BY <2>1 DEF OnResume, Types, ItemPlayed, NoStrayTimer, StraysExplained
  <2>2. CASE OnPause
    BY <2>2 DEF OnPause, Release, Types, ItemPlayed, NoStrayTimer, StraysExplained
  <2>3. CASE Ready
    BY <2>3, StartedTimers DEF Ready, Types, ItemPlayed, NoStrayTimer
  <2>4. CASE Buffering
    BY <2>4 DEF Buffering, Types, ItemPlayed, NoStrayTimer, StraysExplained
  <2>5. CASE EndOfItem
    <3>1. window' \in Item
      <4>1. CASE window < LastItem
        BY <2>5, <4>1, PlayerAssumption DEF EndOfItem, Types, Item
      <4>2. CASE ~(window < LastItem)
        BY <2>5, <4>2 DEF EndOfItem, Types
      <4> QED
        BY <4>1, <4>2
    <3>2. advanced' \in BOOLEAN /\ (advanced' \/ (~advanced /\ window' = window))
      BY <2>5, Zenon DEF EndOfItem, Types
    <3> QED
      BY <2>5, <3>1, <3>2 DEF EndOfItem, Types, ItemPlayed, NoStrayTimer, StraysExplained
  <2>6. ASSUME NEW step \in {-1, 1}, Skip(step) PROVE IInv'
    <3>1. Wrapped(mWindowIndex + step) \in Item
      BY PlayerAssumption DEF Types, Wrapped, Item
    <3> QED
      BY <2>6, <3>1 DEF Skip, SeekTo, Types, ItemPlayed, NoStrayTimer, StraysExplained
  <2>7. CASE PlayPause
    <3>1. Started \in 0..2 /\ Started + 1 \in 0..2
      BY DEF Started
    <3>2. PICK n \in 0..2 : StartUITimer(n)
      BY <2>7, <3>1 DEF PlayPause
    <3>3. strays' \in Nat /\ restarted' \in BOOLEAN /\ StraysExplained'
      BY <3>2, StartedTimers
    <3>4. ticking' \in BOOLEAN /\ playWhenReady' \in BOOLEAN
      BY <2>7 DEF PlayPause
    <3> QED
      BY <2>7, <3>3, <3>4 DEF PlayPause, Types, ItemPlayed, NoStrayTimer
  <2>8. CASE StopTracking
    BY <2>8, SetPlay DEF StopTracking, Types, ItemPlayed, NoStrayTimer
  <2>9. ASSUME NEW to \in {"phone", "OTG"}, Save(to) PROVE IInv'
    BY <2>9, SetPlay DEF Save, Types, ItemPlayed, NoStrayTimer
  <2>10. CASE Progress
    BY <2>10 DEF Progress, Types, ItemPlayed, NoStrayTimer, StraysExplained
  <2>11. CASE Answer
    BY <2>11 DEF Answer, Types, ItemPlayed, NoStrayTimer, StraysExplained
  <2>12. CASE EarlyFailure
    <3>1. ticking' \in BOOLEAN /\ ~ticking' /\ playWhenReady' \in BOOLEAN
      BY <2>12, Zenon DEF EarlyFailure
    <3>2. /\ activity' = "finished" /\ strays' = 0
          /\ UNCHANGED <<position, mWindowIndex, mCurrentVideoItem, advanced, window, restarted>>
      BY <2>12 DEF EarlyFailure
    <3> QED
      BY <3>1, <3>2 DEF Types, ItemPlayed, NoStrayTimer, StraysExplained
  <2>13. CASE UNCHANGED vars
    BY <2>13 DEF vars, Types, ItemPlayed, NoStrayTimer, StraysExplained
  <2> QED
    BY <2>1, <2>2, <2>3, <2>4, <2>5, <2>6, <2>7, <2>8, <2>9, <2>10, <2>11, <2>12, <2>13 DEF Next
<1> QED
  BY <1>1, <1>2, PTL DEF Spec

\* The title and the saves are about the item that plays (SeekTo against the player, which
\* goes on by itself), however many items there are.
THEOREM PlayedItem == Spec => []ItemPlayed
<1>1. IInv => ItemPlayed
  BY DEF IInv
<1> QED
  BY <1>1, PlayerIInv, PTL

\* releasePlayer leaves no timer but those that startUITimer lost.
THEOREM TimersStopped == Spec => []NoStrayTimer
<1>1. IInv => NoStrayTimer
  BY DEF IInv
<1> QED
  BY <1>1, PlayerIInv, PTL
=============================================================================
