---------------------------- MODULE MCTimerQueue ----------------------------
(* Model values for TimerQueue: timers are interchangeable.                 *)
EXTENDS TimerQueue, TLC

MCSymmetry == Permutations(Timer)
=============================================================================
