---------------------------- MODULE MCTimerQueue ----------------------------
(* Model-checking instances of TimerQueue.                                 *)
EXTENDS TimerQueue

(* The system clock is set back, or forward.                               *)
BackAndForth == {-1, 1}

(* With two ticks to a millisecond: -0.5 ms, which is cut to 0, and 1.5 ms,*)
(* which is cut to 1 ms.                                                   *)
CutDurations == {-1, 3}
=============================================================================
