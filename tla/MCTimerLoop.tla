---------------------------- MODULE MCTimerLoop ----------------------------
(* Small instances of TimerLoop for TLC.                                   *)
EXTENDS TimerLoop, TLC

Symmetry == Permutations(Timers) \cup Permutations(Loops \ Cancellable)

=============================================================================
