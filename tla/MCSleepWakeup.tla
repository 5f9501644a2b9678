---------------------------- MODULE MCSleepWakeup ----------------------------
(* Model values for TLC runs of SleepWakeup. *)
EXTENDS SleepWakeup, TLC

CONSTANTS c1, c2

TwoCPUs == {c1, c2}

Symmetry == Permutations(CPUs)
=============================================================================
