------------------------- MODULE MCScheduleRefresh -------------------------
(* Small instances of ScheduleRefresh for TLC.                             *)
EXTENDS ScheduleRefresh, TLC

Symmetry == Permutations(Process)

TwoDelays == {0, 3}

NoDelay == {0}
=============================================================================
