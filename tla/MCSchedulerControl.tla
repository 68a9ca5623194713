------------------------- MODULE MCSchedulerControl -------------------------
(* Model-checking instances of SchedulerControl. *)
EXTENDS SchedulerControl, TLC

Symmetry == Permutations(Caller) \cup Permutations(Thread)
=============================================================================
