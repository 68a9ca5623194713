--------------------------- MODULE SnapshotFence ---------------------------
(***************************************************************************)
(* What the relay promises about the board it serves for one lane.         *)
(* Refresh work is numbered as it is handed out.  Each number is settled   *)
(* once, in order: its snapshot is put on the board, or it is abandoned    *)
(* for good.  So the board never steps back to an earlier snapshot, not    *)
(* even after it was deleted, however late the work comes home.            *)
(***************************************************************************)
EXTENDS Integers

VARIABLES
  board,    \* number of the snapshot on the board, 0 when there is none
  settled   \* every number up to this one is on the board or abandoned

Init == board = 0 /\ settled = 0

\* The next snapshot goes on the board.
Show == settled' = settled + 1 /\ board' = settled'

\* The next number will never be shown.
Abandon == settled' = settled + 1 /\ board' = board

\* The snapshot on the board expires.
Expire == board' = 0 /\ settled' = settled

Next == Show \/ Abandon \/ Expire

Spec == Init /\ [][Next]_<<board, settled>>

\* The board holds a settled snapshot.
BoardIsSettled == board <= settled
=============================================================================
