----------------------------- MODULE LineQueue -----------------------------
(***************************************************************************)
(* What the command queue of a lagged player promises: lines wait in the   *)
(* order they came in, no more than MAX_QUEUE of them, the first goes      *)
(* first, and they can be given up all at once.                            *)
(***************************************************************************)
EXTENDS Naturals, Sequences

CONSTANTS Line,         \* the lines that can wait
          MAX_QUEUE

VARIABLE waiting

QueueInit == waiting = <<>>

Enqueue == /\ Len(waiting) < MAX_QUEUE
           /\ \E l \in Line : waiting' = Append(waiting, l)
Dequeue == waiting # <<>> /\ waiting' = Tail(waiting)
GiveUp  == waiting' = <<>>

QueueNext == Enqueue \/ Dequeue \/ GiveUp
QueueSpec == QueueInit /\ [][QueueNext]_waiting
=============================================================================
