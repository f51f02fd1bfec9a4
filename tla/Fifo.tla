-------------------------------- MODULE Fifo --------------------------------
(***************************************************************************)
(* What scheduler.h says of the ready queue: "FIFO for processes".  A      *)
(* process waits in it or is outside, and leaves it in the order in which  *)
(* it came.  ReadyQueue, the ring buffer, implements this module as long   *)
(* as its calls do not overlap.                                            *)
(***************************************************************************)
EXTENDS Sequences

CONSTANT Procs

VARIABLES
  queue,     \* the processes that wait, first one first
  outside    \* the processes that may be enqueued

fifoVars == <<queue, outside>>

Init ==
  /\ queue = <<>>
  /\ outside = Procs

Enqueue(p) ==
  /\ p \in outside
  /\ queue' = Append(queue, p)
  /\ outside' = outside \ {p}

Dequeue ==
  /\ queue # <<>>
  /\ queue' = Tail(queue)
  /\ outside' = outside \cup {Head(queue)}

Next == (\E p \in Procs : Enqueue(p)) \/ Dequeue

Spec == Init /\ [][Next]_fifoVars
=============================================================================
