---------------------------- MODULE DurableFifo -----------------------------
(***************************************************************************)
(* What the scheduler relies on when it sends processes to the backing     *)
(* store: entries leave it in the order they came, one at a time, and the  *)
(* end of the program changes nothing.  The promise ends with damage.      *)
(***************************************************************************)
EXTENDS Naturals, Sequences

VARIABLES
  entries,
  intact     \* nothing has damaged the store so far

vars == <<entries, intact>>

Init == entries = <<>> /\ intact = TRUE

(* Any one entry, at the end. *)
Store ==
  /\ entries' # <<>>
  /\ entries = SubSeq(entries', 1, Len(entries') - 1)

RemoveFirst == entries # <<>> /\ entries' = Tail(entries)

(* The program ends or starts again. *)
Restart == entries' = entries /\ intact' = intact

Next ==
  \/ Restart
  \/ intact /\ intact' /\ (Store \/ RemoveFirst)
  \/ ~intact'

Spec == Init /\ [][Next]_vars
=============================================================================
