---------------------------- MODULE FcfsService -----------------------------
(***************************************************************************)
(* What scheduler "fcfs" promises when the memory is enough for everyone:  *)
(* processes start in the order they arrive, one per core, advance one     *)
(* step at a time only while they run, stay on their core until the last   *)
(* instruction and leave right after it.  Threads, locks, ticks, sleeping  *)
(* and the memory are not mentioned.                                       *)
(***************************************************************************)
EXTENDS Naturals, Sequences, FiniteSets

CONSTANTS
  Procs,
  NumCores,
  Length      \* process -> how many instructions it has

VARIABLES
  waiting,    \* who has arrived and not started, first one first
  running,
  progress,   \* process -> instructions behind it
  done

serviceVars == <<waiting, running, progress, done>>

Arrived == {waiting[i] : i \in DOMAIN waiting} \cup running \cup done

Init ==
  /\ waiting = <<>>
  /\ running = {} /\ done = {}
  /\ progress = [p \in Procs |-> 0]

Arrive(p) ==
  /\ p \notin Arrived
  /\ waiting' = Append(waiting, p)
  /\ UNCHANGED <<running, progress, done>>

Start ==
  /\ waiting # <<>> /\ Cardinality(running) < NumCores
  /\ running' = running \cup {Head(waiting)}
  /\ waiting' = Tail(waiting)
  /\ UNCHANGED <<progress, done>>

Advance(p) ==
  /\ p \in running /\ progress[p] < Length[p]
  /\ progress' = [progress EXCEPT ![p] = @ + 1]
  /\ UNCHANGED <<waiting, running, done>>

Finish(p) ==
  /\ p \in running /\ progress[p] = Length[p]
  /\ running' = running \ {p}
  /\ done' = done \cup {p}
  /\ UNCHANGED <<waiting, progress>>

Next ==
  \/ Start
  \/ \E p \in Procs : Arrive(p) \/ Advance(p) \/ Finish(p)

Spec == Init /\ [][Next]_serviceVars
=============================================================================
