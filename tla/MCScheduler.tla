---------------------------- MODULE MCScheduler -----------------------------
(* Instances of Scheduler for TLC. *)
EXTENDS Scheduler, TLC

CONSTANTS p1, p2, p3

\* Three short processes, with one instruction of each kind between them.
MCProgram == p1 :> <<"op", "sleep">> @@ p2 :> <<"print">> @@ p3 :> <<"for", "op">>

MCMemoryAllocation == p1 :> 1 @@ p2 :> 2 @@ p3 :> 1

\* For swapping: one instruction each, so that one of them is always stored.
MCShortProgram == p1 :> <<"sleep">> @@ p2 :> <<"print">> @@ p3 :> <<"op">>

\* For round robin: a process longer than its quantum, which two cores may
\* find in a FOR, next to a short one.
MCLongProgram == p1 :> <<"op", "op", "for", "for">> @@ p2 :> <<"sleep", "print">>

MCLongMemoryAllocation == p1 :> 1 @@ p2 :> 1
=============================================================================
