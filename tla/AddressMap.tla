----------------------------- MODULE AddressMap -----------------------------
(***************************************************************************)
(* Operators on owner maps: a function from the addresses of the memory to *)
(* the process each belongs to, or to Free.  AddressSpace is specified     *)
(* with them, and Scheduler uses them for the memory of its processes.     *)
(***************************************************************************)
EXTENDS Integers

CONSTANTS
  Procs,             \* the processes (their pids)
  Total,             \* max-overall-mem, in units of allocation
  MemoryAllocation,  \* process -> memory_allocation, in the same units
  Free               \* marks an address no process owns

\* A process of length 0 owns no address: the owner map could not tell whether
\* it is allocated.  config.txt asks for 512 and "screen -s" for 64 or more.
ASSUME SpaceAssumption ==
  /\ Total \in Nat
  /\ MemoryAllocation \in [Procs -> Nat \ {0}]
  /\ Free \notin Procs

Addresses == 0 .. Total - 1

Run(base, n) == base .. base + n - 1

(* The bases of the runs of n free addresses in the owner map own. *)
Holes(own, n) ==
  {base \in Addresses : /\ Run(base, n) \subseteq Addresses
                        /\ \A a \in Run(base, n) : own[a] = Free}

(* own after process p has taken n addresses from base. *)
Taken(own, p, base, n) ==
  [a \in Addresses |-> IF a \in Run(base, n) THEN p ELSE own[a]]

(* own after process p has given back what it had. *)
GivenBack(own, p) == [a \in Addresses |-> IF own[a] = p THEN Free ELSE own[a]]

(* The process that owns something. *)
Resident(own, p) == \E a \in Addresses : own[a] = p
=============================================================================
