---------------------------- MODULE AddressSpace ----------------------------
(***************************************************************************)
(* What the block allocator of memory.c and scheduler.c promises its       *)
(* callers, without the list of blocks: an address belongs to at most one  *)
(* process, an allocation takes the lowest run of free addresses that is   *)
(* long enough, and is refused only when there is no such run.             *)
(*                                                                         *)
(* MemoryBlocks implements this module.                                    *)
(***************************************************************************)
EXTENDS AddressMap

VARIABLES
  owner,   \* address -> its process, or Free
  reply    \* the last answer of the allocator: "none", "granted" or "refused"

spaceVars == <<owner, reply>>

NothingOwned == [a \in Addresses |-> Free]

Init ==
  /\ owner = NothingOwned
  /\ reply = "none"

(* p asks for its memory_allocation and gets the lowest hole. *)
Grant(p) ==
  LET holes == Holes(owner, MemoryAllocation[p])
  IN  /\ ~Resident(owner, p)
      /\ \E base \in holes :
           /\ \A other \in holes : base <= other
           /\ owner' = Taken(owner, p, base, MemoryAllocation[p])
      /\ reply' = "granted"

(* p asks, and there is no hole it fits in. *)
Refuse(p) ==
  /\ ~Resident(owner, p)
  /\ Holes(owner, MemoryAllocation[p]) = {}
  /\ reply' = "refused"
  /\ UNCHANGED owner

GiveBack(p) ==
  /\ Resident(owner, p)
  /\ owner' = GivenBack(owner, p)
  /\ reply' = "none"

Next == \E p \in Procs : Grant(p) \/ Refuse(p) \/ GiveBack(p)

Spec == Init /\ [][Next]_spaceVars
=============================================================================
