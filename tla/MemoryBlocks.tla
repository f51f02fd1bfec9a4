---------------------------- MODULE MemoryBlocks ----------------------------
(***************************************************************************)
(* The block allocator: the list of MemoryBlock nodes that starts at       *)
(* memory_head, first-fit allocation with splitting (try_allocate_memory), *)
(* release with coalescing (free_process_memory) and the counters of       *)
(* struct Memory that are recomputed from the list (update_free_memory).   *)
(*                                                                         *)
(* The callers hold cpu_cores_cs, so operations do not overlap.  The loop  *)
(* of merge_adjacent_free_blocks is kept step by step, under that lock.    *)
(***************************************************************************)
EXTENDS Integers, Sequences, SequencesExt

CONSTANTS
  Procs,             \* the processes (their pids)
  Total,             \* max-overall-mem
  MemoryAllocation,  \* process -> its memory_allocation
  NoPid              \* the pid -1 of a block that is not occupied

ASSUME BlocksAssumption ==
  /\ Total \in Nat \ {0}
  /\ MemoryAllocation \in [Procs -> Nat]
  /\ NoPid \notin Procs

VARIABLES
  blocks,       \* the list, from memory_head on
  in_memory,    \* process -> its in_memory flag
  mem_base,     \* process -> its mem_base
  mem_limit,    \* process -> its mem_limit
  curr,         \* cursor of merge_adjacent_free_blocks; 0 outside the loop
  result,       \* what the last try_allocate_memory returned
  free_memory,               \* memory.free_memory
  num_processes_in_memory    \* memory.num_processes_in_memory

procVars == <<in_memory, mem_base, mem_limit>>
counters == <<free_memory, num_processes_in_memory>>
vars == <<blocks, procVars, curr, result, counters>>

Block == [base : 0 .. Total - 1, end : -1 .. Total - 1,
          occupied : BOOLEAN, pid : Procs \cup {NoPid}]

Size(b) == b.end - b.base + 1

FreeBlock(base, end) ==
  [base |-> base, end |-> end, occupied |-> FALSE, pid |-> NoPid]

(* update_free_memory walks the list: total size of the free blocks of bs, *)
(* and how many of bs are occupied.                                        *)
FreeBytes(bs) ==
  SumFunction([i \in {j \in DOMAIN bs : ~bs[j].occupied} |-> Size(bs[i])])

OccupiedCount(bs) == Cardinality({i \in DOMAIN bs : bs[i].occupied})

update_free_memory(bs) ==
  /\ free_memory' = FreeBytes(bs)
  /\ num_processes_in_memory' = OccupiedCount(bs)
-----------------------------------------------------------------------------
(* init_memory and init_memory_block: one free block of max-overall-mem. *)
Init ==
  /\ blocks = <<FreeBlock(0, Total - 1)>>
  /\ in_memory = [p \in Procs |-> FALSE]
  /\ mem_base = [p \in Procs |-> 0]
  /\ mem_limit = [p \in Procs |-> 0]
  /\ curr = 0
  /\ result = "none"
  /\ free_memory = Total
  /\ num_processes_in_memory = 0

(* Mutant of Fits: the test forgets that end is inclusive. *)
FitsExclusive(i, n) == ~blocks[i].occupied /\ blocks[i].end - blocks[i].base >= n

Fits(i, n) == ~blocks[i].occupied /\ Size(blocks[i]) >= n

(* The first block of the list a request of n fits in. *)
FirstFit(i, n) == Fits(i, n) /\ \A j \in 1 .. i - 1 : ~Fits(j, n)

(* Mutant of Split: the rest starts one address too late. *)
SplitWithGap(i, p, n) ==
  LET b == blocks[i]
      given == [base |-> b.base, end |-> b.base + n - 1,
                occupied |-> TRUE, pid |-> p]
      cut == [blocks EXCEPT ![i] = given]
  IN  IF Size(b) > n
      THEN InsertAt(cut, i + 1, FreeBlock(b.base + n + 1, b.end))
      ELSE cut

(* The list once block i is given to p: block i is cut down to n and, if   *)
(* something is left over, a free block with the rest follows it.          *)
Split(i, p, n) ==
  LET b == blocks[i]
      given == [base |-> b.base, end |-> b.base + n - 1,
                occupied |-> TRUE, pid |-> p]
      cut == [blocks EXCEPT ![i] = given]
  IN  IF Size(b) > n
      THEN InsertAt(cut, i + 1, FreeBlock(b.base + n, b.end))
      ELSE cut

(* A successful try_allocate_memory, with what each of its callers does    *)
(* next: in_memory = 1 and update_free_memory().                           *)
try_allocate_memory(p) ==
  /\ curr = 0
  /\ ~in_memory[p]
  /\ \E i \in DOMAIN blocks :
       /\ FirstFit(i, MemoryAllocation[p])
       /\ blocks' = Split(i, p, MemoryAllocation[p])
       /\ mem_base' = [mem_base EXCEPT ![p] = blocks[i].base]
       /\ mem_limit' =
            [mem_limit EXCEPT ![p] = blocks[i].base + MemoryAllocation[p] - 1]
  /\ in_memory' = [in_memory EXCEPT ![p] = TRUE]
  /\ result' = "granted"
  /\ update_free_memory(blocks')
  /\ UNCHANGED curr

(* try_allocate_memory reaches the end of the list and returns false. *)
RefuseAllocation(p) ==
  /\ curr = 0
  /\ ~in_memory[p]
  /\ \A i \in DOMAIN blocks : ~Fits(i, MemoryAllocation[p])
  /\ result' = "refused"
  /\ UNCHANGED <<blocks, procVars, curr, counters>>

(* Block i is the one free_process_memory(p) stops at. *)
FirstOwned(i, p) ==
  /\ blocks[i].occupied /\ blocks[i].pid = p
  /\ \A j \in 1 .. i - 1 : ~(blocks[j].occupied /\ blocks[j].pid = p)

(* Mutant of free_process_memory: returns without coalescing. *)
FreeWithoutMerge(p) ==
  /\ curr = 0
  /\ in_memory[p]
  /\ blocks' =
       [i \in DOMAIN blocks |->
          IF FirstOwned(i, p) THEN FreeBlock(blocks[i].base, blocks[i].end)
                              ELSE blocks[i]]
  /\ in_memory' = [in_memory EXCEPT ![p] = FALSE]
  /\ result' = "none"
  /\ update_free_memory(blocks')
  /\ UNCHANGED <<mem_base, mem_limit, curr>>

(* free_process_memory up to the call of merge_adjacent_free_blocks. *)
free_process_memory(p) ==
  /\ curr = 0
  /\ in_memory[p]
  /\ blocks' =
       [i \in DOMAIN blocks |->
          IF FirstOwned(i, p) THEN FreeBlock(blocks[i].base, blocks[i].end)
                              ELSE blocks[i]]
  /\ in_memory' = [in_memory EXCEPT ![p] = FALSE]
  /\ curr' = 1
  /\ result' = "none"
  /\ UNCHANGED <<mem_base, mem_limit, counters>>

MergeLoopGoesOn == curr # 0 /\ curr < Len(blocks)

(* Mutant of BothFree: the next node is not looked at. *)
FirstFree(i) == ~blocks[i].occupied

BothFree(i) == ~blocks[i].occupied /\ ~blocks[i + 1].occupied

(* Mutant of MergeNext: the swallowed node's end is not taken over. *)
MergeKeepingEnd ==
  /\ MergeLoopGoesOn
  /\ BothFree(curr)
  /\ blocks' = RemoveAt(blocks, curr + 1)
  /\ UNCHANGED <<procVars, curr, result, counters>>

(* One iteration of merge_adjacent_free_blocks that swallows the next node *)
MergeNext ==
  /\ MergeLoopGoesOn
  /\ BothFree(curr)
  /\ blocks' = RemoveAt([blocks EXCEPT ![curr].end = blocks[curr + 1].end],
                        curr + 1)
  /\ UNCHANGED <<procVars, curr, result, counters>>

(* Mutant of Advance: the cursor stays on the same node. *)
AdvanceStuck ==
  /\ MergeLoopGoesOn
  /\ ~BothFree(curr)
  /\ UNCHANGED vars

(* ... and one that moves on. *)
Advance ==
  /\ MergeLoopGoesOn
  /\ ~BothFree(curr)
  /\ curr' = curr + 1
  /\ UNCHANGED <<blocks, procVars, result, counters>>

(* Mutant of EndMerge: the counters are not recomputed. *)
EndMergeStaleCounters ==
  /\ curr # 0
  /\ curr = Len(blocks)
  /\ curr' = 0
  /\ UNCHANGED <<blocks, procVars, result, counters>>

(* The loop is over: free_process_memory recomputes the counters. *)
EndMerge ==
  /\ curr # 0
  /\ curr = Len(blocks)
  /\ curr' = 0
  /\ update_free_memory(blocks)
  /\ UNCHANGED <<blocks, procVars, result>>

merge_adjacent_free_blocks == MergeNext \/ Advance \/ EndMerge

Next ==
  \/ \E p \in Procs :
       \/ try_allocate_memory(p)
       \/ RefuseAllocation(p)
       \/ free_process_memory(p)
  \/ merge_adjacent_free_blocks

(* The thread in the loop keeps running: nothing in it blocks. *)
Spec == Init /\ [][Next]_vars /\ WF_vars(merge_adjacent_free_blocks)
-----------------------------------------------------------------------------
(* The values the variables range over, but for the two counters, which    *)
(* CountersExact determines.                                               *)
TypeOK ==
  /\ blocks \in Seq(Block)
  /\ in_memory \in [Procs -> BOOLEAN]
  /\ mem_base \in [Procs -> 0 .. Total - 1]
  /\ mem_limit \in [Procs -> -1 .. Total - 1]
  /\ curr \in Nat
  /\ result \in {"none", "granted", "refused"}

(* Splitting and merging keep the list a partition of the memory: it       *)
(* starts at 0, ends at Total - 1, and each node starts where the one      *)
(* before it stops, also in the middle of a merge.                         *)
Tiling ==
  /\ blocks # <<>>
  /\ blocks[1].base = 0
  /\ blocks[Len(blocks)].end = Total - 1
  /\ \A i \in 1 .. Len(blocks) - 1 : blocks[i + 1].base = blocks[i].end + 1

(* The merge loop leaves no two adjacent free nodes behind it, so outside  *)
(* of it a free run is one node and first fit sees all of it.              *)
Coalesced ==
  \A i \in 1 .. Len(blocks) - 1 : curr = 0 \/ i < curr => ~BothFree(i)

(* A process in memory owns exactly one node, which spans [mem_base,       *)
(* mem_limit] and is as long as it asked for; every other node is free.    *)
OwnsOneBlock(p) ==
  \E i \in DOMAIN blocks :
    /\ blocks[i] = [base |-> mem_base[p], end |-> mem_limit[p],
                    occupied |-> TRUE, pid |-> p]
    /\ Size(blocks[i]) = MemoryAllocation[p]
    /\ \A j \in DOMAIN blocks : blocks[j].pid = p => j = i

Ownership ==
  /\ \A p \in Procs : in_memory[p] => OwnsOneBlock(p)
  /\ \A i \in DOMAIN blocks :
       IF blocks[i].occupied
       THEN blocks[i].pid # NoPid /\ in_memory[blocks[i].pid]
       ELSE blocks[i].pid = NoPid

(* What the generator reads before it creates a process and what vmstat    *)
(* prints is right between two operations: free_memory is what the         *)
(* processes in memory leave over.                                         *)
CountersExact ==
  LET present == {p \in Procs : in_memory[p]}
  IN  curr = 0 =>
        /\ free_memory
             = Total - SumFunction([p \in present |-> MemoryAllocation[p]])
        /\ num_processes_in_memory = Cardinality(present)

(* The list implements the address space: an address belongs to the        *)
(* process whose node covers it.  A refusal by the list is a refusal       *)
(* because no hole is long enough.                                         *)
OwnerMap ==
  [a \in 0 .. Total - 1 |->
     IF \E i \in DOMAIN blocks :
          blocks[i].occupied /\ a \in blocks[i].base .. blocks[i].end
     THEN blocks[CHOOSE i \in DOMAIN blocks :
            blocks[i].occupied /\ a \in blocks[i].base .. blocks[i].end].pid
     ELSE NoPid]

Space == INSTANCE AddressSpace
           WITH owner <- OwnerMap, reply <- result, Free <- NoPid

RefinesAddressSpace == Space!Spec

(* The merge loop ends. *)
MergeEnds == []<>(curr = 0)
=============================================================================
