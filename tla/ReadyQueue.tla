----------------------------- MODULE ReadyQueue -----------------------------
(***************************************************************************)
(* The ring buffer ready_queue with the statements of enqueue_ready and    *)
(* dequeue_ready as steps.  The scheduler thread enqueues the processes it *)
(* generates, preempts or swaps in and dequeues; the CLI thread enqueues   *)
(* those of "screen -s".  No lock protects the ring: the scheduler's use   *)
(* is inside cpu_cores_cs, the CLI's is not (its lock is commented out).   *)
(*                                                                         *)
(* Grain: one step per statement.  Overlapping = FALSE keeps those         *)
(* behaviours in which no call begins while another is under way.  The     *)
(* ring is initialised before any thread uses it.                          *)
(***************************************************************************)
EXTENDS Integers, Sequences, FiniteSets

CONSTANTS
  Procs,
  CliProcs,         \* the processes "screen -s" enqueues
  InitialCapacity,  \* 16 in init_ready_queue
  Overlapping,      \* whether calls of the two threads overlap
  Garbage           \* what malloc leaves in an item

Threads == {"scheduler", "cli"}

ASSUME QueueAssumption ==
  /\ CliProcs \subseteq Procs
  /\ InitialCapacity \in Nat \ {0}
  /\ Overlapping \in BOOLEAN
  /\ Garbage \notin Procs

VARIABLES
  items, capacity, size, head, tail,   \* the struct ReadyQueue
  thread,    \* thread -> the step it is at, its p and its new_items
  fresh,     \* the processes the user has not created yet
  outside    \* those the scheduler thread may enqueue

ring == <<items, capacity, size, head, tail>>
vars == <<ring, thread, fresh, outside>>

Array(n) == [0 .. n - 1 -> Procs \cup {Garbage}]

Empty(n) == [i \in 0 .. n - 1 |-> Garbage]

(* The queue: n items from head on, around the end of the array. *)
Entries(n) == [i \in 1 .. n |-> items[(head + i - 1) % capacity]]

Outside == [pc |-> "outside", p |-> Garbage, new_items |-> Empty(0)]

Init ==
  /\ items = Empty(InitialCapacity)
  /\ capacity = InitialCapacity
  /\ size = 0 /\ head = 0 /\ tail = 0
  /\ thread = [t \in Threads |-> Outside]
  /\ fresh = CliProcs
  /\ outside = Procs \ CliProcs

At(t, step) == thread[t].pc = step

Quiet == \A t \in Threads : At(t, "outside")

(* Thread t calls. *)
MayCall(t) == At(t, "outside") /\ (Overlapping \/ Quiet)

Goto(t, step) == thread' = [thread EXCEPT ![t].pc = step]

(* enqueue_ready(p) is called and compares size and capacity. *)
Enqueue(t, p) ==
  /\ MayCall(t)
  /\ thread' = [thread EXCEPT ![t].pc = IF size = capacity THEN "copy" ELSE "put",
                              ![t].p = p]
  /\ \/ /\ t = "scheduler" /\ p \in outside
        /\ outside' = outside \ {p}
        /\ UNCHANGED fresh
     \/ /\ t = "cli" /\ p \in fresh
        /\ fresh' = fresh \ {p}
        /\ UNCHANGED outside
  /\ UNCHANGED ring

(* Mutant of Copied: the copy starts at the first slot, not at head. *)
CopiedUnwrapped ==
  [i \in 0 .. 2 * capacity - 1 |->
     IF i < size THEN items[i % capacity] ELSE Garbage]

(* An array of twice the capacity with the queue at its start. *)
Copied ==
  [i \in 0 .. 2 * capacity - 1 |->
     IF i < size THEN items[(head + i) % capacity] ELSE Garbage]

Copy(t) ==
  /\ At(t, "copy")
  /\ thread' = [thread EXCEPT ![t].pc = "install", ![t].new_items = Copied]
  /\ UNCHANGED <<ring, fresh, outside>>

(* Mutant of Install: tail is left where it was. *)
InstallKeepingTail(t) ==
  /\ At(t, "install")
  /\ items' = thread[t].new_items
  /\ capacity' = Cardinality(DOMAIN thread[t].new_items)
  /\ head' = 0
  /\ thread' = [thread EXCEPT ![t].pc = "put", ![t].new_items = Empty(0)]
  /\ UNCHANGED <<size, tail, fresh, outside>>

(* The old array is freed and the new one takes its place. *)
Install(t) ==
  /\ At(t, "install")
  /\ items' = thread[t].new_items
  /\ capacity' = Cardinality(DOMAIN thread[t].new_items)
  /\ head' = 0
  /\ tail' = size
  /\ thread' = [thread EXCEPT ![t].pc = "put", ![t].new_items = Empty(0)]
  /\ UNCHANGED <<size, fresh, outside>>

Put(t) ==
  /\ At(t, "put")
  /\ items' = [items EXCEPT ![tail] = thread[t].p]
  /\ Goto(t, "advance")
  /\ UNCHANGED <<capacity, size, head, tail, fresh, outside>>

(* Mutant of Advance: tail does not wrap around. *)
AdvanceUnwrapped(t) ==
  /\ At(t, "advance")
  /\ tail' = tail + 1
  /\ Goto(t, "count")
  /\ UNCHANGED <<items, capacity, size, head, fresh, outside>>

Advance(t) ==
  /\ At(t, "advance")
  /\ tail' = (tail + 1) % capacity
  /\ Goto(t, "count")
  /\ UNCHANGED <<items, capacity, size, head, fresh, outside>>

Count(t) ==
  /\ At(t, "count")
  /\ size' = size + 1
  /\ thread' = [thread EXCEPT ![t] = Outside]
  /\ UNCHANGED <<items, capacity, head, tail, fresh, outside>>

(* dequeue_ready is called on a queue that is not empty (it returns NULL   *)
(* and changes nothing when it is) and reads the item at head.             *)
Dequeue ==
  /\ MayCall("scheduler")
  /\ size # 0
  /\ thread' = [thread EXCEPT !["scheduler"].pc = "drop",
                              !["scheduler"].p = items[head]]
  /\ UNCHANGED <<ring, fresh, outside>>

Drop ==
  /\ At("scheduler", "drop")
  /\ head' = (head + 1) % capacity
  /\ Goto("scheduler", "uncount")
  /\ UNCHANGED <<items, capacity, size, tail, fresh, outside>>

(* The process is returned: it runs, and may be enqueued again. *)
Uncount ==
  /\ At("scheduler", "uncount")
  /\ size' = size - 1
  /\ outside' = outside \cup ({thread["scheduler"].p} \ {Garbage})
  /\ thread' = [thread EXCEPT !["scheduler"] = Outside]
  /\ UNCHANGED <<items, capacity, head, tail, fresh>>

Next ==
  \/ \E t \in Threads :
       \/ \E p \in Procs : Enqueue(t, p)
       \/ Copy(t) \/ Install(t) \/ Put(t) \/ Advance(t) \/ Count(t)
  \/ Dequeue \/ Drop \/ Uncount

Spec == Init /\ [][Next]_vars
-----------------------------------------------------------------------------
(* The values the variables range over. *)
TypeOK ==
  /\ capacity \in Nat \ {0}
  /\ items \in Array(capacity)
  /\ size \in 0 .. capacity
  /\ {head, tail} \subseteq 0 .. capacity - 1
  /\ fresh \subseteq CliProcs /\ outside \subseteq Procs
  /\ \A t \in Threads :
       /\ thread[t].pc \in {"outside", "copy", "install", "put", "advance",
                            "count", "drop", "uncount"}
       /\ thread[t].p \in Procs \cup {Garbage}
       /\ thread[t].new_items \in Array(Cardinality(DOMAIN thread[t].new_items))

(* However the calls of the two threads interleaved, once both are over    *)
(* every process that was enqueued and not dequeued is in the queue, once. *)
NothingLost ==
  Quiet => \A p \in Procs \ (fresh \cup outside) :
             Cardinality({i \in 1 .. size : Entries(size)[i] = p}) = 1

(* Between the calls tail is size items after head, around the end of the  *)
(* array, so the next process goes behind the last one.                    *)
RingShape == Quiet => tail = (head + size) % capacity

(* While calls do not overlap the ring implements the queue.  An entry     *)
(* counts from size++ on and until size--, when head is already past it.   *)
AbstractQueue ==
  IF At("scheduler", "uncount")
  THEN <<thread["scheduler"].p>> \o Entries(size - 1)
  ELSE Entries(size)

AbstractOutside ==
  outside \cup fresh \cup
    {p \in Procs : \E t \in Threads :
       thread[t].p = p /\ thread[t].pc \in {"copy", "install", "put", "advance", "count"}}

F == INSTANCE Fifo WITH queue <- AbstractQueue, outside <- AbstractOutside

RefinesFifo == F!Spec
=============================================================================
