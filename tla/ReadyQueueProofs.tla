-------------------------- MODULE ReadyQueueProofs --------------------------
(***************************************************************************)
(* The ready queue while calls do not overlap, for any capacity and any    *)
(* processes: the ring keeps its shape, growing included, and implements a *)
(* first-in first-out queue.  What happens when they do overlap is shown   *)
(* by the run ready_queue_overlap.                                         *)
(***************************************************************************)
EXTENDS ReadyQueue, FiniteSetTheorems, SequenceTheorems, TLAPS

(* Arithmetic around the end of an array of c slots. *)
LEMMA Wrap ==
  ASSUME NEW c \in Nat \ {0}, NEW h \in 0 .. c - 1, NEW n \in 0 .. c
  PROVE  (h + n) % c = IF h + n < c THEN h + n ELSE h + n - c
<1>1. \A k \in Nat \ {0} : \A b \in 0 .. k - 1 : b % k = b
  OBVIOUS
<1>2. \A k \in Nat \ {0} : \A b \in k .. 2 * k - 1 : b % k = b - k
  OBVIOUS
<1> DEFINE a == h + n
<1>3. a \in 0 .. 2 * c - 1
  OBVIOUS
<1> HIDE DEF a
<1>4. a % c = IF a < c THEN a ELSE a - c
  <2>1. CASE a < c
    BY <1>1, <1>3, <2>1
  <2>2. CASE ~(a < c)
    <3>1. a \in c .. 2 * c - 1
      BY <1>3, <2>2
    <3> QED
      BY <1>2, <2>2, <3>1
  <2> QED
    BY <2>1, <2>2
<1> QED
  BY <1>4 DEF a

LEMMA ArraySize ==
  ASSUME NEW n \in Nat, NEW f \in Array(n)
  PROVE  DOMAIN f = 0 .. n - 1 /\ Cardinality(DOMAIN f) = n
<1>1. DOMAIN f = 0 .. n - 1
  BY DEF Array
<1>2. Cardinality(0 .. n - 1) = n
  BY FS_Interval
<1> QED
  BY <1>1, <1>2
-----------------------------------------------------------------------------
(* The inductive invariant.  At most one thread is inside a call, and what *)
(* holds of the ring depends on the step this thread is at.                *)

Steps == {"outside", "copy", "install", "put", "advance", "count", "drop", "uncount"}

Enqueuing == {"copy", "install", "put", "advance", "count"}

Arrays == UNION {Array(n) : n \in Nat}

Types ==
  /\ capacity \in Nat \ {0} /\ items \in Array(capacity)
  /\ size \in 0 .. capacity
  /\ head \in 0 .. capacity - 1 /\ tail \in 0 .. capacity - 1
  /\ fresh \subseteq CliProcs /\ outside \subseteq Procs
  /\ thread \in [Threads -> [pc : Steps, p : Procs \cup {Garbage}, new_items : Arrays]]

(* The slot i behind head. *)
Slot(i) == IF head + i < capacity THEN head + i ELSE head + i - capacity

(* How many processes there are from head to tail. *)
Held(t) == IF At(t, "count") THEN size + 1
           ELSE IF At(t, "uncount") THEN size - 1 ELSE size

OthersOut(t) == \A u \in Threads : u # t => At(u, "outside")

RingIs(t) ==
  /\ Held(t) \in 0 .. capacity
  /\ tail = Slot(Held(t))
  /\ \A i \in 0 .. Held(t) - 1 : items[Slot(i)] \in Procs \ fresh

CallIs(t) ==
  /\ At(t, "copy") \/ At(t, "install") => size = capacity
  /\ At(t, "install") => thread[t].new_items = Copied
  /\ At(t, "put") \/ At(t, "advance") \/ At(t, "count") => size < capacity
  /\ At(t, "advance") => items[tail] = thread[t].p
  /\ At(t, "count") => items[Slot(size)] = thread[t].p
  /\ At(t, "drop") \/ At(t, "uncount") =>
       t = "scheduler" /\ size > 0 /\ thread[t].p \in Procs \ fresh
  /\ At(t, "drop") => thread[t].p = items[head]
  /\ thread[t].pc \in Enqueuing => thread[t].p \in Procs \ (outside \cup fresh)

OneCall(t) == OthersOut(t) /\ RingIs(t) /\ CallIs(t)

IInv == Types /\ outside \cap fresh = {} /\ \E t \in Threads : OneCall(t)

LEMMA IInvTypeOK == IInv => TypeOK
<1> SUFFICES ASSUME IInv PROVE TypeOK
  OBVIOUS
<1>1. ASSUME NEW t \in Threads
      PROVE  thread[t].new_items \in Array(Cardinality(DOMAIN thread[t].new_items))
  <2>1. thread[t].new_items \in Arrays
    BY DEF IInv, Types
  <2>2. PICK n \in Nat : thread[t].new_items \in Array(n)
    BY <2>1 DEF Arrays
  <2> QED
    BY <2>2, ArraySize
<1> QED
  BY <1>1 DEF IInv, Types, TypeOK, Steps

LEMMA IInvRingShape == IInv => RingShape
<1> SUFFICES ASSUME IInv, Quiet PROVE tail = (head + size) % capacity
  BY DEF RingShape
<1>1. PICK t \in Threads : OneCall(t)
  BY DEF IInv
<1>2. Held(t) = size
  BY DEF Quiet, At, Held
<1>3. /\ capacity \in Nat \ {0} /\ size \in 0 .. capacity
      /\ head \in 0 .. capacity - 1
  BY DEF IInv, Types
<1>4. (head + size) % capacity = Slot(size)
  BY <1>3, Wrap DEF Slot
<1> QED
  BY <1>1, <1>2, <1>4 DEF OneCall, RingIs, Slot

(* The thread that is inside a call. *)
LEMMA TheCall ==
  ASSUME IInv, NEW t \in Threads, ~At(t, "outside") \/ Quiet
  PROVE  OneCall(t)
<1>1. PICK u \in Threads : OneCall(u)
  BY DEF IInv
<1>2. CASE u = t
  BY <1>1, <1>2
<1>3. CASE u # t
  <2>1. Quiet
    BY <1>1, <1>3 DEF OneCall, OthersOut
  <2>2. Held(u) = size /\ Held(t) = size /\ thread[t].pc = "outside"
    BY <2>1 DEF Quiet, At, Held
  <2>3. OthersOut(t)
    BY <2>1 DEF Quiet, OthersOut
  <2>4. RingIs(t)
    BY <1>1, <2>2 DEF OneCall, RingIs
  <2>5. CallIs(t)
    BY <2>2 DEF CallIs, At, Enqueuing
  <2> QED
    BY <2>3, <2>4, <2>5 DEF OneCall
<1> QED
  BY <1>2, <1>3

LEMMA InitIInv == Init => IInv
<1> SUFFICES ASSUME Init PROVE IInv
  OBVIOUS
<1>1. Empty(0) \in Arrays /\ Empty(InitialCapacity) \in Array(InitialCapacity)
  <2>1. \A n \in Nat : Empty(n) \in Array(n)
    BY DEF Empty, Array
  <2> QED
    BY <2>1, QueueAssumption DEF Arrays
<1>2. Types
  BY <1>1, QueueAssumption DEF Init, Types, Outside, Steps
<1>3. OneCall("cli")
  <2>1. \A t \in Threads : thread[t].pc = "outside"
    BY DEF Init, Outside
  <2>2. "cli" \in Threads
    BY DEF Threads
  <2>3. Held("cli") = 0 /\ size = 0 /\ head = 0 /\ tail = 0 /\ capacity \in Nat \ {0}
    BY <2>1, <2>2, QueueAssumption DEF Init, Held, At
  <2>4. RingIs("cli")
    BY <2>3 DEF RingIs, Slot
  <2>5. CallIs("cli") /\ OthersOut("cli")
    BY <2>1, <2>2 DEF CallIs, OthersOut, At, Enqueuing
  <2> QED
    BY <2>4, <2>5 DEF OneCall
<1>4. outside \cap fresh = {}
  BY DEF Init
<1> QED
  BY <1>2, <1>3, <1>4 DEF IInv, Threads
-----------------------------------------------------------------------------
(* The queue the ring stands for.                                          *)

LEMMA SlotIs ==
  ASSUME Types, NEW i \in 0 .. capacity
  PROVE  /\ (head + i) % capacity = Slot(i)
         /\ Slot(i) \in 0 .. capacity - 1
<1>1. capacity \in Nat \ {0} /\ head \in 0 .. capacity - 1
  BY DEF Types
<1>2. (head + i) % capacity = Slot(i)
  BY <1>1, Wrap DEF Slot
<1>3. Slot(i) \in 0 .. capacity - 1
  BY <1>1 DEF Slot
<1> QED
  BY <1>2, <1>3

LEMMA EntriesAre ==
  ASSUME Types, NEW n \in 0 .. capacity
  PROVE  Entries(n) = [i \in 1 .. n |-> items[Slot(i - 1)]]
<1>1. ASSUME NEW i \in 1 .. n PROVE items[(head + i - 1) % capacity] = items[Slot(i - 1)]
  <2>1. i - 1 \in 0 .. capacity /\ head + i - 1 = head + (i - 1)
    BY DEF Types
  <2>2. (head + (i - 1)) % capacity = Slot(i - 1)
    BY <2>1, SlotIs
  <2> QED
    BY <2>1, <2>2
<1> QED
  BY <1>1 DEF Entries

(* The processes that are in the queue, if they are n. *)
LEMMA EntriesType ==
  ASSUME Types, NEW n \in 0 .. capacity,
         \A i \in 0 .. n - 1 : items[Slot(i)] \in Procs
  PROVE  Entries(n) \in Seq(Procs) /\ Len(Entries(n)) = n
<1>1. n \in Nat
  BY DEF Types
<1>2. \A i \in 1 .. n : items[Slot(i - 1)] \in Procs
  BY <1>1
<1>3. Entries(n) \in [1 .. n -> Procs]
  BY <1>2, EntriesAre
<1> QED
  BY <1>1, <1>3
-----------------------------------------------------------------------------
(* The steps keep the invariant.                                           *)

(* What the steps use of the thread that takes them. *)
LEMMA Known ==
  ASSUME IInv, NEW t \in Threads, ~At(t, "outside") \/ Quiet
  PROVE  /\ Types /\ outside \cap fresh = {}
         /\ OthersOut(t) /\ RingIs(t) /\ CallIs(t)
         /\ thread[t] \in [pc : Steps, p : Procs \cup {Garbage}, new_items : Arrays]
  BY TheCall DEF IInv, OneCall, Types

(* A step of t to another step of the same call that leaves the new array. *)
LEMMA Going ==
  ASSUME Types, NEW t \in Threads, OthersOut(t), NEW step \in Steps, Goto(t, step)
  PROVE  /\ thread' \in [Threads -> [pc : Steps, p : Procs \cup {Garbage},
                                     new_items : Arrays]]
         /\ thread'[t].pc = step /\ thread'[t].p = thread[t].p
         /\ OthersOut(t)'
  BY DEF Types, OthersOut, At, Goto

LEMMA OutsideType ==
  /\ Outside \in [pc : Steps, p : Procs \cup {Garbage}, new_items : Arrays]
  /\ Outside.pc = "outside"
<1>1. Empty(0) \in Arrays
  BY DEF Empty, Array, Arrays
<1> QED
  BY <1>1 DEF Outside, Steps

LEMMA EnqueueIInv ==
  ASSUME ~Overlapping, IInv, NEW t \in Threads, NEW p \in Procs, Enqueue(t, p)
  PROVE  IInv'
<1>1. At(t, "outside") /\ Quiet
  BY DEF Enqueue, MayCall
<1>2. /\ Types /\ outside \cap fresh = {}
      /\ OthersOut(t) /\ RingIs(t) /\ CallIs(t)
      /\ thread[t] \in [pc : Steps, p : Procs \cup {Garbage}, new_items : Arrays]
  BY <1>1, Known
<1> DEFINE step == IF size = capacity THEN "copy" ELSE "put"
<1>3. /\ thread' = [thread EXCEPT ![t].pc = step, ![t].p = p]
      /\ fresh' \subseteq fresh /\ outside' \subseteq outside
      /\ p \notin outside' \cup fresh'
      /\ UNCHANGED <<items, capacity, size, head, tail>>
  BY <1>2 DEF Enqueue, ring
<1>4. /\ thread'[t].pc = step /\ thread'[t].p = p /\ OthersOut(t)'
      /\ thread' \in [Threads -> [pc : Steps, p : Procs \cup {Garbage},
                                  new_items : Arrays]]
  BY <1>2, <1>3 DEF Types, OthersOut, At, Steps
<1>5. Types' /\ outside' \cap fresh' = {}
  BY <1>2, <1>3, <1>4 DEF Types
<1>6. Held(t) = size /\ Held(t)' = size
  BY <1>1, <1>3, <1>4 DEF Held, At
<1>7. RingIs(t)'
  BY <1>2, <1>3, <1>6 DEF RingIs, Slot
<1>8. CallIs(t)'
  <2>1. size \in 0 .. capacity /\ capacity \in Nat
    BY <1>2 DEF Types
  <2> QED
    BY <1>3, <1>4, <2>1 DEF CallIs, At, Enqueuing
<1> QED
  BY <1>4, <1>5, <1>7, <1>8 DEF IInv, OneCall

LEMMA CopyIInv ==
  ASSUME IInv, NEW t \in Threads, Copy(t)
  PROVE  IInv'
<1>1. At(t, "copy") /\ ~At(t, "outside")
  BY DEF Copy, At
<1>2. /\ Types /\ outside \cap fresh = {}
      /\ OthersOut(t) /\ RingIs(t) /\ CallIs(t)
      /\ thread[t] \in [pc : Steps, p : Procs \cup {Garbage}, new_items : Arrays]
  BY <1>1, Known
<1>3. /\ thread' = [thread EXCEPT ![t].pc = "install", ![t].new_items = Copied]
      /\ UNCHANGED <<items, capacity, size, head, tail, fresh, outside>>
  BY DEF Copy, ring
<1>4. Copied \in Arrays
  <2>1. capacity \in Nat \ {0} /\ size \in 0 .. capacity /\ items \in Array(capacity)
    BY <1>2 DEF Types
  <2>2. ASSUME NEW i \in 0 .. 2 * capacity - 1, i < size
        PROVE  items[(head + i) % capacity] \in Procs \cup {Garbage}
    <3>1. i \in 0 .. capacity
      BY <2>1, <2>2
    <3>2. (head + i) % capacity \in 0 .. capacity - 1
      BY <1>2, <3>1, SlotIs
    <3> QED
      BY <2>1, <3>2 DEF Array
  <2>3. Copied \in Array(2 * capacity) /\ 2 * capacity \in Nat
    BY <2>1, <2>2 DEF Copied, Array
  <2> QED
    BY <2>3 DEF Arrays
<1>5. /\ thread'[t].pc = "install" /\ thread'[t].p = thread[t].p /\ OthersOut(t)'
      /\ thread'[t].new_items = Copied
      /\ thread' \in [Threads -> [pc : Steps, p : Procs \cup {Garbage},
                                  new_items : Arrays]]
  BY <1>2, <1>3, <1>4 DEF Types, OthersOut, At, Steps
<1>6. Types' /\ outside' \cap fresh' = {}
  BY <1>2, <1>3, <1>5 DEF Types
<1>7. Held(t) = size /\ Held(t)' = size
  BY <1>1, <1>3, <1>5 DEF Held, At
<1>8. RingIs(t)'
  BY <1>2, <1>3, <1>7 DEF RingIs, Slot
<1>9. CallIs(t)'
  BY <1>1, <1>2, <1>3, <1>5 DEF CallIs, At, Enqueuing, Copied
<1> QED
  BY <1>5, <1>6, <1>8, <1>9 DEF IInv, OneCall

LEMMA InstallIInv ==
  ASSUME IInv, NEW t \in Threads, Install(t)
  PROVE  /\ IInv'
         /\ size' = size /\ size \in 0 .. capacity /\ Types
         /\ \A i \in 0 .. size - 1 : items'[Slot(i)'] = items[Slot(i)]
         /\ \A i \in 0 .. size - 1 : items[Slot(i)] \in Procs
<1>1. At(t, "install") /\ ~At(t, "outside")
  BY DEF Install, At
<1>2. /\ Types /\ outside \cap fresh = {}
      /\ OthersOut(t) /\ RingIs(t) /\ CallIs(t)
      /\ thread[t] \in [pc : Steps, p : Procs \cup {Garbage}, new_items : Arrays]
  BY <1>1, Known
<1>3. /\ capacity \in Nat \ {0} /\ size = capacity /\ thread[t].new_items = Copied
      /\ thread[t].p \in Procs \ (outside \cup fresh)
      /\ items \in Array(capacity)
  BY <1>1, <1>2 DEF Types, CallIs, At, Enqueuing
<1>4. /\ Copied \in Array(2 * capacity) /\ 2 * capacity \in Nat
      /\ \A i \in 0 .. size - 1 : Copied[i] = items[Slot(i)]
  <2>1. ASSUME NEW i \in 0 .. size - 1
        PROVE  /\ (head + i) % capacity = Slot(i)
               /\ items[Slot(i)] \in Procs \cup {Garbage}
    <3>1. i \in 0 .. capacity
      BY <1>3
    <3> QED
      BY <1>2, <1>3, <3>1, SlotIs DEF Array
  <2>2. \A i \in 0 .. 2 * capacity - 1 : i < size => i \in 0 .. size - 1
    BY <1>3
  <2> QED
    BY <1>3, <2>1, <2>2 DEF Copied, Array
<1>5. /\ items' = Copied /\ capacity' = 2 * capacity /\ head' = 0 /\ tail' = size
      /\ thread' = [thread EXCEPT ![t].pc = "put", ![t].new_items = Empty(0)]
      /\ UNCHANGED <<size, fresh, outside>>
  BY <1>3, <1>4, ArraySize DEF Install
<1>6. /\ thread'[t].pc = "put" /\ thread'[t].p = thread[t].p /\ OthersOut(t)'
      /\ thread' \in [Threads -> [pc : Steps, p : Procs \cup {Garbage},
                                  new_items : Arrays]]
  <2>1. Empty(0) \in Arrays
    BY DEF Empty, Array, Arrays
  <2> QED
    BY <1>2, <1>5, <2>1 DEF Types, OthersOut, At, Steps
<1>7. Types' /\ outside' \cap fresh' = {}
  <2>1. /\ capacity' \in Nat \ {0} /\ size' \in 0 .. capacity'
        /\ head' \in 0 .. capacity' - 1 /\ tail' \in 0 .. capacity' - 1
    BY <1>3, <1>5
  <2> QED
    BY <1>2, <1>4, <1>5, <1>6, <2>1 DEF Types
<1>8. Held(t) = size /\ Held(t)' = size
  BY <1>1, <1>5, <1>6 DEF Held, At
<1>9. \A i \in 0 .. size : Slot(i)' = i
  BY <1>3, <1>5 DEF Slot
<1>10. \A i \in 0 .. size - 1 : items'[Slot(i)'] = items[Slot(i)]
  <2>1. \A i \in 0 .. size - 1 : i \in 0 .. size
    BY <1>3
  <2> QED
    BY <1>4, <1>5, <1>9, <2>1
<1>11. \A i \in 0 .. size - 1 : items[Slot(i)] \in Procs \ fresh
  BY <1>2, <1>8 DEF RingIs
<1>12. RingIs(t)'
  <2>1. size \in 0 .. size /\ size \in 0 .. capacity'
    BY <1>3, <1>5
  <2> QED
    BY <1>5, <1>8, <1>9, <1>10, <1>11, <2>1 DEF RingIs
<1>13. CallIs(t)'
  <2>1. size' < capacity'
    BY <1>3, <1>5
  <2> QED
    BY <1>3, <1>5, <1>6, <2>1 DEF CallIs, At, Enqueuing
<1> QED
  BY <1>2, <1>3, <1>5, <1>6, <1>7, <1>10, <1>11, <1>12, <1>13 DEF IInv, OneCall

LEMMA PutIInv ==
  ASSUME IInv, NEW t \in Threads, Put(t)
  PROVE  /\ IInv'
         /\ size' = size /\ size \in 0 .. capacity /\ Types
         /\ \A i \in 0 .. size - 1 : items'[Slot(i)'] = items[Slot(i)]
<1>1. At(t, "put") /\ ~At(t, "outside")
  BY DEF Put, At
<1>2. /\ Types /\ outside \cap fresh = {}
      /\ OthersOut(t) /\ RingIs(t) /\ CallIs(t)
      /\ thread[t] \in [pc : Steps, p : Procs \cup {Garbage}, new_items : Arrays]
  BY <1>1, Known
<1>3. /\ capacity \in Nat \ {0} /\ size \in 0 .. capacity - 1
      /\ head \in 0 .. capacity - 1 /\ tail \in 0 .. capacity - 1
      /\ items \in Array(capacity)
      /\ thread[t].p \in Procs \ (outside \cup fresh)
      /\ Held(t) = size
  <2>1. /\ capacity \in Nat \ {0} /\ size \in 0 .. capacity /\ size < capacity
    BY <1>1, <1>2 DEF Types, CallIs
  <2>2. Held(t) = size /\ thread[t].p \in Procs \ (outside \cup fresh)
    BY <1>1, <1>2 DEF CallIs, Enqueuing, Held, At
  <2> QED
    BY <1>2, <2>1, <2>2 DEF Types
<1>4. /\ items' = [items EXCEPT ![tail] = thread[t].p]
      /\ Goto(t, "advance")
      /\ UNCHANGED <<capacity, size, head, tail, fresh, outside>>
  BY DEF Put
<1>5. /\ thread'[t].pc = "advance" /\ thread'[t].p = thread[t].p /\ OthersOut(t)'
      /\ thread' \in [Threads -> [pc : Steps, p : Procs \cup {Garbage},
                                  new_items : Arrays]]
  BY <1>2, <1>4, Going DEF Steps
<1>6. /\ items' \in Array(capacity) /\ items'[tail] = thread[t].p
      /\ \A j \in 0 .. capacity - 1 : j # tail => items'[j] = items[j]
  BY <1>3, <1>4 DEF Array
<1>7. tail = Slot(size) /\ \A i \in 0 .. size - 1 : items[Slot(i)] \in Procs \ fresh
  BY <1>2, <1>3 DEF RingIs
<1>8. \A i \in 0 .. size - 1 : items'[Slot(i)] = items[Slot(i)]
  <2> TAKE i \in 0 .. size - 1
  <2>1. Slot(i) # Slot(size) /\ Slot(i) \in 0 .. capacity - 1
    BY <1>3 DEF Slot
  <2> QED
    BY <1>6, <1>7, <2>1
<1>9. Types' /\ outside' \cap fresh' = {}
  BY <1>2, <1>4, <1>5, <1>6 DEF Types
<1>10. Held(t)' = size /\ \A i \in 0 .. size : Slot(i)' = Slot(i)
  BY <1>4, <1>5 DEF Held, At, Slot
<1>11. \A i \in 0 .. size - 1 : items'[Slot(i)'] = items[Slot(i)]
  BY <1>4, <1>8 DEF Slot
<1>12. RingIs(t)'
  <2>1. size \in 0 .. size /\ size \in 0 .. capacity'
    BY <1>3, <1>4
  <2> QED
    BY <1>4, <1>7, <1>10, <1>11, <2>1 DEF RingIs
<1>13. CallIs(t)'
  BY <1>3, <1>4, <1>5, <1>6 DEF CallIs, At, Enqueuing
<1> QED
  BY <1>2, <1>3, <1>4, <1>5, <1>9, <1>11, <1>12, <1>13 DEF IInv, OneCall

LEMMA AdvanceIInv ==
  ASSUME IInv, NEW t \in Threads, Advance(t)
  PROVE  IInv'
<1>1. At(t, "advance") /\ ~At(t, "outside")
  BY DEF Advance, At
<1>2. /\ Types /\ outside \cap fresh = {}
      /\ OthersOut(t) /\ RingIs(t) /\ CallIs(t)
      /\ thread[t] \in [pc : Steps, p : Procs \cup {Garbage}, new_items : Arrays]
  BY <1>1, Known
<1>3. /\ capacity \in Nat \ {0} /\ size \in 0 .. capacity - 1
      /\ head \in 0 .. capacity - 1 /\ tail \in 0 .. capacity - 1
      /\ thread[t].p \in Procs \ (outside \cup fresh)
      /\ items[tail] = thread[t].p
      /\ Held(t) = size
  <2>1. /\ capacity \in Nat \ {0} /\ size \in 0 .. capacity /\ size < capacity
        /\ items[tail] = thread[t].p
    BY <1>1, <1>2 DEF Types, CallIs
  <2>2. Held(t) = size /\ thread[t].p \in Procs \ (outside \cup fresh)
    BY <1>1, <1>2 DEF CallIs, Enqueuing, Held, At
  <2> QED
    BY <1>2, <2>1, <2>2 DEF Types
<1>4. /\ tail' = (tail + 1) % capacity
      /\ Goto(t, "count")
      /\ UNCHANGED <<items, capacity, size, head, fresh, outside>>
  BY DEF Advance
<1>5. /\ thread'[t].pc = "count" /\ thread'[t].p = thread[t].p /\ OthersOut(t)'
      /\ thread' \in [Threads -> [pc : Steps, p : Procs \cup {Garbage},
                                  new_items : Arrays]]
  BY <1>2, <1>4, Going DEF Steps
<1>6. tail = Slot(size) /\ \A i \in 0 .. size - 1 : items[Slot(i)] \in Procs \ fresh
  BY <1>2, <1>3 DEF RingIs
<1>7. tail' = IF tail + 1 < capacity THEN tail + 1 ELSE tail + 1 - capacity
  <2>1. 1 \in 0 .. capacity
    BY <1>3
  <2> QED
    BY <1>3, <1>4, <2>1, Wrap
<1>8. tail' = Slot(size + 1) /\ tail' \in 0 .. capacity - 1
  BY <1>3, <1>6, <1>7 DEF Slot
<1>9. Types' /\ outside' \cap fresh' = {}
  BY <1>2, <1>4, <1>5, <1>8 DEF Types
<1>10. Held(t)' = size + 1 /\ \A i \in 0 .. size + 1 : Slot(i)' = Slot(i)
  BY <1>4, <1>5 DEF Held, At, Slot
<1>11. RingIs(t)'
  <2>1. size + 1 \in 0 .. size + 1 /\ size + 1 \in 0 .. capacity'
    BY <1>3, <1>4
  <2>2. ASSUME NEW i \in 0 .. (size + 1) - 1
        PROVE  items'[Slot(i)'] \in Procs \ fresh'
    <3>1. Slot(i)' = Slot(i)
      BY <1>4 DEF Slot
    <3>2. i = size \/ i \in 0 .. size - 1
      BY <1>3
    <3> QED
      BY <1>3, <1>4, <1>6, <3>1, <3>2
  <2> QED
    BY <1>4, <1>8, <1>10, <2>1, <2>2 DEF RingIs
<1>12. CallIs(t)'
  <2>1. size' < capacity' /\ items'[Slot(size)'] = thread'[t].p
    BY <1>3, <1>4, <1>5, <1>6 DEF Slot
  <2> QED
    BY <1>3, <1>4, <1>5, <2>1 DEF CallIs, At, Enqueuing
<1> QED
  BY <1>5, <1>9, <1>11, <1>12 DEF IInv, OneCall

LEMMA CountIInv ==
  ASSUME IInv, NEW t \in Threads, Count(t)
  PROVE  /\ IInv' /\ OthersOut(t) /\ OthersOut(t)' /\ thread'[t].pc = "outside"
         /\ size \in 0 .. capacity - 1
         /\ thread[t].p \in Procs \ (outside \cup fresh)
         /\ items[Slot(size)] = thread[t].p
         /\ \A i \in 0 .. size : items[Slot(i)] \in Procs
<1>1. At(t, "count") /\ ~At(t, "outside")
  BY DEF Count, At
<1>2. /\ Types /\ outside \cap fresh = {}
      /\ OthersOut(t) /\ RingIs(t) /\ CallIs(t)
  BY <1>1, Known
<1>3. /\ capacity \in Nat \ {0} /\ size \in 0 .. capacity - 1
      /\ thread[t].p \in Procs \ (outside \cup fresh)
      /\ items[Slot(size)] = thread[t].p
      /\ Held(t) = size + 1
  <2>1. /\ capacity \in Nat \ {0} /\ size \in 0 .. capacity /\ size < capacity
        /\ items[Slot(size)] = thread[t].p
    BY <1>1, <1>2 DEF Types, CallIs
  <2>2. Held(t) = size + 1 /\ thread[t].p \in Procs \ (outside \cup fresh)
    BY <1>1, <1>2 DEF CallIs, Enqueuing, Held, At
  <2> QED
    BY <2>1, <2>2
<1>4. /\ size' = size + 1
      /\ thread' = [thread EXCEPT ![t] = Outside]
      /\ UNCHANGED <<items, capacity, head, tail, fresh, outside>>
  BY DEF Count
<1>5. /\ thread'[t].pc = "outside" /\ OthersOut(t)'
      /\ thread' \in [Threads -> [pc : Steps, p : Procs \cup {Garbage},
                                  new_items : Arrays]]
  BY <1>2, <1>4, OutsideType DEF Types, OthersOut, At
<1>6. \A i \in 0 .. size : items[Slot(i)] \in Procs \ fresh
  <2>1. (size + 1) - 1 = size
    BY <1>3
  <2> QED
    BY <1>2, <1>3, <2>1 DEF RingIs
<1>7. Types' /\ outside' \cap fresh' = {}
  <2>1. size' \in 0 .. capacity'
    BY <1>3, <1>4
  <2> QED
    BY <1>2, <1>4, <1>5, <2>1 DEF Types
<1>8. Held(t)' = size + 1
  BY <1>4, <1>5 DEF Held, At
<1>9. RingIs(t)'
  BY <1>2, <1>3, <1>4, <1>8 DEF RingIs, Slot
<1>10. CallIs(t)'
  BY <1>5 DEF CallIs, At, Enqueuing
<1> QED
  BY <1>2, <1>3, <1>5, <1>6, <1>7, <1>9, <1>10 DEF IInv, OneCall

LEMMA DequeueIInv ==
  ASSUME ~Overlapping, IInv, Dequeue
  PROVE  IInv'
<1> DEFINE t == "scheduler"
<1>1. t \in Threads /\ At(t, "outside") /\ Quiet
  BY DEF Dequeue, MayCall, Threads
<1> HIDE DEF t
<1>2. /\ Types /\ outside \cap fresh = {}
      /\ OthersOut(t) /\ RingIs(t) /\ CallIs(t)
  BY <1>1, Known
<1>3. /\ capacity \in Nat \ {0} /\ size \in 1 .. capacity
      /\ head \in 0 .. capacity - 1 /\ Held(t) = size
  BY <1>1, <1>2 DEF Types, Dequeue, Held, At
<1>4. items[head] \in Procs \ fresh
  <2>1. 0 \in 0 .. size - 1 /\ Slot(0) = head
    BY <1>3 DEF Slot
  <2> QED
    BY <1>2, <1>3, <2>1 DEF RingIs
<1>5. /\ thread' = [thread EXCEPT ![t].pc = "drop", ![t].p = items[head]]
      /\ UNCHANGED <<items, capacity, size, head, tail, fresh, outside>>
  BY DEF Dequeue, ring, t
<1>6. /\ thread'[t].pc = "drop" /\ thread'[t].p = items[head] /\ OthersOut(t)'
      /\ thread' \in [Threads -> [pc : Steps, p : Procs \cup {Garbage},
                                  new_items : Arrays]]
  BY <1>1, <1>2, <1>4, <1>5 DEF Types, OthersOut, At, Steps
<1>7. Types' /\ outside' \cap fresh' = {}
  BY <1>2, <1>5, <1>6 DEF Types
<1>8. Held(t)' = size
  BY <1>5, <1>6 DEF Held, At
<1>9. RingIs(t)'
  BY <1>2, <1>3, <1>5, <1>8 DEF RingIs, Slot
<1>10. CallIs(t)'
  BY <1>3, <1>4, <1>5, <1>6 DEF CallIs, At, Enqueuing, t
<1> QED
  BY <1>1, <1>6, <1>7, <1>9, <1>10 DEF IInv, OneCall

LEMMA DropIInv ==
  ASSUME IInv, Drop
  PROVE  /\ IInv' /\ OthersOut("scheduler") /\ OthersOut("scheduler")'
         /\ thread'["scheduler"].pc = "uncount"
         /\ thread'["scheduler"].p = thread["scheduler"].p
         /\ thread["scheduler"].p = items[Slot(0)]
         /\ size \in 1 .. capacity
         /\ \A i \in 0 .. size - 1 : items[Slot(i)] \in Procs
         /\ \A i \in 0 .. size - 2 : items'[Slot(i)'] = items[Slot(i + 1)]
<1> DEFINE t == "scheduler"
<1>1. t \in Threads /\ At(t, "drop") /\ ~At(t, "outside")
  BY DEF Drop, At, Threads
<1> HIDE DEF t
<1>2. /\ Types /\ outside \cap fresh = {}
      /\ OthersOut(t) /\ RingIs(t) /\ CallIs(t)
  BY <1>1, Known
<1>3. /\ capacity \in Nat \ {0} /\ size \in 1 .. capacity
      /\ head \in 0 .. capacity - 1 /\ Held(t) = size
      /\ thread[t].p \in Procs \ fresh /\ thread[t].p = items[head]
  BY <1>1, <1>2 DEF Types, CallIs, Held, At
<1>4. /\ head' = (head + 1) % capacity
      /\ Goto(t, "uncount")
      /\ UNCHANGED <<items, capacity, size, tail, fresh, outside>>
  BY DEF Drop, t
<1>5. /\ thread'[t].pc = "uncount" /\ thread'[t].p = thread[t].p /\ OthersOut(t)'
      /\ thread' \in [Threads -> [pc : Steps, p : Procs \cup {Garbage},
                                  new_items : Arrays]]
  BY <1>1, <1>2, <1>4, Going DEF Steps
<1>6. /\ head' = IF head + 1 < capacity THEN head + 1 ELSE head + 1 - capacity
      /\ head' \in 0 .. capacity - 1
  <2>1. 1 \in 0 .. capacity
    BY <1>3
  <2>2. head' = IF head + 1 < capacity THEN head + 1 ELSE head + 1 - capacity
    BY <1>3, <1>4, <2>1, Wrap
  <2> QED
    BY <1>3, <2>2
<1>7. Types' /\ outside' \cap fresh' = {}
  BY <1>2, <1>4, <1>5, <1>6 DEF Types
<1>8. Held(t)' = size - 1
  BY <1>4, <1>5 DEF Held, At
<1>9. \A i \in 0 .. size - 1 : Slot(i)' = Slot(i + 1)
  BY <1>3, <1>4, <1>6 DEF Slot
<1>10. \A i \in 0 .. size - 1 : items[Slot(i)] \in Procs \ fresh
  BY <1>2, <1>3 DEF RingIs
<1>11. \A i \in 0 .. size - 2 : /\ items'[Slot(i)'] = items[Slot(i + 1)]
                               /\ items[Slot(i + 1)] \in Procs \ fresh
  <2> TAKE i \in 0 .. size - 2
  <2>1. i \in 0 .. size - 1 /\ i + 1 \in 0 .. size - 1
    BY <1>3
  <2> QED
    BY <1>4, <1>9, <1>10, <2>1
<1>12. RingIs(t)'
  <2>1. size - 1 \in 0 .. size - 1 /\ size - 1 \in 0 .. capacity' /\ (size - 1) + 1 = size
        /\ (size - 1) - 1 = size - 2
    BY <1>3, <1>4
  <2>2. Slot(size - 1)' = Slot(size)
    <3>1. Slot(size - 1)' = IF head' + (size - 1) < capacity THEN head' + (size - 1)
                            ELSE head' + (size - 1) - capacity
      BY <1>4 DEF Slot
    <3> QED
      BY <1>3, <1>6, <3>1 DEF Slot
  <2>3. tail = Slot(size)
    BY <1>2, <1>3 DEF RingIs
  <2>4. /\ Held(t)' \in 0 .. capacity'
        /\ tail' = Slot(Held(t))'
    BY <1>4, <1>8, <2>1, <2>2, <2>3 DEF Slot
  <2>5. \A i \in 0 .. Held(t)' - 1 : items'[Slot(i)'] \in Procs \ fresh'
    BY <1>4, <1>8, <1>11, <2>1
  <2> QED
    BY <2>4, <2>5 DEF RingIs
<1>13. CallIs(t)'
  <2>1. size > 0
    BY <1>3
  <2> QED
    BY <1>3, <1>4, <1>5, <2>1 DEF CallIs, At, Enqueuing, t
<1>14. items[Slot(0)] = items[head]
  BY <1>3 DEF Slot
<1> QED
  BY <1>1, <1>2, <1>3, <1>5, <1>7, <1>10, <1>11, <1>12, <1>13, <1>14 DEF IInv, OneCall, t

LEMMA UncountIInv ==
  ASSUME IInv, Uncount
  PROVE  /\ IInv' /\ OthersOut("scheduler") /\ OthersOut("scheduler")'
         /\ thread'["scheduler"].pc = "outside"
         /\ thread["scheduler"].p \in Procs
         /\ size \in 1 .. capacity
         /\ \A i \in 0 .. size - 2 : items[Slot(i)] \in Procs
<1> DEFINE t == "scheduler"
<1>1. t \in Threads /\ At(t, "uncount") /\ ~At(t, "outside")
  BY DEF Uncount, At, Threads
<1> HIDE DEF t
<1>2. /\ Types /\ outside \cap fresh = {}
      /\ OthersOut(t) /\ RingIs(t) /\ CallIs(t)
  BY <1>1, Known
<1>3. /\ capacity \in Nat \ {0} /\ size \in 1 .. capacity
      /\ Held(t) = size - 1
      /\ thread[t].p \in Procs \ fresh
  BY <1>1, <1>2 DEF Types, CallIs, Held, At
<1>4. /\ size' = size - 1
      /\ outside' = outside \cup ({thread[t].p} \ {Garbage})
      /\ thread' = [thread EXCEPT ![t] = Outside]
      /\ UNCHANGED <<items, capacity, head, tail, fresh>>
  BY DEF Uncount, t
<1>5. /\ thread'[t].pc = "outside" /\ OthersOut(t)'
      /\ thread' \in [Threads -> [pc : Steps, p : Procs \cup {Garbage},
                                  new_items : Arrays]]
  BY <1>1, <1>2, <1>4, OutsideType DEF Types, OthersOut, At
<1>6. Types' /\ outside' \cap fresh' = {}
  <2>1. size' \in 0 .. capacity'
    BY <1>3, <1>4
  <2> QED
    BY <1>2, <1>3, <1>4, <1>5, <2>1 DEF Types
<1>7. Held(t)' = size - 1
  BY <1>4, <1>5 DEF Held, At
<1>8. RingIs(t)'
  BY <1>2, <1>3, <1>4, <1>7 DEF RingIs, Slot
<1>9. CallIs(t)'
  BY <1>5 DEF CallIs, At, Enqueuing
<1>10. \A i \in 0 .. size - 2 : items[Slot(i)] \in Procs
  <2>1. (size - 1) - 1 = size - 2
    BY <1>3
  <2> QED
    BY <1>2, <1>3, <2>1 DEF RingIs
<1> QED
  BY <1>1, <1>2, <1>3, <1>5, <1>6, <1>8, <1>9, <1>10 DEF IInv, OneCall, t

LEMMA NextIInv ==
  ASSUME ~Overlapping, IInv, [Next]_vars
  PROVE  IInv'
<1>1. ASSUME NEW t \in Threads, NEW p \in Procs, Enqueue(t, p) PROVE IInv'
  BY <1>1, EnqueueIInv
<1>2. ASSUME NEW t \in Threads,
             Copy(t) \/ Install(t) \/ Put(t) \/ Advance(t) \/ Count(t)
      PROVE  IInv'
  BY <1>2, CopyIInv, InstallIInv, PutIInv, AdvanceIInv, CountIInv
<1>3. ASSUME UNCHANGED vars PROVE IInv'
  <2>1. UNCHANGED <<items, capacity, size, head, tail, thread, fresh, outside>>
    BY <1>3 DEF vars, ring
  <2>2. PICK t \in Threads : OneCall(t)
    BY DEF IInv
  <2>3. Types' /\ outside' \cap fresh' = {}
    BY <2>1 DEF IInv, Types
  <2>4. OthersOut(t)'
    BY <2>1, <2>2 DEF OneCall, OthersOut, At
  <2>5. RingIs(t)'
    BY <2>1, <2>2 DEF OneCall, RingIs, Held, At, Slot
  <2>6. CallIs(t)'
    BY <2>1, <2>2 DEF OneCall, CallIs, At, Slot, Copied
  <2> QED
    BY <2>3, <2>4, <2>5, <2>6 DEF IInv, OneCall
<1> QED
  BY <1>1, <1>2, <1>3, DequeueIInv, DropIInv, UncountIInv DEF Next

(* As long as no call begins while another one is under way, the ring's    *)
(* indices stay in the array and its size below the capacity, growing      *)
(* included.                                                               *)
THEOREM RingTypeCorrect ==
  ASSUME ~Overlapping
  PROVE  Spec => []TypeOK
<1>1. IInv /\ [Next]_vars => IInv'
  BY NextIInv
<1> QED
  BY <1>1, InitIInv, IInvTypeOK, PTL DEF Spec

(* Between the calls tail is where the next process belongs: behind the    *)
(* last one, whether the ring has wrapped around or has been enlarged.     *)
THEOREM TailFollowsTheLast ==
  ASSUME ~Overlapping
  PROVE  Spec => []RingShape
<1>1. IInv /\ [Next]_vars => IInv'
  BY NextIInv
<1> QED
  BY <1>1, InitIInv, IInvRingShape, PTL DEF Spec
-----------------------------------------------------------------------------
(* The ring implements the queue.                                          *)

LEMMA EntriesShow ==
  Types => \A n \in 0 .. capacity :
             Entries(n) = [i \in 1 .. n |-> items[Slot(i - 1)]]
  BY EntriesAre

LEMMA QueueShows ==
  \A t \in Threads : OthersOut(t) /\ ~At(t, "uncount") => AbstractQueue = Entries(size)
<1> SUFFICES ASSUME NEW t \in Threads, OthersOut(t), ~At(t, "uncount")
             PROVE  AbstractQueue = Entries(size)
  OBVIOUS
<1>1. ~At("scheduler", "uncount")
  BY DEF OthersOut, At, Threads
<1> QED
  BY <1>1 DEF AbstractQueue

LEMMA OutsideShows ==
  \A t \in Threads : OthersOut(t) =>
    AbstractOutside = outside \cup fresh \cup
      {p \in Procs : thread[t].p = p /\ thread[t].pc \in Enqueuing}
<1> SUFFICES ASSUME NEW t \in Threads, OthersOut(t)
             PROVE  AbstractOutside = outside \cup fresh \cup
                      {p \in Procs : thread[t].p = p /\ thread[t].pc \in Enqueuing}
  OBVIOUS
<1>1. \A u \in Threads : u # t => thread[u].pc \notin Enqueuing
  BY DEF OthersOut, At, Enqueuing
<1> QED
  BY <1>1 DEF AbstractOutside, Enqueuing

(* The same in the next state. *)
LEMMA ShowsThen ==
  /\ Types' => \A n \in 0 .. capacity' :
                 Entries(n)' = [i \in 1 .. n |-> items'[Slot(i - 1)']]
  /\ \A t \in Threads :
       OthersOut(t)' /\ thread'[t].pc # "uncount" => AbstractQueue' = Entries(size)'
  /\ \A t \in Threads : OthersOut(t)' =>
       AbstractOutside' = outside' \cup fresh' \cup
         {p \in Procs : thread'[t].p = p /\ thread'[t].pc \in Enqueuing}
<1>1. (Types => \A n \in 0 .. capacity :
                  Entries(n) = [i \in 1 .. n |-> items[Slot(i - 1)]])'
  BY EntriesShow, PTL
<1>2. (\A t \in Threads :
         OthersOut(t) /\ ~At(t, "uncount") => AbstractQueue = Entries(size))'
  BY QueueShows, PTL
<1>3. (\A t \in Threads : OthersOut(t) =>
         AbstractOutside = outside \cup fresh \cup
           {p \in Procs : thread[t].p = p /\ thread[t].pc \in Enqueuing})'
  BY OutsideShows, PTL
<1> QED
  BY <1>1, <1>2, <1>3 DEF At

(* A step of the ring that leaves the processes from head on where they    *)
(* are, and nobody inside or outside.                                      *)
LEMMA SameQueue ==
  ASSUME Types, Types', size' = size,
         \A i \in 0 .. size - 1 : items'[Slot(i)'] = items[Slot(i)]
  PROVE  Entries(size)' = Entries(size)
<1>1. size \in 0 .. capacity /\ size \in 0 .. capacity' /\ size \in Nat
  BY DEF Types
<1>2. Entries(size) = [i \in 1 .. size |-> items[Slot(i - 1)]]
  BY <1>1, EntriesShow
<1>3. Entries(size)' = [i \in 1 .. size |-> items'[Slot(i - 1)']]
  BY <1>1, ShowsThen
<1>4. \A i \in 1 .. size : i - 1 \in 0 .. size - 1
  BY <1>1
<1> QED
  BY <1>2, <1>3, <1>4

LEMMA EnqueueIsStutter ==
  ASSUME ~Overlapping, IInv, NEW t \in Threads, NEW p \in Procs, Enqueue(t, p)
  PROVE  UNCHANGED <<AbstractQueue, AbstractOutside>>
<1>1. At(t, "outside") /\ Quiet
  BY DEF Enqueue, MayCall
<1>2. Types /\ OthersOut(t) /\ thread[t].pc = "outside"
  BY <1>1, Known DEF At
<1> DEFINE step == IF size = capacity THEN "copy" ELSE "put"
<1>3. /\ thread' = [thread EXCEPT ![t].pc = step, ![t].p = p]
      /\ outside \cup fresh = outside' \cup fresh' \cup {p}
      /\ UNCHANGED <<items, capacity, size, head, tail>>
  <2>1. \/ t = "scheduler" /\ p \in outside /\ outside' = outside \ {p} /\ fresh' = fresh
        \/ t = "cli" /\ p \in fresh /\ fresh' = fresh \ {p} /\ outside' = outside
    BY DEF Enqueue
  <2>2. outside \cup fresh = outside' \cup fresh' \cup {p}
    BY <2>1
  <2> QED
    BY <2>2 DEF Enqueue, ring
<1>4. thread'[t].pc = step /\ thread'[t].p = p /\ OthersOut(t)'
  BY <1>2, <1>3 DEF Types, OthersOut, At
<1>5. AbstractQueue' = AbstractQueue
  <2>1. AbstractQueue = Entries(size) /\ AbstractQueue' = Entries(size)'
    BY <1>2, <1>4, QueueShows, ShowsThen DEF At
  <2> QED
    BY <1>3, <2>1 DEF Entries
<1>6. AbstractOutside' = AbstractOutside
  <2>1. AbstractOutside = outside \cup fresh
    BY <1>2, OutsideShows DEF Enqueuing
  <2>2. AbstractOutside' = outside' \cup fresh' \cup {p}
    BY <1>4, ShowsThen DEF Enqueuing
  <2> QED
    BY <1>3, <2>1, <2>2
<1> QED
  BY <1>5, <1>6

LEMMA InsideIsStutter ==
  ASSUME IInv, NEW t \in Threads, Copy(t) \/ Install(t) \/ Put(t) \/ Advance(t)
  PROVE  UNCHANGED <<AbstractQueue, AbstractOutside>>
<1>1. thread[t].pc \in {"copy", "install", "put", "advance"}
  BY DEF Copy, Install, Put, Advance, At
<1>2. Types /\ OthersOut(t)
  BY <1>1, Known DEF At
<1>3. /\ thread'[t].pc \in {"install", "put", "advance", "count"}
      /\ thread'[t].p = thread[t].p /\ OthersOut(t)'
      /\ UNCHANGED <<size, fresh, outside>>
  BY <1>2 DEF Copy, Install, Put, Advance, Goto, Types, OthersOut, At, ring
<1>4. AbstractOutside' = AbstractOutside
  <2>1. AbstractOutside = outside \cup fresh \cup {p \in Procs : thread[t].p = p}
    BY <1>1, <1>2, OutsideShows DEF Enqueuing
  <2>2. AbstractOutside' = outside' \cup fresh' \cup {p \in Procs : thread'[t].p = p}
    BY <1>3, ShowsThen DEF Enqueuing
  <2> QED
    BY <1>3, <2>1, <2>2
<1>5. AbstractQueue = Entries(size) /\ AbstractQueue' = Entries(size)'
  BY <1>1, <1>2, <1>3, QueueShows, ShowsThen DEF At
<1>6. Entries(size)' = Entries(size)
  <2>1. CASE Copy(t) \/ Advance(t)
    BY <2>1 DEF Copy, Advance, Entries, ring
  <2>2. CASE Install(t)
    BY <2>2, InstallIInv, SameQueue DEF IInv
  <2>3. CASE Put(t)
    BY <2>3, PutIInv, SameQueue DEF IInv
  <2> QED
    BY <2>1, <2>2, <2>3
<1> QED
  BY <1>4, <1>5, <1>6

(* The process is in the queue from size++ on. *)
LEMMA CountIsEnqueue ==
  ASSUME IInv, NEW t \in Threads, Count(t)
  PROVE  \E p \in Procs : F!Enqueue(p)
<1> DEFINE p == thread[t].p
<1>1. /\ OthersOut(t) /\ OthersOut(t)' /\ thread'[t].pc = "outside"
      /\ size \in 0 .. capacity - 1
      /\ p \in Procs \ (outside \cup fresh)
      /\ items[Slot(size)] = p
      /\ \A i \in 0 .. size : items[Slot(i)] \in Procs
      /\ thread[t].pc = "count"
      /\ Types /\ Types'
      /\ size' = size + 1
      /\ UNCHANGED <<items, capacity, head, tail, fresh, outside>>
  BY CountIInv DEF Count, At, IInv
<1>2. capacity \in Nat \ {0} /\ size \in 0 .. capacity /\ size + 1 \in 0 .. capacity
      /\ size \in Nat
  BY <1>1 DEF Types
<1> HIDE DEF p
<1>3. AbstractQueue = Entries(size) /\ AbstractQueue' = Entries(size + 1)
  <2>1. AbstractQueue' = Entries(size)'
    BY <1>1, ShowsThen
  <2>2. Entries(size)' = Entries(size + 1)
    BY <1>1 DEF Entries
  <2> QED
    BY <1>1, <2>1, <2>2, QueueShows DEF At
<1>4. /\ Entries(size) = [i \in 1 .. size |-> items[Slot(i - 1)]]
      /\ Entries(size + 1) = [i \in 1 .. size + 1 |-> items[Slot(i - 1)]]
  BY <1>1, <1>2, EntriesShow
<1>5. Entries(size) \in Seq(Procs) /\ Len(Entries(size)) = size
  <2>1. \A i \in 0 .. size - 1 : items[Slot(i)] \in Procs
    BY <1>1, <1>2
  <2> QED
    BY <1>1, <1>2, <2>1, EntriesType
<1>6. Entries(size + 1) = Append(Entries(size), p)
  <2>1. Append(Entries(size), p) =
          [i \in 1 .. size + 1 |-> IF i = size + 1 THEN p ELSE Entries(size)[i]]
    <3> DEFINE s == Entries(size)
    <3> HIDE DEF s
    <3>1. s \in Seq(Procs) /\ Len(s) = size /\ p \in Procs
      BY <1>1, <1>5 DEF s
    <3> DEFINE f == [i \in 1 .. size + 1 |-> IF i = size + 1 THEN p ELSE s[i]]
    <3>2. \A i \in 1 .. size : s[i] \in Procs
      BY <3>1
    <3>3. \A i \in 1 .. size + 1 : (IF i = size + 1 THEN p ELSE s[i]) \in Procs
      <4> TAKE i \in 1 .. size + 1
      <4>1. i # size + 1 => i \in 1 .. size
        BY <1>2
      <4> QED
        BY <3>1, <3>2, <4>1
    <3>4. f \in [1 .. size + 1 -> Procs]
      BY <3>3
    <3>5. f \in Seq(Procs) /\ Len(f) = size + 1
      <4> HIDE DEF f
      <4> QED
        BY <1>2, <3>4
    <3>6. /\ Append(s, p) \in Seq(Procs) /\ Len(Append(s, p)) = size + 1
          /\ \A i \in 1 .. size : Append(s, p)[i] = s[i]
          /\ Append(s, p)[size + 1] = p
      BY <3>1, AppendProperties
    <3>7. \A i \in 1 .. size + 1 : Append(s, p)[i] = f[i]
      <4> TAKE i \in 1 .. size + 1
      <4>1. i # size + 1 => i \in 1 .. size
        BY <1>2
      <4> QED
        BY <3>6, <4>1
    <3> HIDE DEF f
    <3>8. Append(s, p) = f
      BY <3>5, <3>6, <3>7, SeqEqual
    <3> QED
      BY <3>8 DEF s, f
  <2>2. ASSUME NEW i \in 1 .. size + 1
        PROVE  (IF i = size + 1 THEN p ELSE Entries(size)[i]) = items[Slot(i - 1)]
    <3>1. CASE i = size + 1
      <4>1. i - 1 = size
        BY <1>2, <3>1
      <4> QED
        BY <1>1, <3>1, <4>1
    <3>2. CASE i # size + 1
      <4>1. i \in 1 .. size
        BY <1>2, <3>2
      <4> QED
        BY <1>4, <3>2, <4>1
    <3> QED
      BY <3>1, <3>2
  <2> QED
    BY <1>4, <2>1, <2>2
<1>7. /\ AbstractOutside = outside \cup fresh \cup {p}
      /\ AbstractOutside' = outside \cup fresh
  <2>1. AbstractOutside = outside \cup fresh \cup
          {q \in Procs : thread[t].p = q /\ thread[t].pc \in Enqueuing}
    BY <1>1, OutsideShows
  <2>2. AbstractOutside' = outside' \cup fresh' \cup
          {q \in Procs : thread'[t].p = q /\ thread'[t].pc \in Enqueuing}
    BY <1>1, ShowsThen
  <2>3. {q \in Procs : thread[t].p = q /\ thread[t].pc \in Enqueuing} = {p}
    BY <1>1 DEF Enqueuing, p
  <2>4. {q \in Procs : thread'[t].p = q /\ thread'[t].pc \in Enqueuing} = {}
    BY <1>1 DEF Enqueuing
  <2> QED
    BY <1>1, <2>1, <2>2, <2>3, <2>4
<1>8. AbstractOutside' = AbstractOutside \ {p}
  BY <1>1, <1>7
<1> QED
  BY <1>1, <1>3, <1>6, <1>7, <1>8 DEF F!Enqueue

LEMMA DequeueIsStutter ==
  ASSUME ~Overlapping, IInv, Dequeue
  PROVE  UNCHANGED <<AbstractQueue, AbstractOutside>>
<1> DEFINE t == "scheduler"
<1>1. t \in Threads /\ At(t, "outside") /\ Quiet
  BY DEF Dequeue, MayCall, Threads
<1> HIDE DEF t
<1>2. Types /\ OthersOut(t) /\ thread[t].pc = "outside"
  BY <1>1, Known DEF At
<1>3. /\ thread' = [thread EXCEPT ![t].pc = "drop", ![t].p = items[head]]
      /\ UNCHANGED <<items, capacity, size, head, tail, fresh, outside>>
  BY DEF Dequeue, ring, t
<1>4. thread'[t].pc = "drop" /\ OthersOut(t)'
  BY <1>1, <1>2, <1>3 DEF Types, OthersOut, At
<1>5. AbstractQueue = Entries(size) /\ AbstractQueue' = Entries(size)'
  BY <1>1, <1>2, <1>4, QueueShows, ShowsThen DEF At
<1>6. Entries(size)' = Entries(size)
  BY <1>3 DEF Entries
<1>7. AbstractOutside' = AbstractOutside
  BY <1>1, <1>2, <1>3, <1>4, OutsideShows, ShowsThen DEF Enqueuing
<1> QED
  BY <1>5, <1>6, <1>7

(* The process that is being taken out stays the head of the queue until   *)
(* size--.                                                                 *)
LEMMA DropIsStutter ==
  ASSUME IInv, Drop
  PROVE  UNCHANGED <<AbstractQueue, AbstractOutside>>
<1> DEFINE p == thread["scheduler"].p
<1>1. /\ OthersOut("scheduler") /\ OthersOut("scheduler")'
      /\ thread'["scheduler"].pc = "uncount" /\ thread'["scheduler"].p = p
      /\ p = items[Slot(0)]
      /\ size \in 1 .. capacity
      /\ \A i \in 0 .. size - 1 : items[Slot(i)] \in Procs
      /\ \A i \in 0 .. size - 2 : items'[Slot(i)'] = items[Slot(i + 1)]
      /\ thread["scheduler"].pc = "drop"
      /\ Types /\ Types' /\ "scheduler" \in Threads
      /\ UNCHANGED <<items, capacity, size, tail, fresh, outside>>
  BY DropIInv DEF Drop, At, IInv, Threads
<1>2. /\ capacity \in Nat \ {0} /\ size \in 0 .. capacity /\ size - 1 \in 0 .. capacity
      /\ size \in Nat /\ size - 1 \in Nat
  BY <1>1 DEF Types
<1> HIDE DEF p
<1> DEFINE rest == [i \in 1 .. size - 1 |-> items[Slot(i)]]
<1>3. Entries(size) = [i \in 1 .. size |-> items[Slot(i - 1)]]
  BY <1>1, <1>2, EntriesShow
<1>4. Entries(size - 1)' = rest
  <2>1. Entries(size - 1)' = [i \in 1 .. size - 1 |-> items'[Slot(i - 1)']]
    <3>1. \A n \in 0 .. capacity :
            Entries(n)' = [i \in 1 .. n |-> items'[Slot(i - 1)']]
      BY <1>1, ShowsThen
    <3>2. Entries(size - 1)' = [i \in 1 .. size - 1 |-> items'[(head' + i - 1) % capacity']]
      BY <1>1 DEF Entries
    <3>3. \A n : Entries(n)' = [i \in 1 .. n |-> items'[(head' + i - 1) % capacity']]
      BY DEF Entries
    <3> QED
      BY <1>2, <3>1, <3>2, <3>3
  <2>2. ASSUME NEW i \in 1 .. size - 1 PROVE items'[Slot(i - 1)'] = items[Slot(i)]
    <3>1. i - 1 \in 0 .. size - 2 /\ (i - 1) + 1 = i
      BY <1>2
    <3>2. items'[Slot(i - 1)'] = items[Slot((i - 1) + 1)]
      BY <1>1, <3>1
    <3> QED
      BY <3>1, <3>2
  <2> QED
    BY <2>1, <2>2
<1>5. rest \in Seq(Procs) /\ Len(rest) = size - 1
  <2>1. \A i \in 1 .. size - 1 : items[Slot(i)] \in Procs
    BY <1>1, <1>2
  <2>2. rest \in [1 .. size - 1 -> Procs]
    BY <2>1
  <2> QED
    BY <1>2, <2>2
<1>6. <<p>> \o rest = Entries(size)
  <2>1. <<p>> \o rest = [i \in 1 .. size |-> IF i = 1 THEN p ELSE rest[i - 1]]
    <3> HIDE DEF rest
    <3> QED
      BY <1>2, <1>5
  <2>2. ASSUME NEW i \in 1 .. size
        PROVE  (IF i = 1 THEN p ELSE rest[i - 1]) = items[Slot(i - 1)]
    <3>1. CASE i = 1
      BY <1>1, <3>1
    <3>2. CASE i # 1
      <4>1. i - 1 \in 1 .. size - 1
        BY <1>2, <3>2
      <4> QED
        BY <3>2, <4>1
    <3> QED
      BY <3>1, <3>2
  <2> QED
    BY <1>3, <2>1, <2>2
<1>7. AbstractQueue = Entries(size)
  BY <1>1, QueueShows DEF At
<1>8. AbstractQueue' = <<p>> \o Entries(size - 1)'
  BY <1>1 DEF AbstractQueue, At
<1>9. AbstractOutside' = AbstractOutside
  <2>1. AbstractOutside = outside \cup fresh
    BY <1>1, OutsideShows DEF Enqueuing
  <2>2. AbstractOutside' = outside' \cup fresh'
    BY <1>1, ShowsThen DEF Enqueuing
  <2> QED
    BY <1>1, <2>1, <2>2
<1> QED
  BY <1>4, <1>6, <1>7, <1>8, <1>9

LEMMA UncountIsDequeue ==
  ASSUME IInv, Uncount
  PROVE  F!Dequeue
<1> DEFINE p == thread["scheduler"].p
<1>1. /\ OthersOut("scheduler") /\ OthersOut("scheduler")'
      /\ thread'["scheduler"].pc = "outside"
      /\ p \in Procs
      /\ size \in 1 .. capacity
      /\ \A i \in 0 .. size - 2 : items[Slot(i)] \in Procs
      /\ thread["scheduler"].pc = "uncount"
      /\ Types /\ "scheduler" \in Threads
      /\ size' = size - 1
      /\ outside' = outside \cup ({p} \ {Garbage})
      /\ UNCHANGED <<items, capacity, head, tail, fresh>>
  BY UncountIInv DEF Uncount, At, IInv, Threads
<1>2. size - 1 \in 0 .. capacity /\ (size - 1) - 1 = size - 2
  BY <1>1 DEF Types
<1> HIDE DEF p
<1>3. AbstractQueue = <<p>> \o Entries(size - 1)
  BY <1>1 DEF AbstractQueue, At, p
<1>4. AbstractQueue' = Entries(size - 1)
  <2>1. AbstractQueue' = Entries(size)'
    BY <1>1, ShowsThen
  <2>2. Entries(size)' = Entries(size - 1)
    BY <1>1 DEF Entries
  <2> QED
    BY <2>1, <2>2
<1>5. Entries(size - 1) \in Seq(Procs)
  BY <1>1, <1>2, EntriesType
<1> DEFINE rest == Entries(size - 1)
<1>6. /\ <<p>> \o rest # <<>> /\ Tail(<<p>> \o rest) = rest
      /\ Head(<<p>> \o rest) = p
  <2> HIDE DEF rest
  <2> QED
    BY <1>1, <1>5 DEF rest
<1>7. AbstractOutside = outside \cup fresh
  BY <1>1, OutsideShows DEF Enqueuing
<1>8. AbstractOutside' = outside' \cup fresh'
  BY <1>1, ShowsThen DEF Enqueuing
<1>9. outside' = outside \cup {p}
  BY <1>1, QueueAssumption
<1> QED
  BY <1>1, <1>3, <1>4, <1>6, <1>7, <1>8, <1>9 DEF F!Dequeue

LEMMA InitIsFifoInit == Init => F!Init
<1> SUFFICES ASSUME Init PROVE F!Init
  OBVIOUS
<1>1. \A t \in Threads : thread[t].pc = "outside"
  BY DEF Init, Outside
<1>2. AbstractQueue = <<>>
  <2>1. ~At("scheduler", "uncount") /\ size = 0
    BY <1>1 DEF At, Init, Threads
  <2>2. Entries(0) = <<>>
    BY DEF Entries
  <2> QED
    BY <2>1, <2>2 DEF AbstractQueue
<1>3. AbstractOutside = Procs
  BY <1>1, QueueAssumption DEF AbstractOutside, Init
<1> QED
  BY <1>2, <1>3 DEF F!Init

LEMMA NextIsFifoNext ==
  ASSUME ~Overlapping, IInv, [Next]_vars
  PROVE  [F!Next]_(F!fifoVars)
<1>1. ASSUME UNCHANGED <<AbstractQueue, AbstractOutside>>
      PROVE  UNCHANGED F!fifoVars
  BY <1>1 DEF F!fifoVars
<1>2. ASSUME NEW t \in Threads, NEW p \in Procs, Enqueue(t, p)
      PROVE  UNCHANGED F!fifoVars
  BY <1>1, <1>2, EnqueueIsStutter
<1>3. ASSUME NEW t \in Threads, Copy(t) \/ Install(t) \/ Put(t) \/ Advance(t)
      PROVE  UNCHANGED F!fifoVars
  BY <1>1, <1>3, InsideIsStutter
<1>4. ASSUME NEW t \in Threads, Count(t) PROVE F!Next
  BY <1>4, CountIsEnqueue DEF F!Next
<1>5. ASSUME Dequeue \/ Drop PROVE UNCHANGED F!fifoVars
  BY <1>1, <1>5, DequeueIsStutter, DropIsStutter
<1>6. ASSUME Uncount PROVE F!Next
  BY <1>6, UncountIsDequeue DEF F!Next
<1>7. ASSUME UNCHANGED vars PROVE UNCHANGED F!fifoVars
  BY <1>1, <1>7 DEF vars, ring, AbstractQueue, AbstractOutside, Entries, At
<1> QED
  BY <1>2, <1>3, <1>4, <1>5, <1>6, <1>7 DEF Next

(* The ring is a first-in first-out queue as long as calls do not overlap: *)
(* processes leave it in the order in which size++ made them part of it,   *)
(* across the end of the array and across a doubling of it.                *)
THEOREM ImplementsFifo ==
  ASSUME ~Overlapping
  PROVE  Spec => RefinesFifo
<1>1. IInv /\ [Next]_vars => IInv' /\ [F!Next]_(F!fifoVars)
  BY NextIInv, NextIsFifoNext
<1> QED
  BY <1>1, InitIInv, InitIsFifoInit, PTL DEF Spec, RefinesFifo, F!Spec
=============================================================================
