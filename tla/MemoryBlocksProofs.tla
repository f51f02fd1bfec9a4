------------------------- MODULE MemoryBlocksProofs -------------------------
(***************************************************************************)
(* The block allocator for any memory, any processes and any sizes: the    *)
(* list stays a partition of the memory, every process in memory owns      *)
(* exactly one block of it, and the merge leaves no two free neighbours.   *)
(***************************************************************************)
EXTENDS MemoryBlocks, SequenceTheorems, FiniteSums

(* What inserting into a sequence and removing from it does, by index. *)
LEMMA InsertedAt ==
  ASSUME NEW S, NEW s \in Seq(S), NEW i \in 1 .. Len(s) + 1, NEW e \in S
  PROVE  /\ InsertAt(s, i, e) \in Seq(S)
         /\ Len(InsertAt(s, i, e)) = Len(s) + 1
         /\ \A j \in 1 .. Len(s) + 1 :
              InsertAt(s, i, e)[j] = IF j < i THEN s[j]
                                     ELSE IF j = i THEN e ELSE s[j - 1]
<1> DEFINE front == SubSeq(s, 1, i - 1)
           back == SubSeq(s, i, Len(s))
<1>1. /\ Len(s) \in Nat
      /\ \A j \in 1 .. Len(s) : s[j] \in S
  BY LenProperties, ElementOfSeq
<1>2. /\ front \in Seq(S) /\ Len(front) = i - 1
      /\ \A j \in 1 .. i - 1 : front[j] = s[j]
  <2>1. \A j \in 1 .. i - 1 : s[j] \in S
    BY <1>1
  <2> QED
    BY <1>1, <2>1, SubSeqProperties
<1>3. /\ back \in Seq(S) /\ Len(back) = Len(s) - i + 1
      /\ \A j \in 1 .. Len(s) - i + 1 : back[j] = s[i + j - 1]
  <2>1. \A j \in i .. Len(s) : s[j] \in S
    BY <1>1
  <2> QED
    BY <1>1, <2>1, SubSeqProperties
<1>4. /\ <<e>> \in Seq(S) /\ Len(<<e>>) = 1 /\ <<e>>[1] = e
  OBVIOUS
<1> HIDE DEF front, back
<1>5. /\ front \o <<e>> \in Seq(S) /\ Len(front \o <<e>>) = i
      /\ \A j \in 1 .. i : (front \o <<e>>)[j] = IF j < i THEN s[j] ELSE e
  BY <1>1, <1>2, <1>4, ConcatProperties
<1>6. /\ (front \o <<e>>) \o back \in Seq(S)
      /\ Len((front \o <<e>>) \o back) = Len(s) + 1
      /\ \A j \in 1 .. Len(s) + 1 :
           ((front \o <<e>>) \o back)[j] = IF j <= i THEN (front \o <<e>>)[j]
                                           ELSE back[j - i]
  BY <1>1, <1>3, <1>5, ConcatProperties
<1>7. \A j \in 1 .. Len(s) + 1 : j > i => back[j - i] = s[j - 1]
  BY <1>1, <1>3
<1>8. InsertAt(s, i, e) = (front \o <<e>>) \o back
  BY DEF InsertAt, front, back
<1> QED
  BY <1>1, <1>5, <1>6, <1>7, <1>8

LEMMA RemovedAt ==
  ASSUME NEW S, NEW s \in Seq(S), NEW i \in 1 .. Len(s)
  PROVE  /\ RemoveAt(s, i) \in Seq(S)
         /\ Len(RemoveAt(s, i)) = Len(s) - 1
         /\ \A j \in 1 .. Len(s) - 1 :
              RemoveAt(s, i)[j] = IF j < i THEN s[j] ELSE s[j + 1]
<1> DEFINE front == SubSeq(s, 1, i - 1)
           back == SubSeq(s, i + 1, Len(s))
<1>1. /\ Len(s) \in Nat
      /\ \A j \in 1 .. Len(s) : s[j] \in S
  BY LenProperties, ElementOfSeq
<1>2. /\ front \in Seq(S) /\ Len(front) = i - 1
      /\ \A j \in 1 .. i - 1 : front[j] = s[j]
  <2>1. \A j \in 1 .. i - 1 : s[j] \in S
    BY <1>1
  <2> QED
    BY <1>1, <2>1, SubSeqProperties
<1>3. /\ back \in Seq(S) /\ Len(back) = Len(s) - i
      /\ \A j \in 1 .. Len(s) - i : back[j] = s[i + j]
  <2>1. \A j \in i + 1 .. Len(s) : s[j] \in S
    BY <1>1
  <2> QED
    BY <1>1, <2>1, SubSeqProperties
<1> HIDE DEF front, back
<1>4. /\ front \o back \in Seq(S)
      /\ Len(front \o back) = Len(s) - 1
      /\ \A j \in 1 .. Len(s) - 1 :
           (front \o back)[j] = IF j < i THEN front[j] ELSE back[j - i + 1]
  BY <1>1, <1>2, <1>3, ConcatProperties
<1>5. \A j \in 1 .. Len(s) - 1 : j >= i => back[j - i + 1] = s[j + 1]
  BY <1>1, <1>3
<1>6. RemoveAt(s, i) = front \o back
  BY DEF RemoveAt, front, back
<1> QED
  BY <1>1, <1>2, <1>4, <1>5, <1>6
-----------------------------------------------------------------------------
LEMMA Constants ==
  /\ Total \in Nat \ {0}
  /\ \A p \in Procs : MemoryAllocation[p] \in Nat /\ p # NoPid
BY BlocksAssumption

(* What is known of every node of the list. *)
LEMMA Nodes ==
  ASSUME TypeOK
  PROVE  /\ Len(blocks) \in Nat /\ DOMAIN blocks = 1 .. Len(blocks)
         /\ \A i \in 1 .. Len(blocks) :
              /\ blocks[i] \in Block
              /\ blocks[i].base \in 0 .. Total - 1
              /\ blocks[i].end \in -1 .. Total - 1
              /\ blocks[i].occupied \in BOOLEAN
              /\ blocks[i].pid \in Procs \cup {NoPid}
<1>1. blocks \in Seq(Block)
  BY DEF TypeOK
<1>2. /\ Len(blocks) \in Nat /\ DOMAIN blocks = 1 .. Len(blocks)
      /\ \A i \in 1 .. Len(blocks) : blocks[i] \in Block
  BY <1>1, LenProperties, ElementOfSeq
<1> QED
  BY <1>2 DEF Block

Given(i, p) ==
  [base |-> blocks[i].base, end |-> blocks[i].base + MemoryAllocation[p] - 1,
   occupied |-> TRUE, pid |-> p]

(* The number of nodes Split adds. *)
Extra(i, p) == IF Size(blocks[i]) > MemoryAllocation[p] THEN 1 ELSE 0

(* The list after block i was given to p, by index. *)
LEMMA AfterSplit ==
  ASSUME TypeOK, NEW p \in Procs, NEW i \in 1 .. Len(blocks),
         Fits(i, MemoryAllocation[p]),
         blocks' = Split(i, p, MemoryAllocation[p])
  PROVE  /\ blocks' \in Seq(Block)
         /\ Extra(i, p) \in {0, 1}
         /\ Len(blocks') = Len(blocks) + Extra(i, p)
         /\ \A j \in 1 .. Len(blocks') :
              blocks'[j] = IF j < i THEN blocks[j]
                     ELSE IF j = i THEN Given(i, p)
                     ELSE IF j = i + 1 /\ Extra(i, p) = 1
                     THEN FreeBlock(blocks[i].base + MemoryAllocation[p], blocks[i].end)
                     ELSE blocks[j - Extra(i, p)]
<1> DEFINE n == MemoryAllocation[p]
           rest == FreeBlock(blocks[i].base + n, blocks[i].end)
           cut == [blocks EXCEPT ![i] = Given(i, p)]
<1>1. /\ blocks \in Seq(Block) /\ Len(blocks) \in Nat
      /\ DOMAIN blocks = 1 .. Len(blocks)
      /\ blocks[i].base \in 0 .. Total - 1 /\ blocks[i].end \in -1 .. Total - 1
      /\ n \in Nat /\ Total \in Nat \ {0}
  BY Nodes, Constants DEF TypeOK
<1>2. Given(i, p) \in Block
  <2>1. blocks[i].base + n - 1 \in -1 .. Total - 1
    BY <1>1 DEF Fits, Size
  <2> QED
    BY <1>1, <2>1 DEF Given, Block
<1>3. /\ cut \in Seq(Block) /\ Len(cut) = Len(blocks)
      /\ \A j \in 1 .. Len(blocks) : cut[j] = IF j = i THEN Given(i, p) ELSE blocks[j]
  BY <1>1, <1>2, ExceptSeq
<1>4. CASE Size(blocks[i]) > n
  <2>1. rest \in Block
    <3>1. blocks[i].base + n \in 0 .. Total - 1
      BY <1>1, <1>4 DEF Size
    <3> QED
      BY <1>1, <3>1 DEF FreeBlock, Block
  <2>2. blocks' = InsertAt(cut, i + 1, rest)
    BY <1>4 DEF Split, Given
  <2> HIDE DEF cut, rest, n
  <2>3. i + 1 \in 1 .. Len(cut) + 1
    BY <1>1, <1>3
  <2>4. /\ blocks' \in Seq(Block) /\ Len(blocks') = Len(blocks) + 1
        /\ \A j \in 1 .. Len(blocks) + 1 :
             blocks'[j] = IF j < i + 1 THEN cut[j] ELSE IF j = i + 1 THEN rest ELSE cut[j - 1]
    <3>1. /\ InsertAt(cut, i + 1, rest) \in Seq(Block)
          /\ Len(InsertAt(cut, i + 1, rest)) = Len(cut) + 1
          /\ \A j \in 1 .. Len(cut) + 1 :
               InsertAt(cut, i + 1, rest)[j] =
                 IF j < i + 1 THEN cut[j] ELSE IF j = i + 1 THEN rest ELSE cut[j - 1]
      <4>1. \A u \in Seq(Block) : \A k \in 1 .. Len(u) + 1 : \A e \in Block :
              /\ InsertAt(u, k, e) \in Seq(Block)
              /\ Len(InsertAt(u, k, e)) = Len(u) + 1
              /\ \A j \in 1 .. Len(u) + 1 :
                   InsertAt(u, k, e)[j] =
                     IF j < k THEN u[j] ELSE IF j = k THEN e ELSE u[j - 1]
        BY InsertedAt
      <4> QED
        BY <1>3, <2>1, <2>3, <4>1
    <3> QED
      BY <1>3, <2>2, <3>1
  <2>5. Extra(i, p) = 1
    BY <1>4 DEF Extra, n
  <2>6. \A j \in 1 .. Len(blocks) + 1 :
          blocks'[j] = IF j < i THEN blocks[j] ELSE IF j = i THEN Given(i, p)
                 ELSE IF j = i + 1 THEN rest ELSE blocks[j - 1]
    <3> TAKE j \in 1 .. Len(blocks) + 1
    <3>1. blocks'[j] = IF j < i + 1 THEN cut[j] ELSE IF j = i + 1 THEN rest ELSE cut[j - 1]
      BY <2>4
    <3>2. CASE j < i
      BY <1>1, <1>3, <3>1, <3>2
    <3>3. CASE j = i
      BY <1>1, <1>3, <3>1, <3>3
    <3>4. CASE j = i + 1
      BY <1>1, <3>1, <3>4
    <3>5. CASE j > i + 1
      <4>1. j - 1 \in 1 .. Len(blocks) /\ j - 1 # i
        BY <1>1, <3>5
      <4> QED
        BY <1>1, <1>3, <3>1, <3>5, <4>1
    <3> QED
      BY <1>1, <3>2, <3>3, <3>4, <3>5
  <2> QED
    BY <1>1, <2>4, <2>5, <2>6 DEF rest, n
<1>5. CASE ~(Size(blocks[i]) > n)
  <2>1. blocks' = cut
    BY <1>5 DEF Split, Given
  <2>2. Extra(i, p) = 0
    BY <1>5 DEF Extra
  <2> HIDE DEF cut, n, rest
  <2> QED
    BY <1>1, <1>3, <2>1, <2>2
<1> QED
  BY <1>4, <1>5

(* The list while a merge swallows the node behind curr, by index. *)
LEMMA AfterMerge ==
  ASSUME TypeOK, curr \in 1 .. Len(blocks) - 1, MergeNext
  PROVE  /\ blocks' \in Seq(Block)
         /\ Len(blocks') = Len(blocks) - 1
         /\ \A j \in 1 .. Len(blocks) - 1 :
              blocks'[j] = IF j < curr THEN blocks[j]
                           ELSE IF j = curr
                           THEN [blocks[curr] EXCEPT !.end = blocks[curr + 1].end]
                           ELSE blocks[j + 1]
<1> DEFINE grown == [blocks[curr] EXCEPT !.end = blocks[curr + 1].end]
           longer == [blocks EXCEPT ![curr] = grown]
<1>1. /\ blocks \in Seq(Block) /\ Len(blocks) \in Nat
      /\ DOMAIN blocks = 1 .. Len(blocks)
      /\ curr \in 1 .. Len(blocks) /\ curr + 1 \in 1 .. Len(blocks)
      /\ blocks[curr] \in Block /\ blocks[curr + 1] \in Block
  BY Nodes DEF TypeOK
<1>2. grown \in Block
  BY <1>1 DEF Block
<1>3. /\ longer \in Seq(Block) /\ Len(longer) = Len(blocks)
      /\ \A j \in 1 .. Len(blocks) : longer[j] = IF j = curr THEN grown ELSE blocks[j]
  BY <1>1, <1>2, ExceptSeq
<1>4. blocks' = RemoveAt(longer, curr + 1)
  <2>1. longer = [blocks EXCEPT ![curr].end = blocks[curr + 1].end]
    BY <1>1
  <2> QED
    BY <2>1 DEF MergeNext
<1> HIDE DEF longer, grown
<1>5. /\ blocks' \in Seq(Block) /\ Len(blocks') = Len(blocks) - 1
      /\ \A j \in 1 .. Len(blocks) - 1 :
           blocks'[j] = IF j < curr + 1 THEN longer[j] ELSE longer[j + 1]
  BY <1>1, <1>3, <1>4, RemovedAt
<1>6. \A j \in 1 .. Len(blocks) - 1 :
        blocks'[j] = IF j < curr THEN blocks[j]
                     ELSE IF j = curr THEN grown ELSE blocks[j + 1]
  <2> TAKE j \in 1 .. Len(blocks) - 1
  <2>1. /\ j \in Nat /\ curr \in Nat /\ j \in 1 .. Len(blocks) /\ j + 1 \in 1 .. Len(blocks)
        /\ blocks'[j] = IF j < curr + 1 THEN longer[j] ELSE longer[j + 1]
    BY <1>1, <1>5
  <2>2. CASE j < curr
    BY <1>3, <2>1, <2>2
  <2>3. CASE j = curr
    BY <1>3, <2>1, <2>3
  <2>4. CASE j > curr
    BY <1>3, <2>1, <2>4
  <2> QED
    BY <2>1, <2>2, <2>3, <2>4
<1> QED
  BY <1>5, <1>6 DEF grown
-----------------------------------------------------------------------------
(* The inductive invariant.  Ordered is what keeps a node's base from      *)
(* running past its end; a node of length 0 ends one address before it.    *)
Ordered == \A i \in DOMAIN blocks : blocks[i].base <= blocks[i].end + 1

CursorInList == curr \in 0 .. Len(blocks)

IInv == TypeOK /\ Tiling /\ Ordered /\ CursorInList /\ Coalesced /\ Ownership

(* The one block of a process in memory. *)
LEMMA OwnedBlock ==
  ASSUME TypeOK, Ownership, NEW q \in Procs, in_memory[q]
  PROVE  \E m \in 1 .. Len(blocks) :
           /\ blocks[m] = [base |-> mem_base[q], end |-> mem_limit[q],
                           occupied |-> TRUE, pid |-> q]
           /\ blocks[m].occupied /\ blocks[m].pid = q
           /\ blocks[m].end - blocks[m].base + 1 = MemoryAllocation[q]
           /\ \A j \in 1 .. Len(blocks) : blocks[j].pid = q => j = m
<1>1. OwnsOneBlock(q) /\ DOMAIN blocks = 1 .. Len(blocks)
  BY Nodes DEF Ownership
<1>2. PICK m \in DOMAIN blocks :
        /\ blocks[m] = [base |-> mem_base[q], end |-> mem_limit[q],
                        occupied |-> TRUE, pid |-> q]
        /\ Size(blocks[m]) = MemoryAllocation[q]
        /\ \A j \in DOMAIN blocks : blocks[j].pid = q => j = m
  BY <1>1 DEF OwnsOneBlock
<1>3. blocks[m].occupied /\ blocks[m].pid = q
  BY <1>2
<1> QED
  BY <1>1, <1>2, <1>3 DEF Size

LEMMA InitIInv == Init => IInv
<1> SUFFICES ASSUME Init PROVE IInv
  OBVIOUS
<1>1. /\ blocks = <<FreeBlock(0, Total - 1)>> /\ curr = 0
      /\ FreeBlock(0, Total - 1) \in Block
      /\ FreeBlock(0, Total - 1).base = 0 /\ FreeBlock(0, Total - 1).end = Total - 1
      /\ FreeBlock(0, Total - 1).occupied = FALSE
      /\ FreeBlock(0, Total - 1).pid = NoPid
  BY Constants DEF Init, FreeBlock, Block
<1>2. blocks \in Seq(Block) /\ Len(blocks) = 1 /\ DOMAIN blocks = {1}
      /\ blocks[1] = FreeBlock(0, Total - 1)
  BY <1>1
<1>3. TypeOK
  BY <1>1, <1>2, Constants DEF Init, TypeOK
<1>4. Tiling /\ Ordered
  BY <1>1, <1>2, Constants DEF Tiling, Ordered
<1>5. CursorInList /\ Coalesced
  BY <1>1, <1>2 DEF CursorInList, Coalesced
<1>6. Ownership
  BY <1>1, <1>2 DEF Init, Ownership
<1> QED
  BY <1>3, <1>4, <1>5, <1>6 DEF IInv

(* The values of a state after an allocation. *)
LEMMA AllocateTypeOK ==
  ASSUME TypeOK, NEW p \in Procs, try_allocate_memory(p)
  PROVE  TypeOK'
<1>1. PICK i \in DOMAIN blocks :
        /\ FirstFit(i, MemoryAllocation[p])
        /\ blocks' = Split(i, p, MemoryAllocation[p])
        /\ mem_base' = [mem_base EXCEPT ![p] = blocks[i].base]
        /\ mem_limit' =
             [mem_limit EXCEPT ![p] = blocks[i].base + MemoryAllocation[p] - 1]
  BY DEF try_allocate_memory
<1>2. /\ i \in 1 .. Len(blocks) /\ Fits(i, MemoryAllocation[p])
      /\ blocks[i].base \in 0 .. Total - 1 /\ blocks[i].end \in -1 .. Total - 1
  BY <1>1, Nodes DEF FirstFit
<1>3. blocks' \in Seq(Block)
  BY <1>1, <1>2, AfterSplit
<1>4. blocks[i].base + MemoryAllocation[p] - 1 \in -1 .. Total - 1
  BY <1>2, Constants DEF Fits, Size
<1>5. /\ mem_base' \in [Procs -> 0 .. Total - 1]
      /\ mem_limit' \in [Procs -> -1 .. Total - 1]
  BY <1>1, <1>2, <1>4 DEF TypeOK
<1>6. in_memory' \in [Procs -> BOOLEAN] /\ curr' \in Nat /\ result' = "granted"
  BY DEF TypeOK, try_allocate_memory
<1> QED
  BY <1>3, <1>5, <1>6 DEF TypeOK

LEMMA AllocateIInv ==
  ASSUME IInv, NEW p \in Procs, try_allocate_memory(p)
  PROVE  IInv'
<1> DEFINE n == MemoryAllocation[p]
<1>1. PICK i \in DOMAIN blocks :
        /\ FirstFit(i, n)
        /\ blocks' = Split(i, p, n)
        /\ mem_base' = [mem_base EXCEPT ![p] = blocks[i].base]
        /\ mem_limit' = [mem_limit EXCEPT ![p] = blocks[i].base + n - 1]
  BY DEF try_allocate_memory
<1>2. /\ TypeOK /\ Tiling /\ Ordered /\ CursorInList /\ Coalesced /\ Ownership
      /\ curr = 0 /\ ~in_memory[p] /\ curr' = 0
      /\ in_memory' = [in_memory EXCEPT ![p] = TRUE]
  BY DEF IInv, try_allocate_memory
<1>3. /\ n \in Nat /\ Total \in Nat \ {0} /\ p # NoPid
  BY Constants
<1>4. /\ Len(blocks) \in Nat /\ DOMAIN blocks = 1 .. Len(blocks)
      /\ i \in 1 .. Len(blocks) /\ ~blocks[i].occupied
      /\ \A j \in 1 .. Len(blocks) :
           /\ blocks[j].base \in Int /\ blocks[j].end \in Int
           /\ blocks[j].occupied \in BOOLEAN
  BY <1>1, <1>2, Nodes DEF FirstFit, Fits
<1>5. Fits(i, n) /\ blocks[i].end - blocks[i].base + 1 >= n
  BY <1>1 DEF FirstFit, Fits, Size
<1> DEFINE x == Extra(i, p)
           given == Given(i, p)
           rest == FreeBlock(blocks[i].base + n, blocks[i].end)
<1>6. /\ x \in {0, 1} /\ Len(blocks') = Len(blocks) + x
      /\ DOMAIN blocks' = 1 .. Len(blocks) + x
      /\ \A j \in 1 .. Len(blocks) + x :
           blocks'[j] = IF j < i THEN blocks[j] ELSE IF j = i THEN given
                        ELSE IF j = i + 1 /\ x = 1 THEN rest ELSE blocks[j - x]
  <2>1. /\ x \in {0, 1} /\ Len(blocks') = Len(blocks) + x
        /\ blocks' \in Seq(Block)
        /\ \A j \in 1 .. Len(blocks') :
             blocks'[j] = IF j < i THEN blocks[j] ELSE IF j = i THEN given
                          ELSE IF j = i + 1 /\ x = 1 THEN rest ELSE blocks[j - x]
    <3>1. TypeOK /\ Fits(i, MemoryAllocation[p]) /\ i \in 1 .. Len(blocks)
          /\ blocks' = Split(i, p, MemoryAllocation[p])
      BY <1>1, <1>2, <1>4, <1>5
    <3> HIDE DEF n
    <3>2. /\ blocks' \in Seq(Block)
          /\ Extra(i, p) \in {0, 1}
          /\ Len(blocks') = Len(blocks) + Extra(i, p)
          /\ \A j \in 1 .. Len(blocks') :
               blocks'[j] = IF j < i THEN blocks[j]
                            ELSE IF j = i THEN Given(i, p)
                            ELSE IF j = i + 1 /\ Extra(i, p) = 1
                            THEN FreeBlock(blocks[i].base + MemoryAllocation[p],
                                           blocks[i].end)
                            ELSE blocks[j - Extra(i, p)]
      BY ONLY <3>1, AfterSplit
    <3> QED
      BY <3>2 DEF n
  <2> HIDE DEF x, given, rest
  <2> QED
    BY <2>1
<1>7. /\ x = 0 => blocks[i].end = blocks[i].base + n - 1
      /\ given.base = blocks[i].base /\ given.end = blocks[i].base + n - 1
      /\ given.occupied = TRUE /\ given.pid = p
      /\ rest.base = blocks[i].base + n /\ rest.end = blocks[i].end
      /\ rest.occupied = FALSE /\ rest.pid = NoPid
      /\ x = 1 => blocks[i].base + n <= blocks[i].end
  <2>1. /\ given.base = blocks[i].base /\ given.end = blocks[i].base + n - 1
        /\ given.occupied = TRUE /\ given.pid = p
    BY DEF Given
  <2>2. /\ rest.base = blocks[i].base + n /\ rest.end = blocks[i].end
        /\ rest.occupied = FALSE /\ rest.pid = NoPid
    BY DEF FreeBlock
  <2>3. blocks[i].base \in Int /\ blocks[i].end \in Int
    BY <1>4
  <2>4. x = IF blocks[i].end - blocks[i].base + 1 > n THEN 1 ELSE 0
    BY DEF Extra, Size
  <2> HIDE DEF x, given, rest, n
  <2>5. /\ x = 0 => blocks[i].end = blocks[i].base + n - 1
        /\ x = 1 => blocks[i].base + n <= blocks[i].end
    BY <1>3, <1>5, <2>3, <2>4
  <2> QED
    BY <2>1, <2>2, <2>5
<1>8. /\ blocks # <<>> /\ blocks[1].base = 0 /\ blocks[Len(blocks)].end = Total - 1
      /\ \A j \in 1 .. Len(blocks) - 1 : blocks[j + 1].base = blocks[j].end + 1
      /\ \A j \in 1 .. Len(blocks) : blocks[j].base <= blocks[j].end + 1
  BY <1>2, <1>4 DEF Tiling, Ordered
<1> HIDE DEF x, given, rest, n
(* Before i nothing moves, i is p's, the rest may follow, and what was *)
(* behind i moves by x.                                                *)
<1>9. /\ \A j \in 1 .. i - 1 : blocks'[j] = blocks[j]
      /\ blocks'[i] = given
      /\ x = 1 => blocks'[i + 1] = rest
      /\ \A j \in i + 1 .. Len(blocks) : blocks'[j + x] = blocks[j]
  <2>1. blocks'[i] = given /\ (x = 1 => blocks'[i + 1] = rest)
    BY <1>4, <1>6
  <2>2. ASSUME NEW j \in 1 .. i - 1 PROVE blocks'[j] = blocks[j]
    BY <1>4, <1>6
  <2>3. ASSUME NEW j \in i + 1 .. Len(blocks) PROVE blocks'[j + x] = blocks[j]
    <3>1. /\ j + x \in 1 .. Len(blocks) + x /\ ~(j + x < i) /\ ~(j + x = i)
          /\ ~(j + x = i + 1 /\ x = 1) /\ (j + x) - x = j
      BY <1>4, <1>6
    <3> QED
      BY <1>6, <3>1
  <2> QED
    BY <2>1, <2>2, <2>3
(* Where an index of the new list comes from. *)
<1>10. \A j \in 1 .. Len(blocks) + x :
         \/ j \in 1 .. i - 1
         \/ j = i
         \/ x = 1 /\ j = i + 1
         \/ j - x \in i + 1 .. Len(blocks) /\ blocks'[j] = blocks[j - x]
  <2> TAKE j \in 1 .. Len(blocks) + x
  <2>1. SUFFICES ASSUME j > i, ~(x = 1 /\ j = i + 1)
                 PROVE  j - x \in i + 1 .. Len(blocks) /\ blocks'[j] = blocks[j - x]
    BY <1>4, <1>6
  <2>2. j - x \in i + 1 .. Len(blocks) /\ (j - x) + x = j
    BY <1>4, <1>6, <2>1
  <2> QED
    BY <1>9, <2>2
<1>11. Tiling'
  <2>1. blocks'[1].base = 0
    <3>1. CASE i = 1
      BY <1>7, <1>8, <1>9, <3>1
    <3>2. CASE i # 1
      BY <1>4, <1>8, <1>9, <3>2
    <3> QED
      BY <3>1, <3>2
  <2>2. blocks'[Len(blocks) + x].end = Total - 1
    <3>1. CASE i < Len(blocks)
      BY <1>4, <1>8, <1>9, <3>1
    <3>2. CASE i = Len(blocks) /\ x = 0
      BY <1>7, <1>8, <1>9, <3>2
    <3>3. CASE i = Len(blocks) /\ x = 1
      BY <1>7, <1>8, <1>9, <3>3
    <3> QED
      BY <1>4, <1>6, <3>1, <3>2, <3>3
  <2>3. ASSUME NEW j \in 1 .. (Len(blocks) + x) - 1
        PROVE  blocks'[j + 1].base = blocks'[j].end + 1
    <3>1. j \in 1 .. Len(blocks) + x /\ j + 1 \in 1 .. Len(blocks) + x
      BY <1>4, <1>6
    <3>2. CASE j + 1 < i
      <4>1. j \in 1 .. i - 1 /\ j + 1 \in 1 .. i - 1 /\ j \in 1 .. Len(blocks) - 1
        BY <1>4, <3>2
      <4> QED
        BY <1>8, <1>9, <4>1
    <3>3. CASE j + 1 = i
      <4>1. j \in 1 .. i - 1 /\ j \in 1 .. Len(blocks) - 1
        BY <1>4, <3>3
      <4>2. blocks'[j] = blocks[j] /\ blocks'[j + 1].base = blocks[j + 1].base
        BY <1>7, <1>9, <3>3, <4>1
      <4> QED
        BY <1>8, <4>1, <4>2
    <3>4. CASE j = i /\ x = 1
      <4>1. /\ blocks'[j + 1].base = blocks[i].base + n
            /\ blocks'[j].end = blocks[i].base + n - 1
        BY <1>7, <1>9, <3>4
      <4>2. blocks[i].base \in Int /\ n \in Int
        BY <1>3, <1>4
      <4> QED
        BY <4>1, <4>2
    <3>5. CASE j = i /\ x = 0
      <4>1. j \in 1 .. Len(blocks) - 1 /\ j + 1 \in i + 1 .. Len(blocks)
        BY <1>4, <3>5
      <4>2. blocks'[j + 1] = blocks[j + 1] /\ blocks'[j].end = blocks[j].end
        <5>1. (j + 1) + x = j + 1
          BY <3>1, <3>5
        <5> QED
          BY <1>7, <1>9, <3>5, <4>1, <5>1
      <4> QED
        BY <1>8, <4>1, <4>2
    <3>6. CASE j = i + 1 /\ x = 1
      <4>1. i \in 1 .. Len(blocks) - 1 /\ i + 1 \in i + 1 .. Len(blocks)
        BY <1>4, <3>6
      <4>2. blocks'[j + 1] = blocks[i + 1] /\ blocks'[j].end = blocks[i].end
        BY <1>7, <1>9, <3>6, <4>1
      <4> QED
        BY <1>8, <4>1, <4>2
    <3>7. CASE j > i + x
      <4>1. /\ j - x \in 1 .. Len(blocks) - 1 /\ j - x \in i + 1 .. Len(blocks)
            /\ (j - x) + 1 \in i + 1 .. Len(blocks)
            /\ (j - x) + x = j /\ ((j - x) + 1) + x = j + 1
        BY <1>4, <1>6, <3>1, <3>7
      <4>2. blocks'[j] = blocks[j - x] /\ blocks'[j + 1] = blocks[(j - x) + 1]
        BY <1>9, <4>1
      <4> QED
        BY <1>8, <4>1, <4>2
    <3> QED
      BY <1>4, <1>6, <3>1, <3>2, <3>3, <3>4, <3>5, <3>6, <3>7
  <2>4. blocks' # <<>>
    BY <1>4, <1>6
  <2> QED
    BY <1>6, <2>1, <2>2, <2>3, <2>4 DEF Tiling
<1>12. Ordered'
  <2>1. ASSUME NEW j \in 1 .. Len(blocks) + x
        PROVE  blocks'[j].base <= blocks'[j].end + 1
    <3>1. CASE j \in 1 .. i - 1
      BY <1>4, <1>8, <1>9, <3>1
    <3>2. CASE j = i
      BY <1>3, <1>4, <1>7, <1>9, <3>2
    <3>3. CASE x = 1 /\ j = i + 1
      BY <1>3, <1>4, <1>7, <1>9, <3>3
    <3>4. CASE j - x \in i + 1 .. Len(blocks) /\ blocks'[j] = blocks[j - x]
      BY <1>4, <1>8, <3>4
    <3> QED
      BY <1>10, <3>1, <3>2, <3>3, <3>4
  <2> QED
    BY <1>6, <2>1 DEF Ordered
<1>13. CursorInList'
  BY <1>2, <1>4, <1>6 DEF CursorInList
<1>14. Coalesced'
  <2>1. \A j \in 1 .. Len(blocks) - 1 : blocks[j].occupied \/ blocks[j + 1].occupied
    BY <1>2 DEF Coalesced, BothFree
  <2>2. ASSUME NEW j \in 1 .. (Len(blocks) + x) - 1
        PROVE  blocks'[j].occupied \/ blocks'[j + 1].occupied
    <3>1. CASE j = i \/ j + 1 = i
      BY <1>7, <1>9, <3>1
    <3>2. CASE j + 1 < i
      <4>1. j \in 1 .. i - 1 /\ j + 1 \in 1 .. i - 1 /\ j \in 1 .. Len(blocks) - 1
        BY <1>4, <3>2
      <4> QED
        BY <1>9, <2>1, <4>1
    <3>3. CASE x = 1 /\ j = i + 1
      (* Behind the rest of i is what was behind i, and i was free. *)
      <4>1. i \in 1 .. Len(blocks) - 1 /\ i + 1 \in i + 1 .. Len(blocks)
        BY <1>4, <3>3
      <4>2. blocks'[j + 1] = blocks[i + 1]
        BY <1>9, <3>3, <4>1
      <4> QED
        BY <1>4, <2>1, <4>1, <4>2
    <3>4. CASE j > i + x
      <4>1. /\ j - x \in 1 .. Len(blocks) - 1 /\ j - x \in i + 1 .. Len(blocks)
            /\ (j - x) + 1 \in i + 1 .. Len(blocks)
            /\ (j - x) + x = j /\ ((j - x) + 1) + x = j + 1
        BY <1>4, <1>6, <3>4
      <4>2. blocks'[j] = blocks[j - x] /\ blocks'[j + 1] = blocks[(j - x) + 1]
        BY <1>9, <4>1
      <4> QED
        BY <2>1, <4>1, <4>2
    <3> QED
      BY <1>4, <1>6, <3>1, <3>2, <3>3, <3>4
  <2> QED
    BY <1>6, <2>2 DEF Coalesced, BothFree
<1>15. TypeOK'
  BY <1>2, AllocateTypeOK
<1>16. Ownership'
  <2>1. /\ in_memory \in [Procs -> BOOLEAN]
        /\ mem_base \in [Procs -> 0 .. Total - 1]
        /\ mem_limit \in [Procs -> -1 .. Total - 1]
    BY <1>2 DEF TypeOK
  <2>2. \A j \in 1 .. Len(blocks) :
          IF blocks[j].occupied
          THEN blocks[j].pid # NoPid /\ in_memory[blocks[j].pid]
          ELSE blocks[j].pid = NoPid
    BY <1>2, <1>4 DEF Ownership
  <2>3. \A j \in 1 .. Len(blocks) : blocks[j].pid \in Procs \cup {NoPid}
    BY <1>2, Nodes
  (* No node was p's. *)
  <2>4. \A j \in 1 .. Len(blocks) : blocks[j].pid # p
    BY <1>2, <1>3, <2>2
  <2>5. ASSUME NEW j \in 1 .. Len(blocks) + x
        PROVE  IF blocks'[j].occupied
               THEN blocks'[j].pid # NoPid /\ in_memory'[blocks'[j].pid]
               ELSE blocks'[j].pid = NoPid
    <3>1. \A k \in 1 .. Len(blocks) :
            IF blocks[k].occupied
            THEN blocks[k].pid # NoPid /\ in_memory'[blocks[k].pid]
            ELSE blocks[k].pid = NoPid
      <4> TAKE k \in 1 .. Len(blocks)
      <4>1. CASE blocks[k].occupied
        <5>1. blocks[k].pid \in Procs /\ in_memory[blocks[k].pid] /\ blocks[k].pid # p
          BY <2>2, <2>3, <2>4, <4>1
        <5> QED
          BY <1>2, <2>1, <4>1, <5>1, Constants
      <4>2. CASE ~blocks[k].occupied
        BY <2>2, <4>2
      <4> QED
        BY <4>1, <4>2
    <3>2. CASE j \in 1 .. i - 1
      BY <1>4, <1>9, <3>1, <3>2
    <3>3. CASE j = i
      BY <1>2, <1>3, <1>7, <1>9, <2>1, <3>3
    <3>4. CASE x = 1 /\ j = i + 1
      BY <1>7, <1>9, <3>4
    <3>5. CASE j - x \in i + 1 .. Len(blocks) /\ blocks'[j] = blocks[j - x]
      <4>1. j - x \in 1 .. Len(blocks)
        BY <1>4, <3>5
      <4> QED
        BY <3>1, <3>5, <4>1
    <3> QED
      BY <1>10, <3>2, <3>3, <3>4, <3>5
  <2>6. ASSUME NEW q \in Procs, in_memory'[q] PROVE OwnsOneBlock(q)'
    <3>1. CASE q = p
      <4>1. /\ mem_base'[p] = blocks[i].base /\ mem_limit'[p] = blocks[i].base + n - 1
        BY <1>1, <2>1
      <4>2. blocks'[i] = [base |-> mem_base'[p], end |-> mem_limit'[p],
                          occupied |-> TRUE, pid |-> p]
        BY <1>9, <4>1 DEF given, Given, n
      <4>3. blocks'[i].end - blocks'[i].base + 1 = n
        BY <1>3, <1>4, <1>7, <1>9
      <4>4. \A j \in 1 .. Len(blocks) + x : blocks'[j].pid = p => j = i
        <5> TAKE j \in 1 .. Len(blocks) + x
        <5>1. CASE j \in 1 .. i - 1
          BY <1>4, <1>9, <2>4, <5>1
        <5>2. CASE x = 1 /\ j = i + 1
          BY <1>3, <1>7, <1>9, <5>2
        <5>3. CASE j - x \in i + 1 .. Len(blocks) /\ blocks'[j] = blocks[j - x]
          BY <1>4, <2>4, <5>3
        <5> QED
          BY <1>10, <5>1, <5>2, <5>3
      <4>5. i \in 1 .. Len(blocks) + x
        BY <1>4, <1>6
      <4> QED
        BY <1>6, <3>1, <4>2, <4>3, <4>4, <4>5 DEF OwnsOneBlock, Size, n
    <3>2. CASE q # p
      <4>1. /\ in_memory[q] /\ mem_base'[q] = mem_base[q] /\ mem_limit'[q] = mem_limit[q]
        BY <1>1, <1>2, <2>1, <2>6, <3>2
      <4>3. PICK k \in 1 .. Len(blocks) :
              /\ blocks[k] = [base |-> mem_base[q], end |-> mem_limit[q],
                              occupied |-> TRUE, pid |-> q]
              /\ blocks[k].end - blocks[k].base + 1 = MemoryAllocation[q]
              /\ \A j \in 1 .. Len(blocks) : blocks[j].pid = q => j = k
        BY <1>2, <4>1, OwnedBlock
      <4>4. k # i /\ blocks[k].pid = q /\ q # NoPid
        BY <1>4, <4>3, Constants
      <4> DEFINE m == IF k < i THEN k ELSE k + x
      <4>5. m \in 1 .. Len(blocks) + x /\ blocks'[m] = blocks[k]
        <5>1. CASE k < i
          BY <1>4, <1>6, <1>9, <5>1
        <5>2. CASE k > i
          BY <1>4, <1>6, <1>9, <5>2
        <5> QED
          BY <1>4, <4>4, <5>1, <5>2
      <4>6. \A j \in 1 .. Len(blocks) + x : blocks'[j].pid = q => j = m
        <5> TAKE j \in 1 .. Len(blocks) + x
        <5>1. CASE j \in 1 .. i - 1
          BY <1>4, <1>9, <4>3, <5>1
        <5>2. CASE j = i \/ (x = 1 /\ j = i + 1)
          BY <1>7, <1>9, <3>2, <4>4, <5>2
        <5>3. CASE j - x \in i + 1 .. Len(blocks) /\ blocks'[j] = blocks[j - x]
          <6>1. blocks[j - x].pid = q => j - x = k
            BY <1>4, <4>3, <5>3
          <6> QED
            BY <1>4, <1>6, <5>3, <6>1
        <5> QED
          BY <1>10, <5>1, <5>2, <5>3
      <4> HIDE DEF m
      <4> QED
        BY <1>6, <4>1, <4>3, <4>5, <4>6 DEF OwnsOneBlock, Size
    <3> QED
      BY <3>1, <3>2
  <2> QED
    BY <1>6, <2>5, <2>6 DEF Ownership
<1> QED
  BY <1>11, <1>12, <1>13, <1>14, <1>15, <1>16 DEF IInv

(* A refusal changes nothing the invariant is about. *)
LEMMA RefuseIInv ==
  ASSUME IInv, NEW p \in Procs, RefuseAllocation(p)
  PROVE  IInv'
BY DEF IInv, RefuseAllocation, procVars, counters, TypeOK, Tiling, Ordered,
       CursorInList, Coalesced, BothFree, Ownership, OwnsOneBlock

(* The owner's one block becomes free, where it is; the merge that follows *)
(* has looked at nothing yet.                                              *)
LEMMA FreeIInv ==
  ASSUME IInv, NEW p \in Procs, free_process_memory(p)
  PROVE  IInv'
<1>1. /\ TypeOK /\ Tiling /\ Ordered /\ Ownership
      /\ in_memory[p] /\ in_memory' = [in_memory EXCEPT ![p] = FALSE]
      /\ curr' = 1 /\ result' = "none"
      /\ mem_base' = mem_base /\ mem_limit' = mem_limit
      /\ blocks' = [i \in DOMAIN blocks |->
                      IF FirstOwned(i, p)
                      THEN FreeBlock(blocks[i].base, blocks[i].end)
                      ELSE blocks[i]]
  BY DEF IInv, free_process_memory
<1>2. /\ blocks \in Seq(Block) /\ Len(blocks) \in Nat /\ DOMAIN blocks = 1 .. Len(blocks)
      /\ in_memory \in [Procs -> BOOLEAN]
      /\ mem_base \in [Procs -> 0 .. Total - 1]
      /\ mem_limit \in [Procs -> -1 .. Total - 1]
  BY <1>1, Nodes DEF TypeOK
<1>3. \A i \in 1 .. Len(blocks) :
        /\ blocks[i] \in Block
        /\ blocks[i].base \in 0 .. Total - 1 /\ blocks[i].end \in -1 .. Total - 1
        /\ blocks[i].pid \in Procs \cup {NoPid}
  BY <1>1, Nodes
<1>4. PICK k \in 1 .. Len(blocks) :
        /\ blocks[k].occupied /\ blocks[k].pid = p
        /\ \A j \in 1 .. Len(blocks) : blocks[j].pid = p => j = k
  BY <1>1, OwnedBlock
<1>5. \A i \in 1 .. Len(blocks) : FirstOwned(i, p) <=> i = k
  <2>1. FirstOwned(k, p)
    BY <1>2, <1>4 DEF FirstOwned
  <2> QED
    BY <1>4, <2>1 DEF FirstOwned
<1> DEFINE freed == FreeBlock(blocks[k].base, blocks[k].end)
<1>6. /\ freed \in Block /\ freed.base = blocks[k].base /\ freed.end = blocks[k].end
      /\ freed.occupied = FALSE /\ freed.pid = NoPid
  BY <1>3 DEF FreeBlock, Block
<1>7. blocks' = [blocks EXCEPT ![k] = freed]
  BY <1>1, <1>2, <1>5
<1> HIDE DEF freed
<1>8. /\ blocks' \in Seq(Block) /\ Len(blocks') = Len(blocks)
      /\ DOMAIN blocks' = 1 .. Len(blocks)
      /\ \A i \in 1 .. Len(blocks) : blocks'[i] = IF i = k THEN freed ELSE blocks[i]
  BY <1>2, <1>6, <1>7, ExceptSeq
<1>9. \A i \in 1 .. Len(blocks) :
        blocks'[i].base = blocks[i].base /\ blocks'[i].end = blocks[i].end
  BY <1>6, <1>8
<1>10. TypeOK'
  BY <1>1, <1>2, <1>8 DEF TypeOK
<1>11. Tiling'
  <2>1. /\ 1 \in 1 .. Len(blocks) /\ Len(blocks) \in 1 .. Len(blocks)
        /\ \A i \in 1 .. Len(blocks) - 1 :
             i \in 1 .. Len(blocks) /\ i + 1 \in 1 .. Len(blocks)
    BY <1>2
  <2>2. blocks' # <<>>
    BY <1>2, <1>8, <2>1
  <2>3. /\ blocks'[1].base = 0
        /\ blocks'[Len(blocks')].end = Total - 1
    BY <1>1, <1>8, <1>9, <2>1 DEF Tiling
  <2>4. ASSUME NEW i \in 1 .. Len(blocks') - 1
        PROVE  blocks'[i + 1].base = blocks'[i].end + 1
    BY <1>1, <1>8, <1>9, <2>1 DEF Tiling
  <2> QED
    BY <2>2, <2>3, <2>4 DEF Tiling
<1>12. Ordered'
  BY <1>1, <1>2, <1>8, <1>9 DEF Ordered
<1>13. CursorInList' /\ Coalesced'
  BY <1>1, <1>2, <1>4, <1>8 DEF CursorInList, Coalesced
<1>14. Ownership'
  <2>1. ASSUME NEW i \in 1 .. Len(blocks)
        PROVE  IF blocks'[i].occupied
               THEN blocks'[i].pid # NoPid /\ in_memory'[blocks'[i].pid]
               ELSE blocks'[i].pid = NoPid
    <3>1. CASE i = k
      BY <1>6, <1>8, <3>1
    <3>2. CASE i # k
      <4>1. blocks'[i] = blocks[i] /\ blocks[i].pid # p
        BY <1>4, <1>8, <3>2
      <4>2. IF blocks[i].occupied
            THEN blocks[i].pid # NoPid /\ in_memory[blocks[i].pid]
            ELSE blocks[i].pid = NoPid
        BY <1>1, <1>2 DEF Ownership
      <4> QED
        BY <1>1, <1>2, <1>3, <4>1, <4>2
    <3> QED
      BY <3>1, <3>2
  <2>2. ASSUME NEW q \in Procs, in_memory'[q] PROVE OwnsOneBlock(q)'
    <3>1. q # p /\ in_memory[q]
      BY <1>1, <1>2, <2>2
    <3>2. PICK m \in 1 .. Len(blocks) :
            /\ blocks[m] = [base |-> mem_base[q], end |-> mem_limit[q],
                            occupied |-> TRUE, pid |-> q]
            /\ blocks[m].end - blocks[m].base + 1 = MemoryAllocation[q]
            /\ \A j \in 1 .. Len(blocks) : blocks[j].pid = q => j = m
      BY <1>1, <3>1, OwnedBlock
    <3>3. m # k /\ blocks'[m] = blocks[m]
      BY <1>4, <1>8, <3>1, <3>2
    <3>4. \A j \in 1 .. Len(blocks) : blocks'[j].pid = q => j = m
      BY <1>6, <1>8, <3>2, Constants
    <3> QED
      BY <1>1, <1>8, <3>2, <3>3, <3>4 DEF OwnsOneBlock, Size
  <2> QED
    BY <1>8, <2>1, <2>2 DEF Ownership
<1> QED
  BY <1>10, <1>11, <1>12, <1>13, <1>14 DEF IInv

(* The two free nodes at the cursor become one that spans both; no owner's *)
(* block is among them.                                                    *)
LEMMA MergeIInv ==
  ASSUME IInv, MergeNext
  PROVE  IInv'
<1>1. /\ TypeOK /\ Tiling /\ Ordered /\ CursorInList /\ Coalesced /\ Ownership
      /\ in_memory' = in_memory /\ mem_base' = mem_base /\ mem_limit' = mem_limit
      /\ curr' = curr /\ result' = result /\ curr # 0 /\ curr < Len(blocks)
      /\ ~blocks[curr].occupied /\ ~blocks[curr + 1].occupied
  BY DEF IInv, MergeNext, MergeLoopGoesOn, BothFree, procVars
<1>2. /\ Len(blocks) \in Nat /\ DOMAIN blocks = 1 .. Len(blocks)
      /\ curr \in 1 .. Len(blocks) - 1
      /\ \A i \in 1 .. Len(blocks) :
           /\ blocks[i] \in Block /\ blocks[i].base \in Int /\ blocks[i].end \in Int
           /\ blocks[i].pid \in Procs \cup {NoPid}
  BY <1>1, Nodes DEF CursorInList
<1> DEFINE grown == [blocks[curr] EXCEPT !.end = blocks[curr + 1].end]
<1>3. /\ blocks' \in Seq(Block) /\ Len(blocks') = Len(blocks) - 1
      /\ DOMAIN blocks' = 1 .. Len(blocks) - 1
      /\ \A j \in 1 .. Len(blocks) - 1 :
           blocks'[j] = IF j < curr THEN blocks[j]
                        ELSE IF j = curr THEN grown ELSE blocks[j + 1]
  <2>1. /\ blocks' \in Seq(Block) /\ Len(blocks') = Len(blocks) - 1
        /\ \A j \in 1 .. Len(blocks) - 1 :
             blocks'[j] = IF j < curr THEN blocks[j]
                          ELSE IF j = curr THEN grown ELSE blocks[j + 1]
    BY <1>1, <1>2, AfterMerge
  <2> HIDE DEF grown
  <2> QED
    BY <1>2, <2>1
<1>4. /\ grown.base = blocks[curr].base /\ grown.end = blocks[curr + 1].end
      /\ grown.occupied = FALSE /\ grown.pid = NoPid
  <2>1. blocks[curr].pid = NoPid /\ blocks[curr] \in Block /\ blocks[curr].occupied = FALSE
    <3>1. curr \in 1 .. Len(blocks)
      BY <1>2
    <3>2. blocks[curr] \in Block /\ blocks[curr].pid = NoPid
      BY <1>1, <1>2, <3>1 DEF Ownership
    <3> QED
      BY <1>1, <3>2 DEF Block
  <2> QED
    BY <2>1 DEF Block
<1> HIDE DEF grown
<1>5. /\ \A j \in 1 .. curr - 1 : blocks'[j] = blocks[j]
      /\ blocks'[curr] = grown
      /\ \A j \in curr + 1 .. Len(blocks) - 1 : blocks'[j] = blocks[j + 1]
  BY <1>2, <1>3
<1>6. /\ blocks # <<>> /\ blocks[1].base = 0 /\ blocks[Len(blocks)].end = Total - 1
      /\ \A j \in 1 .. Len(blocks) - 1 : blocks[j + 1].base = blocks[j].end + 1
      /\ \A j \in 1 .. Len(blocks) : blocks[j].base <= blocks[j].end + 1
  BY <1>1, <1>2 DEF Tiling, Ordered
<1>7. TypeOK'
  BY <1>1, <1>3 DEF TypeOK
<1>8. Tiling'
  <2>1. blocks' # <<>>
    BY <1>2, <1>3
  <2>2. blocks'[1].base = 0
    <3>1. CASE curr = 1
      BY <1>4, <1>5, <1>6, <3>1
    <3>2. CASE curr # 1
      BY <1>2, <1>5, <1>6, <3>2
    <3> QED
      BY <3>1, <3>2
  <2>3. blocks'[Len(blocks')].end = Total - 1
    <3>1. PICK k \in 1 .. Len(blocks) - 1 : k = Len(blocks') /\ k + 1 = Len(blocks)
      <4>1. /\ Len(blocks) - 1 \in 1 .. Len(blocks) - 1
            /\ (Len(blocks) - 1) + 1 = Len(blocks)
        BY <1>2
      <4> QED
        BY <1>3, <4>1
    <3>2. blocks[k + 1].end = Total - 1
      BY <1>6, <3>1
    <3>3. CASE k = curr
      <4>1. blocks'[k] = grown /\ grown.end = blocks[k + 1].end
        BY <1>4, <1>5, <3>3
      <4> QED
        BY <3>1, <3>2, <4>1
    <3>4. CASE k # curr
      <4>1. k \in curr + 1 .. Len(blocks) - 1
        BY <1>2, <3>1, <3>4
      <4>2. blocks'[k] = blocks[k + 1]
        BY <1>5, <4>1
      <4> QED
        BY <3>1, <3>2, <4>2
    <3> QED
      BY <3>3, <3>4
  <2>4. ASSUME NEW j \in 1 .. (Len(blocks) - 1) - 1
        PROVE  blocks'[j + 1].base = blocks'[j].end + 1
    <3>1. CASE j + 1 < curr
      BY <1>2, <1>5, <1>6, <3>1
    <3>2. CASE j + 1 = curr
      <4>1. /\ blocks'[j + 1].base = blocks[j + 1].base /\ blocks'[j] = blocks[j]
            /\ j \in 1 .. Len(blocks) - 1
        BY <1>2, <1>4, <1>5, <3>2
      <4> QED
        BY <1>6, <4>1
    <3>3. CASE j = curr
      <4>1. j + 1 \in curr + 1 .. Len(blocks) - 1 /\ j + 1 \in 1 .. Len(blocks) - 1
        BY <1>2, <3>3
      <4>2. blocks'[j + 1] = blocks[(j + 1) + 1] /\ blocks'[j].end = blocks[j + 1].end
        BY <1>4, <1>5, <3>3, <4>1
      <4> QED
        BY <1>6, <4>1, <4>2
    <3>4. CASE j > curr
      <4>1. /\ j \in curr + 1 .. Len(blocks) - 1 /\ j + 1 \in curr + 1 .. Len(blocks) - 1
            /\ j + 1 \in 1 .. Len(blocks) - 1
        BY <1>2, <3>4
      <4>2. blocks'[j + 1] = blocks[(j + 1) + 1] /\ blocks'[j] = blocks[j + 1]
        BY <1>5, <4>1
      <4> QED
        BY <1>6, <4>1, <4>2
    <3> QED
      BY <1>2, <3>1, <3>2, <3>3, <3>4
  <2> QED
    BY <1>3, <2>1, <2>2, <2>3, <2>4 DEF Tiling
<1>9. Ordered'
  <2>1. ASSUME NEW j \in 1 .. Len(blocks) - 1
        PROVE  blocks'[j].base <= blocks'[j].end + 1
    <3>1. CASE j < curr
      BY <1>2, <1>5, <1>6, <3>1
    <3>2. CASE j = curr
      (* Both nodes are ordered, and the second starts behind the first. *)
      <4>1. curr \in 1 .. Len(blocks) /\ curr + 1 \in 1 .. Len(blocks)
        BY <1>2
      <4>2. /\ blocks[curr].base <= blocks[curr].end + 1
            /\ blocks[curr + 1].base = blocks[curr].end + 1
            /\ blocks[curr + 1].base <= blocks[curr + 1].end + 1
            /\ blocks[curr].base \in Int /\ blocks[curr].end \in Int
            /\ blocks[curr + 1].base \in Int /\ blocks[curr + 1].end \in Int
        BY <1>2, <1>6, <4>1
      <4>3. blocks[curr].base <= blocks[curr + 1].end + 1
        BY <4>2
      <4>4. blocks'[j].base = blocks[curr].base /\ blocks'[j].end = blocks[curr + 1].end
        BY <1>4, <1>5, <3>2
      <4> QED
        BY <4>3, <4>4
    <3>3. CASE j > curr
      <4>1. j \in curr + 1 .. Len(blocks) - 1 /\ j + 1 \in 1 .. Len(blocks)
        BY <1>2, <3>3
      <4>2. blocks'[j] = blocks[j + 1]
        BY <1>5, <4>1
      <4> QED
        BY <1>6, <4>1, <4>2
    <3> QED
      BY <1>2, <3>1, <3>2, <3>3
  <2> QED
    BY <1>3, <2>1 DEF Ordered
<1>10. CursorInList'
  BY <1>1, <1>2, <1>3 DEF CursorInList
<1>11. Coalesced'
  <2>1. ASSUME NEW j \in 1 .. (Len(blocks) - 1) - 1, j < curr
        PROVE  blocks'[j].occupied \/ blocks'[j + 1].occupied
    <3>1. blocks[j].occupied \/ blocks[j + 1].occupied
      BY <1>1, <1>2, <2>1 DEF Coalesced, BothFree
    <3>2. j + 1 = curr => blocks[j].occupied
      BY <1>1, <3>1
    <3>3. blocks'[j] = blocks[j] /\ (j + 1 < curr => blocks'[j + 1] = blocks[j + 1])
      BY <1>2, <1>5, <2>1
    <3> QED
      BY <1>2, <2>1, <3>1, <3>2, <3>3
  <2> QED
    BY <1>1, <1>3, <2>1 DEF Coalesced, BothFree
<1>12. Ownership'
  <2>1. ASSUME NEW j \in 1 .. Len(blocks) - 1
        PROVE  IF blocks'[j].occupied
               THEN blocks'[j].pid # NoPid /\ in_memory'[blocks'[j].pid]
               ELSE blocks'[j].pid = NoPid
    <3>1. \A i \in 1 .. Len(blocks) :
            IF blocks[i].occupied
            THEN blocks[i].pid # NoPid /\ in_memory[blocks[i].pid]
            ELSE blocks[i].pid = NoPid
      BY <1>1, <1>2 DEF Ownership
    <3>2. CASE j < curr
      BY <1>1, <1>2, <1>5, <3>1, <3>2
    <3>3. CASE j = curr
      BY <1>4, <1>5, <3>3
    <3>4. CASE j > curr
      BY <1>1, <1>2, <1>5, <3>1, <3>4
    <3> QED
      BY <1>2, <3>2, <3>3, <3>4
  <2>2. ASSUME NEW q \in Procs, in_memory'[q] PROVE OwnsOneBlock(q)'
    <3>1. PICK m \in 1 .. Len(blocks) :
            /\ blocks[m] = [base |-> mem_base[q], end |-> mem_limit[q],
                            occupied |-> TRUE, pid |-> q]
            /\ blocks[m].end - blocks[m].base + 1 = MemoryAllocation[q]
            /\ \A j \in 1 .. Len(blocks) : blocks[j].pid = q => j = m
      BY <1>1, <2>2, OwnedBlock
    <3>2. m # curr /\ m # curr + 1
      BY <1>1, <3>1
    <3> DEFINE k == IF m < curr THEN m ELSE m - 1
    <3>3. k \in 1 .. Len(blocks) - 1 /\ blocks'[k] = blocks[m]
      <4>1. CASE m < curr
        BY <1>2, <1>5, <4>1
      <4>2. CASE m > curr + 1
        <5>1. m - 1 \in curr + 1 .. Len(blocks) - 1 /\ (m - 1) + 1 = m /\ ~(m < curr)
          BY <1>2, <4>2
        <5> QED
          BY <1>2, <1>5, <5>1
      <4> QED
        BY <1>2, <3>2, <4>1, <4>2
    <3>4. \A j \in 1 .. Len(blocks) - 1 : blocks'[j].pid = q => j = k
      <4> TAKE j \in 1 .. Len(blocks) - 1
      <4>1. CASE j < curr
        <5>1. j \in 1 .. Len(blocks) /\ blocks'[j] = blocks[j]
          BY <1>2, <1>5, <4>1
        <5> QED
          BY <3>1, <4>1, <5>1
      <4>2. CASE j = curr
        BY <1>4, <1>5, <4>2, Constants
      <4>3. CASE j > curr
        <5>1. j + 1 \in 1 .. Len(blocks) /\ blocks'[j] = blocks[j + 1]
          BY <1>2, <1>5, <4>3
        <5> QED
          BY <1>2, <3>1, <4>3, <5>1
      <4> QED
        BY <1>2, <4>1, <4>2, <4>3
    <3> HIDE DEF k
    <3> QED
      BY <1>1, <1>3, <3>1, <3>3, <3>4 DEF OwnsOneBlock, Size
  <2> QED
    BY <1>3, <2>1, <2>2 DEF Ownership
<1> QED
  BY <1>7, <1>8, <1>9, <1>10, <1>11, <1>12 DEF IInv

(* The cursor only passes a pair that is not free, and when it has reached *)
(* the last node it has passed them all.                                   *)
LEMMA CursorIInv ==
  ASSUME IInv, Advance \/ EndMerge
  PROVE  IInv'
<1>1. /\ TypeOK /\ Tiling /\ Ordered /\ CursorInList /\ Coalesced /\ Ownership
      /\ blocks' = blocks /\ in_memory' = in_memory
      /\ mem_base' = mem_base /\ mem_limit' = mem_limit /\ result' = result
      /\ curr # 0
  BY DEF IInv, Advance, EndMerge, MergeLoopGoesOn, procVars
<1>2. Len(blocks) \in Nat /\ curr \in 1 .. Len(blocks)
  BY <1>1, Nodes DEF CursorInList
<1>3. Tiling' /\ Ordered' /\ Ownership'
  BY <1>1 DEF Tiling, Ordered, Ownership, OwnsOneBlock
<1>4. CASE Advance
  <2>1. curr' = curr + 1 /\ curr < Len(blocks) /\ ~BothFree(curr)
    BY <1>4 DEF Advance, MergeLoopGoesOn
  <2>2. TypeOK' /\ CursorInList'
    BY <1>1, <1>2, <2>1 DEF TypeOK, CursorInList
  <2>3. Coalesced'
    BY <1>1, <1>2, <2>1 DEF Coalesced, BothFree
  <2> QED
    BY <1>3, <2>2, <2>3 DEF IInv
<1>5. CASE EndMerge
  <2>1. curr' = 0 /\ curr = Len(blocks)
    BY <1>5 DEF EndMerge
  <2>2. TypeOK' /\ CursorInList'
    BY <1>1, <1>2, <2>1 DEF TypeOK, CursorInList
  <2>3. Coalesced'
    BY <1>1, <1>2, <2>1 DEF Coalesced, BothFree
  <2> QED
    BY <1>3, <2>2, <2>3 DEF IInv
<1> QED
  BY <1>4, <1>5

LEMMA NextIInv == IInv /\ [Next]_vars => IInv'
<1> SUFFICES ASSUME IInv, [Next]_vars PROVE IInv'
  OBVIOUS
<1>1. ASSUME NEW p \in Procs, try_allocate_memory(p) PROVE IInv'
  BY <1>1, AllocateIInv
<1>2. ASSUME NEW p \in Procs, RefuseAllocation(p) PROVE IInv'
  BY <1>2, RefuseIInv
<1>3. ASSUME NEW p \in Procs, free_process_memory(p) PROVE IInv'
  BY <1>3, FreeIInv
<1>4. ASSUME merge_adjacent_free_blocks PROVE IInv'
  BY <1>4, MergeIInv, CursorIInv DEF merge_adjacent_free_blocks
<1>5. ASSUME UNCHANGED vars PROVE IInv'
  BY <1>5 DEF IInv, vars, procVars, counters, TypeOK, Tiling, Ordered,
              CursorInList, Coalesced, BothFree, Ownership, OwnsOneBlock
<1> QED
  BY <1>1, <1>2, <1>3, <1>4, <1>5 DEF Next
-----------------------------------------------------------------------------
(* Whatever the processes ask for and release, and also in the middle of a *)
(* merge, the nodes cut the memory into pieces without a gap or an overlap.*)
THEOREM MemoryIsTiled == Spec => []Tiling
<1>1. IInv => Tiling
  BY DEF IInv
<1> QED
  BY <1>1, InitIInv, NextIInv, PTL DEF Spec

(* A process in memory has one block, of the size it asked for, at the     *)
(* addresses it was given; every other block is free.                      *)
THEOREM EveryProcessOwnsOneBlock == Spec => []Ownership
<1>1. IInv => Ownership
  BY DEF IInv
<1> QED
  BY <1>1, InitIInv, NextIInv, PTL DEF Spec

(* No free block has a free block next to it once a release is over.       *)
THEOREM FreeRunsAreCoalesced == Spec => []Coalesced
<1>1. IInv => Coalesced
  BY DEF IInv
<1> QED
  BY <1>1, InitIInv, NextIInv, PTL DEF Spec

(* The variables keep to their types, whatever the processes ask for. *)
THEOREM BlocksTypeCorrect == Spec => []TypeOK
<1>1. IInv => TypeOK
  BY DEF IInv
<1> QED
  BY <1>1, InitIInv, NextIInv, PTL DEF Spec
-----------------------------------------------------------------------------
(* The list implements the address space.                                  *)

(* A request of length 0 is left out, as AddressMap does: the owner map    *)
(* could not tell whether it was granted.                                  *)
Positive == \A p \in Procs : MemoryAllocation[p] > 0

Covers(i, a) == blocks[i].base <= a /\ a <= blocks[i].end

(* The nodes are in the order of their addresses. *)
Apart ==
  \A i, j \in 1 .. Len(blocks) : i < j => blocks[i].end < blocks[j].base

(* No address is without a node. *)
AllCovered == \A a \in 0 .. Total - 1 : \E i \in 1 .. Len(blocks) : Covers(i, a)

(* The map says of an address what its node says. *)
MapShowsNodes ==
  \A i \in 1 .. Len(blocks) : \A a \in Int :
    Covers(i, a) => a \in 0 .. Total - 1 /\ OwnerMap[a] = blocks[i].pid

MapIsFunction == OwnerMap = [a \in 0 .. Total - 1 |-> OwnerMap[a]]

(* Who is resident in the map is in memory. *)
ResidentInMemory ==
  \A p \in Procs : in_memory[p] <=> \E a \in 0 .. Total - 1 : OwnerMap[a] = p

MapRight == Apart /\ AllCovered /\ MapShowsNodes /\ MapIsFunction

LEMMA NodesApart == IInv => Apart
<1> SUFFICES ASSUME IInv, NEW i \in 1 .. Len(blocks), NEW j \in 1 .. Len(blocks),
                    i < j, ~(blocks[i].end < blocks[j].base)
             PROVE  FALSE
  BY DEF Apart
<1>1. /\ Len(blocks) \in Nat /\ DOMAIN blocks = 1 .. Len(blocks)
      /\ \A k \in 1 .. Len(blocks) :
           /\ blocks[k].base \in Int /\ blocks[k].end \in Int
           /\ blocks[k].base <= blocks[k].end + 1
      /\ \A k \in 1 .. Len(blocks) - 1 : blocks[k + 1].base = blocks[k].end + 1
  <2>1. /\ Len(blocks) \in Nat /\ DOMAIN blocks = 1 .. Len(blocks)
        /\ \A k \in 1 .. Len(blocks) :
             blocks[k].base \in 0 .. Total - 1 /\ blocks[k].end \in -1 .. Total - 1
    BY Nodes DEF IInv
  <2>2. /\ \A k \in DOMAIN blocks : blocks[k].base <= blocks[k].end + 1
        /\ \A k \in 1 .. Len(blocks) - 1 : blocks[k + 1].base = blocks[k].end + 1
    BY DEF IInv, Tiling, Ordered
  <2> QED
    BY <2>1, <2>2, Constants
<1> DEFINE bad == {k \in i + 1 .. Len(blocks) : ~(blocks[i].end < blocks[k].base)}
<1>2. bad \subseteq Nat /\ j \in bad
  BY <1>1
<1>3. PICK k \in bad : \A l \in bad : k <= l
  BY <1>2, Least
<1>4. k \in i + 1 .. Len(blocks) /\ ~(blocks[i].end < blocks[k].base)
  OBVIOUS
<1>5. CASE k = i + 1
  BY <1>1, <1>4, <1>5
<1>6. CASE k # i + 1
  <2>1. k - 1 \in i + 1 .. Len(blocks) /\ k - 1 \in 1 .. Len(blocks) - 1 /\ ~(k <= k - 1)
    BY <1>1, <1>4, <1>6
  <2>2. blocks[i].end < blocks[k - 1].base
    BY <1>3, <2>1
  <2>3. /\ blocks[(k - 1) + 1].base = blocks[k - 1].end + 1 /\ (k - 1) + 1 = k
        /\ blocks[k - 1].base <= blocks[k - 1].end + 1
        /\ blocks[k - 1].base \in Int /\ blocks[k - 1].end \in Int
        /\ blocks[i].end \in Int /\ blocks[k].base \in Int
    BY <1>1, <1>4, <2>1
  <2> QED
    BY <1>4, <2>2, <2>3
<1> QED
  BY <1>5, <1>6

LEMMA NodesCover == IInv => AllCovered
<1> SUFFICES ASSUME IInv, NEW a \in 0 .. Total - 1
             PROVE  \E i \in 1 .. Len(blocks) : Covers(i, a)
  BY DEF AllCovered
<1>1. /\ Len(blocks) \in Nat \ {0} /\ Total \in Nat \ {0}
      /\ \A k \in 1 .. Len(blocks) : blocks[k].base \in Int /\ blocks[k].end \in Int
      /\ blocks[1].base = 0 /\ blocks[Len(blocks)].end = Total - 1
      /\ \A k \in 1 .. Len(blocks) - 1 : blocks[k + 1].base = blocks[k].end + 1
  BY Nodes, Constants DEF IInv, Tiling, TypeOK
<1> DEFINE reach == {k \in 1 .. Len(blocks) : a <= blocks[k].end}
<1>2. reach \subseteq Nat /\ Len(blocks) \in reach
  BY <1>1
<1>3. PICK k \in reach : \A l \in reach : k <= l
  BY <1>2, Least
<1>4. k \in 1 .. Len(blocks) /\ a <= blocks[k].end
  OBVIOUS
<1>5. CASE k = 1
  BY <1>1, <1>4, <1>5 DEF Covers
<1>6. CASE k # 1
  <2>1. k - 1 \in 1 .. Len(blocks) - 1 /\ k - 1 \in 1 .. Len(blocks) /\ ~(k <= k - 1)
    BY <1>1, <1>4, <1>6
  <2>2. ~(a <= blocks[k - 1].end)
    BY <1>3, <2>1
  <2>3. blocks[(k - 1) + 1].base = blocks[k - 1].end + 1 /\ (k - 1) + 1 = k
    BY <1>1, <2>1
  <2>4. blocks[k].base <= a
    BY <1>1, <2>1, <2>2, <2>3
  <2> QED
    BY <1>4, <2>4 DEF Covers
<1> QED
  BY <1>5, <1>6

LEMMA NodesInMap == IInv => MapShowsNodes
<1> SUFFICES ASSUME IInv, NEW i \in 1 .. Len(blocks), NEW a \in Int, Covers(i, a)
             PROVE  a \in 0 .. Total - 1 /\ OwnerMap[a] = blocks[i].pid
  BY DEF MapShowsNodes
<1>1. /\ Len(blocks) \in Nat /\ DOMAIN blocks = 1 .. Len(blocks)
      /\ \A k \in 1 .. Len(blocks) :
           blocks[k].base \in 0 .. Total - 1 /\ blocks[k].end \in -1 .. Total - 1
      /\ Apart /\ Total \in Nat
      /\ ~blocks[i].occupied => blocks[i].pid = NoPid
  BY Nodes, NodesApart, Constants DEF IInv, Ownership
<1>2. a \in 0 .. Total - 1
  BY <1>1 DEF Covers
<1>3. \A k \in 1 .. Len(blocks) : a \in blocks[k].base .. blocks[k].end => k = i
  BY <1>1 DEF Apart, Covers
<1>4. a \in blocks[i].base .. blocks[i].end
  BY <1>1 DEF Covers
<1> DEFINE here(k) == blocks[k].occupied /\ a \in blocks[k].base .. blocks[k].end
<1>5. OwnerMap[a] = IF \E k \in DOMAIN blocks : here(k)
                    THEN blocks[CHOOSE k \in DOMAIN blocks : here(k)].pid ELSE NoPid
  BY <1>2 DEF OwnerMap
<1>6. CASE blocks[i].occupied
  <2>1. i \in DOMAIN blocks /\ here(i) /\ \A k \in DOMAIN blocks : here(k) => k = i
    BY <1>1, <1>3, <1>4, <1>6
  <2> HIDE DEF here
  <2>2. (CHOOSE k \in DOMAIN blocks : here(k)) = i
    BY <2>1
  <2> QED
    BY <1>2, <1>5, <2>1, <2>2
<1>7. CASE ~blocks[i].occupied
  <2>1. ~ \E k \in DOMAIN blocks : here(k)
    BY <1>1, <1>3, <1>7
  <2> HIDE DEF here
  <2> QED
    BY <1>1, <1>2, <1>5, <1>7, <2>1
<1> QED
  BY <1>6, <1>7

LEMMA MapIsRight == IInv => MapRight
<1>1. MapIsFunction
  BY DEF MapIsFunction, OwnerMap
<1> QED
  BY <1>1, NodesApart, NodesCover, NodesInMap DEF MapRight

LEMMA InMemoryInMap == Positive => (IInv => ResidentInMemory)
<1> SUFFICES ASSUME Positive, IInv, NEW p \in Procs
             PROVE  in_memory[p] <=> \E a \in 0 .. Total - 1 : OwnerMap[a] = p
  BY DEF ResidentInMemory
<1>1. /\ AllCovered /\ MapShowsNodes /\ TypeOK /\ Ownership
      /\ DOMAIN blocks = 1 .. Len(blocks)
      /\ \A k \in 1 .. Len(blocks) :
           blocks[k].base \in Int /\ blocks[k].end \in Int
  BY MapIsRight, Nodes DEF MapRight, IInv
<1>2. ASSUME in_memory[p] PROVE \E a \in 0 .. Total - 1 : OwnerMap[a] = p
  <2>1. PICK m \in 1 .. Len(blocks) :
          /\ blocks[m].pid = p
          /\ blocks[m].end - blocks[m].base + 1 = MemoryAllocation[p]
    BY <1>1, <1>2, OwnedBlock
  <2>2. MemoryAllocation[p] \in Nat /\ MemoryAllocation[p] > 0
    BY Constants DEF Positive
  <2>3. Covers(m, blocks[m].base) /\ blocks[m].base \in Int
    BY <1>1, <2>1, <2>2 DEF Covers
  <2> QED
    BY <1>1, <2>1, <2>3 DEF MapShowsNodes
<1>3. ASSUME NEW a \in 0 .. Total - 1, OwnerMap[a] = p PROVE in_memory[p]
  <2>1. PICK i \in 1 .. Len(blocks) : Covers(i, a)
    BY <1>1 DEF AllCovered
  <2>2. a \in Int
    BY Constants
  <2>3. blocks[i].pid = p /\ p # NoPid
    BY <1>1, <1>3, <2>1, <2>2, Constants DEF MapShowsNodes
  <2> QED
    BY <1>1, <2>3 DEF Ownership
<1> QED
  BY <1>2, <1>3

(* A run of free addresses lies in one free node: free neighbours are one  *)
(* node, and a node that is not free has an address.                       *)
LEMMA HoleInNode ==
  ASSUME Positive, IInv, curr = 0, NEW n \in Nat \ {0},
         NEW h \in Space!Holes(OwnerMap, n)
  PROVE  \E j \in 1 .. Len(blocks) :
           ~blocks[j].occupied /\ blocks[j].base <= h /\ h + n - 1 <= blocks[j].end
<1>1. /\ TypeOK /\ Tiling /\ Coalesced /\ Ownership /\ MapRight
      /\ Len(blocks) \in Nat /\ DOMAIN blocks = 1 .. Len(blocks)
      /\ \A k \in 1 .. Len(blocks) :
           /\ blocks[k].base \in Int /\ blocks[k].end \in Int
           /\ blocks[k].occupied \in BOOLEAN
           /\ blocks[k].pid \in Procs \cup {NoPid}
      /\ Total \in Nat
  BY MapIsRight, Nodes, Constants DEF IInv
<1>2. /\ h \in 0 .. Total - 1 /\ h + n - 1 \in 0 .. Total - 1
      /\ \A a \in h .. h + n - 1 : a \in 0 .. Total - 1 /\ OwnerMap[a] = NoPid
  <2>1. /\ h \in 0 .. Total - 1 /\ h .. h + n - 1 \subseteq 0 .. Total - 1
        /\ \A a \in h .. h + n - 1 : OwnerMap[a] = NoPid
    BY DEF Space!Holes, Space!Addresses, Space!Run
  <2> QED
    BY <1>1, <2>1
<1>3. PICK j \in 1 .. Len(blocks) : Covers(j, h)
  BY <1>1, <1>2 DEF MapRight, AllCovered
<1>4. blocks[j].pid = NoPid
  BY <1>1, <1>2, <1>3 DEF MapRight, MapShowsNodes
<1>5. ~blocks[j].occupied
  BY <1>1, <1>4 DEF Ownership
<1>6. ASSUME blocks[j].end < h + n - 1 PROVE FALSE
  <2> DEFINE e == blocks[j].end + 1
  <2>1. e \in h .. h + n - 1 /\ e \in Int
    BY <1>1, <1>2, <1>3, <1>6 DEF Covers
  <2>2. e \in 0 .. Total - 1 /\ OwnerMap[e] = NoPid
    BY <1>2, <2>1
  <2>3. j # Len(blocks)
    <3>1. /\ blocks[Len(blocks)].end = Total - 1
          /\ blocks[j].end + 1 <= Total - 1 /\ Total \in Int
      BY <1>1, <2>2 DEF Tiling
    <3> HIDE DEF e
    <3> SUFFICES ASSUME j = Len(blocks) PROVE FALSE
      OBVIOUS
    <3>2. blocks[j].end = Total - 1
      BY <3>1
    <3> QED
      BY ONLY <3>1, <3>2
  <2>4. j \in 1 .. Len(blocks) - 1 /\ j + 1 \in 1 .. Len(blocks)
    <3>1. j \in 1 .. Len(blocks) /\ Len(blocks) \in Nat
      BY <1>1
    <3> QED
      BY ONLY <2>3, <3>1
  <2>5. blocks[j + 1].base = e /\ blocks[j + 1].occupied
    BY <1>1, <1>5, <2>4 DEF Tiling, Coalesced, BothFree
  <2>6. blocks[j + 1].pid \in Procs /\ in_memory[blocks[j + 1].pid]
    BY <1>1, <2>4, <2>5 DEF Ownership
  <2>7. ASSUME NEW q \in Procs, in_memory[q], blocks[j + 1].pid = q PROVE FALSE
    <3> HIDE DEF e
    <3>1. PICK m \in 1 .. Len(blocks) :
            /\ blocks[m] = [base |-> mem_base[q], end |-> mem_limit[q],
                            occupied |-> TRUE, pid |-> q]
            /\ blocks[m].occupied /\ blocks[m].pid = q
            /\ blocks[m].end - blocks[m].base + 1 = MemoryAllocation[q]
            /\ \A k \in 1 .. Len(blocks) : blocks[k].pid = q => k = m
      <4>1. TypeOK /\ Ownership
        BY <1>1
      <4> QED
        BY <4>1, <2>7, OwnedBlock
    <3>2. m = j + 1
      BY <2>4, <2>7, <3>1
    <3>3. MemoryAllocation[q] \in Nat /\ MemoryAllocation[q] > 0
      BY Constants DEF Positive
    <3>4. Covers(j + 1, e)
      BY <1>1, <2>1, <2>4, <2>5, <3>1, <3>2, <3>3 DEF Covers
    <3>5. OwnerMap[e] = q
      BY <1>1, <2>1, <2>4, <2>7, <3>4 DEF MapRight, MapShowsNodes
    <3> QED
      BY <2>2, <3>5, Constants
  <2> QED
    BY <2>6, <2>7
<1>7. blocks[j].base <= h
  BY <1>3 DEF Covers
<1> QED
  BY <1>1, <1>2, <1>5, <1>6, <1>7

(* The map in the next state, from the node that covers an address there. *)
LEMMA MapThen ==
  ASSUME IInv, [Next]_vars
  PROVE  /\ IInv' /\ MapRight
         /\ OwnerMap' = [a \in 0 .. Total - 1 |-> OwnerMap'[a]]
         /\ \A k \in 1 .. Len(blocks') : \A a \in Int :
              blocks'[k].base <= a /\ a <= blocks'[k].end
                => OwnerMap'[a] = blocks'[k].pid
<1>1. IInv'
  BY NextIInv
<1>2. IInv' => MapRight'
  BY MapIsRight, PTL
<1> QED
  BY <1>1, <1>2, MapIsRight DEF MapRight, MapIsFunction, MapShowsNodes, Covers

(* The block first fit stops at starts at the lowest hole. *)
LEMMA FirstFitIsLowest ==
  ASSUME Positive, IInv, curr = 0, NEW p \in Procs, NEW i \in 1 .. Len(blocks),
         FirstFit(i, MemoryAllocation[p])
  PROVE  /\ blocks[i].base \in Space!Holes(OwnerMap, MemoryAllocation[p])
         /\ \A h \in Space!Holes(OwnerMap, MemoryAllocation[p]) : blocks[i].base <= h
<1> DEFINE n == MemoryAllocation[p]
<1>1. /\ TypeOK /\ Ordered /\ Ownership /\ MapRight
      /\ Len(blocks) \in Nat /\ DOMAIN blocks = 1 .. Len(blocks)
      /\ \A k \in 1 .. Len(blocks) :
           blocks[k].base \in 0 .. Total - 1 /\ blocks[k].end \in -1 .. Total - 1
      /\ n \in Nat \ {0} /\ Total \in Nat
  BY MapIsRight, Nodes, Constants DEF IInv, Positive
<1>2. /\ ~blocks[i].occupied /\ blocks[i].base + n - 1 <= blocks[i].end
      /\ \A j \in 1 .. i - 1 : ~Fits(j, n)
      /\ blocks[i].pid = NoPid
  BY <1>1 DEF FirstFit, Fits, Size, Ownership
<1> HIDE DEF n
<1>3. blocks[i].base \in Space!Holes(OwnerMap, n)
  <2> DEFINE base == blocks[i].base
  <2>1. base \in 0 .. Total - 1
    BY <1>1
  <2>2. ASSUME NEW a \in base .. base + n - 1
        PROVE  a \in 0 .. Total - 1 /\ OwnerMap[a] = NoPid
    <3>1. a \in Int /\ Covers(i, a)
      BY <1>1, <1>2 DEF Covers
    <3> QED
      BY <1>1, <1>2, <3>1 DEF MapRight, MapShowsNodes
  <2> HIDE DEF base
  <2>3. base \in Space!Holes(OwnerMap, n)
    BY <2>1, <2>2 DEF Space!Holes, Space!Addresses, Space!Run
  <2> QED
    BY <2>3 DEF base
<1>4. ASSUME NEW h \in Space!Holes(OwnerMap, n) PROVE blocks[i].base <= h
  <2>1. PICK j \in 1 .. Len(blocks) :
          ~blocks[j].occupied /\ blocks[j].base <= h /\ h + n - 1 <= blocks[j].end
    BY <1>1, HoleInNode
  <2>2. h \in Int
    BY <1>1 DEF Space!Holes, Space!Addresses
  <2>3. Fits(j, n)
    BY <1>1, <2>1, <2>2 DEF Fits, Size
  <2>4. ~(j < i)
    BY <1>1, <1>2, <2>3
  <2>5. CASE j = i
    BY <2>1, <2>5
  <2>6. CASE i < j
    <3>1. blocks[i].end < blocks[j].base
      BY <1>1, <2>6 DEF MapRight, Apart
    <3>2. blocks[i].base <= blocks[i].end + 1
      BY <1>1 DEF Ordered
    <3>3. /\ blocks[i].end \in Int /\ blocks[j].base \in Int /\ blocks[i].base \in Int
      BY <1>1
    <3> QED
      BY <2>1, <2>2, <3>1, <3>2, <3>3
  <2> QED
    BY <1>1, <2>4, <2>5, <2>6
<1> QED
  BY <1>3, <1>4 DEF n

LEMMA AllocateIsGrant ==
  ASSUME Positive, IInv, NEW p \in Procs, try_allocate_memory(p)
  PROVE  Space!Grant(p)
<1> DEFINE n == MemoryAllocation[p]
<1>1. PICK i \in 1 .. Len(blocks) :
        FirstFit(i, n) /\ blocks' = Split(i, p, n)
  BY Nodes DEF try_allocate_memory, IInv
<1>2. /\ TypeOK /\ Ownership /\ MapRight /\ curr = 0 /\ ~in_memory[p]
      /\ result' = "granted"
      /\ Len(blocks) \in Nat
      /\ \A k \in 1 .. Len(blocks) :
           blocks[k].base \in Int /\ blocks[k].end \in Int
      /\ n \in Nat \ {0} /\ Total \in Nat
  BY MapIsRight, Nodes, Constants DEF IInv, try_allocate_memory, Positive
<1>3. /\ Fits(i, n) /\ blocks[i].pid = NoPid
      /\ blocks[i].base + n - 1 <= blocks[i].end
  BY <1>1, <1>2, Nodes DEF FirstFit, Fits, Size, Ownership
<1>4. /\ Extra(i, p) \in {0, 1}
      /\ Len(blocks') = Len(blocks) + Extra(i, p)
      /\ \A j \in 1 .. Len(blocks') :
           blocks'[j] = IF j < i THEN blocks[j]
                  ELSE IF j = i THEN Given(i, p)
                  ELSE IF j = i + 1 /\ Extra(i, p) = 1
                  THEN FreeBlock(blocks[i].base + n, blocks[i].end)
                  ELSE blocks[j - Extra(i, p)]
  BY <1>1, <1>2, <1>3, AfterSplit
<1>5. /\ OwnerMap' = [a \in 0 .. Total - 1 |-> OwnerMap'[a]]
      /\ \A k \in 1 .. Len(blocks') : \A a \in Int :
           blocks'[k].base <= a /\ a <= blocks'[k].end
             => OwnerMap'[a] = blocks'[k].pid
  <2>1. [Next]_vars
    BY DEF Next
  <2> QED
    BY <2>1, MapThen
<1>6. ASSUME NEW a \in 0 .. Total - 1
      PROVE  OwnerMap'[a] = IF a \in blocks[i].base .. blocks[i].base + n - 1
                            THEN p ELSE OwnerMap[a]
  <2>1. a \in Int
    BY <1>2
  <2>2. PICK k \in 1 .. Len(blocks) : blocks[k].base <= a /\ a <= blocks[k].end
    BY <1>2 DEF MapRight, AllCovered, Covers
  <2>3. OwnerMap[a] = blocks[k].pid
    BY <1>2, <2>1, <2>2 DEF MapRight, MapShowsNodes, Covers
  <2>4. CASE k < i
    <3>1. blocks[k].end < blocks[i].base
      BY <1>2, <2>4 DEF MapRight, Apart
    <3>2. k \in 1 .. Len(blocks')
      BY <1>2, <1>4
    <3>3. blocks'[k] = blocks[k]
      BY <1>4, <2>4, <3>2
    <3>4. OwnerMap'[a] = blocks[k].pid
      BY <1>5, <2>1, <2>2, <3>2, <3>3
    <3> QED
      BY <1>2, <2>1, <2>2, <2>3, <3>1, <3>4
  <2>5. CASE k > i
    <3> DEFINE l == k + Extra(i, p)
    <3>1. blocks[i].end < blocks[k].base
      BY <1>2, <2>5 DEF MapRight, Apart
    <3>2. l \in 1 .. Len(blocks') /\ l > i /\ ~(l = i + 1 /\ Extra(i, p) = 1)
          /\ l - Extra(i, p) = k /\ i \in Int /\ l \in Int
      BY <1>2, <1>4, <2>5
    <3> HIDE DEF l
    <3>3. blocks'[l] = blocks[k]
      BY <1>4, <3>2
    <3>4. OwnerMap'[a] = blocks[k].pid
      BY <1>5, <2>1, <2>2, <3>2, <3>3
    <3>5. a > blocks[i].base + n - 1
      BY <1>2, <1>3, <2>1, <2>2, <3>1
    <3> QED
      BY <1>2, <2>1, <2>3, <3>4, <3>5
  <2>6. CASE k = i /\ a <= blocks[i].base + n - 1
    <3>1. i \in 1 .. Len(blocks')
      BY <1>2, <1>4
    <3>2. /\ blocks'[i].base = blocks[i].base
          /\ blocks'[i].end = blocks[i].base + n - 1 /\ blocks'[i].pid = p
      BY <1>4, <3>1 DEF Given
    <3>3. OwnerMap'[a] = p
      BY <1>5, <2>1, <2>2, <2>6, <3>1, <3>2
    <3> QED
      BY <1>2, <2>1, <2>2, <2>6, <3>3
  <2>7. CASE k = i /\ a > blocks[i].base + n - 1
    <3>1. Extra(i, p) = 1
      BY <1>2, <2>1, <2>2, <2>7 DEF Extra, Size
    <3>2. i + 1 \in 1 .. Len(blocks') /\ ~(i + 1 < i) /\ i + 1 # i
      BY <1>2, <1>4, <3>1
    <3>3. /\ blocks'[i + 1].base = blocks[i].base + n
          /\ blocks'[i + 1].end = blocks[i].end /\ blocks'[i + 1].pid = NoPid
      BY <1>4, <3>1, <3>2 DEF FreeBlock
    <3>4. blocks[i].base + n <= a
      BY <1>2, <2>1, <2>7
    <3>5. OwnerMap'[a] = NoPid
      BY <1>5, <2>1, <2>2, <2>7, <3>2, <3>3, <3>4
    <3> QED
      BY <1>2, <1>3, <2>1, <2>3, <2>7, <3>5
  <2> QED
    BY <1>2, <2>1, <2>4, <2>5, <2>6, <2>7
<1>7. OwnerMap' = Space!Taken(OwnerMap, p, blocks[i].base, n)
  <2> HIDE DEF n
  <2>1. OwnerMap' = [a \in 0 .. Total - 1 |->
                       IF a \in blocks[i].base .. blocks[i].base + n - 1
                       THEN p ELSE OwnerMap[a]]
    BY <1>5, <1>6
  <2> QED
    BY <2>1 DEF Space!Taken, Space!Addresses, Space!Run
<1>8. ~Space!Resident(OwnerMap, p)
  BY <1>2, InMemoryInMap DEF ResidentInMemory, Space!Resident, Space!Addresses
<1>9. /\ blocks[i].base \in Space!Holes(OwnerMap, n)
      /\ \A h \in Space!Holes(OwnerMap, n) : blocks[i].base <= h
  BY <1>1, <1>2, FirstFitIsLowest
<1> QED
  BY <1>2, <1>7, <1>8, <1>9 DEF Space!Grant

LEMMA RefusalIsRefuse ==
  ASSUME Positive, IInv, NEW p \in Procs, RefuseAllocation(p)
  PROVE  Space!Refuse(p)
<1>1. /\ curr = 0 /\ ~in_memory[p] /\ result' = "refused"
      /\ blocks' = blocks
      /\ \A i \in DOMAIN blocks : ~Fits(i, MemoryAllocation[p])
  BY DEF RefuseAllocation
<1>2. /\ MemoryAllocation[p] \in Nat \ {0}
      /\ DOMAIN blocks = 1 .. Len(blocks) /\ Total \in Nat
      /\ \A k \in 1 .. Len(blocks) :
           blocks[k].base \in 0 .. Total - 1 /\ blocks[k].end \in -1 .. Total - 1
  BY Nodes, Constants DEF IInv, Positive
<1>3. OwnerMap' = OwnerMap
  BY <1>1 DEF OwnerMap
<1>4. ~Space!Resident(OwnerMap, p)
  BY <1>1, InMemoryInMap DEF ResidentInMemory, Space!Resident, Space!Addresses
<1>5. ASSUME NEW h \in Space!Holes(OwnerMap, MemoryAllocation[p]) PROVE FALSE
  <2>1. PICK j \in 1 .. Len(blocks) :
          /\ ~blocks[j].occupied /\ blocks[j].base <= h
          /\ h + MemoryAllocation[p] - 1 <= blocks[j].end
    BY <1>1, <1>2, HoleInNode
  <2>2. h \in Int
    BY <1>2 DEF Space!Holes, Space!Addresses
  <2>3. Fits(j, MemoryAllocation[p])
    BY <1>2, <2>1, <2>2 DEF Fits, Size
  <2> QED
    BY <1>1, <1>2, <2>3
<1> QED
  BY <1>1, <1>3, <1>4, <1>5 DEF Space!Refuse

LEMMA FreeIsGiveBack ==
  ASSUME Positive, IInv, NEW p \in Procs, free_process_memory(p)
  PROVE  Space!GiveBack(p)
<1>1. /\ TypeOK /\ Ownership /\ MapRight /\ in_memory[p] /\ result' = "none"
      /\ Len(blocks) \in Nat /\ DOMAIN blocks = 1 .. Len(blocks)
      /\ Total \in Nat /\ p # NoPid
      /\ blocks' = [i \in 1 .. Len(blocks) |->
                      IF FirstOwned(i, p)
                      THEN FreeBlock(blocks[i].base, blocks[i].end)
                      ELSE blocks[i]]
  BY MapIsRight, Nodes, Constants DEF IInv, free_process_memory
<1>2. PICK m \in 1 .. Len(blocks) :
        /\ blocks[m] = [base |-> mem_base[p], end |-> mem_limit[p],
                        occupied |-> TRUE, pid |-> p]
        /\ blocks[m].occupied /\ blocks[m].pid = p
        /\ blocks[m].end - blocks[m].base + 1 = MemoryAllocation[p]
        /\ \A j \in 1 .. Len(blocks) : blocks[j].pid = p => j = m
  BY <1>1, OwnedBlock
<1>3. /\ OwnerMap' = [a \in 0 .. Total - 1 |-> OwnerMap'[a]]
      /\ \A k \in 1 .. Len(blocks') : \A a \in Int :
           blocks'[k].base <= a /\ a <= blocks'[k].end
             => OwnerMap'[a] = blocks'[k].pid
      /\ TypeOK'
  <2>1. [Next]_vars
    BY DEF Next
  <2> QED
    BY <2>1, MapThen DEF IInv
<1>4. Len(blocks') = Len(blocks)
  <2>1. DOMAIN blocks' = 1 .. Len(blocks)
    BY <1>1
  <2>2. blocks' \in Seq(Block)
    BY <1>3 DEF TypeOK
  <2> QED
    BY <1>1, <2>1, <2>2, LenProperties
<1>5. ASSUME NEW a \in 0 .. Total - 1
      PROVE  OwnerMap'[a] = IF OwnerMap[a] = p THEN NoPid ELSE OwnerMap[a]
  <2>1. a \in Int
    BY <1>1
  <2>2. PICK k \in 1 .. Len(blocks) : blocks[k].base <= a /\ a <= blocks[k].end
    BY <1>1 DEF MapRight, AllCovered, Covers
  <2>3. OwnerMap[a] = blocks[k].pid
    BY <1>1, <2>1, <2>2 DEF MapRight, MapShowsNodes, Covers
  <2>4. /\ blocks'[k].base = blocks[k].base /\ blocks'[k].end = blocks[k].end
        /\ blocks'[k].pid = IF FirstOwned(k, p) THEN NoPid ELSE blocks[k].pid
    BY <1>1 DEF FreeBlock
  <2>5. OwnerMap'[a] = blocks'[k].pid
    BY <1>3, <1>4, <2>1, <2>2, <2>4
  <2>6. FirstOwned(k, p) <=> blocks[k].pid = p
    <3>1. CASE blocks[k].pid = p
      <4>1. k = m
        BY <1>2, <3>1
      <4>2. \A j \in 1 .. k - 1 : j \in 1 .. Len(blocks) /\ j # k
        BY <1>1
      <4>3. blocks[k].occupied
        BY <1>2, <4>1
      <4>4. \A j \in 1 .. k - 1 : blocks[j].pid # p
        BY <1>2, <4>1, <4>2
      <4> QED
        BY <3>1, <4>3, <4>4 DEF FirstOwned
    <3>2. CASE blocks[k].pid # p
      BY <3>2 DEF FirstOwned
    <3> QED
      BY <3>1, <3>2
  <2> QED
    BY <2>3, <2>4, <2>5, <2>6
<1>6. OwnerMap' = Space!GivenBack(OwnerMap, p)
  <2>1. OwnerMap' = [a \in 0 .. Total - 1 |->
                       IF OwnerMap[a] = p THEN NoPid ELSE OwnerMap[a]]
    BY <1>3, <1>5
  <2> QED
    BY <2>1 DEF Space!GivenBack, Space!Addresses
<1>7. Space!Resident(OwnerMap, p)
  BY <1>1, InMemoryInMap DEF ResidentInMemory, Space!Resident, Space!Addresses
<1> QED
  BY <1>1, <1>6, <1>7 DEF Space!GiveBack

(* Swallowing a free node moves no address to another owner. *)
LEMMA MergeKeepsMap ==
  ASSUME IInv, MergeNext
  PROVE  OwnerMap' = OwnerMap
<1>1. /\ TypeOK /\ Ownership /\ Tiling /\ Ordered /\ MapRight
      /\ Len(blocks) \in Nat /\ DOMAIN blocks = 1 .. Len(blocks)
      /\ Total \in Nat
      /\ \A k \in 1 .. Len(blocks) :
           blocks[k].base \in 0 .. Total - 1 /\ blocks[k].end \in -1 .. Total - 1
      /\ curr \in 1 .. Len(blocks) - 1
      /\ ~blocks[curr].occupied /\ ~blocks[curr + 1].occupied
  BY MapIsRight, Nodes, Constants
     DEF IInv, MergeNext, MergeLoopGoesOn, BothFree, CursorInList
<1> DEFINE grown == [blocks[curr] EXCEPT !.end = blocks[curr + 1].end]
<1>2. /\ Len(blocks') = Len(blocks) - 1
      /\ \A j \in 1 .. Len(blocks) - 1 :
           blocks'[j] = IF j < curr THEN blocks[j]
                        ELSE IF j = curr THEN grown ELSE blocks[j + 1]
  BY <1>1, AfterMerge
<1>3. /\ OwnerMap' = [a \in 0 .. Total - 1 |-> OwnerMap'[a]]
      /\ \A k \in 1 .. Len(blocks') : \A a \in Int :
           blocks'[k].base <= a /\ a <= blocks'[k].end
             => OwnerMap'[a] = blocks'[k].pid
  <2>1. [Next]_vars
    BY DEF Next, merge_adjacent_free_blocks
  <2> QED
    BY <2>1, MapThen
<1>4. /\ curr \in 1 .. Len(blocks) /\ curr + 1 \in 1 .. Len(blocks)
      /\ blocks[curr].pid = NoPid /\ blocks[curr + 1].pid = NoPid
      /\ blocks[curr + 1].base = blocks[curr].end + 1
      /\ blocks[curr].base <= blocks[curr].end + 1
      /\ blocks[curr + 1].base <= blocks[curr + 1].end + 1
      /\ blocks[curr] \in Block
  <2>1. curr \in 1 .. Len(blocks) /\ curr + 1 \in 1 .. Len(blocks)
    BY <1>1
  <2>2. blocks[curr].pid = NoPid /\ blocks[curr + 1].pid = NoPid
    BY <1>1, <2>1 DEF Ownership
  <2>3. blocks[curr + 1].base = blocks[curr].end + 1
    BY <1>1 DEF Tiling
  <2>4. /\ blocks[curr].base <= blocks[curr].end + 1
        /\ blocks[curr + 1].base <= blocks[curr + 1].end + 1
    BY <1>1, <2>1 DEF Ordered
  <2>5. blocks[curr] \in Block
    BY <1>1, <2>1, Nodes
  <2> QED
    BY <2>1, <2>2, <2>3, <2>4, <2>5
<1>5. /\ grown.base = blocks[curr].base /\ grown.pid = NoPid
      /\ grown.end = blocks[curr + 1].end
  BY <1>4 DEF Block
<1> HIDE DEF grown
<1>6. ASSUME NEW a \in 0 .. Total - 1 PROVE OwnerMap'[a] = OwnerMap[a]
  <2>1. a \in Int
    BY <1>1
  <2>2. PICK k \in 1 .. Len(blocks) : blocks[k].base <= a /\ a <= blocks[k].end
    BY <1>1 DEF MapRight, AllCovered, Covers
  <2>3. OwnerMap[a] = blocks[k].pid
    BY <1>1, <2>1, <2>2 DEF MapRight, MapShowsNodes, Covers
  <2>4. CASE k < curr
    <3>1. k \in 1 .. Len(blocks) - 1 /\ k \in 1 .. Len(blocks')
      BY <1>1, <1>2, <2>4
    <3>2. blocks'[k] = blocks[k]
      BY <1>2, <2>4, <3>1
    <3> QED
      BY <1>3, <2>1, <2>2, <2>3, <3>1, <3>2
  <2>5. CASE k = curr \/ k = curr + 1
    <3>1. curr \in 1 .. Len(blocks') /\ ~(curr < curr)
      BY <1>1, <1>2
    <3>2. blocks'[curr] = grown
      BY <1>1, <1>2, <3>1
    <3>3. blocks[curr].base <= a /\ a <= blocks[curr + 1].end
      BY <1>1, <1>4, <2>1, <2>2, <2>5
    <3>4. OwnerMap'[a] = NoPid
      BY <1>3, <1>5, <2>1, <3>1, <3>2, <3>3
    <3> QED
      BY <1>4, <2>3, <2>5, <3>4
  <2>6. CASE k > curr + 1
    <3> DEFINE l == k - 1
    <3>1. /\ l \in 1 .. Len(blocks) - 1 /\ l \in 1 .. Len(blocks')
          /\ ~(l < curr) /\ l # curr /\ l + 1 = k
      BY <1>1, <1>2, <2>6
    <3> HIDE DEF l
    <3>2. blocks'[l] = blocks[k]
      BY <1>2, <3>1
    <3> QED
      BY <1>3, <2>1, <2>2, <2>3, <3>1, <3>2
  <2> QED
    BY <1>1, <2>4, <2>5, <2>6
<1> QED
  BY <1>1, <1>3, <1>6 DEF MapRight, MapIsFunction

(* At the start one free node covers the memory. *)
LEMMA InitIsSpaceInit == Init => Space!Init
<1> SUFFICES ASSUME Init PROVE Space!Init
  OBVIOUS
<1>1. IInv /\ result = "none"
  BY InitIInv DEF Init
<1>2. /\ Len(blocks) = 1 /\ blocks[1] = FreeBlock(0, Total - 1) /\ DOMAIN blocks = {1}
  BY DEF Init
<1>3. OwnerMap = [a \in 0 .. Total - 1 |-> NoPid]
  <2>1. ~blocks[1].occupied
    BY <1>2 DEF FreeBlock
  <2> QED
    BY <1>2, <2>1 DEF OwnerMap
<1> QED
  BY <1>1, <1>3 DEF Space!Init, Space!NothingOwned, Space!Addresses

LEMMA NextIsSpaceNext ==
  ASSUME Positive
  PROVE  IInv /\ [Next]_vars => [Space!Next]_(Space!spaceVars)
<1> SUFFICES ASSUME IInv, [Next]_vars PROVE [Space!Next]_(Space!spaceVars)
  OBVIOUS
<1>1. ASSUME NEW p \in Procs, try_allocate_memory(p) PROVE Space!Next
  BY <1>1, AllocateIsGrant DEF Space!Next
<1>2. ASSUME NEW p \in Procs, RefuseAllocation(p) PROVE Space!Next
  BY <1>2, RefusalIsRefuse DEF Space!Next
<1>3. ASSUME NEW p \in Procs, free_process_memory(p) PROVE Space!Next
  BY <1>3, FreeIsGiveBack DEF Space!Next
<1>4. ASSUME MergeNext PROVE UNCHANGED Space!spaceVars
  BY <1>4, MergeKeepsMap DEF MergeNext, Space!spaceVars
<1>5. ASSUME Advance \/ EndMerge PROVE UNCHANGED Space!spaceVars
  <2>1. OwnerMap' = OwnerMap /\ result' = result
    BY <1>5 DEF Advance, EndMerge, OwnerMap
  <2> QED
    BY <2>1 DEF Space!spaceVars
<1>6. ASSUME UNCHANGED vars PROVE UNCHANGED Space!spaceVars
  <2>1. OwnerMap' = OwnerMap /\ result' = result
    BY <1>6 DEF vars, OwnerMap
  <2> QED
    BY <2>1 DEF Space!spaceVars
<1> QED
  BY <1>1, <1>2, <1>3, <1>4, <1>5, <1>6 DEF Next, merge_adjacent_free_blocks

(* The list is an implementation of the address space: a granted request   *)
(* has the lowest hole that is long enough, a refused one had no hole,     *)
(* a release gives back what was had, and merging changes no owner.        *)
THEOREM ImplementsAddressSpace ==
  ASSUME Positive
  PROVE  Spec => RefinesAddressSpace
<1>1. IInv /\ [Next]_vars => IInv' /\ [Space!Next]_(Space!spaceVars)
  BY NextIInv, NextIsSpaceNext
<1> QED
  BY <1>1, InitIInv, InitIsSpaceInit, PTL DEF Spec, RefinesAddressSpace, Space!Spec
-----------------------------------------------------------------------------
(* The counters are recomputed from the list; what they mean is said of    *)
(* the processes.  Up to a node, the free bytes and the allocations of the *)
(* owners add up to the address the next node starts at.                   *)

FreeUpTo(k) == {j \in 1 .. k : ~blocks[j].occupied}

OccupiedUpTo(k) == {j \in 1 .. k : blocks[j].occupied}

OwnersUpTo(k) == {blocks[j].pid : j \in OccupiedUpTo(k)}

Present == {p \in Procs : in_memory[p]}

Sizes == [i \in FreeUpTo(Len(blocks)) |-> Size(blocks[i])]

Allocations == [p \in Present |-> MemoryAllocation[p]]

Reached(k) == IF k = 0 THEN 0 ELSE blocks[k].end + 1

AddsUp(k) ==
  /\ Numbered(Sizes, FreeUpTo(k))
  /\ Numbered(Allocations, OwnersUpTo(k))
  /\ SumFunctionOnSet(Sizes, FreeUpTo(k))
       + SumFunctionOnSet(Allocations, OwnersUpTo(k)) = Reached(k)
  /\ IsFiniteSet(OccupiedUpTo(k))
  /\ Cardinality(OccupiedUpTo(k)) = Cardinality(OwnersUpTo(k))

LEMMA NothingAddsUp == AddsUp(0)
<1>1. FreeUpTo(0) = {} /\ OccupiedUpTo(0) = {} /\ OwnersUpTo(0) = {}
  BY DEF FreeUpTo, OccupiedUpTo, OwnersUpTo
<1>2. IsFiniteSet({})
  BY FS_EmptySet
<1>3. Numbered(Sizes, {}) /\ Numbered(Allocations, {})
  BY <1>2 DEF Numbered
<1>4. SumFunctionOnSet(Sizes, {}) = 0 /\ SumFunctionOnSet(Allocations, {}) = 0
  <2> HIDE DEF Sizes, Allocations
  <2> QED
    BY <1>3, SumChosen
<1> QED
  BY <1>1, <1>2, <1>3, <1>4 DEF AddsUp, Reached

(* Each node adds its size on one of the two sides. *)
LEMMA NextAddsUp ==
  ASSUME IInv, NEW k \in Nat, k + 1 \in 1 .. Len(blocks), AddsUp(k)
  PROVE  AddsUp(k + 1)
<1> DEFINE b == blocks[k + 1]
           F == FreeUpTo(k)
           O == OccupiedUpTo(k)
           P == OwnersUpTo(k)
           f == SumFunctionOnSet(Sizes, F)
           a == SumFunctionOnSet(Allocations, P)
           n == b.end - b.base + 1
<1>1. /\ TypeOK /\ Tiling /\ Ordered /\ Ownership
      /\ Len(blocks) \in Nat /\ DOMAIN blocks = 1 .. Len(blocks)
      /\ b.base \in Nat /\ b.end \in Int /\ b.base <= b.end + 1
      /\ b.occupied \in BOOLEAN /\ b.pid \in Procs \cup {NoPid}
  <2>1. /\ TypeOK /\ Tiling /\ Ordered /\ Ownership
        /\ Len(blocks) \in Nat /\ DOMAIN blocks = 1 .. Len(blocks)
    BY Nodes DEF IInv
  <2>2. /\ b.base \in 0 .. Total - 1 /\ b.end \in -1 .. Total - 1
        /\ b.occupied \in BOOLEAN /\ b.pid \in Procs \cup {NoPid}
    BY <2>1, Nodes
  <2>3. b.base <= b.end + 1
    BY <2>1 DEF Ordered
  <2>4. Total \in Nat
    BY Constants
  <2> QED
    BY <2>1, <2>2, <2>3, <2>4
<1>2. b.base = Reached(k)
  <2>1. CASE k = 0
    BY <1>1, <2>1 DEF Tiling, Reached
  <2>2. CASE k # 0
    <3>1. k \in 1 .. Len(blocks) - 1
      BY <1>1, <2>2
    <3>2. blocks[k + 1].base = blocks[k].end + 1
      BY <1>1, <3>1 DEF Tiling
    <3> QED
      BY <2>2, <3>2 DEF Reached
  <2> QED
    BY <2>1, <2>2
<1>3. /\ Numbered(Sizes, F) /\ Numbered(Allocations, P) /\ f + a = Reached(k)
      /\ IsFiniteSet(O) /\ Cardinality(O) = Cardinality(P)
  BY DEF AddsUp
<1>4. f \in Nat /\ a \in Nat /\ n \in Nat /\ n = Size(b)
  <2>1. f \in Nat /\ a \in Nat
    BY <1>3, SumChosen
  <2>2. n \in Nat /\ n = Size(b)
    BY <1>1 DEF Size
  <2> QED
    BY <2>1, <2>2
<1>5. Reached(k + 1) = b.end + 1
  BY DEF Reached
<1>6. Reached(k) + n = Reached(k + 1)
  <2> HIDE DEF b
  <2> QED
    BY <1>1, <1>2, <1>5
<1>7. k + 1 \notin F /\ k + 1 \notin O
  BY DEF FreeUpTo, OccupiedUpTo
<1>8. CASE ~b.occupied
  <2>1. FreeUpTo(k + 1) = F \cup {k + 1} /\ OccupiedUpTo(k + 1) = O
    BY <1>8 DEF FreeUpTo, OccupiedUpTo
  <2>2. OwnersUpTo(k + 1) = P
    BY <2>1 DEF OwnersUpTo
  <2>3. Sizes[k + 1] = n
    <3>1. k + 1 \in FreeUpTo(Len(blocks))
      BY <1>8 DEF FreeUpTo
    <3> QED
      BY <1>4, <3>1 DEF Sizes
  <2> HIDE DEF n, F, P, O, b
  <2>4. /\ SumFunctionOnSet(Sizes, F \cup {k + 1}) = f + n
        /\ Numbered(Sizes, F \cup {k + 1})
    BY <1>3, <1>4, <1>7, <2>3, SumMore
  <2>5. (f + n) + a = Reached(k + 1)
    <3> HIDE DEF f, a
    <3>1. f + a = Reached(k)
      BY <1>3
    <3>2. Reached(k) = f + a /\ (f + a) + n = Reached(k + 1)
      BY <1>6, <3>1
    <3> QED
      BY <1>4, <3>2
  <2>6. /\ SumFunctionOnSet(Sizes, FreeUpTo(k + 1))
             + SumFunctionOnSet(Allocations, OwnersUpTo(k + 1)) = Reached(k + 1)
        /\ Numbered(Sizes, FreeUpTo(k + 1)) /\ Numbered(Allocations, OwnersUpTo(k + 1))
    BY <1>3, <2>1, <2>2, <2>4, <2>5
  <2> QED
    BY <1>3, <2>1, <2>2, <2>6 DEF AddsUp
<1>9. CASE b.occupied
  <2> DEFINE q == b.pid
  <2>1. /\ FreeUpTo(k + 1) = F /\ OccupiedUpTo(k + 1) = O \cup {k + 1}
    BY <1>9 DEF FreeUpTo, OccupiedUpTo
  <2>2. OwnersUpTo(k + 1) = P \cup {q}
    BY <2>1 DEF OwnersUpTo
  <2>3. q \in Procs /\ in_memory[q]
    BY <1>1, <1>9 DEF Ownership
  <2>4. q \notin P /\ Allocations[q] = n
    <3>1. PICK m \in 1 .. Len(blocks) :
            /\ blocks[m].end - blocks[m].base + 1 = MemoryAllocation[q]
            /\ \A j \in 1 .. Len(blocks) : blocks[j].pid = q => j = m
      BY <1>1, <2>3, OwnedBlock
    <3>2. m = k + 1
      BY <3>1
    <3>3. q \notin P
      <4> SUFFICES ASSUME NEW j \in 1 .. k, blocks[j].pid = q PROVE FALSE
        BY DEF OwnersUpTo, OccupiedUpTo
      <4>1. j \in 1 .. Len(blocks) /\ j # k + 1
        BY <1>1
      <4> QED
        BY <3>1, <3>2, <4>1
    <3>4. Allocations[q] = MemoryAllocation[q]
      BY <2>3 DEF Allocations, Present
    <3> QED
      BY <3>1, <3>2, <3>3, <3>4
  <2> HIDE DEF n, F, P, O, b, q
  <2>5. /\ SumFunctionOnSet(Allocations, P \cup {q}) = a + n
        /\ Numbered(Allocations, P \cup {q})
    <3>1. Numbered(Allocations, P) /\ q \notin P /\ Allocations[q] \in Nat
      BY <1>3, <1>4, <2>4
    <3>2. /\ SumFunctionOnSet(Allocations, P \cup {q})
               = SumFunctionOnSet(Allocations, P) + Allocations[q]
          /\ Numbered(Allocations, P \cup {q})
      BY <3>1, SumMore
    <3> QED
      BY <2>4, <3>2
  <2>6. f + (a + n) = Reached(k + 1)
    <3> HIDE DEF f, a
    <3>1. f + a = Reached(k)
      BY <1>3
    <3>2. Reached(k) = f + a /\ (f + a) + n = Reached(k + 1)
      BY <1>6, <3>1
    <3> QED
      BY <1>4, <3>2
  <2>7. /\ SumFunctionOnSet(Sizes, FreeUpTo(k + 1))
             + SumFunctionOnSet(Allocations, OwnersUpTo(k + 1)) = Reached(k + 1)
        /\ Numbered(Sizes, FreeUpTo(k + 1)) /\ Numbered(Allocations, OwnersUpTo(k + 1))
    BY <1>3, <2>1, <2>2, <2>5, <2>6
  <2>8. /\ IsFiniteSet(O \cup {k + 1})
        /\ Cardinality(O \cup {k + 1}) = Cardinality(P \cup {q})
    <3>1. IsFiniteSet(P)
      BY <1>3 DEF Numbered
    <3>2. /\ IsFiniteSet(O \cup {k + 1})
          /\ Cardinality(O \cup {k + 1}) = Cardinality(O) + 1
      BY <1>3, <1>7, FS_AddElement
    <3>3. Cardinality(P \cup {q}) = Cardinality(P) + 1
      BY <2>4, <3>1, FS_AddElement
    <3> QED
      BY <1>3, <3>2, <3>3
  <2> QED
    BY <2>1, <2>2, <2>7, <2>8 DEF AddsUp
<1> QED
  BY <1>1, <1>8, <1>9

LEMMA AllAddsUp ==
  ASSUME IInv
  PROVE  AddsUp(Len(blocks))
<1> DEFINE T == {k \in Nat : k <= Len(blocks) /\ ~AddsUp(k)}
<1>1. Len(blocks) \in Nat
  BY Nodes DEF IInv
<1> SUFFICES ASSUME ~AddsUp(Len(blocks)) PROVE FALSE
  OBVIOUS
<1>2. Len(blocks) \in T
  BY <1>1
<1>3. PICK k \in T : \A l \in T : k <= l
  <2>1. T \in SUBSET Nat /\ T # {}
    BY <1>2
  <2> HIDE DEF T
  <2> QED
    BY <2>1, Least
<1>4. k \in Nat /\ k <= Len(blocks) /\ ~AddsUp(k)
  BY <1>3
<1>5. k # 0
  BY <1>4, NothingAddsUp
<1> DEFINE l == k - 1
<1>6. l \in Nat /\ l <= Len(blocks) /\ l + 1 = k /\ ~(k <= l)
  BY <1>1, <1>4, <1>5
<1>7. AddsUp(l)
  <2>1. l \notin T
    <3> HIDE DEF T, l
    <3> QED
      BY <1>3, <1>6
  <2> QED
    BY <1>6, <2>1
<1> HIDE DEF l
<1>8. k \in 1 .. Len(blocks)
  BY <1>1, <1>4, <1>5
<1> QED
  BY <1>4, <1>6, <1>7, <1>8, NextAddsUp

(* What a walk over the list finds. *)
WalkIsRight ==
  /\ FreeBytes(blocks) = Total - SumFunction([p \in Present |-> MemoryAllocation[p]])
  /\ OccupiedCount(blocks) = Cardinality(Present)

LEMMA WalkFindsMemory == IInv => WalkIsRight
<1> SUFFICES ASSUME IInv PROVE WalkIsRight
  OBVIOUS
<1> DEFINE L == Len(blocks)
           f == SumFunctionOnSet(Sizes, FreeUpTo(L))
           a == SumFunctionOnSet(Allocations, OwnersUpTo(L))
<1>1. /\ TypeOK /\ Tiling /\ Ownership /\ L \in Nat /\ DOMAIN blocks = 1 .. L
      /\ Total \in Nat
  BY Nodes, Constants DEF IInv
<1>2. /\ Numbered(Sizes, FreeUpTo(L)) /\ Numbered(Allocations, OwnersUpTo(L))
      /\ f + a = Reached(L)
      /\ Cardinality(OccupiedUpTo(L)) = Cardinality(OwnersUpTo(L))
  BY AllAddsUp DEF AddsUp
<1>3. Reached(L) = Total
  <2>1. L # 0 /\ blocks[L].end = Total - 1
    BY <1>1 DEF Tiling
  <2> QED
    BY <1>1, <2>1 DEF Reached
<1>4. OwnersUpTo(L) = Present
  <2>1. ASSUME NEW p \in Present PROVE p \in OwnersUpTo(L)
    <3>1. p \in Procs /\ in_memory[p]
      BY DEF Present
    <3>2. \E m \in 1 .. L : blocks[m].occupied /\ blocks[m].pid = p
      BY <1>1, <3>1, OwnedBlock
    <3> QED
      BY <3>2 DEF OwnersUpTo, OccupiedUpTo
  <2>2. ASSUME NEW j \in OccupiedUpTo(L) PROVE blocks[j].pid \in Present
    <3>1. j \in 1 .. L /\ blocks[j].occupied
      BY DEF OccupiedUpTo
    <3>2. blocks[j].pid \in Procs \cup {NoPid}
      BY <1>1, <3>1, Nodes
    <3>3. blocks[j].pid # NoPid /\ in_memory[blocks[j].pid]
      BY <1>1, <3>1 DEF Ownership
    <3> QED
      BY <3>2, <3>3 DEF Present
  <2> QED
    BY <2>1, <2>2 DEF OwnersUpTo
<1>5. FreeBytes(blocks) = f
  <2>1. {j \in DOMAIN blocks : ~blocks[j].occupied} = FreeUpTo(L)
    BY <1>1 DEF FreeUpTo
  <2>2. FreeBytes(blocks) = SumFunction(Sizes)
    BY <2>1 DEF FreeBytes, Sizes
  <2>3. DOMAIN Sizes = FreeUpTo(L)
    BY DEF Sizes
  <2> QED
    BY <2>2, <2>3 DEF SumFunction
<1>6. OccupiedCount(blocks) = Cardinality(OccupiedUpTo(L))
  BY <1>1 DEF OccupiedCount, OccupiedUpTo
<1>7. SumFunction([p \in Present |-> MemoryAllocation[p]]) = a
  <2>1. DOMAIN Allocations = Present
    BY DEF Allocations
  <2> QED
    BY <1>4, <2>1 DEF SumFunction, Allocations
<1>8. f \in Nat /\ a \in Nat
  BY <1>2, SumChosen
<1>9. f = Total - a
  <2> HIDE DEF f, a, L
  <2> QED
    BY <1>1, <1>2, <1>3, <1>8
<1> QED
  BY <1>2, <1>4, <1>5, <1>6, <1>7, <1>9 DEF WalkIsRight

LEMMA CountersAtFirst == Init => CountersExact
<1> SUFFICES ASSUME Init PROVE CountersExact
  OBVIOUS
<1>1. WalkIsRight
  BY InitIInv, WalkFindsMemory
<1>2. Present = {}
  BY DEF Init, Present
<1>3. IsFiniteSet({}) /\ Cardinality({}) = 0
  BY FS_EmptySet
<1>4. SumFunction([p \in {} |-> MemoryAllocation[p]]) = 0
  <2> DEFINE w == [p \in {} |-> MemoryAllocation[p]]
  <2>1. Numbered(w, {}) /\ DOMAIN w = {}
    BY <1>3 DEF Numbered
  <2> HIDE DEF w
  <2>2. SumFunctionOnSet(w, {}) = 0
    BY <2>1, SumChosen
  <2> QED
    BY <2>1, <2>2 DEF SumFunction, w
<1>5. free_memory = Total /\ num_processes_in_memory = 0 /\ Total \in Nat
  BY Constants DEF Init
<1>6. /\ free_memory = Total - SumFunction([p \in Present |-> MemoryAllocation[p]])
      /\ num_processes_in_memory = Cardinality(Present)
  <2> HIDE DEF Present
  <2>1. SumFunction([p \in Present |-> MemoryAllocation[p]]) = 0
    BY <1>2, <1>4
  <2> QED
    BY <1>2, <1>3, <1>5, <2>1
<1> QED
  BY <1>6 DEF CountersExact, Present

LEMMA CountersStep ==
  ASSUME IInv, CountersExact, [Next]_vars
  PROVE  CountersExact'
<1>1. WalkIsRight'
  <2>1. IInv'
    BY NextIInv
  <2> QED
    BY <2>1, WalkFindsMemory, PTL
<1>2. ASSUME update_free_memory(blocks') PROVE CountersExact'
  BY <1>1, <1>2 DEF update_free_memory, WalkIsRight, CountersExact, Present
<1>3. ASSUME NEW p \in Procs, try_allocate_memory(p) PROVE CountersExact'
  BY <1>2, <1>3 DEF try_allocate_memory
<1>4. ASSUME NEW p \in Procs, RefuseAllocation(p) PROVE CountersExact'
  BY <1>4 DEF RefuseAllocation, CountersExact, procVars, counters
<1>5. ASSUME NEW p \in Procs, free_process_memory(p) PROVE CountersExact'
  BY <1>5 DEF free_process_memory, CountersExact
<1>6. ASSUME MergeNext PROVE CountersExact'
  BY <1>6 DEF MergeNext, MergeLoopGoesOn, CountersExact
<1>7. ASSUME Advance PROVE CountersExact'
  <2>1. curr' # 0
    BY <1>7 DEF Advance, MergeLoopGoesOn, IInv, TypeOK
  <2> QED
    BY <2>1 DEF CountersExact
<1>8. ASSUME EndMerge PROVE CountersExact'
  <2>1. blocks' = blocks /\ update_free_memory(blocks)
    BY <1>8 DEF EndMerge
  <2> QED
    BY <1>2, <2>1
<1>9. ASSUME UNCHANGED vars PROVE CountersExact'
  BY <1>9 DEF vars, procVars, counters, CountersExact
<1> QED
  BY <1>3, <1>4, <1>5, <1>6, <1>7, <1>8, <1>9 DEF Next, merge_adjacent_free_blocks

(* Between two operations, free_memory is what the processes in memory     *)
(* leave over and num_processes_in_memory is how many they are, although   *)
(* the code gets both from a walk over the list and never adds up the      *)
(* processes.                                                              *)
THEOREM CountersAreExact == Spec => []CountersExact
<1>1. IInv /\ CountersExact /\ [Next]_vars => IInv' /\ CountersExact'
  BY NextIInv, CountersStep
<1> QED
  BY <1>1, InitIInv, CountersAtFirst, PTL DEF Spec
=============================================================================
