--------------------------- MODULE SessionsProofs ---------------------------
(***************************************************************************)
(* Proofs about Sessions, for any names, any number of cores, any memory   *)
(* and sizes, any number of sessions and processes, and an end of the      *)
(* program at any point.                                                   *)
(***************************************************************************)
EXTENDS Sessions, FiniteSums, SequenceTheorems

(* Every set of natural numbers that is not empty has a least one. *)
-----------------------------------------------------------------------------
(* The images that are complete in a sequence of cells.                    *)

IsImages(f, cells, n) ==
  f = [i \in 0 .. n |->
         IF i = 0 THEN <<>>
         ELSE IF EndsEntry(cells, i) THEN Append(f[i - 1], cells[i].of)
         ELSE f[i - 1]]

Images(cells, n) == (CHOOSE f : IsImages(f, cells, n))[n]

LEMMA CompleteIsImages ==
  ASSUME NEW cells PROVE Complete(cells) = Images(cells, Len(cells))
BY DEF Complete, Images, IsImages

LEMMA ImagesExist ==
  ASSUME NEW cells, NEW n \in Nat PROVE \E f : IsImages(f, cells, n)
<1> DEFINE T == {k \in Nat : ~\E f : IsImages(f, cells, k)}
<1> SUFFICES ASSUME T # {} PROVE FALSE
  OBVIOUS
<1>1. PICK k \in T : \A l \in T : k <= l
  <2>1. T \in SUBSET Nat
    OBVIOUS
  <2> HIDE DEF T
  <2> QED
    BY <2>1, Least
<1>2. CASE k = 0
  <2> DEFINE f == [i \in 0 .. 0 |-> <<>>]
  <2>1. IsImages(f, cells, 0)
    BY DEF IsImages
  <2> QED
    BY <1>1, <1>2, <2>1
<1>3. CASE k # 0
  <2>1. k - 1 \in Nat /\ k \in Nat /\ k - 1 < k
    BY <1>3
  <2>2. PICK g : IsImages(g, cells, k - 1)
    BY <1>1, <2>1
  <2> DEFINE new == IF EndsEntry(cells, k) THEN Append(g[k - 1], cells[k].of)
                    ELSE g[k - 1]
             f == [i \in 0 .. k |-> IF i = k THEN new ELSE g[i]]
  <2>3. /\ g[0] = <<>>
        /\ \A i \in 1 .. k - 1 :
             g[i] = IF EndsEntry(cells, i) THEN Append(g[i - 1], cells[i].of)
                    ELSE g[i - 1]
    <3>1. \A i \in 0 .. k - 1 :
            g[i] = IF i = 0 THEN <<>>
                   ELSE IF EndsEntry(cells, i) THEN Append(g[i - 1], cells[i].of)
                   ELSE g[i - 1]
      BY <2>2 DEF IsImages
    <3>2. 0 \in 0 .. k - 1 /\ \A i \in 1 .. k - 1 : i \in 0 .. k - 1 /\ i # 0
      BY <2>1
    <3> HIDE DEF f, new
    <3> QED
      BY <3>1, <3>2
  <2>4. \A i \in 0 .. k - 1 : f[i] = g[i]
    BY <2>1
  <2>5. f[k] = new
    BY <2>1
  <2>6. f[0] = <<>>
    BY <2>1, <2>3, <2>4
  <2>7. ASSUME NEW i \in 1 .. k
        PROVE  f[i] = IF EndsEntry(cells, i) THEN Append(f[i - 1], cells[i].of)
                      ELSE f[i - 1]
    <3>1. i - 1 \in 0 .. k - 1
      BY <2>1
    <3>2. f[i - 1] = g[i - 1]
      BY <3>1, <2>4
    <3>3. CASE i = k
      BY <3>2, <3>3, <2>5
    <3>4. CASE i # k
      <4>1. i \in 1 .. k - 1 /\ i \in 0 .. k - 1
        BY <2>1, <3>4
      <4> HIDE DEF f
      <4> QED
        BY <4>1, <3>2, <2>3, <2>4
    <3> QED
      BY <3>3, <3>4
  <2>8. f = [i \in 0 .. k |-> f[i]]
    OBVIOUS
  <2>9. \A i \in 0 .. k : i = 0 \/ i \in 1 .. k
    BY <2>1
  <2> HIDE DEF f
  <2>10. IsImages(f, cells, k)
    BY <2>6, <2>7, <2>8, <2>9 DEF IsImages
  <2> QED
    BY <1>1, <2>10
<1> QED
  BY <1>2, <1>3

(* They depend on nothing that comes later. *)
LEMMA ImagesUnique ==
  ASSUME NEW c, NEW d, NEW n \in Nat, NEW m \in Nat, NEW k \in Nat, k <= n, k <= m,
         NEW f, NEW g, IsImages(f, c, n), IsImages(g, d, m),
         \A i \in 1 .. k : c[i] = d[i] /\ (EndsEntry(c, i) <=> EndsEntry(d, i))
  PROVE  f[k] = g[k]
<1> DEFINE T == {j \in Nat : j <= k /\ f[j] # g[j]}
<1> SUFFICES ASSUME T # {} PROVE FALSE
  OBVIOUS
<1>1. PICK j \in T : \A l \in T : j <= l
  <2>1. T \in SUBSET Nat
    OBVIOUS
  <2> HIDE DEF T
  <2> QED
    BY <2>1, Least
<1>2. j \in Nat /\ j <= k /\ j \in 0 .. n /\ j \in 0 .. m
  OBVIOUS
<1>3. CASE j = 0
  BY <1>2, <1>3 DEF IsImages
<1>4. CASE j # 0
  <2>1. j - 1 \in Nat /\ j - 1 <= k /\ j - 1 < j
    BY <1>2, <1>4
  <2>2. f[j - 1] = g[j - 1]
    BY <1>1, <2>1
  <2>3. f[j] = IF EndsEntry(c, j) THEN Append(f[j - 1], c[j].of) ELSE f[j - 1]
    BY <1>2, <1>4 DEF IsImages
  <2>4. g[j] = IF EndsEntry(d, j) THEN Append(g[j - 1], d[j].of) ELSE g[j - 1]
    BY <1>2, <1>4 DEF IsImages
  <2>5. c[j] = d[j] /\ (EndsEntry(c, j) <=> EndsEntry(d, j))
    BY <1>2, <1>4
  <2>6. f[j] = g[j]
    BY <2>2, <2>3, <2>4, <2>5
  <2> QED
    BY <1>1, <2>6
<1> QED
  BY <1>3, <1>4

LEMMA CompleteEmpty == Complete(<<>>) = <<>>
<1>1. PICK f : IsImages(f, <<>>, 0)
  BY ImagesExist
<1> DEFINE g == CHOOSE g : IsImages(g, <<>>, 0)
<1>2. IsImages(g, <<>>, 0)
  BY <1>1
<1>3. Complete(<<>>) = g[0]
  BY CompleteIsImages, Len(<<>>) = 0 DEF Images
<1> HIDE DEF g
<1>4. g[0] = <<>>
  BY <1>2 DEF IsImages
<1> QED
  BY <1>3, <1>4

LEMMA SubSeqOfAppend ==
  ASSUME NEW S, NEW s \in Seq(S), NEW e \in S, NEW j \in 1 .. Len(s),
         NEW i \in 1 .. Len(s)
  PROVE  SubSeq(Append(s, e), j, i) = SubSeq(s, j, i)
<1>1. Append(s, e) = s \o <<e>> /\ <<e>> \in Seq(S)
  OBVIOUS
<1> QED
  BY <1>1, SubSeqOfConcat1

LEMMA CompleteAppend ==
  ASSUME NEW S, NEW c \in Seq(S), NEW x \in S
  PROVE  Complete(Append(c, x)) =
           IF EndsEntry(Append(c, x), Len(c) + 1) THEN Append(Complete(c), x.of)
           ELSE Complete(c)
<1> DEFINE n == Len(c)
           d == Append(c, x)
           f == CHOOSE f : IsImages(f, c, n)
           g == CHOOSE g : IsImages(g, d, n + 1)
<1>1. n \in Nat /\ n + 1 \in Nat /\ d \in Seq(S) /\ Len(d) = n + 1 /\ d[n + 1] = x
  OBVIOUS
<1>2. IsImages(f, c, n)
  BY <1>1, ImagesExist
<1>3. IsImages(g, d, n + 1)
  <2>1. \E h : IsImages(h, d, n + 1)
    BY <1>1, ImagesExist
  <2> QED
    BY <2>1
<1>4. Complete(c) = f[n] /\ Complete(d) = g[n + 1]
  BY <1>1, CompleteIsImages DEF Images
<1>5. \A i \in 1 .. n : c[i] = d[i] /\ (EndsEntry(c, i) <=> EndsEntry(d, i))
  <2> SUFFICES ASSUME NEW i \in 1 .. n
               PROVE  c[i] = d[i] /\ (EndsEntry(c, i) <=> EndsEntry(d, i))
    OBVIOUS
  <2>1. c[i] = d[i]
    OBVIOUS
  <2>2. \A j \in 1 .. i : SubSeq(d, j, i) = SubSeq(c, j, i)
    BY SubSeqOfAppend
  <2> HIDE DEF d, n
  <2> QED
    BY <2>1, <2>2 DEF EndsEntry
<1> HIDE DEF f, g, d, n
<1>6. f[n] = g[n]
  <2>1. n <= n /\ n <= n + 1
    BY <1>1
  <2> QED
    BY <1>1, <1>2, <1>3, <1>5, <2>1, ImagesUnique
<1>7. g[n + 1] = IF EndsEntry(d, n + 1) THEN Append(g[n], d[n + 1].of) ELSE g[n]
  <2>1. n + 1 \in 0 .. n + 1 /\ n + 1 # 0 /\ (n + 1) - 1 = n
    BY <1>1
  <2>2. \A i \in 0 .. n + 1 :
          g[i] = IF i = 0 THEN <<>>
                 ELSE IF EndsEntry(d, i) THEN Append(g[i - 1], d[i].of) ELSE g[i - 1]
    BY <1>3 DEF IsImages
  <2> QED
    BY <2>1, <2>2
<1>8. Complete(d) = IF EndsEntry(d, n + 1) THEN Append(Complete(c), x.of)
                    ELSE Complete(c)
  BY <1>1, <1>4, <1>6, <1>7
<1> QED
  BY <1>8 DEF d, n

Parts == {"struct", "instructions", "variables"}
CellsOf(I) == [of : I, part : Parts]

LEMMA EntryShape ==
  ASSUME NEW I, NEW x \in I
  PROVE  /\ Entry(x) \in Seq(CellsOf(I))
         /\ Written(x) = Entry(x)
         /\ Len(Entry(x)) = IF x.num_var > 0 THEN 3 ELSE 2
         /\ Entry(x)[1] = Cell(x, "struct")
         /\ Entry(x)[2] = Cell(x, "instructions")
         /\ x.num_var > 0 => Entry(x)[3] = Cell(x, "variables")
         /\ \A i \in 1 .. Len(Entry(x)) :
              Entry(x)[i].of = x /\ (Entry(x)[i].part = "struct" <=> i = 1)
<1>1. \A q \in Parts : Cell(x, q) \in CellsOf(I) /\ Cell(x, q).of = x /\ Cell(x, q).part = q
  BY DEF Cell, CellsOf
<1> DEFINE a == Cell(x, "struct")
           b == Cell(x, "instructions")
           c == Cell(x, "variables")
<1>2. a \in CellsOf(I) /\ b \in CellsOf(I) /\ c \in CellsOf(I)
  BY <1>1 DEF Parts
<1>3. /\ a.of = x /\ a.part = "struct" /\ b.of = x /\ b.part = "instructions"
      /\ c.of = x /\ c.part = "variables"
  BY <1>1 DEF Parts
<1>4. Entry(x) = <<a, b>> \o IF x.num_var > 0 THEN <<c>> ELSE <<>>
  BY DEF Entry
<1>5. Written(x) = Entry(x)
  BY DEF Written, Entry
<1> HIDE DEF a, b, c
<1>6. CASE x.num_var > 0
  <2>0. Entry(x) = <<a, b>> \o <<c>>
    BY <1>4, <1>6
  <2>1. Entry(x) = <<a, b, c>>
    <3>1. <<a, b>> \in Seq(CellsOf(I))
      BY <1>2
    <3>2. <<a, b>> \o <<c>> = Append(<<a, b>>, c)
      BY <1>2, <3>1, AppendIsConcat
    <3>3. Append(<<a, b>>, c) = <<a, b, c>>
      <4> DEFINE s == <<a, b>>
                 u == <<a, b, c>>
      <4>1. Len(s) = 2 /\ s[1] = a /\ s[2] = b /\ u \in Seq(CellsOf(I)) /\ Len(u) = 3
        BY <1>2
      <4>2. \A i \in 1 .. 3 : u[i] = IF i = 1 THEN a ELSE IF i = 2 THEN b ELSE c
        OBVIOUS
      <4> HIDE DEF s, u
      <4>3. /\ Append(s, c) \in Seq(CellsOf(I)) /\ Len(Append(s, c)) = 3
            /\ \A i \in 1 .. 2 : Append(s, c)[i] = s[i]
            /\ Append(s, c)[3] = c
        <5>1. s \in Seq(CellsOf(I))
          BY <3>1 DEF s
        <5>2. /\ Append(s, c) \in Seq(CellsOf(I)) /\ Len(Append(s, c)) = Len(s) + 1
              /\ \A i \in 1 .. Len(s) : Append(s, c)[i] = s[i]
              /\ Append(s, c)[Len(s) + 1] = c
          BY <1>2, <5>1, AppendProperties
        <5>3. Len(s) = 2 /\ Len(s) + 1 = 3
          BY <4>1
        <5> QED
          BY <5>2, <5>3
      <4>4. \A i \in 1 .. 3 : Append(s, c)[i] = u[i]
        BY <4>1, <4>2, <4>3
      <4>5. Append(s, c) = u
        BY <4>1, <4>3, <4>4, SeqEqual
      <4> QED
        BY <4>5 DEF s, u
    <3> QED
      BY <2>0, <3>2, <3>3
  <2> QED
    BY <2>1, <1>2, <1>3, <1>5, <1>6 DEF a, b, c
<1>7. CASE ~(x.num_var > 0)
  <2>0. Entry(x) = <<a, b>> \o <<>>
    BY <1>4, <1>7
  <2>1. Entry(x) = <<a, b>>
    BY <2>0
  <2> QED
    BY <2>1, <1>2, <1>3, <1>5, <1>7 DEF a, b, c
<1> QED
  BY <1>6, <1>7

(* What it says that the cells from j to i are an entry. *)
LEMMA EndingEntry ==
  ASSUME NEW I, NEW c \in Seq(CellsOf(I)), NEW i \in 1 .. Len(c), NEW j \in 1 .. i
  PROVE  /\ c[i].of \in I
         /\ (SubSeq(c, j, i) = Entry(c[i].of)) <=>
              /\ i - j + 1 = Len(Entry(c[i].of))
              /\ \A l \in 1 .. Len(Entry(c[i].of)) : c[j + l - 1] = Entry(c[i].of)[l]
<1>1. c[i] \in CellsOf(I)
  OBVIOUS
<1>2. c[i].of \in I
  BY <1>1 DEF CellsOf
<1> DEFINE e == Entry(c[i].of)
           s == SubSeq(c, j, i)
<1>3. e \in Seq(CellsOf(I)) /\ Len(e) \in Nat
  BY <1>2, EntryShape
<1>4. /\ i \in Int /\ j \in Int /\ i \in Nat /\ j \in Nat /\ j <= i
      /\ \A l \in j .. i : c[l] \in CellsOf(I)
  OBVIOUS
<1>5. /\ s \in Seq(CellsOf(I)) /\ Len(s) = i - j + 1
      /\ \A l \in 1 .. i - j + 1 : s[l] = c[j + l - 1]
  BY <1>4, SubSeqProperties
<1> HIDE DEF e, s
<1>6. s = e => /\ i - j + 1 = Len(e)
               /\ \A l \in 1 .. Len(e) : c[j + l - 1] = e[l]
  BY <1>5
<1>7. ASSUME i - j + 1 = Len(e), \A l \in 1 .. Len(e) : c[j + l - 1] = e[l]
      PROVE  s = e
  BY <1>3, <1>5, <1>7, SeqEqual
<1>8. c[i].of \in I /\ ((s = e) <=> /\ i - j + 1 = Len(e)
                                    /\ \A l \in 1 .. Len(e) : c[j + l - 1] = e[l])
  BY <1>2, <1>6, <1>7
<1> QED
  BY <1>8 DEF s, e

LEMMA CompleteType ==
  ASSUME NEW I, NEW c \in Seq(CellsOf(I))
  PROVE  Complete(c) \in Seq(I)
<1> DEFINE Pre(k) == SubSeq(c, 1, k)
           T == {k \in 0 .. Len(c) : Complete(Pre(k)) \notin Seq(I)}
<1>0. Pre(Len(c)) = c /\ Len(c) \in Nat
  BY SubSeqFull
<1> SUFFICES ASSUME T # {} PROVE FALSE
  <2>1. Len(c) \in 0 .. Len(c)
    BY <1>0
  <2>2. T = {} => Complete(Pre(Len(c))) \in Seq(I)
    BY <2>1
  <2> HIDE DEF Pre, T
  <2> QED
    BY <1>0, <2>2
<1>1. PICK k \in T : \A l \in T : k <= l
  <2>1. T \in SUBSET Nat
    BY <1>0
  <2> HIDE DEF T
  <2> QED
    BY <2>1, Least
<1>2. k \in 0 .. Len(c) /\ k \in Nat
  BY <1>0
<1>3. CASE k = 0
  <2>1. Pre(0) = <<>>
    OBVIOUS
  <2> QED
    BY <1>1, <1>3, <2>1, CompleteEmpty, EmptySeq
<1>4. CASE k # 0
  <2>1. k - 1 \in 0 .. Len(c) /\ k - 1 < k /\ k \in 1 .. Len(c)
    BY <1>2, <1>4, <1>0
  <2>2. Complete(Pre(k - 1)) \in Seq(I)
    BY <1>1, <2>1
  <2>3. /\ Pre(k - 1) \in Seq(CellsOf(I)) /\ c[k] \in CellsOf(I)
        /\ Pre(k) = Append(Pre(k - 1), c[k])
    BY <2>1, <1>0
  <2>4. c[k].of \in I
    BY <2>3 DEF CellsOf
  <2>5. Complete(Pre(k)) \in {Complete(Pre(k - 1)), Append(Complete(Pre(k - 1)), c[k].of)}
    <3> HIDE DEF Pre, T
    <3> QED
      BY <2>3, CompleteAppend
  <2>6. Complete(Pre(k)) \in Seq(I)
    BY <2>2, <2>4, <2>5
  <2> QED
    BY <1>1, <2>6
<1> QED
  BY <1>3, <1>4

(* Which entries end at the last of the cells that follow an entry. *)
LEMMA EndsBehindEntry ==
  ASSUME NEW I, NEW x \in I, NEW s \in Seq(CellsOf(I)), s # <<>>
  PROVE  EndsEntry(Entry(x) \o s, Len(Entry(x)) + Len(s)) <=> EndsEntry(s, Len(s))
<1> DEFINE e == Entry(x)
           c == e \o s
           m == Len(e)
           n == Len(s)
           y == s[n].of
<1>1. /\ e \in Seq(CellsOf(I)) /\ s \in Seq(CellsOf(I))
      /\ m \in Nat \ {0} /\ n \in Nat \ {0} /\ m + n \in Nat
      /\ e[1] = Cell(x, "struct")
      /\ \A i \in 1 .. m : e[i].of = x /\ (e[i].part = "struct" <=> i = 1)
  BY EntryShape, EmptySeq, LenProperties
<1>2. /\ c \in Seq(CellsOf(I)) /\ Len(c) = m + n
      /\ \A i \in 1 .. m + n : c[i] = IF i <= m THEN e[i] ELSE s[i - m]
  BY <1>1, ConcatProperties
<1> HIDE DEF e, c, m, n
<1>3. s[n] \in CellsOf(I) /\ y \in I
  <2>1. n \in 1 .. Len(s)
    BY <1>1 DEF n
  <2>2. s[n] \in CellsOf(I)
    BY <2>1
  <2> QED
    BY <2>2 DEF CellsOf
<1>4. c[m + n] = s[n] /\ c[m + n].of = y
  <2>1. m + n \in 1 .. m + n /\ ~(m + n <= m) /\ (m + n) - m = n
    BY <1>1
  <2> QED
    BY <1>2, <2>1
<1> HIDE DEF y
<1>5. /\ Entry(y) \in Seq(CellsOf(I)) /\ Len(Entry(y)) \in Nat \ {0}
      /\ Entry(y)[1] = Cell(y, "struct")
  BY <1>3, EntryShape
<1>6. ASSUME NEW j \in 1 .. n
      PROVE  SubSeq(c, m + j, m + n) = SubSeq(s, j, n)
  <2>1. /\ m + j \in m + 1 .. m + n /\ m + n \in m + 1 .. m + n
        /\ (m + j) - m = j /\ (m + n) - m = n
    BY <1>1
  <2>2. \A f \in Seq(CellsOf(I)) :
          \A g, h \in Len(f) + 1 .. Len(f) + Len(s) :
            SubSeq(f \o s, g, h) = SubSeq(s, g - Len(f), h - Len(f))
    BY SubSeqOfConcat2
  <2>3. SubSeq(e \o s, m + j, m + n) = SubSeq(s, (m + j) - m, (m + n) - m)
    BY <1>1, <2>1, <2>2 DEF m, n
  <2> QED
    BY <2>1, <2>3 DEF c
<1>7. ASSUME NEW j \in 1 .. m + n, SubSeq(c, j, m + n) = Entry(y), j <= m
      PROVE  FALSE
  <2>1. /\ (m + n) - j + 1 = Len(Entry(y))
        /\ \A l \in 1 .. Len(Entry(y)) : c[j + l - 1] = Entry(y)[l]
    <3>1. m + n \in 1 .. Len(c)
      BY <1>1, <1>2
    <3> QED
      BY <1>2, <1>4, <1>7, <3>1, EndingEntry
  <2>2. c[j] = Cell(y, "struct")
    <3>1. 1 \in 1 .. Len(Entry(y)) /\ j + 1 - 1 = j
      BY <1>5
    <3> QED
      BY <2>1, <3>1, <1>5
  <2>3. j \in 1 .. m /\ c[j] = e[j]
    BY <1>1, <1>2, <1>7
  <2>4. e[j].part = "struct" /\ e[j].of = y
    BY <2>2, <2>3 DEF Cell
  <2>5. j = 1 /\ x = y
    BY <1>1, <2>3, <2>4
  <2>6. m = Len(Entry(y))
    BY <2>5 DEF m, e
  <2> QED
    BY <1>1, <2>1, <2>5, <2>6
<1>8. EndsEntry(c, m + n) <=> EndsEntry(s, n)
  <2>1. ASSUME EndsEntry(c, m + n) PROVE EndsEntry(s, n)
    <3>1. PICK j \in 1 .. m + n : SubSeq(c, j, m + n) = Entry(y)
      BY <1>4, <2>1 DEF EndsEntry
    <3>2. ~(j <= m)
      BY <1>7, <3>1
    <3>3. j - m \in 1 .. n /\ m + (j - m) = j
      BY <1>1, <3>2
    <3>4. SubSeq(s, j - m, n) = Entry(y)
      BY <1>6, <3>1, <3>3
    <3> QED
      BY <3>3, <3>4 DEF EndsEntry, y
  <2>2. ASSUME EndsEntry(s, n) PROVE EndsEntry(c, m + n)
    <3>1. PICK j \in 1 .. n : SubSeq(s, j, n) = Entry(y)
      BY <2>2 DEF EndsEntry, y
    <3>2. m + j \in 1 .. m + n
      BY <1>1
    <3>3. SubSeq(c, m + j, m + n) = Entry(y)
      BY <1>6, <3>1
    <3> QED
      BY <1>4, <3>2, <3>3 DEF EndsEntry
  <2> QED
    BY <2>1, <2>2
<1> QED
  BY <1>8 DEF c, m, n, e

(* Within an entry no entry ends but at its last cell. *)
LEMMA EndsWithinEntry ==
  ASSUME NEW I, NEW x \in I, NEW pre \in Seq(CellsOf(I)),
         NEW k \in 0 .. Len(Entry(x)) - 1
  PROVE  LET c == pre \o SubSeq(Entry(x), 1, k)
             d == pre \o SubSeq(Entry(x), 1, k + 1)
         IN  /\ c \in Seq(CellsOf(I)) /\ d = Append(c, Entry(x)[k + 1])
             /\ Entry(x)[k + 1] \in CellsOf(I)
             /\ Complete(d) = IF k + 1 = Len(Entry(x)) THEN Append(Complete(c), x)
                              ELSE Complete(c)
<1> DEFINE e == Entry(x)
           a == SubSeq(e, 1, k)
           b == SubSeq(e, 1, k + 1)
           c == pre \o a
           d == pre \o b
           m == Len(e)
           n == Len(pre)
<1>1. /\ e \in Seq(CellsOf(I)) /\ m \in {2, 3} /\ n \in Nat
      /\ \A i \in 1 .. m : e[i].of = x /\ (e[i].part = "struct" <=> i = 1)
      /\ e[2] = Cell(x, "instructions")
      /\ m = 3 => e[3] = Cell(x, "variables")
  BY EntryShape
<1>2. k \in 0 .. m - 1 /\ k \in Nat /\ k + 1 \in 1 .. m
  BY <1>1
<1> HIDE DEF e, m
<1>3. /\ a \in Seq(CellsOf(I)) /\ b \in Seq(CellsOf(I)) /\ Len(a) = k /\ Len(b) = k + 1
      /\ b = Append(a, e[k + 1]) /\ e[k + 1] \in CellsOf(I)
      /\ \A i \in 1 .. k + 1 : b[i] = e[i]
  BY <1>1, <1>2 DEF m
<1> HIDE DEF a, b
<1>4. /\ c \in Seq(CellsOf(I)) /\ d \in Seq(CellsOf(I)) /\ Len(c) = n + k
      /\ Len(d) = n + k + 1
      /\ \A i \in 1 .. k + 1 : d[n + i] = e[i]
  <2>1. /\ c \in Seq(CellsOf(I)) /\ d \in Seq(CellsOf(I)) /\ Len(c) = n + k
        /\ Len(d) = n + k + 1
        /\ \A i \in 1 .. n + k + 1 : d[i] = IF i <= n THEN pre[i] ELSE b[i - n]
    <3>1. Len(pre) + Len(b) = n + k + 1
      BY <1>1, <1>2, <1>3
    <3>2. /\ d \in Seq(CellsOf(I)) /\ Len(d) = Len(pre) + Len(b)
          /\ \A i \in 1 .. Len(pre) + Len(b) :
               d[i] = IF i <= Len(pre) THEN pre[i] ELSE b[i - Len(pre)]
      BY <1>3, ConcatProperties
    <3>3. c \in Seq(CellsOf(I)) /\ Len(c) = n + k
      BY <1>3, ConcatProperties
    <3> QED
      BY <3>1, <3>2, <3>3
  <2>2. \A i \in 1 .. k + 1 : n + i \in 1 .. n + k + 1 /\ ~(n + i <= n) /\ (n + i) - n = i
    BY <1>1, <1>2
  <2> HIDE DEF c, d, n
  <2> QED
    BY <1>3, <2>1, <2>2
<1>5. d = Append(c, e[k + 1])
  <2>1. <<e[k + 1]>> \in Seq(CellsOf(I)) /\ b = a \o <<e[k + 1]>>
    BY <1>3, AppendIsConcat
  <2>2. pre \o (a \o <<e[k + 1]>>) = (pre \o a) \o <<e[k + 1]>>
    BY <1>3, <2>1, ConcatAssociative
  <2>3. Append(c, e[k + 1]) = c \o <<e[k + 1]>>
    BY <1>3, <1>4, AppendIsConcat
  <2> QED
    BY <2>1, <2>2, <2>3
<1>6. d[n + k + 1] = e[k + 1] /\ d[n + k + 1].of = x
  BY <1>1, <1>2, <1>4
<1> HIDE DEF c, d, n
<1>7. EndsEntry(d, n + k + 1) <=> k + 1 = m
  <2>1. n + k + 1 \in 1 .. Len(d) /\ n + k + 1 \in Nat
    BY <1>1, <1>2, <1>4
  <2>2. \A j \in 1 .. n + k + 1 :
          (SubSeq(d, j, n + k + 1) = e) <=>
            /\ (n + k + 1) - j + 1 = m
            /\ \A l \in 1 .. m : d[j + l - 1] = e[l]
    BY <1>4, <1>6, <2>1, EndingEntry DEF e, m
  <2>3. ASSUME NEW j \in 1 .. n + k + 1, SubSeq(d, j, n + k + 1) = e
        PROVE  k + 1 = m
    <3>1. (n + k + 1) - j + 1 = m /\ \A l \in 1 .. m : d[j + l - 1] = e[l]
      BY <2>2, <2>3
    <3>2. j + m - 1 = n + k + 1 /\ m \in 1 .. m
      BY <1>1, <1>2, <3>1
    <3>3. e[k + 1] = e[m]
      BY <1>6, <3>1, <3>2
    <3>4. CASE m = 2
      <4>1. k + 1 = 1 \/ k + 1 = 2
        BY <1>2, <3>4
      <4>2. e[1].part = "struct" /\ e[2].part # "struct"
        BY <1>1, <3>4
      <4> QED
        BY <3>3, <3>4, <4>1, <4>2
    <3>5. CASE m = 3
      <4>1. k + 1 = 1 \/ k + 1 = 2 \/ k + 1 = 3
        BY <1>2, <3>5
      <4>2. e[1].part = "struct" /\ e[3].part = "variables" /\ e[2].part = "instructions"
        BY <1>1, <3>5 DEF Cell
      <4> QED
        BY <3>3, <3>5, <4>1, <4>2
    <3> QED
      BY <1>1, <3>4, <3>5
  <2>4. ASSUME k + 1 = m PROVE EndsEntry(d, n + k + 1)
    <3>1. n + 1 \in 1 .. n + k + 1 /\ (n + k + 1) - (n + 1) + 1 = m
      BY <1>1, <1>2, <2>4
    <3>2. \A l \in 1 .. m : d[(n + 1) + l - 1] = e[l]
      <4>1. \A l \in 1 .. m : (n + 1) + l - 1 = n + l /\ l \in 1 .. k + 1
        BY <1>1, <1>2, <2>4
      <4> QED
        BY <1>4, <4>1
    <3>3. SubSeq(d, n + 1, n + k + 1) = e
      BY <2>2, <3>1, <3>2
    <3> QED
      BY <1>6, <3>1, <3>3 DEF EndsEntry, e
  <2> QED
    BY <1>6, <2>3, <2>4 DEF EndsEntry, e
<1>8. Complete(d) = IF k + 1 = m THEN Append(Complete(c), x) ELSE Complete(c)
  <2>1. Complete(d) = IF EndsEntry(d, n + k + 1) THEN Append(Complete(c), e[k + 1].of)
                      ELSE Complete(c)
    BY <1>3, <1>4, <1>5, CompleteAppend
  <2>2. e[k + 1].of = x
    BY <1>6
  <2> QED
    BY <2>1, <2>2, <1>7
<1> QED
  BY <1>3, <1>4, <1>5, <1>8 DEF c, d, a, b, e, m

LEMMA CompleteWithEntry ==
  ASSUME NEW I, NEW x \in I, NEW pre \in Seq(CellsOf(I))
  PROVE  Complete(pre \o Entry(x)) = Append(Complete(pre), x)
<1> DEFINE e == Entry(x)
           d(k) == pre \o SubSeq(e, 1, k)
<1>1. e \in Seq(CellsOf(I)) /\ Len(e) \in {2, 3}
  BY EntryShape
<1>2. \A k \in 0 .. Len(e) - 1 :
        Complete(d(k + 1)) = IF k + 1 = Len(e) THEN Append(Complete(d(k)), x)
                             ELSE Complete(d(k))
  BY EndsWithinEntry
<1>3. d(0) = pre
  <2>1. SubSeq(e, 1, 0) = <<>>
    BY SubSeqEmpty
  <2> QED
    BY <2>1, ConcatEmptySeq
<1>4. d(Len(e)) = pre \o e
  BY <1>1, SubSeqFull
<1> HIDE DEF d, e
<1>5. CASE Len(e) = 2
  <2>1. Complete(d(1)) = Complete(d(0)) /\ Complete(d(2)) = Append(Complete(d(1)), x)
    <3>1. 0 \in 0 .. Len(e) - 1 /\ 1 \in 0 .. Len(e) - 1 /\ 0 + 1 = 1 /\ 1 + 1 = 2
      BY <1>5
    <3> QED
      BY <1>2, <1>5, <3>1
  <2> QED
    BY <1>3, <1>4, <1>5, <2>1 DEF e
<1>6. CASE Len(e) = 3
  <2>1. /\ Complete(d(1)) = Complete(d(0)) /\ Complete(d(2)) = Complete(d(1))
        /\ Complete(d(3)) = Append(Complete(d(2)), x)
    <3>1. /\ 0 \in 0 .. Len(e) - 1 /\ 1 \in 0 .. Len(e) - 1 /\ 2 \in 0 .. Len(e) - 1
          /\ 0 + 1 = 1 /\ 1 + 1 = 2 /\ 2 + 1 = 3
      BY <1>6
    <3> QED
      BY <1>2, <1>6, <3>1
  <2> QED
    BY <1>3, <1>4, <1>6, <2>1 DEF e
<1> QED
  BY <1>1, <1>5, <1>6

(* A reader of the file gets the first of the stored images, and what is   *)
(* behind its entry holds the others.                                      *)
LEMMA CompleteFirst ==
  ASSUME NEW I, NEW x \in I, NEW r \in Seq(CellsOf(I))
  PROVE  Complete(Entry(x) \o r) = <<x>> \o Complete(r)
<1> DEFINE e == Entry(x)
           Pre(k) == SubSeq(r, 1, k)
           Holds(k) == Complete(e \o Pre(k)) = <<x>> \o Complete(Pre(k))
           T == {k \in 0 .. Len(r) : ~Holds(k)}
<1>0. /\ Pre(Len(r)) = r /\ Len(r) \in Nat /\ e \in Seq(CellsOf(I))
      /\ Len(r) \in 0 .. Len(r)
  BY SubSeqFull, EntryShape
<1> SUFFICES ASSUME T # {} PROVE FALSE
  <2>1. T = {} => Holds(Len(r))
    BY <1>0
  <2> HIDE DEF T, Pre, e
  <2>2. Holds(Len(r)) => Complete(e \o r) = <<x>> \o Complete(r)
    BY <1>0
  <2> QED
    BY <2>1, <2>2 DEF e
<1>1. PICK k \in T : \A l \in T : k <= l
  <2>1. T \in SUBSET Nat
    BY <1>0
  <2> HIDE DEF T
  <2> QED
    BY <2>1, Least
<1>2. k \in 0 .. Len(r) /\ k \in Nat /\ ~Holds(k)
  BY <1>0
<1>3. CASE k = 0
  <2>1. Pre(0) = <<>>
    BY SubSeqEmpty
  <2>2. e \o <<>> = e /\ e = <<>> \o e
    BY <1>0, ConcatEmptySeq
  <2>3. Complete(<<>> \o e) = Append(<<>>, x)
    <3>1. <<>> \in Seq(CellsOf(I))
      BY EmptySeq
    <3> QED
      BY <3>1, CompleteWithEntry, CompleteEmpty
  <2>4. Append(<<>>, x) = <<x>> /\ <<x>> \o <<>> = <<x>>
    OBVIOUS
  <2> HIDE DEF Pre, e, T
  <2>5. Complete(e \o Pre(0)) = <<x>> \o Complete(Pre(0))
    BY <2>1, <2>2, <2>3, <2>4, CompleteEmpty
  <2> QED
    BY <1>2, <1>3, <2>5
<1>4. CASE k # 0
  <2>1. k - 1 \in 0 .. Len(r) /\ k - 1 < k /\ k \in 1 .. Len(r)
    BY <1>2, <1>4, <1>0
  <2>2. Holds(k - 1)
    BY <1>1, <2>1
  <2>3. /\ Pre(k - 1) \in Seq(CellsOf(I)) /\ Pre(k) \in Seq(CellsOf(I))
        /\ r[k] \in CellsOf(I) /\ Len(Pre(k - 1)) = k - 1 /\ Len(Pre(k)) = k
        /\ Pre(k) = Append(Pre(k - 1), r[k])
    BY <2>1, <1>0
  <2> HIDE DEF Pre, T
  <2>4. e \o Pre(k) = Append(e \o Pre(k - 1), r[k])
    <3>1. <<r[k]>> \in Seq(CellsOf(I)) /\ Pre(k) = Pre(k - 1) \o <<r[k]>>
      BY <2>3, AppendIsConcat
    <3>2. e \o (Pre(k - 1) \o <<r[k]>>) = (e \o Pre(k - 1)) \o <<r[k]>>
      BY <1>0, <2>3, <3>1, ConcatAssociative
    <3>3. e \o Pre(k - 1) \in Seq(CellsOf(I))
      BY <1>0, <2>3, ConcatProperties
    <3>4. Append(e \o Pre(k - 1), r[k]) = (e \o Pre(k - 1)) \o <<r[k]>>
      BY <2>3, <3>3, AppendIsConcat
    <3> QED
      BY <3>1, <3>2, <3>4
  <2>5. e \o Pre(k - 1) \in Seq(CellsOf(I)) /\ Len(e \o Pre(k - 1)) + 1 = Len(e) + k
    <3>1. Len(e \o Pre(k - 1)) = Len(e) + Len(Pre(k - 1))
      BY <1>0, <2>3, ConcatProperties
    <3>2. Len(e) \in Nat
      BY <1>0
    <3>3. e \o Pre(k - 1) \in Seq(CellsOf(I))
      BY <1>0, <2>3, ConcatProperties
    <3>4. Len(Pre(k - 1)) = k - 1
      BY <2>3
    <3>5. Len(e \o Pre(k - 1)) = Len(e) + (k - 1)
      BY <3>1, <3>4
    <3>6. (Len(e) + (k - 1)) + 1 = Len(e) + k
      <4>1. k \in Nat
        BY <1>2
      <4> HIDE DEF e
      <4> QED
        BY <3>2, <4>1
    <3> QED
      BY <3>3, <3>5, <3>6
  <2>6. Complete(e \o Pre(k)) =
          IF EndsEntry(e \o Pre(k), Len(e) + k)
          THEN Append(Complete(e \o Pre(k - 1)), r[k].of) ELSE Complete(e \o Pre(k - 1))
    <3> DEFINE c == e \o Pre(k - 1)
    <3>1. /\ c \in Seq(CellsOf(I)) /\ r[k] \in CellsOf(I) /\ Len(c) + 1 = Len(e) + k
          /\ e \o Pre(k) = Append(c, r[k])
      BY <2>3, <2>4, <2>5
    <3> HIDE DEF c
    <3>2. Complete(Append(c, r[k])) =
            IF EndsEntry(Append(c, r[k]), Len(c) + 1) THEN Append(Complete(c), r[k].of)
            ELSE Complete(c)
      BY <3>1, CompleteAppend
    <3>3. Complete(e \o Pre(k)) =
            IF EndsEntry(e \o Pre(k), Len(e) + k) THEN Append(Complete(c), r[k].of)
            ELSE Complete(c)
      BY <3>1, <3>2
    <3> QED
      BY <3>3 DEF c
  <2>7. Complete(Pre(k)) =
          IF EndsEntry(Pre(k), k)
          THEN Append(Complete(Pre(k - 1)), r[k].of) ELSE Complete(Pre(k - 1))
    <3>1. (k - 1) + 1 = k
      BY <1>2
    <3>2. Complete(Append(Pre(k - 1), r[k])) =
            IF EndsEntry(Append(Pre(k - 1), r[k]), Len(Pre(k - 1)) + 1)
            THEN Append(Complete(Pre(k - 1)), r[k].of) ELSE Complete(Pre(k - 1))
      BY <2>3, CompleteAppend
    <3> QED
      BY <2>3, <3>1, <3>2
  <2>8. EndsEntry(e \o Pre(k), Len(e) + k) <=> EndsEntry(Pre(k), k)
    <3>1. Pre(k) # <<>>
      BY <2>1, <2>3, EmptySeq
    <3> QED
      BY <2>3, <3>1, EndsBehindEntry DEF e
  <2>9. Complete(Pre(k - 1)) \in Seq(I) /\ r[k].of \in I
    <3>1. r[k].of \in I
      BY <2>3 DEF CellsOf
    <3> QED
      BY <2>3, <3>1, CompleteType
  <2>10. Append(<<x>> \o Complete(Pre(k - 1)), r[k].of)
           = <<x>> \o Append(Complete(Pre(k - 1)), r[k].of)
    <3> DEFINE s == Complete(Pre(k - 1))
               y == r[k].of
    <3>1. s \in Seq(I) /\ <<x>> \in Seq(I) /\ <<y>> \in Seq(I) /\ y \in I
      BY <2>9
    <3> HIDE DEF s, y
    <3>2. <<x>> \o s \in Seq(I)
      BY <3>1, ConcatProperties
    <3>3. Append(<<x>> \o s, y) = (<<x>> \o s) \o <<y>> /\ Append(s, y) = s \o <<y>>
      BY <3>1, <3>2, AppendIsConcat
    <3>4. (<<x>> \o s) \o <<y>> = <<x>> \o (s \o <<y>>)
      BY <3>1, ConcatAssociative
    <3>5. Append(<<x>> \o s, y) = <<x>> \o Append(s, y)
      BY <3>3, <3>4
    <3> QED
      BY <3>5 DEF s, y
  <2>11. Complete(e \o Pre(k)) = <<x>> \o Complete(Pre(k))
    BY <2>2, <2>6, <2>7, <2>8, <2>10
  <2> QED
    BY <1>2, <2>11
<1> QED
  BY <1>3, <1>4
-----------------------------------------------------------------------------
(* What the variables hold.                                                *)

Process == [id : Nat \X Nat, name : Nat, pid : Nat, num_var : {0, 1}, in_memory : {0, 1},
            memory_allocation : UserSizes \cup {GeneratedSize}]

(* The processes there can be: of an earlier session, or with one of the   *)
(* numbers of this one; and then with the pid that belongs to the number,  *)
(* unless two threads drew pids at the same time.                          *)
Made ==
  {x \in Process :
     /\ x.id[1] \in 1 .. session
     /\ x.id[1] = session => /\ x.id[2] \in 1 .. created
                             /\ ~overlapped => x.pid = x.id[2] + 1}

BlockSet == [pid : Nat, id : Nat \X Nat, base : Nat, size : UserSizes \cup {GeneratedSize}]

Cells == CellsOf(Made)

SchedAts == {"loop", "pid", "add", "storing", "victim", "removing"}
Holding == {"add", "storing", "victim", "removing"}

Numbers ==
  /\ session \in 1 .. MaxSessions /\ total \in 0 .. MaxCreated
  /\ created \in Nat /\ starts \in Nat
  /\ next_pid \in 1 .. total + 1 /\ process_count \in Nat /\ num_processes \in Nat
  /\ fault \in {"none", "freed name", "garbage", "foreign pointer"}

StoreTyped ==
  /\ file \in Seq(Cells)
  /\ io \in [op : {"none", "append", "truncate", "rewrite"}, cells : Seq(Cells)]

(* What the scheduler thread writes, how far it has come, and that the     *)
(* process it reads back is still the first one in the file.               *)
Target == IF sched.at = "storing" THEN sched.process ELSE sched.victim

WritingIn(f, o, I, x) ==
  \E pre \in Seq(CellsOf(I)) : \E k \in 0 .. Len(Entry(x)) :
    /\ f = pre \o SubSeq(Entry(x), 1, k)
    /\ o = IF k = Len(Entry(x)) THEN NoIo
           ELSE [op |-> "append", cells |-> SubSeq(Entry(x), k + 1, Len(Entry(x)))]

Writing(x) == WritingIn(file, io, Made, x)

Reading == ReadsEntry /\ sched.process = Image

StoreSteps ==
  /\ sched.at \in {"loop", "pid", "add"} => io = NoIo
  /\ sched.at \in {"storing", "victim"} => Writing(Target)
  /\ sched.at = "victim" => Reading
  /\ sched.at = "removing" =>
       \/ io = NoIo
       \/ io = [op |-> "truncate", cells |-> Rest] /\ Reading
       \/ io.op = "rewrite" /\ file = <<>>

PlacesTyped ==
  /\ process_table \in Seq(Process)
  /\ ready \in Seq(Made) /\ on \in SUBSET Made /\ finished \in SUBSET Made
  /\ removed \in SUBSET Made /\ blocks \in SUBSET BlockSet
  /\ IsFiniteSet(on) /\ IsFiniteSet(blocks)

CliTyped ==
  /\ cli \in [at : {"prompt", "pid", "add", "create"}, read : Nat, process : Process]
  /\ cli.at = "prompt" => cli = AtPrompt
  /\ cli.at = "add" => cli.process \in Made

SchedTyped ==
  /\ sched \in [at : SchedAts, read : Nat, process : Process, victim : Process]
  /\ IF sched.at \in Holding THEN sched.process \in Made ELSE sched.process = NoProcess
  /\ IF sched.at = "victim" THEN sched.victim \in Made ELSE sched.victim = NoProcess

(* What counts the processes created, and what is read of it, is bounded   *)
(* by their number.                                                        *)
Counted ==
  /\ cli.at = "pid" => cli.read \in 1 .. total
  /\ sched.at = "pid" => sched.read \in 1 .. total
  /\ created + (IF cli.at = "pid" THEN 1 ELSE 0) + (IF sched.at = "pid" THEN 1 ELSE 0) <= total
  /\ process_count + (IF cli.at = "prompt" THEN 0 ELSE 1) <= total
  /\ num_processes <= Len(process_table)
  /\ cli.at \in Adding => cli.read <= Len(process_table)
  /\ sched.at = "add" => sched.read <= Len(process_table)

(* While the threads do not draw pids at the same time, the pids are the   *)
(* numbers of the processes.                                               *)
PidCounts ==
  ~overlapped =>
    /\ ~(cli.at \in Creating /\ sched.at \in Creating)
    /\ next_pid = created + 1
    /\ cli.at = "pid" => cli.read = next_pid
    /\ sched.at = "pid" => sched.read = next_pid

Typed ==
  /\ Numbers /\ StoreTyped /\ StoreSteps /\ PlacesTyped /\ CliTyped /\ SchedTyped
  /\ Counted /\ PidCounts

LEMMA Constants ==
  /\ NumCores \in Nat \ {0} /\ Memory \in Nat \ {0} /\ UserSizes \subseteq Nat \ {0}
  /\ GeneratedSize \in Nat \ {0} /\ MaxSessions \in Nat \ {0} /\ MaxCreated \in Nat \ {0}
  /\ UserNames \subseteq Nat
BY SessionsAssumption

LEMMA NoProcessTyped == NoProcess \in Process
BY Constants DEF NoProcess, Process

LEMMA InitTyped == Init => Typed
<1> SUFFICES ASSUME Init PROVE Typed
  OBVIOUS
<1>1. /\ file = <<>> /\ io = NoIo /\ session = 1 /\ total = 0 /\ fault = "none"
      /\ next_pid = 1 /\ process_table = <<>> /\ num_processes = 0 /\ process_count = 0
      /\ ready = <<>> /\ on = {} /\ finished = {} /\ blocks = {} /\ removed = {}
      /\ cli = AtPrompt /\ sched = InLoop /\ created = 0 /\ starts = 0
  BY DEF Init, StoreInit
<1>2. Numbers
  BY <1>1, Constants DEF Numbers
<1>3. StoreTyped
  BY <1>1, EmptySeq DEF StoreTyped, NoIo
<1>4. PlacesTyped
  BY <1>1, EmptySeq, FS_EmptySet DEF PlacesTyped
<1>5. CliTyped
  BY <1>1, NoProcessTyped DEF CliTyped, AtPrompt
<1>6. SchedTyped
  BY <1>1, NoProcessTyped DEF SchedTyped, InLoop, SchedAts, Holding
<1>7. Counted
  <2>1. Len(process_table) = 0 /\ cli.at = "prompt" /\ sched.at = "loop"
    BY <1>1, EmptySeq DEF AtPrompt, InLoop
  <2> QED
    BY <1>1, <2>1 DEF Counted, Adding
<1>8. PidCounts
  <2>1. cli.at = "prompt" /\ sched.at = "loop"
    BY <1>1 DEF AtPrompt, InLoop
  <2> QED
    BY <1>1, <2>1 DEF PidCounts, Creating
<1>9. StoreSteps
  BY <1>1 DEF StoreSteps, InLoop
<1> QED
  BY <1>2, <1>3, <1>4, <1>5, <1>6, <1>7, <1>8, <1>9 DEF Typed

(* The set of the processes there can be only grows. *)
LEMMA MadeGrows ==
  ASSUME Numbers,
         \/ /\ session' = session /\ created' \in Nat /\ created' >= created
            /\ overlapped => overlapped'
         \/ session' = session + 1
  PROVE  Made \subseteq Made'
<1>1. session \in Nat /\ created \in Nat
  <2>1. MaxSessions \in Nat /\ session \in 1 .. MaxSessions /\ created \in Nat
    BY Constants DEF Numbers
  <2> QED
    BY <2>1
<1> SUFFICES ASSUME NEW x \in Made PROVE x \in Made'
  OBVIOUS
<1>2. x \in Process /\ x.id[1] \in 1 .. session
  BY DEF Made
<1>3. Process' = Process
  BY DEF Process
<1>4. CASE session' = session + 1
  BY <1>1, <1>2, <1>4 DEF Made
<1>5. CASE /\ session' = session /\ created' \in Nat /\ created' >= created
           /\ overlapped => overlapped'
  BY <1>1, <1>2, <1>5 DEF Made
<1> QED
  BY <1>4, <1>5

(* What was typed stays so. *)
LEMMA StillTyped ==
  ASSUME Made \subseteq Made'
  PROVE  /\ Cells \subseteq Cells' /\ \A s \in Seq(Cells) : s \in Seq(Cells')
         /\ \A s \in Seq(Made) : s \in Seq(Made')
<1>1. Cells \subseteq Cells'
  BY DEF Cells, CellsOf
<1>2. \A s \in Seq(Cells) : s \in Seq(Cells')
  BY <1>1, SeqMonotonic
<1> QED
  BY <1>1, <1>2, SeqMonotonic

(* What the steps do to single variables. *)
LEMMA AllocatedTyped ==
  ASSUME NEW x \in Process, NEW taken \in SUBSET BlockSet, IsFiniteSet(taken),
         Fits(x.memory_allocation, taken)
  PROVE  \E base \in 0 .. Memory - 1 :
           /\ Hole(base, x.memory_allocation, taken)
           /\ LET b == [pid |-> x.pid, id |-> x.id, base |-> base,
                        size |-> x.memory_allocation]
              IN  /\ b \in BlockSet
                  /\ Allocated(x, taken) = taken \cup {b}
                  /\ Allocated(x, taken) \in SUBSET BlockSet
                  /\ IsFiniteSet(Allocated(x, taken))
<1> DEFINE holes == Holes(x.memory_allocation, taken)
           base == CHOOSE base \in holes : \A other \in holes : base <= other
           b == [pid |-> x.pid, id |-> x.id, base |-> base, size |-> x.memory_allocation]
<1>1. holes # {} /\ holes \in SUBSET Nat
  BY Constants DEF Fits, Holes
<1>2. base \in holes
  <2> HIDE DEF holes
  <2>1. \E y \in holes : \A other \in holes : y <= other
    BY <1>1, Least
  <2> QED
    BY <2>1
<1> HIDE DEF base
<1>3. base \in 0 .. Memory - 1 /\ base \in Nat /\ Hole(base, x.memory_allocation, taken)
  BY <1>2, <1>1 DEF Holes
<1> HIDE DEF holes
<1>4. b \in BlockSet
  BY <1>3 DEF Process, BlockSet
<1>5. Allocated(x, taken) = taken \cup {b}
  BY DEF Allocated, base, holes
<1> HIDE DEF b
<1>6. IsFiniteSet(taken \cup {b})
  BY FS_AddElement
<1>7. /\ Hole(base, x.memory_allocation, taken) /\ b \in BlockSet
      /\ Allocated(x, taken) = taken \cup {b}
      /\ Allocated(x, taken) \in SUBSET BlockSet /\ IsFiniteSet(Allocated(x, taken))
  BY <1>3, <1>4, <1>5, <1>6
<1> QED
  BY <1>3, <1>7 DEF b

LEMMA Marked ==
  ASSUME NEW x \in Made
  PROVE  /\ [x EXCEPT !.in_memory = 1] \in Made
         /\ \A n \in {x.num_var, 1} : [x EXCEPT !.num_var = n] \in Made
         /\ x \in Process
BY DEF Made, Process

LEMMA Created ==
  ASSUME Numbers, NEW x \in Process, NEW n \in Nat, session' = session,
         created' = created + 1, ~overlapped' => n = created' + 1
  PROVE  [x EXCEPT !.id = <<session, created'>>, !.pid = n] \in Made'
<1>1. session \in Nat /\ created \in Nat /\ session >= 1
  <2>1. MaxSessions \in Nat /\ session \in 1 .. MaxSessions /\ created \in Nat
    BY Constants DEF Numbers
  <2> QED
    BY <2>1
<1> DEFINE y == [x EXCEPT !.id = <<session, created'>>, !.pid = n]
<1>2. y \in Process /\ y.id = <<session, created'>> /\ y.pid = n
  <2> DEFINE i == <<session, created'>>
  <2>1. i \in Nat \X Nat
    BY <1>1
  <2> HIDE DEF i
  <2>2. [x EXCEPT !.id = i, !.pid = n] \in Process
    BY <2>1 DEF Process
  <2>3. /\ [x EXCEPT !.id = i, !.pid = n].id = i
        /\ [x EXCEPT !.id = i, !.pid = n].pid = n
    BY DEF Process
  <2> QED
    BY <2>2, <2>3 DEF i
<1>3. Process' = Process
  BY DEF Process
<1> HIDE DEF y
<1>4. y.id[1] = session' /\ y.id[2] = created'
  BY <1>2
<1>5. session' \in 1 .. session' /\ created' \in 1 .. created'
  BY <1>1
<1>6. y \in Made'
  BY <1>2, <1>3, <1>4, <1>5 DEF Made
<1> QED
  BY <1>6 DEF y

LEMMA ListedTyped ==
  ASSUME process_table \in Seq(Process), NEW n \in Nat, n <= Len(process_table),
         NEW x \in Process, Listed(n, x)
  PROVE  /\ process_table' \in Seq(Process) /\ num_processes' = n + 1
         /\ num_processes' <= Len(process_table')
         /\ Len(process_table') >= Len(process_table)
         /\ \A i \in 1 .. Len(process_table') :
              process_table'[i] = IF i = n + 1 THEN x ELSE process_table[i]
         /\ Len(process_table') = IF n < Len(process_table) THEN Len(process_table)
                                 ELSE n + 1
<1>1. Len(process_table) \in Nat
  OBVIOUS
<1>2. CASE n < Len(process_table)
  <2>1. n + 1 \in 1 .. Len(process_table)
    BY <1>1, <1>2
  <2>2. process_table' = [process_table EXCEPT ![n + 1] = x] /\ num_processes' = n + 1
    BY <1>2 DEF Listed
  <2> QED
    BY <1>1, <1>2, <2>1, <2>2, ExceptSeq
<1>3. CASE ~(n < Len(process_table))
  <2>1. n = Len(process_table)
    BY <1>1, <1>3
  <2>2. process_table' = Append(process_table, x) /\ num_processes' = n + 1
    BY <1>3 DEF Listed
  <2> QED
    BY <1>1, <2>1, <2>2
<1> QED
  BY <1>2, <1>3

LEMMA ReleasedTyped ==
  ASSUME NEW x, blocks \in SUBSET BlockSet, IsFiniteSet(blocks)
  PROVE  /\ Released(x) \in SUBSET BlockSet /\ IsFiniteSet(Released(x))
         /\ Released(x) \subseteq blocks
<1>1. Released(x) \subseteq blocks
  BY DEF Released
<1> QED
  BY <1>1, FS_Subset

-----------------------------------------------------------------------------
(* The steps of the store, for any sequence of cells.                      *)

ReadsIn(f) ==
  /\ f # <<>> /\ f[1].part = "struct"
  /\ Len(Entry(f[1].of)) <= Len(f)
  /\ SubSeq(f, 1, Len(Entry(f[1].of))) = Entry(f[1].of)

RestIn(f) == SubSeq(f, Len(Entry(f[1].of)) + 1, Len(f))

LEMMA OfTheFile ==
  (ReadsEntry <=> ReadsIn(file)) /\ Rest = RestIn(file) /\ FirstProcess = file[1].of
BY DEF ReadsEntry, ReadsIn, Rest, RestIn, FirstProcess

(* The first process in the file and what is behind its entry. *)
LEMMA FirstTyped ==
  ASSUME NEW I, NEW f \in Seq(CellsOf(I)), ReadsIn(f)
  PROVE  /\ f[1].of \in I /\ RestIn(f) \in Seq(CellsOf(I))
         /\ f = Entry(f[1].of) \o RestIn(f)
<1>1. /\ f # <<>> /\ Len(Entry(f[1].of)) <= Len(f)
      /\ SubSeq(f, 1, Len(Entry(f[1].of))) = Entry(f[1].of)
  BY DEF ReadsIn
<1>2. Len(f) \in Nat /\ 1 \in 1 .. Len(f)
  BY <1>1, EmptySeq
<1>3. f[1] \in CellsOf(I) /\ f[1].of \in I
  <2>1. f[1] \in CellsOf(I)
    BY <1>1, <1>2
  <2> QED
    BY <2>1 DEF CellsOf
<1> DEFINE n == Len(Entry(f[1].of))
<1>4. n \in Nat \ {0}
  BY <1>3, EntryShape
<1> HIDE DEF n
<1>5. n <= Len(f) /\ Entry(f[1].of) = SubSeq(f, 1, n) /\ RestIn(f) = SubSeq(f, n + 1, Len(f))
  BY <1>1 DEF n, RestIn
<1>6. SubSeq(f, n + 1, Len(f)) \in Seq(CellsOf(I))
  <2>1. \A i \in n + 1 .. Len(f) : f[i] \in CellsOf(I)
    BY <1>1, <1>2, <1>4
  <2>2. n + 1 \in Int /\ Len(f) \in Int
    BY <1>2, <1>4
  <2> QED
    BY <2>1, <2>2, SubSeqProperties
<1>7. SubSeq(f, 1, n) \o SubSeq(f, n + 1, Len(f)) = SubSeq(f, 1, Len(f))
  <2>1. /\ 1 \in 1 .. Len(f) + 1 /\ n \in 1 - 1 .. Len(f)
        /\ Len(f) \in n .. Len(f)
    BY <1>2, <1>4, <1>5
  <2> QED
    BY <1>1, <2>1, ConcatAdjacentSubSeq
<1>8. SubSeq(f, 1, Len(f)) = f
  BY <1>1, SubSeqFull
<1> QED
  BY <1>3, <1>5, <1>6, <1>7, <1>8

(* Conversely an entry at the beginning is read. *)
LEMMA ReadsFirst ==
  ASSUME NEW I, NEW x \in I, NEW r \in Seq(CellsOf(I)), NEW f, f = Entry(x) \o r
  PROVE  ReadsIn(f) /\ f[1].of = x /\ RestIn(f) = r
<1> DEFINE e == Entry(x)
<1>1. /\ e \in Seq(CellsOf(I)) /\ Len(e) \in Nat \ {0} /\ e[1] = Cell(x, "struct")
  BY EntryShape
<1> HIDE DEF e
<1>2. /\ f \in Seq(CellsOf(I)) /\ Len(f) = Len(e) + Len(r)
      /\ \A i \in 1 .. Len(e) + Len(r) : f[i] = IF i <= Len(e) THEN e[i] ELSE r[i - Len(e)]
  BY <1>1, ConcatProperties DEF e
<1>3. Len(r) \in Nat /\ Len(f) \in Nat /\ Len(e) <= Len(f) /\ Len(f) # 0
  BY <1>1, <1>2
<1>4. f[1] = e[1]
  <2>1. 1 \in 1 .. Len(e) + Len(r) /\ 1 <= Len(e)
    BY <1>1, <1>3
  <2> QED
    BY <1>2, <2>1
<1>5. f # <<>> /\ f[1].part = "struct" /\ f[1].of = x
  BY <1>1, <1>3, <1>4, EmptySeq DEF Cell
<1>6. SubSeq(f, 1, Len(e)) = e
  <2>1. \A i \in 1 .. Len(e) : f[i] = e[i] /\ f[i] \in CellsOf(I)
    BY <1>1, <1>2, <1>3
  <2>2. /\ SubSeq(f, 1, Len(e)) \in Seq(CellsOf(I)) /\ Len(SubSeq(f, 1, Len(e))) = Len(e)
        /\ \A i \in 1 .. Len(e) : SubSeq(f, 1, Len(e))[i] = f[i]
    BY <1>1, <1>2, <1>3
  <2> QED
    BY <1>1, <2>1, <2>2, SeqEqual
<1>7. ReadsIn(f) /\ f[1].of = x
  BY <1>3, <1>5, <1>6 DEF ReadsIn, e
<1>8. RestIn(f) = r
  <2>1. f = e \o RestIn(f) /\ RestIn(f) \in Seq(CellsOf(I))
    BY <1>2, <1>7, FirstTyped DEF e
  <2>2. e \o RestIn(f) = e \o r
    BY <2>1 DEF e
  <2> QED
    BY <1>1, <2>1, <2>2, ConcatSimplifications
<1> QED
  BY <1>7, <1>8

LEMMA ReadsStill ==
  ASSUME NEW I, NEW f \in Seq(CellsOf(I)), ReadsIn(f), NEW c \in CellsOf(I)
  PROVE  ReadsIn(Append(f, c)) /\ Append(f, c)[1].of = f[1].of
<1> DEFINE x == f[1].of
           r == RestIn(f)
<1>1. x \in I /\ r \in Seq(CellsOf(I)) /\ f = Entry(x) \o r
  BY FirstTyped
<1>2. Entry(x) \in Seq(CellsOf(I)) /\ <<c>> \in Seq(CellsOf(I)) /\ Append(r, c) \in Seq(CellsOf(I))
  BY <1>1, EntryShape
<1> HIDE DEF x, r
<1>3. Append(f, c) = Entry(x) \o Append(r, c)
  <2>1. Append(f, c) = (Entry(x) \o r) \o <<c>> /\ Append(r, c) = r \o <<c>>
    BY <1>1, AppendIsConcat
  <2> QED
    BY <1>1, <1>2, <2>1, ConcatAssociative
<1>4. ReadsIn(Append(f, c)) /\ Append(f, c)[1].of = x
  BY <1>1, <1>2, <1>3, ReadsFirst
<1> QED
  BY <1>4 DEF x

LEMMA WritingBegins ==
  ASSUME NEW I, NEW f \in Seq(CellsOf(I)), NEW x \in I
  PROVE  /\ WritingIn(f, [op |-> "append", cells |-> Written(x)], I, x)
         /\ Written(x) \in Seq(CellsOf(I))
<1>1. Entry(x) \in Seq(CellsOf(I)) /\ Len(Entry(x)) \in Nat \ {0} /\ Written(x) = Entry(x)
  BY EntryShape
<1>2. f = f \o SubSeq(Entry(x), 1, 0)
  <2>1. SubSeq(Entry(x), 1, 0) = <<>>
    BY SubSeqEmpty
  <2> QED
    BY <2>1, ConcatEmptySeq
<1>3. SubSeq(Entry(x), 0 + 1, Len(Entry(x))) = Written(x)
  BY <1>1, SubSeqFull
<1>4. 0 \in 0 .. Len(Entry(x)) /\ 0 # Len(Entry(x))
  BY <1>1
<1> QED
  BY <1>1, <1>2, <1>3, <1>4 DEF WritingIn

(* The next cell that is written, the k + 1st of the entry behind pre. *)
NextCell(f, o, I, x, pre, k) ==
  LET e == Entry(x)
      m == Len(e)
  IN  /\ k \in 0 .. m - 1
      /\ f = pre \o SubSeq(e, 1, k)
      /\ o = [op |-> "append", cells |-> SubSeq(e, k + 1, m)]
      /\ Append(f, e[k + 1]) = pre \o SubSeq(e, 1, k + 1)
      /\ Append(f, e[k + 1]) \in Seq(CellsOf(I)) /\ e[k + 1] \in CellsOf(I)
      /\ Complete(Append(f, e[k + 1])) =
           IF k + 1 = m THEN Append(Complete(f), x) ELSE Complete(f)
      /\ Head(o.cells) = e[k + 1] /\ Tail(o.cells) = SubSeq(e, k + 1 + 1, m)
      /\ Len(o.cells) = m - k /\ SubSeq(e, k + 1 + 1, m) \in Seq(CellsOf(I))

LEMMA WritingNext ==
  ASSUME NEW I, NEW x \in I, NEW f, NEW o, WritingIn(f, o, I, x), o.op = "append"
  PROVE  \E pre \in Seq(CellsOf(I)) : \E k : NextCell(f, o, I, x, pre, k)
<1> DEFINE e == Entry(x)
           m == Len(e)
<1>1. e \in Seq(CellsOf(I)) /\ m \in Nat
  BY EntryShape
<1>2. PICK pre \in Seq(CellsOf(I)), k \in 0 .. m :
        /\ f = pre \o SubSeq(e, 1, k)
        /\ o = IF k = m THEN NoIo ELSE [op |-> "append", cells |-> SubSeq(e, k + 1, m)]
  BY DEF WritingIn
<1>3. k # m
  BY <1>2 DEF NoIo
<1>4. k \in 0 .. m - 1 /\ k + 1 \in 1 .. m /\ k + 1 \in 0 .. m
  BY <1>1, <1>3
<1>5. o = [op |-> "append", cells |-> SubSeq(e, k + 1, m)]
  BY <1>2, <1>3
<1> DEFINE g == Append(f, e[k + 1])
<1>6. /\ g = pre \o SubSeq(e, 1, k + 1) /\ e[k + 1] \in CellsOf(I) /\ f \in Seq(CellsOf(I))
      /\ Complete(g) = IF k + 1 = m THEN Append(Complete(f), x) ELSE Complete(f)
  BY <1>2, <1>4, EndsWithinEntry
<1>7. g \in Seq(CellsOf(I))
  BY <1>6, AppendProperties
<1>8. /\ Head(o.cells) = e[k + 1] /\ Tail(o.cells) = SubSeq(e, k + 1 + 1, m)
      /\ Len(o.cells) = m - k /\ SubSeq(e, k + 1 + 1, m) \in Seq(CellsOf(I))
  <2>1. m \in k + 1 .. m
    BY <1>4
  <2>2. Head(SubSeq(e, k + 1, m)) = e[k + 1] /\ Tail(SubSeq(e, k + 1, m)) = SubSeq(e, k + 1 + 1, m)
    BY <1>1, <1>4, <2>1, HeadTailOfSubSeq
  <2>3. /\ Len(SubSeq(e, k + 1, m)) = m - k
        /\ SubSeq(e, k + 1 + 1, m) \in Seq(CellsOf(I))
    BY <1>1, <1>4
  <2> QED
    BY <1>5, <2>2, <2>3
<1> HIDE DEF g
<1>9. /\ f = pre \o SubSeq(e, 1, k) /\ k \in 0 .. m - 1
      /\ o = [op |-> "append", cells |-> SubSeq(e, k + 1, m)]
      /\ g = pre \o SubSeq(e, 1, k + 1)
      /\ g \in Seq(CellsOf(I)) /\ e[k + 1] \in CellsOf(I)
      /\ Complete(g) = IF k + 1 = m THEN Append(Complete(f), x) ELSE Complete(f)
      /\ Head(o.cells) = e[k + 1] /\ Tail(o.cells) = SubSeq(e, k + 1 + 1, m)
      /\ Len(o.cells) = m - k /\ SubSeq(e, k + 1 + 1, m) \in Seq(CellsOf(I))
  BY <1>2, <1>4, <1>5, <1>6, <1>7, <1>8
<1>10. NextCell(f, o, I, x, pre, k)
  BY <1>9 DEF NextCell, g
<1> QED
  BY <1>10

LEMMA WritingGoesOn ==
  ASSUME NEW I, NEW x \in I, NEW f, NEW o, WritingIn(f, o, I, x), o.op = "append"
  PROVE  LET g == Append(f, Head(o.cells))
             q == IF Len(o.cells) = 1 THEN NoIo ELSE [o EXCEPT !.cells = Tail(@)]
         IN  /\ WritingIn(g, q, I, x) /\ g \in Seq(CellsOf(I)) /\ Head(o.cells) \in CellsOf(I)
             /\ q \in [op : {"none", "append"}, cells : Seq(CellsOf(I))]
<1> DEFINE e == Entry(x)
           m == Len(e)
<1>1. m \in Nat /\ e = Entry(x)
  BY EntryShape
<1> HIDE DEF e
<1>0. PICK pre \in Seq(CellsOf(I)) : \E k : NextCell(f, o, I, x, pre, k)
  BY WritingNext
<1>00. PICK k : NextCell(f, o, I, x, pre, k)
  BY <1>0
<1>2. /\ k \in 0 .. m - 1
      /\ o = [op |-> "append", cells |-> SubSeq(e, k + 1, m)]
      /\ Append(f, e[k + 1]) = pre \o SubSeq(e, 1, k + 1)
      /\ Append(f, e[k + 1]) \in Seq(CellsOf(I)) /\ e[k + 1] \in CellsOf(I)
      /\ Head(o.cells) = e[k + 1] /\ Tail(o.cells) = SubSeq(e, k + 1 + 1, m)
      /\ Len(o.cells) = m - k /\ SubSeq(e, k + 1 + 1, m) \in Seq(CellsOf(I))
  BY <1>00, <1>1 DEF NextCell
<1> DEFINE g == Append(f, e[k + 1])
           q == IF k + 1 = m THEN NoIo
                ELSE [op |-> "append", cells |-> SubSeq(e, k + 1 + 1, m)]
<1>3. k + 1 \in 0 .. m /\ (Len(o.cells) = 1 <=> k + 1 = m)
  <2>1. m \in Nat /\ k \in 0 .. m - 1 /\ Len(o.cells) = m - k
    BY <1>1, <1>2
  <2> QED
    BY <2>1
<1>4. (IF Len(o.cells) = 1 THEN NoIo ELSE [o EXCEPT !.cells = Tail(@)]) = q
  <2>1. [o EXCEPT !.cells = Tail(@)] = [op |-> "append", cells |-> Tail(o.cells)]
    <3>1. \A s, t : [[op |-> "append", cells |-> s] EXCEPT !.cells = t]
                     = [op |-> "append", cells |-> t]
      OBVIOUS
    <3>2. \A t : [o EXCEPT !.cells = t] = [op |-> "append", cells |-> t]
      BY <1>2, <3>1
    <3> QED
      BY <3>2
  <2> QED
    BY <1>2, <1>3, <2>1
<1>5. WritingIn(g, q, I, x)
  <2> HIDE DEF g, q
  <2>1. g = pre \o SubSeq(e, 1, k + 1)
    BY <1>2 DEF g
  <2>2. q = IF k + 1 = m THEN NoIo ELSE [op |-> "append", cells |-> SubSeq(e, k + 1 + 1, m)]
    BY DEF q
  <2> QED
    BY <1>3, <2>1, <2>2 DEF WritingIn, e
<1>6. q \in [op : {"none", "append"}, cells : Seq(CellsOf(I))]
  BY <1>2, EmptySeq DEF NoIo
<1> QED
  BY <1>2, <1>4, <1>5, <1>6

LEMMA WritingStores ==
  ASSUME NEW I, NEW x \in I, NEW f, NEW o, WritingIn(f, o, I, x), o.op = "append"
  PROVE  Complete(Append(f, Head(o.cells))) =
           IF Len(o.cells) = 1 THEN Append(Complete(f), x) ELSE Complete(f)
<1> DEFINE e == Entry(x)
           m == Len(e)
<1>0. e = Entry(x) /\ m \in Nat
  BY EntryShape
<1> HIDE DEF e
<1>00. PICK pre, k : NextCell(f, o, I, x, pre, k)
  BY WritingNext
<1>1. /\ k \in 0 .. m - 1
      /\ Complete(Append(f, e[k + 1])) =
           IF k + 1 = m THEN Append(Complete(f), x) ELSE Complete(f)
      /\ Head(o.cells) = e[k + 1] /\ Len(o.cells) = m - k
  BY <1>0, <1>00 DEF NextCell
<1>3. Len(o.cells) = 1 <=> k + 1 = m
  BY <1>0, <1>1
<1> QED
  BY <1>1, <1>3

LEMMA WritingEnded ==
  ASSUME NEW I, NEW x \in I, NEW f, NEW o, WritingIn(f, o, I, x), o.op = "none"
  PROVE  \E s \in Seq(I) : Complete(f) = Append(s, x)
<1> DEFINE e == Entry(x)
<1>1. e \in Seq(CellsOf(I)) /\ Len(e) \in Nat
  BY EntryShape
<1>2. PICK pre \in Seq(CellsOf(I)), k \in 0 .. Len(e) :
        /\ f = pre \o SubSeq(e, 1, k)
        /\ o = IF k = Len(e) THEN NoIo ELSE [op |-> "append", cells |-> SubSeq(e, k + 1, Len(e))]
  BY DEF WritingIn
<1>3. k = Len(e)
  BY <1>2
<1>4. f = pre \o e
  BY <1>1, <1>2, <1>3, SubSeqFull
<1>5. Complete(f) = Append(Complete(pre), x)
  BY <1>4, CompleteWithEntry
<1>6. Complete(pre) \in Seq(I)
  BY CompleteType
<1> QED
  BY <1>5, <1>6

LEMMA WritingStill ==
  ASSUME NEW I, NEW J, I \subseteq J, NEW x, NEW f, NEW o, WritingIn(f, o, I, x)
  PROVE  WritingIn(f, o, J, x)
<1>1. CellsOf(I) \subseteq CellsOf(J)
  BY DEF CellsOf
<1>2. \A s \in Seq(CellsOf(I)) : s \in Seq(CellsOf(J))
  BY <1>1, SeqMonotonic
<1> QED
  BY <1>2 DEF WritingIn
-----------------------------------------------------------------------------
(* Typed is an invariant.                                                  *)

LEMMA StoreStepsKept ==
  ASSUME Typed, Made \subseteq Made', file' = file, io' = io, sched' = sched
  PROVE  StoreSteps'
<1>1. Target' = Target /\ Rest' = Rest /\ (Reading <=> Reading')
  BY DEF Target, Rest, Reading, ReadsEntry, Image, FirstProcess
<1>2. Writing(Target) => WritingIn(file, io, Made', Target)
  BY WritingStill DEF Writing
<1>3. Writing(Target)' <=> WritingIn(file, io, Made', Target)
  BY <1>1 DEF Writing
<1> QED
  BY <1>1, <1>2, <1>3 DEF Typed, StoreSteps

LEMMA StoreStepsQuiet ==
  ASSUME io' = NoIo, sched'.at \in {"loop", "pid", "add", "removing"}
  PROVE  StoreSteps'
BY DEF StoreSteps

LEMMA QuietIsNoIo ==
  ASSUME Typed, Quiet PROVE io = NoIo
<1>1. CASE sched.at \in {"storing", "victim"}
  <2>1. PICK pre \in Seq(Cells), k \in 0 .. Len(Entry(Target)) :
          io = IF k = Len(Entry(Target)) THEN NoIo
               ELSE [op |-> "append",
                     cells |-> SubSeq(Entry(Target), k + 1, Len(Entry(Target)))]
    BY <1>1 DEF Typed, StoreSteps, Writing, WritingIn, Cells
  <2> QED
    BY <2>1 DEF Quiet
<1>2. CASE sched.at \notin {"storing", "victim"}
  BY <1>2 DEF Typed, SchedTyped, SchedAts, StoreSteps, Quiet
<1> QED
  BY <1>1, <1>2

LEMMA InitializeTyped ==
  ASSUME Typed, initialize PROVE Typed'
<1>1. Made \subseteq Made'
  BY MadeGrows DEF Typed, Numbers, initialize, Typing, init_backing_store, history, races
<1>2. Numbers'
  BY DEF Typed, Numbers, Counted, Adding, initialize, Typing, init_backing_store, store, table, places, history, races, flags
<1>3. StoreTyped'
  BY <1>1, StillTyped DEF Typed, StoreTyped, initialize, Typing, init_backing_store, store, table, places, history, races, flags
<1>4. StoreSteps'
  BY <1>1, StoreStepsKept, StoreStepsQuiet DEF Typed, StoreSteps, initialize, Typing, init_backing_store, store, table, places, history, races, flags
<1>5. PlacesTyped'
  BY <1>1, StillTyped, FS_EmptySet DEF Typed, PlacesTyped, initialize, Typing, init_backing_store, store, table, places, history, races, flags
<1>6. CliTyped'
  BY <1>1 DEF Typed, CliTyped, PidCounts, Numbers, initialize, Typing, init_backing_store, store, table, places, history, races, flags
<1>7. SchedTyped'
  BY <1>1 DEF Typed, SchedTyped, PidCounts, Numbers, SchedAts, Holding, NoProcess, initialize, Typing, init_backing_store, store, table, places, history, races, flags
<1>8. Counted'
  BY DEF Typed, Counted, Adding, Numbers, PlacesTyped, CliTyped, SchedTyped, initialize, Typing, init_backing_store, store, table, places, history, races, flags
<1>9. PidCounts'
  BY DEF Typed, PidCounts, Numbers, CliTyped, SchedTyped, Creating, initialize, Typing, init_backing_store, store, table, places, history, races, flags
<1> QED
  BY <1>2, <1>3, <1>4, <1>5, <1>6, <1>7, <1>8, <1>9 DEF Typed

LEMMA Scheduler_startTyped ==
  ASSUME Typed, scheduler_start PROVE Typed'
<1>1. Made \subseteq Made'
  BY MadeGrows DEF Typed, Numbers, scheduler_start, Typing, Start, history, races
<1>2. Numbers'
  BY DEF Typed, Numbers, Counted, Adding, scheduler_start, Typing, Start, store, table, places, history, races, flags
<1>3. StoreTyped'
  BY <1>1, StillTyped DEF Typed, StoreTyped, scheduler_start, Typing, Start, store, table, places, history, races, flags
<1>4. StoreSteps'
  BY <1>1, StoreStepsKept, StoreStepsQuiet DEF Typed, StoreSteps, scheduler_start, Typing, Start, store, table, places, history, races, flags
<1>5. PlacesTyped'
  BY <1>1, StillTyped, FS_EmptySet, EmptySeq DEF Typed, PlacesTyped, scheduler_start, Typing, Start, store, table, places, history, races, flags
<1>6. CliTyped'
  BY <1>1 DEF Typed, CliTyped, PidCounts, Numbers, scheduler_start, Typing, Start, store, table, places, history, races, flags
<1>7. SchedTyped'
  BY <1>1 DEF Typed, SchedTyped, PidCounts, Numbers, SchedAts, Holding, NoProcess, scheduler_start, Typing, Start, store, table, places, history, races, flags
<1>8. Counted'
  BY DEF Typed, Counted, Adding, Numbers, PlacesTyped, CliTyped, SchedTyped, scheduler_start, Typing, Start, store, table, places, history, races, flags
<1>9. PidCounts'
  BY DEF Typed, PidCounts, Numbers, CliTyped, SchedTyped, Creating, scheduler_start, Typing, Start, store, table, places, history, races, flags
<1> QED
  BY <1>2, <1>3, <1>4, <1>5, <1>6, <1>7, <1>8, <1>9 DEF Typed

LEMMA Stop_schedulerTyped ==
  ASSUME Typed, stop_scheduler PROVE Typed'
<1>1. Made \subseteq Made'
  BY MadeGrows DEF Typed, Numbers, stop_scheduler, Typing, history, races
<1>2. Numbers'
  BY DEF Typed, Numbers, Counted, Adding, stop_scheduler, Typing, store, table, places, history, races, flags
<1>3. StoreTyped'
  BY <1>1, StillTyped DEF Typed, StoreTyped, stop_scheduler, Typing, store, table, places, history, races, flags
<1>4. StoreSteps'
  BY <1>1, StoreStepsKept, StoreStepsQuiet DEF Typed, StoreSteps, stop_scheduler, Typing, store, table, places, history, races, flags
<1>5. PlacesTyped'
  BY <1>1, StillTyped DEF Typed, PlacesTyped, stop_scheduler, Typing, store, table, places, history, races, flags
<1>6. CliTyped'
  BY <1>1 DEF Typed, CliTyped, PidCounts, Numbers, stop_scheduler, Typing, store, table, places, history, races, flags
<1>7. SchedTyped'
  BY <1>1 DEF Typed, SchedTyped, PidCounts, Numbers, SchedAts, Holding, NoProcess, stop_scheduler, Typing, store, table, places, history, races, flags
<1>8. Counted'
  BY DEF Typed, Counted, Adding, Numbers, PlacesTyped, CliTyped, SchedTyped, stop_scheduler, Typing, store, table, places, history, races, flags
<1>9. PidCounts'
  BY DEF Typed, PidCounts, Numbers, CliTyped, SchedTyped, Creating, stop_scheduler, Typing, store, table, places, history, races, flags
<1> QED
  BY <1>2, <1>3, <1>4, <1>5, <1>6, <1>7, <1>8, <1>9 DEF Typed

LEMMA ScreenStartReads ==
  ASSUME NEW name, ScreenStart(name)
  PROVE  /\ cli'.at = "pid" /\ cli'.read = next_pid
         /\ \E memory_size \in UserSizes :
              cli'.process = Requested(name, memory_size)
BY DEF ScreenStart

LEMMA ScreenStartTyped ==
  ASSUME Typed, NEW name \in UserNames, ScreenStart(name) PROVE Typed'
<1>1. Made \subseteq Made'
  <2>1. session' = session /\ created' = created
    BY DEF ScreenStart, Typing, NoteOverlap, Creating, AtPrompt
  <2>2. overlapped => overlapped'
    BY DEF ScreenStart, Typing, NoteOverlap, Creating, AtPrompt, races
  <2>3. Numbers /\ created \in Nat
    BY DEF Typed, Numbers
  <2>4. created' \in Nat /\ created' >= created
    BY <2>1, <2>3
  <2> QED
    BY <2>1, <2>2, <2>3, <2>4, MadeGrows
<1>2. Numbers'
  <2>1. /\ MaxCreated \in Nat /\ total \in 0 .. MaxCreated /\ total < MaxCreated
        /\ total' = total + 1 /\ next_pid \in 1 .. total + 1 /\ next_pid' = next_pid
    BY Constants DEF Typed, Numbers, ScreenStart, Typing, NoteOverlap, Creating, AtPrompt, store, table, places, history, races, flags
  <2>2. total' \in 0 .. MaxCreated /\ next_pid' \in 1 .. total' + 1
    BY <2>1
  <2> QED
    BY <2>2 DEF Typed, Numbers, ScreenStart, Typing, NoteOverlap, Creating, AtPrompt, store, table, places, history, races, flags
<1>3. StoreTyped'
  BY <1>1, StillTyped DEF Typed, StoreTyped, ScreenStart, Typing, NoteOverlap, Creating, AtPrompt, store, table, places, history, races, flags
<1>4. StoreSteps'
  BY <1>1, StoreStepsKept, StoreStepsQuiet DEF Typed, StoreSteps, ScreenStart, Typing, NoteOverlap, Creating, AtPrompt, store, table, places, history, races, flags
<1>5. PlacesTyped'
  BY <1>1, StillTyped DEF Typed, PlacesTyped, ScreenStart, Typing, NoteOverlap, Creating, AtPrompt, store, table, places, history, races, flags
<1>6. CliTyped'
  <2>1. \A memory_size \in UserSizes :
          Requested(name, memory_size) \in Process
    BY Constants DEF NoProcess, Process, Requested
  <2>2. next_pid \in Nat
    <3>1. MaxCreated \in Nat /\ total \in 0 .. MaxCreated /\ next_pid \in 1 .. total + 1
      BY Constants DEF Typed, Numbers
    <3> QED
      BY <3>1
  <2>3. PICK memory_size \in UserSizes :
          cli' = [at |-> "pid", read |-> next_pid,
                  process |-> Requested(name, memory_size)]
    BY DEF ScreenStart
  <2> QED
    BY <2>1, <2>2, <2>3 DEF CliTyped, AtPrompt
<1>7. SchedTyped'
  BY <1>1 DEF Typed, SchedTyped, PidCounts, Numbers, SchedAts, Holding, NoProcess, ScreenStart, Typing, NoteOverlap, Creating, AtPrompt, store, table, places, history, races, flags
<1>8. Counted'
  <2>1. /\ cli'.at = "pid" /\ cli'.read = next_pid /\ cli.at = "prompt"
        /\ total' = total + 1
        /\ UNCHANGED <<sched, created, process_count, num_processes, process_table>>
    BY ScreenStartReads DEF ScreenStart, Typing, table, history
  <2>2. /\ MaxCreated \in Nat /\ total \in 0 .. MaxCreated /\ next_pid \in 1 .. total + 1
        /\ created \in Nat /\ process_count \in Nat
    BY Constants DEF Typed, Numbers
  <2> QED
    BY <2>1, <2>2 DEF Typed, Counted, Adding, SchedTyped
<1>9. PidCounts'
  <2>1. /\ cli'.at = "pid" /\ cli'.read = next_pid
        /\ UNCHANGED <<sched, created, next_pid>>
        /\ overlapped' = (overlapped \/ (cli'.at \in Creating /\ sched'.at \in Creating))
    BY ScreenStartReads DEF ScreenStart, NoteOverlap, history
  <2> QED
    BY <2>1 DEF Typed, PidCounts
<1> QED
  BY <1>2, <1>3, <1>4, <1>5, <1>6, <1>7, <1>8, <1>9 DEF Typed

LEMMA ScreenPidTyped ==
  ASSUME Typed, ScreenPid PROVE Typed'
<1>1. Made \subseteq Made'
  <2>1. session' = session /\ created' = created + 1
    BY DEF ScreenPid, Typing, Taken, Start, NoteOverlap, Creating
  <2>2. overlapped => overlapped'
    BY DEF ScreenPid, Typing, Taken, Start, NoteOverlap, Creating, races
  <2>3. Numbers /\ created \in Nat
    BY DEF Typed, Numbers
  <2>4. created' \in Nat /\ created' >= created
    BY <2>1, <2>3
  <2> QED
    BY <2>1, <2>2, <2>3, <2>4, MadeGrows
<1>a. [cli.process EXCEPT !.id = <<session, created'>>, !.pid = cli.read + 1] \in Made'
  <2>1. cli.process \in Process /\ cli.read \in Nat /\ cli.at = "pid"
    BY DEF Typed, CliTyped, ScreenPid, Typing
  <2>2. cli.read + 1 \in Nat /\ session' = session /\ created' = created + 1 /\ Numbers
    BY <2>1 DEF ScreenPid, Typed
  <2>3. ~overlapped' => ~overlapped
    BY DEF ScreenPid, NoteOverlap
  <2>4. ~overlapped' => cli.read + 1 = created' + 1
    BY <2>1, <2>2, <2>3 DEF Typed, PidCounts
  <2> QED
    BY <2>1, <2>2, <2>4, Created
<1>2. Numbers'
  BY DEF Typed, Numbers, Counted, Adding, ScreenPid, Typing, Taken, Start, NoteOverlap, Creating, store, table, places, history, races, flags
<1>3. StoreTyped'
  BY <1>1, StillTyped DEF Typed, StoreTyped, ScreenPid, Typing, Taken, Start, NoteOverlap, Creating, store, table, places, history, races, flags
<1>4. StoreSteps'
  BY <1>1, StoreStepsKept, StoreStepsQuiet DEF Typed, StoreSteps, ScreenPid, Typing, Taken, Start, NoteOverlap, Creating, store, table, places, history, races, flags
<1>5. PlacesTyped'
  BY <1>1, StillTyped, FS_EmptySet, EmptySeq DEF Typed, PlacesTyped, ScreenPid, Typing, Taken, Start, NoteOverlap, Creating, store, table, places, history, races, flags
<1>6. CliTyped'
  <2>1. num_processes \in Nat
    BY DEF Typed, Numbers
  <2>2. [cli.process EXCEPT !.id = <<session, created'>>, !.pid = cli.read + 1] \in Process
    BY <1>a DEF Made
  <2> QED
    BY <1>a, <2>1, <2>2 DEF CliTyped, ScreenPid
<1>7. SchedTyped'
  BY <1>1 DEF Typed, SchedTyped, PidCounts, Numbers, SchedAts, Holding, NoProcess, ScreenPid, Typing, Taken, Start, NoteOverlap, Creating, store, table, places, history, races, flags
<1>8. Counted'
  BY DEF Typed, Counted, Adding, Numbers, PlacesTyped, CliTyped, SchedTyped, ScreenPid, Typing, Taken, Start, NoteOverlap, Creating, store, table, places, history, races, flags
<1>9. PidCounts'
  BY DEF Typed, PidCounts, Numbers, CliTyped, SchedTyped, ScreenPid, Typing, Taken, Start, NoteOverlap, Creating, store, table, places, history, races, flags
<1> QED
  BY <1>2, <1>3, <1>4, <1>5, <1>6, <1>7, <1>8, <1>9 DEF Typed

LEMMA ScreenAddTyped ==
  ASSUME Typed, ScreenAdd PROVE Typed'
<1>1. Made \subseteq Made'
  BY MadeGrows DEF Typed, Numbers, ScreenAdd, Typing, AtPrompt, history, races
<1>a. /\ cli.read \in Nat /\ cli.read <= Len(process_table) /\ cli.process \in Process
      /\ process_table \in Seq(Process) /\ Len(process_table) \in Nat
  BY DEF Typed, CliTyped, Counted, Adding, PlacesTyped, ScreenAdd, Typing, Made
<1>b. /\ process_table' \in Seq(Process) /\ num_processes' = cli.read + 1
      /\ num_processes' <= Len(process_table') /\ Len(process_table') >= Len(process_table)
  BY <1>a, ListedTyped DEF ScreenAdd
<1>c. Len(process_table') \in Nat
  BY <1>b
<1>2. Numbers'
  <2>1. num_processes' \in Nat
    BY <1>a, <1>b
  <2>2. process_count \in Nat /\ process_count' = process_count + 1
    BY DEF Typed, Numbers, ScreenAdd
  <2>3. process_count' \in Nat
    BY <2>2
  <2> QED
    BY <2>1, <2>3 DEF Typed, Numbers, ScreenAdd, Typing, AtPrompt, store, table, places, history, races, flags
<1>3. StoreTyped'
  BY <1>1, StillTyped DEF Typed, StoreTyped, ScreenAdd, Typing, AtPrompt, store, table, places, history, races, flags
<1>4. StoreSteps'
  BY <1>1, StoreStepsKept, StoreStepsQuiet DEF Typed, StoreSteps, ScreenAdd, Typing, AtPrompt, store, table, places, history, races, flags
<1>5. PlacesTyped'
  <2>1. ready' \in Seq(Made)
    BY DEF Typed, PlacesTyped, CliTyped, ScreenAdd, Typing
  <2> QED
    BY <1>1, <1>b, <2>1, StillTyped DEF Typed, PlacesTyped, ScreenAdd, Typing, AtPrompt, store, table, places, history, races, flags
<1>6. CliTyped'
  BY NoProcessTyped DEF CliTyped, ScreenAdd, AtPrompt
<1>7. SchedTyped'
  BY <1>1 DEF Typed, SchedTyped, PidCounts, Numbers, SchedAts, Holding, NoProcess, ScreenAdd, Typing, AtPrompt, store, table, places, history, races, flags
<1>8. Counted'
  <2>1. MaxCreated \in Nat /\ total \in 0 .. MaxCreated /\ created \in Nat /\ process_count \in Nat
    BY Constants DEF Typed, Numbers
  <2>2. cli.read \in Nat /\ sched.read \in Nat
    BY DEF Typed, CliTyped, SchedTyped
  <2>3. total \in Nat
    BY <2>1
  <2> QED
    BY <1>a, <1>b, <1>c, <2>1, <2>2, <2>3 DEF Typed, Counted, Adding, ScreenAdd, Typing, AtPrompt, store, table, places, history, races, flags
<1>9. PidCounts'
  BY DEF Typed, PidCounts, Numbers, CliTyped, SchedTyped, Creating, ScreenAdd, Typing, AtPrompt, store, table, places, history, races, flags
<1> QED
  BY <1>2, <1>3, <1>4, <1>5, <1>6, <1>7, <1>8, <1>9 DEF Typed

LEMMA Screen_create_with_codeTyped ==
  ASSUME Typed, NEW name \in UserNames, screen_create_with_code(name) PROVE Typed'
<1>1. Made \subseteq Made'
  <2>1. session' = session /\ created' = created
    BY DEF screen_create_with_code, Typing, NoteOverlap, Creating, AtPrompt
  <2>2. overlapped => overlapped'
    BY DEF screen_create_with_code, Typing, NoteOverlap, Creating, AtPrompt, races
  <2>3. Numbers /\ created \in Nat
    BY DEF Typed, Numbers
  <2>4. created' \in Nat /\ created' >= created
    BY <2>1, <2>3
  <2> QED
    BY <2>1, <2>2, <2>3, <2>4, MadeGrows
<1>2. Numbers'
  <2>1. /\ MaxCreated \in Nat /\ total \in 0 .. MaxCreated /\ total < MaxCreated
        /\ total' = total + 1 /\ next_pid \in 1 .. total + 1 /\ next_pid' = next_pid
    BY Constants DEF Typed, Numbers, screen_create_with_code, Typing, NoteOverlap, Creating, AtPrompt, store, table, places, history, races, flags
  <2>2. total' \in 0 .. MaxCreated /\ next_pid' \in 1 .. total' + 1
    BY <2>1
  <2> QED
    BY <2>2 DEF Typed, Numbers, screen_create_with_code, Typing, NoteOverlap, Creating, AtPrompt, store, table, places, history, races, flags
<1>3. StoreTyped'
  BY <1>1, StillTyped DEF Typed, StoreTyped, screen_create_with_code, Typing, NoteOverlap, Creating, AtPrompt, store, table, places, history, races, flags
<1>4. StoreSteps'
  BY <1>1, StoreStepsKept, StoreStepsQuiet DEF Typed, StoreSteps, screen_create_with_code, Typing, NoteOverlap, Creating, AtPrompt, store, table, places, history, races, flags
<1>5. PlacesTyped'
  BY <1>1, StillTyped DEF Typed, PlacesTyped, screen_create_with_code, Typing, NoteOverlap, Creating, AtPrompt, store, table, places, history, races, flags
<1>6. CliTyped'
  <2>1. process_count + 1 \in Nat /\ name \in Nat /\ num_processes \in Nat
    <3>1. process_count \in Nat /\ num_processes \in Nat
      BY DEF Typed, Numbers
    <3> QED
      BY <3>1, Constants
  <2>2. [NoProcess EXCEPT !.name = name, !.pid = process_count + 1] \in Process
    BY <2>1, NoProcessTyped DEF Process
  <2> QED
    BY <2>1, <2>2 DEF CliTyped, screen_create_with_code
<1>7. SchedTyped'
  BY <1>1 DEF Typed, SchedTyped, PidCounts, Numbers, SchedAts, Holding, NoProcess, screen_create_with_code, Typing, NoteOverlap, Creating, AtPrompt, store, table, places, history, races, flags
<1>8. Counted'
  BY DEF Typed, Counted, Adding, Numbers, PlacesTyped, CliTyped, SchedTyped, screen_create_with_code, Typing, NoteOverlap, Creating, AtPrompt, store, table, places, history, races, flags
<1>9. PidCounts'
  BY DEF Typed, PidCounts, Numbers, CliTyped, SchedTyped, screen_create_with_code, Typing, NoteOverlap, Creating, AtPrompt, store, table, places, history, races, flags
<1> QED
  BY <1>2, <1>3, <1>4, <1>5, <1>6, <1>7, <1>8, <1>9 DEF Typed

LEMMA ScreenCreateAddTyped ==
  ASSUME Typed, ScreenCreateAdd PROVE Typed'
<1>1. Made \subseteq Made'
  BY MadeGrows DEF Typed, Numbers, ScreenCreateAdd, Typing, AtPrompt, history, races
<1>a. /\ cli.read \in Nat /\ cli.read <= Len(process_table) /\ cli.process \in Process
      /\ process_table \in Seq(Process) /\ Len(process_table) \in Nat
  BY DEF Typed, CliTyped, Counted, Adding, PlacesTyped, ScreenCreateAdd, Typing, Made
<1>b. /\ process_table' \in Seq(Process) /\ num_processes' = cli.read + 1
      /\ num_processes' <= Len(process_table') /\ Len(process_table') >= Len(process_table)
  BY <1>a, ListedTyped DEF ScreenCreateAdd
<1>c. Len(process_table') \in Nat
  BY <1>b
<1>2. Numbers'
  <2>1. num_processes' \in Nat
    BY <1>a, <1>b
  <2> QED
    BY <2>1 DEF Typed, Numbers, ScreenCreateAdd, Typing, AtPrompt, store, table, places, history, races, flags
<1>3. StoreTyped'
  BY <1>1, StillTyped DEF Typed, StoreTyped, ScreenCreateAdd, Typing, AtPrompt, store, table, places, history, races, flags
<1>4. StoreSteps'
  BY <1>1, StoreStepsKept, StoreStepsQuiet DEF Typed, StoreSteps, ScreenCreateAdd, Typing, AtPrompt, store, table, places, history, races, flags
<1>5. PlacesTyped'
  BY <1>1, <1>b, StillTyped DEF Typed, PlacesTyped, ScreenCreateAdd, Typing, AtPrompt, store, table, places, history, races, flags
<1>6. CliTyped'
  BY NoProcessTyped DEF CliTyped, ScreenCreateAdd, AtPrompt
<1>7. SchedTyped'
  BY <1>1 DEF Typed, SchedTyped, PidCounts, Numbers, SchedAts, Holding, NoProcess, ScreenCreateAdd, Typing, AtPrompt, store, table, places, history, races, flags
<1>8. Counted'
  <2>1. MaxCreated \in Nat /\ total \in 0 .. MaxCreated /\ created \in Nat /\ process_count \in Nat
    BY Constants DEF Typed, Numbers
  <2>2. cli.read \in Nat /\ sched.read \in Nat
    BY DEF Typed, CliTyped, SchedTyped
  <2>3. total \in Nat
    BY <2>1
  <2> QED
    BY <1>a, <1>b, <1>c, <2>1, <2>2, <2>3 DEF Typed, Counted, Adding, ScreenCreateAdd, Typing, AtPrompt, store, table, places, history, races, flags
<1>9. PidCounts'
  BY DEF Typed, PidCounts, Numbers, CliTyped, SchedTyped, Creating, ScreenCreateAdd, Typing, AtPrompt, store, table, places, history, races, flags
<1> QED
  BY <1>2, <1>3, <1>4, <1>5, <1>6, <1>7, <1>8, <1>9 DEF Typed

LEMMA ReadFreedNameTyped ==
  ASSUME Typed, ReadFreedName PROVE Typed'
<1>1. Made \subseteq Made'
  <2>1. session' = session /\ created' = created
    BY DEF ReadFreedName, Typing
  <2>2. overlapped => overlapped'
    BY DEF ReadFreedName, Typing, races
  <2>3. Numbers /\ created \in Nat
    BY DEF Typed, Numbers
  <2>4. created' \in Nat /\ created' >= created
    BY <2>1, <2>3
  <2> QED
    BY <2>1, <2>2, <2>3, <2>4, MadeGrows
<1>2. Numbers'
  BY DEF Typed, Numbers, Counted, Adding, ReadFreedName, Typing, store, table, places, history, races, flags
<1>3. StoreTyped'
  BY <1>1, StillTyped DEF Typed, StoreTyped, ReadFreedName, Typing, store, table, places, history, races, flags
<1>4. StoreSteps'
  BY <1>1, StoreStepsKept, StoreStepsQuiet DEF Typed, StoreSteps, ReadFreedName, Typing, store, table, places, history, races, flags
<1>5. PlacesTyped'
  BY <1>1, StillTyped DEF Typed, PlacesTyped, ReadFreedName, Typing, store, table, places, history, races, flags
<1>6. CliTyped'
  BY <1>1 DEF Typed, CliTyped, PidCounts, Numbers, ReadFreedName, Typing, store, table, places, history, races, flags
<1>7. SchedTyped'
  BY <1>1 DEF Typed, SchedTyped, PidCounts, Numbers, SchedAts, Holding, NoProcess, ReadFreedName, Typing, store, table, places, history, races, flags
<1>8. Counted'
  BY DEF Typed, Counted, Adding, Numbers, PlacesTyped, CliTyped, SchedTyped, ReadFreedName, Typing, store, table, places, history, races, flags
<1>9. PidCounts'
  BY DEF Typed, PidCounts, Numbers, CliTyped, SchedTyped, Creating, ReadFreedName, Typing, store, table, places, history, races, flags
<1> QED
  BY <1>2, <1>3, <1>4, <1>5, <1>6, <1>7, <1>8, <1>9 DEF Typed

LEMMA ExitTyped ==
  ASSUME Typed, exit PROVE Typed'
<1>1. Made \subseteq Made'
  BY MadeGrows DEF Typed, Numbers, exit, Typing, StoreEnds, NoIo, AtPrompt, InLoop, history, races
<1>2. Numbers'
  <2>1. /\ MaxSessions \in Nat /\ session \in 1 .. MaxSessions /\ session < MaxSessions
        /\ MaxCreated \in Nat /\ total \in 0 .. MaxCreated /\ total' = total
    BY Constants DEF Typed, Numbers, exit
  <2>2. session + 1 \in 1 .. MaxSessions /\ 1 \in 1 .. total + 1
    BY <2>1
  <2> QED
    BY <2>1, <2>2 DEF Typed, Numbers, exit, Typing, StoreEnds, NoIo, AtPrompt, InLoop, store, table, places, history, races, flags
<1>3. StoreTyped'
  BY <1>1, StillTyped DEF Typed, StoreTyped, exit, Typing, StoreEnds, NoIo, AtPrompt, InLoop, store, table, places, history, races, flags
<1>4. StoreSteps'
  BY <1>1, StoreStepsKept, StoreStepsQuiet DEF Typed, StoreSteps, exit, Typing, StoreEnds, NoIo, AtPrompt, InLoop, store, table, places, history, races, flags
<1>5. PlacesTyped'
  BY <1>1, StillTyped, FS_EmptySet, EmptySeq DEF Typed, PlacesTyped, exit, Typing, StoreEnds, NoIo, AtPrompt, InLoop, store, table, places, history, races, flags
<1>6. CliTyped'
  BY <1>1 DEF Typed, CliTyped, PidCounts, Numbers, exit, Typing, StoreEnds, NoIo, AtPrompt, InLoop, store, table, places, history, races, flags
<1>7. SchedTyped'
  BY NoProcessTyped DEF SchedTyped, exit, InLoop, SchedAts, Holding
<1>8. Counted'
  BY DEF Typed, Counted, Adding, Numbers, PlacesTyped, CliTyped, SchedTyped, exit, Typing, StoreEnds, NoIo, AtPrompt, InLoop, store, table, places, history, races, flags
<1>9. PidCounts'
  BY DEF Typed, PidCounts, Numbers, CliTyped, SchedTyped, Creating, exit, Typing, StoreEnds, NoIo, AtPrompt, InLoop, store, table, places, history, races, flags
<1> QED
  BY <1>2, <1>3, <1>4, <1>5, <1>6, <1>7, <1>8, <1>9 DEF Typed

LEMMA GenerateReadTyped ==
  ASSUME Typed, GenerateRead PROVE Typed'
<1>1. Made \subseteq Made'
  <2>1. session' = session /\ created' = created
    BY DEF GenerateRead, AtWork, InLoop, NoteOverlap, Creating
  <2>2. overlapped => overlapped'
    BY DEF GenerateRead, AtWork, InLoop, NoteOverlap, Creating, races
  <2>3. Numbers /\ created \in Nat
    BY DEF Typed, Numbers
  <2>4. created' \in Nat /\ created' >= created
    BY <2>1, <2>3
  <2> QED
    BY <2>1, <2>2, <2>3, <2>4, MadeGrows
<1>2. Numbers'
  <2>1. /\ MaxCreated \in Nat /\ total \in 0 .. MaxCreated /\ total < MaxCreated
        /\ total' = total + 1 /\ next_pid \in 1 .. total + 1 /\ next_pid' = next_pid
    BY Constants DEF Typed, Numbers, GenerateRead, AtWork, InLoop, NoteOverlap, Creating, store, table, places, history, races, flags
  <2>2. total' \in 0 .. MaxCreated /\ next_pid' \in 1 .. total' + 1
    BY <2>1
  <2> QED
    BY <2>2 DEF Typed, Numbers, GenerateRead, AtWork, InLoop, NoteOverlap, Creating, store, table, places, history, races, flags
<1>3. StoreTyped'
  BY <1>1, StillTyped DEF Typed, StoreTyped, GenerateRead, AtWork, InLoop, NoteOverlap, Creating, store, table, places, history, races, flags
<1>4. StoreSteps'
  BY <1>1, StoreStepsKept, StoreStepsQuiet DEF Typed, StoreSteps, GenerateRead, AtWork, InLoop, NoteOverlap, Creating, store, table, places, history, races, flags
<1>5. PlacesTyped'
  BY <1>1, StillTyped DEF Typed, PlacesTyped, GenerateRead, AtWork, InLoop, NoteOverlap, Creating, store, table, places, history, races, flags
<1>6. CliTyped'
  BY <1>1 DEF Typed, CliTyped, PidCounts, Numbers, GenerateRead, AtWork, InLoop, NoteOverlap, Creating, store, table, places, history, races, flags
<1>7. SchedTyped'
  <2>1. next_pid \in Nat
    <3>1. MaxCreated \in Nat /\ total \in 0 .. MaxCreated /\ next_pid \in 1 .. total + 1
      BY Constants DEF Typed, Numbers
    <3> QED
      BY <3>1
  <2> QED
    BY <2>1, NoProcessTyped DEF SchedTyped, GenerateRead, InLoop, SchedAts, Holding
<1>8. Counted'
  BY DEF Typed, Counted, Adding, Numbers, PlacesTyped, CliTyped, SchedTyped, GenerateRead, AtWork, InLoop, NoteOverlap, Creating, store, table, places, history, races, flags
<1>9. PidCounts'
  BY DEF Typed, PidCounts, Numbers, CliTyped, SchedTyped, GenerateRead, AtWork, InLoop, NoteOverlap, Creating, store, table, places, history, races, flags
<1> QED
  BY <1>2, <1>3, <1>4, <1>5, <1>6, <1>7, <1>8, <1>9 DEF Typed

LEMMA GeneratePidTyped ==
  ASSUME Typed, GeneratePid PROVE Typed'
<1>1. Made \subseteq Made'
  <2>1. session' = session /\ created' = created + 1
    BY DEF GeneratePid, AtWork, Taken, InLoop, NoteOverlap, Creating
  <2>2. overlapped => overlapped'
    BY DEF GeneratePid, AtWork, Taken, InLoop, NoteOverlap, Creating, races
  <2>3. Numbers /\ created \in Nat
    BY DEF Typed, Numbers
  <2>4. created' \in Nat /\ created' >= created
    BY <2>1, <2>3
  <2> QED
    BY <2>1, <2>2, <2>3, <2>4, MadeGrows
<1>a. [NoProcess EXCEPT !.id = <<session, created'>>, !.name = sched.read + 1,
         !.pid = sched.read + 1] \in Made'
  <2>1. sched.read \in Nat /\ sched.at = "pid"
    BY DEF Typed, SchedTyped, GeneratePid, AtWork
  <2>2. sched.read + 1 \in Nat /\ session' = session /\ created' = created + 1 /\ Numbers
    BY <2>1 DEF GeneratePid, Typed
  <2>3. ~overlapped' => ~overlapped
    BY DEF GeneratePid, NoteOverlap
  <2>4. ~overlapped' => sched.read + 1 = created' + 1
    BY <2>1, <2>2, <2>3 DEF Typed, PidCounts
  <2>5. [NoProcess EXCEPT !.name = sched.read + 1] \in Process
    BY <2>2, NoProcessTyped DEF Process
  <2>6. [[NoProcess EXCEPT !.name = sched.read + 1] EXCEPT !.id = <<session, created'>>,
           !.pid = sched.read + 1] \in Made'
    BY <2>2, <2>4, <2>5, Created
  <2>7. [[NoProcess EXCEPT !.name = sched.read + 1] EXCEPT !.id = <<session, created'>>,
           !.pid = sched.read + 1]
          = [NoProcess EXCEPT !.id = <<session, created'>>, !.name = sched.read + 1,
               !.pid = sched.read + 1]
    BY DEF NoProcess
  <2> QED
    BY <2>6, <2>7
<1>2. Numbers'
  BY DEF Typed, Numbers, Counted, Adding, GeneratePid, AtWork, Taken, InLoop, NoteOverlap, Creating, store, table, places, history, races, flags
<1>3. StoreTyped'
  BY <1>1, StillTyped DEF Typed, StoreTyped, GeneratePid, AtWork, Taken, InLoop, NoteOverlap, Creating, store, table, places, history, races, flags
<1>4. StoreSteps'
  BY <1>1, StoreStepsKept, StoreStepsQuiet DEF Typed, StoreSteps, GeneratePid, AtWork, Taken, InLoop, NoteOverlap, Creating, store, table, places, history, races, flags
<1>5. PlacesTyped'
  BY <1>1, StillTyped DEF Typed, PlacesTyped, GeneratePid, AtWork, Taken, InLoop, NoteOverlap, Creating, store, table, places, history, races, flags
<1>6. CliTyped'
  BY <1>1 DEF Typed, CliTyped, PidCounts, Numbers, GeneratePid, AtWork, Taken, InLoop, NoteOverlap, Creating, store, table, places, history, races, flags
<1>7. SchedTyped'
  <2>1. num_processes \in Nat
    BY DEF Typed, Numbers
  <2>2. [NoProcess EXCEPT !.id = <<session, created'>>, !.name = sched.read + 1,
           !.pid = sched.read + 1] \in Process
    BY <1>a DEF Made
  <2> QED
    BY <1>a, <2>1, <2>2, NoProcessTyped DEF SchedTyped, GeneratePid, InLoop, SchedAts, Holding
<1>8. Counted'
  BY DEF Typed, Counted, Adding, Numbers, PlacesTyped, CliTyped, SchedTyped, GeneratePid, AtWork, Taken, InLoop, NoteOverlap, Creating, store, table, places, history, races, flags
<1>9. PidCounts'
  BY DEF Typed, PidCounts, Numbers, CliTyped, SchedTyped, GeneratePid, AtWork, Taken, InLoop, NoteOverlap, Creating, store, table, places, history, races, flags
<1> QED
  BY <1>2, <1>3, <1>4, <1>5, <1>6, <1>7, <1>8, <1>9 DEF Typed

LEMMA GenerateAddTyped ==
  ASSUME Typed, GenerateAdd PROVE Typed'
<1>1. Made \subseteq Made'
  BY MadeGrows DEF Typed, Numbers, GenerateAdd, AtWork, InLoop, history, races
<1>a. /\ sched.read \in Nat /\ sched.read <= Len(process_table) /\ sched.process \in Process
      /\ process_table \in Seq(Process) /\ Len(process_table) \in Nat
  BY DEF Typed, SchedTyped, Counted, Adding, PlacesTyped, GenerateAdd, AtWork, Made
<1>b. /\ process_table' \in Seq(Process) /\ num_processes' = sched.read + 1
      /\ num_processes' <= Len(process_table') /\ Len(process_table') >= Len(process_table)
  BY <1>a, ListedTyped DEF GenerateAdd
<1>c. Len(process_table') \in Nat
  BY <1>b
<1>2. Numbers'
  <2>1. num_processes' \in Nat
    BY <1>a, <1>b
  <2> QED
    BY <2>1 DEF Typed, Numbers, GenerateAdd, AtWork, InLoop, store, table, places, history, races, flags
<1>3. StoreTyped'
  BY <1>1, StillTyped DEF Typed, StoreTyped, GenerateAdd, AtWork, InLoop, store, table, places, history, races, flags
<1>4. StoreSteps'
  BY <1>1, StoreStepsKept, StoreStepsQuiet DEF Typed, StoreSteps, GenerateAdd, AtWork, InLoop, store, table, places, history, races, flags
<1>5. PlacesTyped'
  <2>1. ready' \in Seq(Made)
    BY DEF Typed, PlacesTyped, SchedTyped, GenerateAdd, AtWork, Holding
  <2> QED
    BY <1>1, <1>b, <2>1, StillTyped DEF Typed, PlacesTyped, GenerateAdd, AtWork, InLoop, store, table, places, history, races, flags
<1>6. CliTyped'
  BY <1>1 DEF Typed, CliTyped, PidCounts, Numbers, GenerateAdd, AtWork, InLoop, store, table, places, history, races, flags
<1>7. SchedTyped'
  BY <1>1 DEF Typed, SchedTyped, PidCounts, Numbers, SchedAts, Holding, NoProcess, GenerateAdd, AtWork, InLoop, store, table, places, history, races, flags
<1>8. Counted'
  <2>1. MaxCreated \in Nat /\ total \in 0 .. MaxCreated /\ created \in Nat /\ process_count \in Nat
    BY Constants DEF Typed, Numbers
  <2>2. cli.read \in Nat /\ sched.read \in Nat
    BY DEF Typed, CliTyped, SchedTyped
  <2>3. total \in Nat
    BY <2>1
  <2> QED
    BY <1>a, <1>b, <1>c, <2>1, <2>2, <2>3 DEF Typed, Counted, Adding, GenerateAdd, AtWork, InLoop, store, table, places, history, races, flags
<1>9. PidCounts'
  BY DEF Typed, PidCounts, Numbers, CliTyped, SchedTyped, Creating, GenerateAdd, AtWork, InLoop, store, table, places, history, races, flags
<1> QED
  BY <1>2, <1>3, <1>4, <1>5, <1>6, <1>7, <1>8, <1>9 DEF Typed

LEMMA DispatchTyped ==
  ASSUME Typed, Dispatch PROVE Typed'
<1>1. Made \subseteq Made'
  BY MadeGrows DEF Typed, Numbers, Dispatch, AtWork, history, races
<1>2. Numbers'
  BY DEF Typed, Numbers, Counted, Adding, Dispatch, AtWork, store, table, places, history, races, flags
<1>3. StoreTyped'
  BY <1>1, StillTyped DEF Typed, StoreTyped, Dispatch, AtWork, store, table, places, history, races, flags
<1>4. StoreSteps'
  BY <1>1, StoreStepsKept, StoreStepsQuiet DEF Typed, StoreSteps, Dispatch, AtWork, store, table, places, history, races, flags
<1>5. PlacesTyped'
  <2> DEFINE p == Head(ready)
  <2>1. ready \in Seq(Made) /\ ready # <<>> /\ on \in SUBSET Made /\ IsFiniteSet(on)
        /\ blocks \in SUBSET BlockSet /\ IsFiniteSet(blocks)
    BY DEF Typed, PlacesTyped, Dispatch
  <2>2. p \in Made /\ Tail(ready) \in Seq(Made)
    BY <2>1, HeadTailProperties
  <2>3. /\ on' = on \cup {[p EXCEPT !.in_memory = 1]} /\ ready' = Tail(ready)
        /\ \/ blocks' = blocks
           \/ blocks' = Allocated(p, blocks) /\ Fits(p.memory_allocation, blocks)
    BY DEF Dispatch
  <2> HIDE DEF p
  <2>4. [p EXCEPT !.in_memory = 1] \in Made /\ p \in Process
    BY <2>2, Marked
  <2>5. blocks' \in SUBSET BlockSet /\ IsFiniteSet(blocks')
    BY <2>1, <2>3, <2>4, AllocatedTyped
  <2>6. IsFiniteSet(on \cup {[p EXCEPT !.in_memory = 1]})
    BY <2>1, FS_AddElement, Zenon
  <2>7. IsFiniteSet(on')
    BY <2>1, <2>3, <2>6, Zenon
  <2>8. on' \in SUBSET Made /\ ready' \in Seq(Made)
    BY <2>1, <2>2, <2>3, <2>4
  <2> QED
    BY <1>1, <2>5, <2>7, <2>8, StillTyped DEF Typed, PlacesTyped, Dispatch, table
<1>6. CliTyped'
  BY <1>1 DEF Typed, CliTyped, PidCounts, Numbers, Dispatch, AtWork, store, table, places, history, races, flags
<1>7. SchedTyped'
  BY <1>1 DEF Typed, SchedTyped, PidCounts, Numbers, SchedAts, Holding, NoProcess, Dispatch, AtWork, store, table, places, history, races, flags
<1>8. Counted'
  BY DEF Typed, Counted, Adding, Numbers, PlacesTyped, CliTyped, SchedTyped, Dispatch, AtWork, store, table, places, history, races, flags
<1>9. PidCounts'
  BY DEF Typed, PidCounts, Numbers, CliTyped, SchedTyped, Creating, Dispatch, AtWork, store, table, places, history, races, flags
<1> QED
  BY <1>2, <1>3, <1>4, <1>5, <1>6, <1>7, <1>8, <1>9 DEF Typed

LEMMA DispatchToStoreTyped ==
  ASSUME Typed, DispatchToStore PROVE Typed'
<1>1. Made \subseteq Made'
  BY MadeGrows DEF Typed, Numbers, DispatchToStore, AtWork, BeginAppend, InLoop, history, races
<1>a. /\ Head(ready) \in Made /\ Head(ready) \in Process /\ Tail(ready) \in Seq(Made)
  <2>1. ready \in Seq(Made) /\ ready # <<>>
    BY DEF Typed, PlacesTyped, DispatchToStore
  <2> QED
    BY <2>1, HeadTailProperties DEF Made
<1>b. /\ io' = [op |-> "append", cells |-> Written(Head(ready))] /\ file' = file
      /\ file \in Seq(Cells) /\ Made' = Made
  BY DEF DispatchToStore, BeginAppend, Typed, StoreTyped, Made, history, races
<1>c. WritingIn(file, io', Made, Head(ready)) /\ Written(Head(ready)) \in Seq(Cells)
  BY <1>a, <1>b, WritingBegins DEF Cells
<1>d. sched' = [InLoop EXCEPT !.at = "storing", !.process = Head(ready)]
  BY DEF DispatchToStore
<1>2. Numbers'
  BY DEF Typed, Numbers, Counted, Adding, DispatchToStore, AtWork, BeginAppend, InLoop, store, table, places, history, races, flags
<1>3. StoreTyped'
  <2>1. io' \in [op : {"none", "append", "truncate", "rewrite"}, cells : Seq(Cells)]
    BY <1>b, <1>c
  <2> QED
    BY <1>1, <1>b, <2>1, StillTyped DEF StoreTyped
<1>4. StoreSteps'
  <2>1. sched'.at = "storing" /\ sched'.process = Head(ready)
    BY <1>d DEF InLoop
  <2>2. Writing(Target)'
    BY <1>b, <1>c, <2>1 DEF Writing, Target
  <2> QED
    BY <2>1, <2>2 DEF StoreSteps
<1>5. PlacesTyped'
  BY <1>1, StillTyped DEF Typed, PlacesTyped, DispatchToStore, AtWork, BeginAppend, InLoop, store, table, places, history, races, flags
<1>6. CliTyped'
  BY <1>1 DEF Typed, CliTyped, PidCounts, Numbers, DispatchToStore, AtWork, BeginAppend, InLoop, store, table, places, history, races, flags
<1>7. SchedTyped'
  <2>1. Head(ready) \in Made' /\ Head(ready) \in Process
    BY <1>1, <1>a
  <2> QED
    BY <1>d, <2>1, NoProcessTyped DEF SchedTyped, InLoop, SchedAts, Holding
<1>8. Counted'
  BY DEF Typed, Counted, Adding, Numbers, PlacesTyped, CliTyped, SchedTyped, DispatchToStore, AtWork, BeginAppend, InLoop, store, table, places, history, races, flags
<1>9. PidCounts'
  BY DEF Typed, PidCounts, Numbers, CliTyped, SchedTyped, Creating, DispatchToStore, AtWork, BeginAppend, InLoop, store, table, places, history, races, flags
<1> QED
  BY <1>2, <1>3, <1>4, <1>5, <1>6, <1>7, <1>8, <1>9 DEF Typed

LEMMA FreeStoredTyped ==
  ASSUME Typed, FreeStored PROVE Typed'
<1>1. Made \subseteq Made'
  BY MadeGrows DEF Typed, Numbers, FreeStored, AtWork, InLoop, history, races
<1>2. Numbers'
  BY DEF Typed, Numbers, Counted, Adding, FreeStored, AtWork, InLoop, store, table, places, history, races, flags
<1>3. StoreTyped'
  BY <1>1, StillTyped DEF Typed, StoreTyped, FreeStored, AtWork, InLoop, store, table, places, history, races, flags
<1>4. StoreSteps'
  <2>1. io' = NoIo /\ sched'.at = "loop"
    BY QuietIsNoIo DEF FreeStored, store, InLoop
  <2> QED
    BY <2>1, StoreStepsQuiet
<1>5. PlacesTyped'
  BY <1>1, StillTyped DEF Typed, PlacesTyped, FreeStored, AtWork, InLoop, store, table, places, history, races, flags
<1>6. CliTyped'
  BY <1>1 DEF Typed, CliTyped, PidCounts, Numbers, FreeStored, AtWork, InLoop, store, table, places, history, races, flags
<1>7. SchedTyped'
  BY <1>1 DEF Typed, SchedTyped, PidCounts, Numbers, SchedAts, Holding, NoProcess, FreeStored, AtWork, InLoop, store, table, places, history, races, flags
<1>8. Counted'
  BY DEF Typed, Counted, Adding, Numbers, PlacesTyped, CliTyped, SchedTyped, FreeStored, AtWork, InLoop, store, table, places, history, races, flags
<1>9. PidCounts'
  BY DEF Typed, PidCounts, Numbers, CliTyped, SchedTyped, Creating, FreeStored, AtWork, InLoop, store, table, places, history, races, flags
<1> QED
  BY <1>2, <1>3, <1>4, <1>5, <1>6, <1>7, <1>8, <1>9 DEF Typed

LEMMA PreemptTyped ==
  ASSUME Typed, Preempt PROVE Typed'
<1>1. Made \subseteq Made'
  BY MadeGrows DEF Typed, Numbers, Preempt, AtWork, history, races
<1>2. Numbers'
  BY DEF Typed, Numbers, Counted, Adding, Preempt, AtWork, store, table, places, history, races, flags
<1>3. StoreTyped'
  BY <1>1, StillTyped DEF Typed, StoreTyped, Preempt, AtWork, store, table, places, history, races, flags
<1>4. StoreSteps'
  BY <1>1, StoreStepsKept, StoreStepsQuiet DEF Typed, StoreSteps, Preempt, AtWork, store, table, places, history, races, flags
<1>5. PlacesTyped'
  <2>1. PICK p \in on : on' = on \ {p} /\ ready' = Append(ready, p)
    BY DEF Preempt
  <2>2. ready \in Seq(Made) /\ on \in SUBSET Made /\ IsFiniteSet(on)
    BY DEF Typed, PlacesTyped
  <2>3. ready' \in Seq(Made) /\ on' \in SUBSET Made
    BY <2>1, <2>2
  <2>4. IsFiniteSet(on')
    BY <2>1, <2>2, FS_RemoveElement
  <2> QED
    BY <1>1, <2>3, <2>4, StillTyped DEF Typed, PlacesTyped, Preempt, table
<1>6. CliTyped'
  BY <1>1 DEF Typed, CliTyped, PidCounts, Numbers, Preempt, AtWork, store, table, places, history, races, flags
<1>7. SchedTyped'
  BY <1>1 DEF Typed, SchedTyped, PidCounts, Numbers, SchedAts, Holding, NoProcess, Preempt, AtWork, store, table, places, history, races, flags
<1>8. Counted'
  BY DEF Typed, Counted, Adding, Numbers, PlacesTyped, CliTyped, SchedTyped, Preempt, AtWork, store, table, places, history, races, flags
<1>9. PidCounts'
  BY DEF Typed, PidCounts, Numbers, CliTyped, SchedTyped, Creating, Preempt, AtWork, store, table, places, history, races, flags
<1> QED
  BY <1>2, <1>3, <1>4, <1>5, <1>6, <1>7, <1>8, <1>9 DEF Typed

LEMMA SwapInTyped ==
  ASSUME Typed, SwapIn PROVE Typed'
<1>1. Made \subseteq Made'
  BY MadeGrows DEF Typed, Numbers, SwapIn, AtWork, BeginRemove, InLoop, history, races
<1>a. /\ FirstProcess \in Made /\ Rest \in Seq(Cells) /\ file \in Seq(Cells)
      /\ ReadsIn(file)
  BY FirstTyped, OfTheFile DEF Typed, StoreTyped, Cells, SwapIn
<1>b. /\ io' = [op |-> "truncate", cells |-> Rest] /\ file' = file /\ Made' = Made
      /\ sched' = [InLoop EXCEPT !.at = "removing", !.process = Image]
  BY DEF SwapIn, BeginRemove, Made, history, races
<1>c. Image \in Made /\ Image \in Process
  BY <1>a, Marked DEF Image
<1>2. Numbers'
  BY DEF Typed, Numbers, Counted, Adding, SwapIn, AtWork, BeginRemove, InLoop, store, table, places, history, races, flags
<1>3. StoreTyped'
  <2>1. io' \in [op : {"none", "append", "truncate", "rewrite"}, cells : Seq(Cells)]
    BY <1>a, <1>b
  <2> QED
    BY <1>1, <1>a, <1>b, <2>1, StillTyped DEF StoreTyped
<1>4. StoreSteps'
  <2>1. sched'.at = "removing" /\ sched'.process = Image
    BY <1>b DEF InLoop
  <2>2. Rest' = Rest /\ Image' = Image /\ ReadsEntry'
    BY <1>b DEF Rest, Image, FirstProcess, ReadsEntry, SwapIn
  <2> QED
    BY <1>b, <2>1, <2>2 DEF StoreSteps, Reading
<1>5. PlacesTyped'
  <2>1. /\ blocks' = Allocated(FirstProcess, blocks) /\ FirstProcess \in Process
        /\ Fits(FirstProcess.memory_allocation, blocks)
    BY <1>a, Marked DEF SwapIn
  <2>2. blocks' \in SUBSET BlockSet /\ IsFiniteSet(blocks')
    BY <2>1, AllocatedTyped DEF Typed, PlacesTyped
  <2> QED
    BY <1>1, <2>2, StillTyped DEF Typed, PlacesTyped, SwapIn, table
<1>6. CliTyped'
  BY <1>1 DEF Typed, CliTyped, PidCounts, Numbers, SwapIn, AtWork, BeginRemove, InLoop, store, table, places, history, races, flags
<1>7. SchedTyped'
  <2>1. Image \in Made'
    BY <1>1, <1>c
  <2> QED
    BY <1>b, <1>c, <2>1, NoProcessTyped DEF SchedTyped, InLoop, SchedAts, Holding
<1>8. Counted'
  BY DEF Typed, Counted, Adding, Numbers, PlacesTyped, CliTyped, SchedTyped, SwapIn, AtWork, BeginRemove, InLoop, store, table, places, history, races, flags
<1>9. PidCounts'
  BY DEF Typed, PidCounts, Numbers, CliTyped, SchedTyped, Creating, SwapIn, AtWork, BeginRemove, InLoop, store, table, places, history, races, flags
<1> QED
  BY <1>2, <1>3, <1>4, <1>5, <1>6, <1>7, <1>8, <1>9 DEF Typed

LEMMA SwapOutTyped ==
  ASSUME Typed, SwapOut PROVE Typed'
<1>1. Made \subseteq Made'
  BY MadeGrows DEF Typed, Numbers, SwapOut, AtWork, BeginAppend, InLoop, history, races
<1>a. /\ FirstProcess \in Made /\ file \in Seq(Cells) /\ ReadsIn(file)
  BY FirstTyped, OfTheFile DEF Typed, StoreTyped, Cells, SwapOut
<1>0. PICK p \in on : \E n \in {p.num_var, 1} :
        LET victim == [p EXCEPT !.num_var = n]
        IN  /\ BeginAppend(victim)
            /\ sched' = [InLoop EXCEPT !.at = "victim", !.process = Image, !.victim = victim]
  BY DEF SwapOut
<1>b. PICK n \in {p.num_var, 1} :
        LET victim == [p EXCEPT !.num_var = n]
        IN  /\ BeginAppend(victim)
            /\ sched' = [InLoop EXCEPT !.at = "victim", !.process = Image, !.victim = victim]
  BY <1>0
<1> DEFINE victim == [p EXCEPT !.num_var = n]
<1>c. Image \in Made /\ Image \in Process /\ victim \in Made /\ victim \in Process
  <2>1. p \in Made
    BY DEF Typed, PlacesTyped
  <2> QED
    BY <1>a, <2>1, Marked DEF Image
<1>d. /\ io' = [op |-> "append", cells |-> Written(victim)] /\ file' = file
      /\ Made' = Made
      /\ sched' = [InLoop EXCEPT !.at = "victim", !.process = Image, !.victim = victim]
  BY <1>b DEF BeginAppend, SwapOut, Made, history, races
<1> HIDE DEF victim
<1>e. WritingIn(file, io', Made, victim) /\ Written(victim) \in Seq(Cells)
  BY <1>a, <1>c, <1>d, WritingBegins DEF Cells
<1>2. Numbers'
  BY DEF Typed, Numbers, Counted, Adding, SwapOut, AtWork, BeginAppend, InLoop, store, table, places, history, races, flags
<1>3. StoreTyped'
  <2>1. io' \in [op : {"none", "append", "truncate", "rewrite"}, cells : Seq(Cells)]
    BY <1>d, <1>e
  <2> QED
    BY <1>1, <1>a, <1>d, <2>1, StillTyped DEF StoreTyped
<1>4. StoreSteps'
  <2>1. sched'.at = "victim" /\ sched'.process = Image /\ sched'.victim = victim
    BY <1>d DEF InLoop
  <2>2. Writing(Target)'
    BY <1>d, <1>e, <2>1 DEF Writing, Target
  <2>3. Image' = Image /\ ReadsEntry'
    BY <1>d DEF Image, FirstProcess, ReadsEntry, SwapOut
  <2> QED
    BY <2>1, <2>2, <2>3 DEF StoreSteps, Reading
<1>5. PlacesTyped'
  BY <1>1, StillTyped DEF Typed, PlacesTyped, SwapOut, AtWork, BeginAppend, InLoop, store, table, places, history, races, flags
<1>6. CliTyped'
  BY <1>1 DEF Typed, CliTyped, PidCounts, Numbers, SwapOut, AtWork, BeginAppend, InLoop, store, table, places, history, races, flags
<1>7. SchedTyped'
  <2>1. Image \in Made' /\ victim \in Made'
    BY <1>1, <1>c
  <2> QED
    BY <1>c, <1>d, <2>1 DEF SchedTyped, InLoop, SchedAts, Holding
<1>8. Counted'
  BY DEF Typed, Counted, Adding, Numbers, PlacesTyped, CliTyped, SchedTyped, SwapOut, AtWork, BeginAppend, InLoop, store, table, places, history, races, flags
<1>9. PidCounts'
  BY DEF Typed, PidCounts, Numbers, CliTyped, SchedTyped, Creating, SwapOut, AtWork, BeginAppend, InLoop, store, table, places, history, races, flags
<1> QED
  BY <1>2, <1>3, <1>4, <1>5, <1>6, <1>7, <1>8, <1>9 DEF Typed

LEMMA SwapOverTyped ==
  ASSUME Typed, SwapOver PROVE Typed'
<1>1. Made \subseteq Made'
  BY MadeGrows DEF Typed, Numbers, SwapOver, AtWork, BeginRemove, InLoop, history, races
<1> DEFINE rest == Released(sched.victim)
<1>a. \/ /\ Fits(sched.process.memory_allocation, rest)
         /\ blocks' = Allocated(sched.process, rest) /\ BeginRemove
         /\ sched' = [sched EXCEPT !.at = "removing", !.victim = NoProcess]
      \/ blocks' = rest /\ sched' = InLoop /\ UNCHANGED store
  BY DEF SwapOver
<1> HIDE DEF rest
<1>b. /\ sched.at = "victim" /\ io = NoIo /\ Reading /\ sched.process \in Made
      /\ Made' = Made /\ on' = {p \in on : p.id # sched.victim.id}
      /\ sched \in [at : SchedAts, read : Nat, process : Process, victim : Process]
  BY QuietIsNoIo DEF Typed, StoreSteps, SchedTyped, Holding, SwapOver, AtWork, Made, races
<1>c. /\ file \in Seq(Cells) /\ Rest \in Seq(Cells) /\ ReadsEntry /\ sched.process = Image
  <2>1. file \in Seq(Cells) /\ ReadsIn(file)
    BY <1>b, OfTheFile DEF Typed, StoreTyped, Reading
  <2> QED
    BY <1>b, <2>1, FirstTyped, OfTheFile DEF Cells, Reading
<1>d. /\ file' = file
      /\ \/ /\ io' = [op |-> "truncate", cells |-> Rest]
            /\ sched' = [sched EXCEPT !.at = "removing", !.victim = NoProcess]
         \/ io' = NoIo /\ sched' = InLoop
  BY <1>a, <1>b DEF BeginRemove, store
<1> DEFINE s == [sched EXCEPT !.at = "removing", !.victim = NoProcess]
<1>e. /\ s.at = "removing" /\ s.process = sched.process /\ s.victim = NoProcess
      /\ s \in [at : SchedAts, read : Nat, process : Process, victim : Process]
  BY <1>b, NoProcessTyped DEF SchedAts
<1>f. /\ file' = file
      /\ \/ io' = [op |-> "truncate", cells |-> Rest] /\ sched' = s
         \/ io' = NoIo /\ sched' = InLoop
  BY <1>d
<1> HIDE DEF s
<1>2. Numbers'
  BY DEF Typed, Numbers, Counted, Adding, SwapOver, AtWork, BeginRemove, InLoop, store, table, places, history, races, flags
<1>3. StoreTyped'
  <2>1. NoIo \in [op : {"none", "append", "truncate", "rewrite"}, cells : Seq(Cells)]
    BY EmptySeq DEF NoIo
  <2>2. io' \in [op : {"none", "append", "truncate", "rewrite"}, cells : Seq(Cells)]
    BY <1>c, <1>f, <2>1
  <2> QED
    BY <1>1, <1>c, <1>f, <2>2, StillTyped DEF StoreTyped
<1>4. StoreSteps'
  <2>1. CASE io' = NoIo /\ sched' = InLoop
    BY <2>1, StoreStepsQuiet DEF InLoop
  <2>2. CASE io' = [op |-> "truncate", cells |-> Rest] /\ sched' = s
    <3>1. sched'.at = "removing" /\ sched'.process = Image
      BY <1>c, <1>e, <2>2
    <3>2. Rest' = Rest /\ Image' = Image /\ ReadsEntry'
      BY <1>c, <1>d DEF Rest, Image, FirstProcess, ReadsEntry
    <3> QED
      BY <2>2, <3>1, <3>2 DEF StoreSteps, Reading
  <2> QED
    BY <1>f, <2>1, <2>2
<1>5. PlacesTyped'
  <2>1. rest \in SUBSET BlockSet /\ IsFiniteSet(rest) /\ sched.process \in Process
    BY <1>b, ReleasedTyped, Marked DEF Typed, PlacesTyped, rest
  <2>2. blocks' \in SUBSET BlockSet /\ IsFiniteSet(blocks')
    BY <1>a, <2>1, AllocatedTyped
  <2>3. on' \subseteq on /\ IsFiniteSet(on')
    <3>1. on' \subseteq on
      BY <1>b
    <3> QED
      BY <3>1, FS_Subset DEF Typed, PlacesTyped
  <2> QED
    BY <1>1, <2>2, <2>3, StillTyped DEF Typed, PlacesTyped, SwapOver, table
<1>6. CliTyped'
  BY <1>1 DEF Typed, CliTyped, PidCounts, Numbers, SwapOver, AtWork, BeginRemove, InLoop, store, table, places, history, races, flags
<1>7. SchedTyped'
  <2>1. sched.process \in Made'
    BY <1>1, <1>b
  <2>2. CASE sched' = s
    BY <1>e, <2>1, <2>2 DEF SchedTyped, Holding
  <2>3. CASE sched' = InLoop
    BY <2>3, NoProcessTyped DEF SchedTyped, InLoop, SchedAts, Holding
  <2> QED
    BY <1>f, <2>2, <2>3
<1>8. Counted'
  <2>1. sched'.at \in {"removing", "loop"}
    BY <1>e, <1>f DEF InLoop
  <2>2. /\ cli' = cli /\ total' = total /\ created' = created /\ table' = table
        /\ next_pid' = next_pid /\ overlapped' = overlapped /\ sched.at = "victim"
    BY <1>b DEF SwapOver, races
  <2> QED
    BY <2>1, <2>2 DEF Typed, Counted, Adding, Numbers, CliTyped, SchedTyped, table
<1>9. PidCounts'
  <2>1. sched'.at \in {"removing", "loop"}
    BY <1>e, <1>f DEF InLoop
  <2>2. /\ cli' = cli /\ total' = total /\ created' = created /\ table' = table
        /\ next_pid' = next_pid /\ overlapped' = overlapped /\ sched.at = "victim"
    BY <1>b DEF SwapOver, races
  <2> QED
    BY <2>1, <2>2 DEF Typed, PidCounts, Creating, table
<1> QED
  BY <1>2, <1>3, <1>4, <1>5, <1>6, <1>7, <1>8, <1>9 DEF Typed

LEMMA EndRemoveTyped ==
  ASSUME Typed, EndRemove PROVE Typed'
<1>1. Made \subseteq Made'
  BY MadeGrows DEF Typed, Numbers, EndRemove, AtWork, InLoop, history, races
<1>2. Numbers'
  BY DEF Typed, Numbers, Counted, Adding, EndRemove, AtWork, InLoop, store, table, places, history, races, flags
<1>3. StoreTyped'
  BY <1>1, StillTyped DEF Typed, StoreTyped, EndRemove, AtWork, InLoop, store, table, places, history, races, flags
<1>4. StoreSteps'
  <2>1. io' = NoIo /\ sched'.at = "loop"
    BY QuietIsNoIo DEF EndRemove, store, InLoop
  <2> QED
    BY <2>1, StoreStepsQuiet
<1>5. PlacesTyped'
  <2>1. ready' \in Seq(Made)
    BY DEF Typed, PlacesTyped, SchedTyped, EndRemove, AtWork, Holding
  <2> QED
    BY <1>1, <2>1, StillTyped DEF Typed, PlacesTyped, EndRemove, table
<1>6. CliTyped'
  BY <1>1 DEF Typed, CliTyped, PidCounts, Numbers, EndRemove, AtWork, InLoop, store, table, places, history, races, flags
<1>7. SchedTyped'
  BY <1>1 DEF Typed, SchedTyped, PidCounts, Numbers, SchedAts, Holding, NoProcess, EndRemove, AtWork, InLoop, store, table, places, history, races, flags
<1>8. Counted'
  BY DEF Typed, Counted, Adding, Numbers, PlacesTyped, CliTyped, SchedTyped, EndRemove, AtWork, InLoop, store, table, places, history, races, flags
<1>9. PidCounts'
  BY DEF Typed, PidCounts, Numbers, CliTyped, SchedTyped, Creating, EndRemove, AtWork, InLoop, store, table, places, history, races, flags
<1> QED
  BY <1>2, <1>3, <1>4, <1>5, <1>6, <1>7, <1>8, <1>9 DEF Typed

LEMMA WriteStoreTyped ==
  ASSUME Typed, WriteStore PROVE Typed'
<1>1. Made \subseteq Made'
  BY MadeGrows DEF Typed, Numbers, WriteStore, AppendCell, Truncate, Rewrite, NoIo, history, races
<1>a. /\ Made' = Made /\ file \in Seq(Cells) /\ sched' = sched
      /\ io \in [op : {"none", "append", "truncate", "rewrite"}, cells : Seq(Cells)]
  BY DEF WriteStore, Typed, StoreTyped, Made, history, races
<1>b. AppendCell => StoreTyped' /\ StoreSteps'
  <2> SUFFICES ASSUME AppendCell PROVE StoreTyped' /\ StoreSteps'
    OBVIOUS
  <2>1. sched.at \in {"storing", "victim"}
    BY DEF AppendCell, Typed, StoreSteps, SchedTyped, SchedAts, NoIo
  <2>2. Target \in Made /\ Writing(Target)
    BY <2>1 DEF Typed, StoreSteps, SchedTyped, Target, Holding
  <2> DEFINE g == Append(file, Head(io.cells))
             q == IF Len(io.cells) = 1 THEN NoIo ELSE [io EXCEPT !.cells = Tail(@)]
  <2>3. io.op = "append" /\ file' = g /\ io' = q
    BY DEF AppendCell
  <2>4. /\ WritingIn(g, q, Made, Target) /\ g \in Seq(Cells) /\ Head(io.cells) \in Cells
        /\ q \in [op : {"none", "append"}, cells : Seq(Cells)]
    BY <2>2, <2>3, WritingGoesOn DEF Writing, Cells
  <2> HIDE DEF q
  <2>5. StoreTyped'
    BY <1>1, <2>3, <2>4, StillTyped DEF StoreTyped
  <2>6. Writing(Target)'
    BY <1>a, <2>3, <2>4 DEF Writing, Target
  <2>7. sched.at = "victim" => Reading'
    <3>1. SUFFICES ASSUME sched.at = "victim" PROVE Reading'
      OBVIOUS
    <3>2. ReadsIn(file) /\ sched.process = [file[1].of EXCEPT !.in_memory = 1]
      BY <3>1, OfTheFile DEF Typed, StoreSteps, Reading, Image
    <3>3. ReadsIn(g) /\ g[1].of = file[1].of
      BY <1>a, <2>4, <3>2, ReadsStill DEF Cells
    <3> HIDE DEF g
    <3>4. ReadsEntry' /\ FirstProcess' = g[1].of
      BY <2>3, <3>3 DEF ReadsEntry, FirstProcess, ReadsIn
    <3> QED
      BY <1>a, <3>2, <3>3, <3>4 DEF Reading, Image
  <2> QED
    BY <1>a, <2>1, <2>5, <2>6, <2>7 DEF StoreSteps
<1>c. Truncate \/ Rewrite => StoreTyped' /\ StoreSteps'
  <2> SUFFICES ASSUME Truncate \/ Rewrite PROVE StoreTyped' /\ StoreSteps'
    OBVIOUS
  <2>1. sched.at = "removing"
    <3>1. io.op \in {"truncate", "rewrite"}
      BY DEF Truncate, Rewrite
    <3>2. sched.at \in {"storing", "victim"} => io.op \in {"none", "append"}
      <4>1. Writing(Target) => io.op \in {"none", "append"}
        <5> SUFFICES ASSUME Writing(Target) PROVE io.op \in {"none", "append"}
          OBVIOUS
        <5>1. PICK k \in 0 .. Len(Entry(Target)) :
                io = IF k = Len(Entry(Target)) THEN NoIo
                     ELSE [op |-> "append",
                           cells |-> SubSeq(Entry(Target), k + 1, Len(Entry(Target)))]
          BY DEF Writing, WritingIn
        <5> QED
          BY <5>1 DEF NoIo
      <4> QED
        BY <4>1 DEF Typed, StoreSteps
    <3> QED
      BY <3>1, <3>2 DEF Typed, StoreSteps, SchedTyped, SchedAts, NoIo
  <2>2. CASE Truncate
    <3>1. /\ io.op = "truncate" /\ file' = <<>>
          /\ io' \in {NoIo, [io EXCEPT !.op = "rewrite"]}
      BY <2>2 DEF Truncate
    <3>2. [io EXCEPT !.op = "rewrite"] \in [op : {"rewrite"}, cells : Seq(Cells)]
      BY <1>a
    <3>3. StoreTyped'
      <4>1. NoIo \in [op : {"none"}, cells : Seq(Cells')] /\ <<>> \in Seq(Cells')
        BY EmptySeq DEF NoIo
      <4>2. [io EXCEPT !.op = "rewrite"] \in [op : {"rewrite"}, cells : Seq(Cells')]
        BY <1>1, <3>2, StillTyped
      <4> QED
        BY <3>1, <4>1, <4>2 DEF StoreTyped
    <3>4. io' = NoIo \/ io'.op = "rewrite"
      BY <3>1, <3>2
    <3> QED
      BY <1>a, <2>1, <3>1, <3>3, <3>4 DEF StoreSteps
  <2>3. CASE Rewrite
    <3>1. io' = NoIo /\ file' = file \o io.cells
      BY <2>3 DEF Rewrite
    <3>2. file' \in Seq(Cells)
      BY <1>a, <3>1, ConcatProperties
    <3>3. StoreTyped'
      BY <1>1, <3>1, <3>2, EmptySeq, StillTyped DEF StoreTyped, NoIo
    <3> QED
      BY <1>a, <2>1, <3>1, <3>3, StoreStepsQuiet
  <2> QED
    BY <2>2, <2>3
<1>2. Numbers'
  BY DEF Typed, Numbers, Counted, Adding, WriteStore, AppendCell, Truncate, Rewrite, NoIo, store, table, places, history, races, flags
<1>3. StoreTyped'
  BY <1>b, <1>c DEF WriteStore
<1>4. StoreSteps'
  BY <1>b, <1>c DEF WriteStore
<1>5. PlacesTyped'
  BY <1>1, StillTyped DEF Typed, PlacesTyped, WriteStore, AppendCell, Truncate, Rewrite, NoIo, store, table, places, history, races, flags
<1>6. CliTyped'
  BY <1>1 DEF Typed, CliTyped, PidCounts, Numbers, WriteStore, AppendCell, Truncate, Rewrite, NoIo, store, table, places, history, races, flags
<1>7. SchedTyped'
  BY <1>1 DEF Typed, SchedTyped, PidCounts, Numbers, SchedAts, Holding, NoProcess, WriteStore, AppendCell, Truncate, Rewrite, NoIo, store, table, places, history, races, flags
<1>8. Counted'
  BY DEF Typed, Counted, Adding, Numbers, PlacesTyped, CliTyped, SchedTyped, WriteStore, AppendCell, Truncate, Rewrite, NoIo, store, table, places, history, races, flags
<1>9. PidCounts'
  BY DEF Typed, PidCounts, Numbers, CliTyped, SchedTyped, Creating, WriteStore, AppendCell, Truncate, Rewrite, NoIo, store, table, places, history, races, flags
<1> QED
  BY <1>2, <1>3, <1>4, <1>5, <1>6, <1>7, <1>8, <1>9 DEF Typed

LEMMA ReadGarbageTyped ==
  ASSUME Typed, ReadGarbage PROVE Typed'
<1>1. Made \subseteq Made'
  BY MadeGrows DEF Typed, Numbers, ReadGarbage, AtWork, history, races
<1>2. Numbers'
  BY DEF Typed, Numbers, Counted, Adding, ReadGarbage, AtWork, store, table, places, history, races, flags
<1>3. StoreTyped'
  BY <1>1, StillTyped DEF Typed, StoreTyped, ReadGarbage, AtWork, store, table, places, history, races, flags
<1>4. StoreSteps'
  BY <1>1, StoreStepsKept, StoreStepsQuiet DEF Typed, StoreSteps, ReadGarbage, AtWork, store, table, places, history, races, flags
<1>5. PlacesTyped'
  BY <1>1, StillTyped DEF Typed, PlacesTyped, ReadGarbage, AtWork, store, table, places, history, races, flags
<1>6. CliTyped'
  BY <1>1 DEF Typed, CliTyped, PidCounts, Numbers, ReadGarbage, AtWork, store, table, places, history, races, flags
<1>7. SchedTyped'
  BY <1>1 DEF Typed, SchedTyped, PidCounts, Numbers, SchedAts, Holding, NoProcess, ReadGarbage, AtWork, store, table, places, history, races, flags
<1>8. Counted'
  BY DEF Typed, Counted, Adding, Numbers, PlacesTyped, CliTyped, SchedTyped, ReadGarbage, AtWork, store, table, places, history, races, flags
<1>9. PidCounts'
  BY DEF Typed, PidCounts, Numbers, CliTyped, SchedTyped, Creating, ReadGarbage, AtWork, store, table, places, history, races, flags
<1> QED
  BY <1>2, <1>3, <1>4, <1>5, <1>6, <1>7, <1>8, <1>9 DEF Typed

LEMMA FinishTyped ==
  ASSUME Typed, Finish PROVE Typed'
<1>1. Made \subseteq Made'
  BY MadeGrows DEF Typed, Numbers, Finish, history, races
<1>2. Numbers'
  BY DEF Typed, Numbers, Counted, Adding, Finish, store, table, places, history, races, flags
<1>3. StoreTyped'
  BY <1>1, StillTyped DEF Typed, StoreTyped, Finish, store, table, places, history, races, flags
<1>4. StoreSteps'
  BY <1>1, StoreStepsKept, StoreStepsQuiet DEF Typed, StoreSteps, Finish, store, table, places, history, races, flags
<1>5. PlacesTyped'
  <2>1. PICK p \in on : /\ on' = on \ {p} /\ finished' = finished \cup {p}
                        /\ blocks' = Released(p)
    BY DEF Finish
  <2>2. on' \in SUBSET Made /\ finished' \in SUBSET Made
    BY <2>1 DEF Typed, PlacesTyped
  <2>3. IsFiniteSet(on')
    BY <2>1, FS_RemoveElement DEF Typed, PlacesTyped
  <2>4. blocks' \in SUBSET BlockSet /\ IsFiniteSet(blocks')
    BY <2>1, ReleasedTyped DEF Typed, PlacesTyped
  <2> QED
    BY <1>1, <2>2, <2>3, <2>4, StillTyped DEF Typed, PlacesTyped, Finish, table
<1>6. CliTyped'
  BY <1>1 DEF Typed, CliTyped, PidCounts, Numbers, Finish, store, table, places, history, races, flags
<1>7. SchedTyped'
  BY <1>1 DEF Typed, SchedTyped, PidCounts, Numbers, SchedAts, Holding, NoProcess, Finish, store, table, places, history, races, flags
<1>8. Counted'
  BY DEF Typed, Counted, Adding, Numbers, PlacesTyped, CliTyped, SchedTyped, Finish, store, table, places, history, races, flags
<1>9. PidCounts'
  BY DEF Typed, PidCounts, Numbers, CliTyped, SchedTyped, Creating, Finish, store, table, places, history, races, flags
<1> QED
  BY <1>2, <1>3, <1>4, <1>5, <1>6, <1>7, <1>8, <1>9 DEF Typed

LEMMA RemoveTyped ==
  ASSUME Typed, Remove PROVE Typed'
<1>1. Made \subseteq Made'
  BY MadeGrows DEF Typed, Numbers, Remove, history, races
<1>2. Numbers'
  BY DEF Typed, Numbers, Counted, Adding, Remove, store, table, places, history, races, flags
<1>3. StoreTyped'
  BY <1>1, StillTyped DEF Typed, StoreTyped, Remove, store, table, places, history, races, flags
<1>4. StoreSteps'
  BY <1>1, StoreStepsKept, StoreStepsQuiet DEF Typed, StoreSteps, Remove, store, table, places, history, races, flags
<1>5. PlacesTyped'
  <2>1. PICK p \in on : on' = on \ {p} /\ removed' = removed \cup {p}
    BY DEF Remove
  <2>2. on' \in SUBSET Made /\ removed' \in SUBSET Made
    BY <2>1 DEF Typed, PlacesTyped
  <2>3. IsFiniteSet(on')
    BY <2>1, FS_RemoveElement DEF Typed, PlacesTyped
  <2> QED
    BY <1>1, <2>2, <2>3, StillTyped DEF Typed, PlacesTyped, Remove, table
<1>6. CliTyped'
  BY <1>1 DEF Typed, CliTyped, PidCounts, Numbers, Remove, store, table, places, history, races, flags
<1>7. SchedTyped'
  BY <1>1 DEF Typed, SchedTyped, PidCounts, Numbers, SchedAts, Holding, NoProcess, Remove, store, table, places, history, races, flags
<1>8. Counted'
  BY DEF Typed, Counted, Adding, Numbers, PlacesTyped, CliTyped, SchedTyped, Remove, store, table, places, history, races, flags
<1>9. PidCounts'
  BY DEF Typed, PidCounts, Numbers, CliTyped, SchedTyped, Creating, Remove, store, table, places, history, races, flags
<1> QED
  BY <1>2, <1>3, <1>4, <1>5, <1>6, <1>7, <1>8, <1>9 DEF Typed

LEMMA FinishForeignTyped ==
  ASSUME Typed, FinishForeign PROVE Typed'
<1>1. Made \subseteq Made'
  <2>1. session' = session /\ created' = created
    BY DEF FinishForeign
  <2>2. overlapped => overlapped'
    BY DEF FinishForeign, races
  <2>3. Numbers /\ created \in Nat
    BY DEF Typed, Numbers
  <2>4. created' \in Nat /\ created' >= created
    BY <2>1, <2>3
  <2> QED
    BY <2>1, <2>2, <2>3, <2>4, MadeGrows
<1>2. Numbers'
  BY DEF Typed, Numbers, Counted, Adding, FinishForeign, store, table, places, history, races, flags
<1>3. StoreTyped'
  BY <1>1, StillTyped DEF Typed, StoreTyped, FinishForeign, store, table, places, history, races, flags
<1>4. StoreSteps'
  BY <1>1, StoreStepsKept, StoreStepsQuiet DEF Typed, StoreSteps, FinishForeign, store, table, places, history, races, flags
<1>5. PlacesTyped'
  BY <1>1, StillTyped DEF Typed, PlacesTyped, FinishForeign, store, table, places, history, races, flags
<1>6. CliTyped'
  BY <1>1 DEF Typed, CliTyped, PidCounts, Numbers, FinishForeign, store, table, places, history, races, flags
<1>7. SchedTyped'
  BY <1>1 DEF Typed, SchedTyped, PidCounts, Numbers, SchedAts, Holding, NoProcess, FinishForeign, store, table, places, history, races, flags
<1>8. Counted'
  BY DEF Typed, Counted, Adding, Numbers, PlacesTyped, CliTyped, SchedTyped, FinishForeign, store, table, places, history, races, flags
<1>9. PidCounts'
  BY DEF Typed, PidCounts, Numbers, CliTyped, SchedTyped, Creating, FinishForeign, store, table, places, history, races, flags
<1> QED
  BY <1>2, <1>3, <1>4, <1>5, <1>6, <1>7, <1>8, <1>9 DEF Typed

LEMMA StutterTyped ==
  ASSUME Typed, UNCHANGED vars PROVE Typed'
<1>1. Made' = Made /\ UNCHANGED <<store, table, places, history, races, flags, next_pid, cli, sched>>
  BY DEF vars, Made, history, races
<1>2. StoreSteps'
  BY <1>1, StoreStepsKept DEF store
<1>3. Numbers' /\ StoreTyped'
  BY <1>1 DEF Typed, Numbers, StoreTyped, Cells, store, table, history, races
<1>4. PlacesTyped' /\ CliTyped' /\ SchedTyped'
  BY <1>1 DEF Typed, PlacesTyped, CliTyped, SchedTyped, table, places, history, races
<1>5. Counted' /\ PidCounts'
  BY <1>1 DEF Typed, Counted, Adding, PidCounts, table, history, races
<1> QED
  BY <1>2, <1>3, <1>4, <1>5 DEF Typed

LEMMA StepTyped == Typed /\ [Next]_vars => Typed'
<1> SUFFICES ASSUME Typed, [Next]_vars PROVE Typed'
  OBVIOUS
<1>1. CASE \E name \in UserNames : ScreenStart(name) \/ screen_create_with_code(name)
  BY <1>1, ScreenStartTyped, Screen_create_with_codeTyped
<1>2. CASE \/ initialize \/ scheduler_start \/ stop_scheduler \/ ScreenPid \/ ScreenAdd
           \/ ScreenCreateAdd \/ ReadFreedName \/ exit
  BY <1>2, InitializeTyped, Scheduler_startTyped, Stop_schedulerTyped, ScreenPidTyped,
     ScreenAddTyped, ScreenCreateAddTyped, ReadFreedNameTyped, ExitTyped
<1>3. CASE \/ GenerateRead \/ GeneratePid \/ GenerateAdd \/ Dispatch \/ DispatchToStore
           \/ FreeStored \/ Preempt
  BY <1>3, GenerateReadTyped, GeneratePidTyped, GenerateAddTyped, DispatchTyped,
     DispatchToStoreTyped, FreeStoredTyped, PreemptTyped
<1>4. CASE \/ SwapIn \/ SwapOut \/ SwapOver \/ EndRemove \/ WriteStore \/ ReadGarbage
           \/ Finish \/ FinishForeign \/ Remove
  BY <1>4, SwapInTyped, SwapOutTyped, SwapOverTyped, EndRemoveTyped, WriteStoreTyped,
     ReadGarbageTyped, FinishTyped, FinishForeignTyped, RemoveTyped
<1>5. CASE UNCHANGED vars
  BY <1>5, StutterTyped
<1> QED
  BY <1>1, <1>2, <1>3, <1>4, <1>5 DEF Next

THEOREM AlwaysTyped == Spec => []Typed
<1>1. Init => Typed
  BY InitTyped
<1>2. Typed /\ [Next]_vars => Typed'
  BY StepTyped
<1> QED
  BY <1>1, <1>2, PTL DEF Spec
-----------------------------------------------------------------------------
(* Pids.                                                                   *)

(* What is known has been made in this session or an earlier one. *)
LEMMA KnownMade == Typed => Known \subseteq Made
<1> SUFFICES ASSUME Typed PROVE Known \subseteq Made
  OBVIOUS
<1>1. ToSet(ready) \subseteq Made /\ on \subseteq Made /\ finished \subseteq Made
      /\ removed \subseteq Made
  BY DEF Typed, PlacesTyped, ToSet
<1>2. InTransit \subseteq Made
  BY DEF Typed, SchedTyped, InTransit
<1>3. Stored \in Seq(Made)
  <2>1. file \in Seq(CellsOf(Made)) /\ io.cells \in Seq(CellsOf(Made))
    BY DEF Typed, StoreTyped, Cells
  <2> QED
    BY <2>1, CompleteType DEF Stored
<1>4. ToSet(Stored) \subseteq Made
  BY <1>3 DEF ToSet
<1> QED
  BY <1>1, <1>2, <1>4 DEF Known, Live

LEMMA MadeWithItsPid ==
  ASSUME NEW p \in Made, NEW q \in Made, p.pid = q.pid, p.id # q.id, ~overlapped,
         p.id[1] = session, q.id[1] = session
  PROVE  FALSE
<1>1. p.id \in Nat \X Nat /\ q.id \in Nat \X Nat
  BY DEF Made, Process
<1>2. p.pid = p.id[2] + 1 /\ q.pid = q.id[2] + 1
  BY DEF Made
<1>3. p.id[2] = q.id[2]
  <2>1. p.id[2] \in Nat /\ q.id[2] \in Nat
    BY <1>1
  <2>2. \A a, b \in Nat : a + 1 = b + 1 => a = b
    OBVIOUS
  <2>3. p.id[2] + 1 = q.id[2] + 1
    BY <1>2
  <2> QED
    BY <2>1, <2>2, <2>3
<1> QED
  BY <1>1, <1>3

(* No two processes of the session have the same pid, wherever they are    *)
(* and whatever was stored and read back, unless the generator and a       *)
(* screen -s have drawn pids at the same time: two threads that do         *)
(* ++next_pid.                                                             *)
THEOREM PidsAreUnique == Spec => []PidsDiffer
<1>1. Typed => PidsDiffer
  BY KnownMade, MadeWithItsPid DEF PidsDiffer
<1> QED
  BY <1>1, AlwaysTyped, PTL
-----------------------------------------------------------------------------
(* The store is a queue that survives the program.                         *)

LEMMA StoredWhileQuiet ==
  ASSUME UNCHANGED <<file, torn>>, io.op # "rewrite", io'.op # "rewrite"
  PROVE  UNCHANGED <<Stored, torn>>
BY DEF Stored

LEMMA FrontOfAppend ==
  ASSUME NEW S, NEW s \in Seq(S), NEW x \in S
  PROVE  Append(s, x) # <<>> /\ SubSeq(Append(s, x), 1, Len(Append(s, x)) - 1) = s
<1>1. /\ Append(s, x) \in Seq(S) /\ Len(Append(s, x)) = Len(s) + 1
      /\ \A i \in 1 .. Len(s) : Append(s, x)[i] = s[i]
      /\ Len(s) \in Nat
  BY AppendProperties
<1>2. Append(s, x) # <<>>
  BY <1>1, EmptySeq
<1>3. Len(Append(s, x)) - 1 = Len(s)
  BY <1>1
<1> DEFINE a == Append(s, x)
<1> HIDE DEF a
<1>4. /\ SubSeq(a, 1, Len(s)) \in Seq(S) /\ Len(SubSeq(a, 1, Len(s))) = Len(s)
      /\ \A i \in 1 .. Len(s) : SubSeq(a, 1, Len(s))[i] = a[i]
  BY <1>1 DEF a
<1>5. SubSeq(a, 1, Len(s)) = s
  BY <1>1, <1>4, SeqEqual DEF a
<1> QED
  BY <1>2, <1>3, <1>5 DEF a

(* Where the scheduler thread is when a write is due. *)
LEMMA WriteAt ==
  ASSUME Typed
  PROVE  /\ io.op = "append" => /\ sched.at \in {"storing", "victim"}
                                /\ Target \in Made /\ Writing(Target)
         /\ io.op = "truncate" => /\ Reading
                                  /\ io = [op |-> "truncate", cells |-> Rest]
         /\ io.op = "rewrite" => file = <<>>
         /\ io.op \in {"truncate", "rewrite"} => sched.at = "removing"
<1>1. sched.at \in {"storing", "victim"} => io.op \in {"none", "append"}
  <2>1. Writing(Target) => io.op \in {"none", "append"}
    <3> SUFFICES ASSUME Writing(Target) PROVE io.op \in {"none", "append"}
      OBVIOUS
    <3>1. PICK k \in 0 .. Len(Entry(Target)) :
            io = IF k = Len(Entry(Target)) THEN NoIo
                 ELSE [op |-> "append",
                       cells |-> SubSeq(Entry(Target), k + 1, Len(Entry(Target)))]
      BY DEF Writing, WritingIn
    <3> QED
      BY <3>1 DEF NoIo
  <2> QED
    BY <2>1 DEF Typed, StoreSteps
<1>2. io.op = "append" => sched.at \in {"storing", "victim"}
  BY DEF Typed, StoreSteps, SchedTyped, SchedAts, NoIo
<1>3. sched.at \in {"storing", "victim"} => Target \in Made /\ Writing(Target)
  BY DEF Typed, StoreSteps, SchedTyped, Target, Holding
<1>4. io.op \in {"truncate", "rewrite"} => sched.at = "removing"
  BY <1>1 DEF Typed, StoreSteps, SchedTyped, SchedAts, NoIo
<1>5. sched.at = "removing" =>
        \/ io.op = "none"
        \/ io = [op |-> "truncate", cells |-> Rest] /\ Reading
        \/ io.op = "rewrite" /\ file = <<>>
  BY DEF Typed, StoreSteps, NoIo
<1> QED
  BY <1>2, <1>3, <1>4, <1>5

(* A cell more: the entry is there with its last one. *)
LEMMA AppendStores ==
  ASSUME Typed, AppendCell
  PROVE  Stored' = Stored \/ Contents!Store
<1>1. Target \in Made /\ Writing(Target) /\ io.op = "append" /\ file \in Seq(CellsOf(Made))
  BY WriteAt DEF AppendCell, Typed, StoreTyped, Cells
<1> DEFINE g == Append(file, Head(io.cells))
           q == IF Len(io.cells) = 1 THEN NoIo ELSE [io EXCEPT !.cells = Tail(@)]
<1>2. file' = g /\ io' = q
  BY DEF AppendCell
<1>3. /\ q.op # "rewrite"
      /\ Complete(g) = IF Len(io.cells) = 1 THEN Append(Complete(file), Target)
                       ELSE Complete(file)
  <2>1. WritingIn(file, io, Made, Target) /\ Target \in Made /\ io.op = "append"
    BY <1>1 DEF Writing
  <2>2. q \in [op : {"none", "append"}, cells : Seq(CellsOf(Made))]
    BY <2>1, WritingGoesOn
  <2>3. Complete(g) = IF Len(io.cells) = 1 THEN Append(Complete(file), Target)
                      ELSE Complete(file)
    BY <2>1, WritingStores
  <2> QED
    BY <2>2, <2>3
<1> HIDE DEF g, q
<1>4. Stored = Complete(file) /\ Stored' = Complete(g)
  BY <1>1, <1>2, <1>3 DEF Stored
<1>5. Complete(file) \in Seq(Made)
  BY <1>1, CompleteType
<1> DEFINE s == Complete(file)
<1>6. /\ Append(s, Target) # <<>>
      /\ SubSeq(Append(s, Target), 1, Len(Append(s, Target)) - 1) = s
  BY <1>1, <1>5, FrontOfAppend
<1> QED
  BY <1>3, <1>4, <1>6 DEF Contents!Store

(* The file is emptied: the first entry is gone. *)
LEMMA TruncateRemoves ==
  ASSUME Typed, Truncate
  PROVE  Contents!RemoveFirst
<1>1. /\ Reading /\ io = [op |-> "truncate", cells |-> Rest]
      /\ file \in Seq(CellsOf(Made))
  BY WriteAt DEF Truncate, Typed, StoreTyped, Cells
<1> DEFINE x == file[1].of
           r == RestIn(file)
<1>2. x \in Made /\ r \in Seq(CellsOf(Made)) /\ file = Entry(x) \o r /\ Rest = r
  BY <1>1, FirstTyped, OfTheFile DEF Reading
<1> HIDE DEF x, r
<1>3. Complete(file) = <<x>> \o Complete(r) /\ Complete(r) \in Seq(Made)
  BY <1>2, CompleteFirst, CompleteType
<1>4. Complete(file) # <<>> /\ Tail(Complete(file)) = Complete(r)
  <2> DEFINE c == Complete(r)
  <2>1. <<x>> \o c # <<>> /\ Tail(<<x>> \o c) = c
    <3> HIDE DEF c
    <3>1. <<x>> \in Seq(Made) /\ Len(<<x>>) = 1 /\ c \in Seq(Made) /\ Len(c) \in Nat
      BY <1>2, <1>3 DEF c
    <3>2. /\ <<x>> \o c \in Seq(Made) /\ Len(<<x>> \o c) = 1 + Len(c)
          /\ \A i \in 1 .. 1 + Len(c) :
               (<<x>> \o c)[i] = IF i <= 1 THEN <<x>>[i] ELSE c[i - 1]
      BY <3>1, ConcatProperties
    <3> DEFINE d == <<x>> \o c
    <3> HIDE DEF d
    <3>3. d \in Seq(Made) /\ Len(d) = 1 + Len(c) /\ \A i \in 2 .. 1 + Len(c) : d[i] = c[i - 1]
      BY <3>1, <3>2 DEF d
    <3>4. d # <<>>
      BY <3>1, <3>3, EmptySeq
    <3>5. /\ Tail(d) \in Seq(Made) /\ Len(Tail(d)) = Len(d) - 1
          /\ \A i \in 1 .. Len(Tail(d)) : Tail(d)[i] = d[i + 1]
      BY <3>3, <3>4, HeadTailProperties
    <3>6. Len(Tail(d)) = Len(c) /\ \A i \in 1 .. Len(c) : Tail(d)[i] = c[i]
      BY <3>1, <3>3, <3>5
    <3>7. Tail(d) = c
      BY <3>1, <3>5, <3>6, SeqEqual
    <3> QED
      BY <3>4, <3>7 DEF d
  <2> QED
    BY <1>3, <2>1
<1>5. Stored = Complete(file)
  BY <1>1 DEF Stored
<1>6. Stored' = Complete(r)
  <2>1. CASE r = <<>>
    <3>1. file' = <<>> /\ io' = NoIo
      BY <1>1, <1>2, <2>1 DEF Truncate
    <3> QED
      BY <2>1, <3>1, CompleteEmpty DEF Stored, NoIo
  <2>2. CASE r # <<>>
    <3>1. io' = [io EXCEPT !.op = "rewrite"]
      BY <1>1, <1>2, <2>2 DEF Truncate
    <3>2. io'.op = "rewrite" /\ io'.cells = r
      BY <1>1, <1>2, <3>1
    <3> QED
      BY <3>2 DEF Stored
  <2> QED
    BY <2>1, <2>2
<1> QED
  BY <1>4, <1>5, <1>6 DEF Contents!RemoveFirst

(* What was removed from the file is written again, without the first. *)
LEMMA RewriteKeeps ==
  ASSUME Typed, Rewrite
  PROVE  Stored' = Stored
<1>1. file = <<>> /\ io.op = "rewrite" /\ io.cells \in Seq(CellsOf(Made))
  BY WriteAt DEF Rewrite, Typed, StoreTyped, Cells
<1>2. file' = io.cells
  BY <1>1, ConcatEmptySeq DEF Rewrite
<1> QED
  BY <1>1, <1>2 DEF Stored, Rewrite, NoIo

LEMMA StepsTheStore ==
  ASSUME Typed, [Next]_vars
  PROVE  [Contents!Next]_Contents!vars
<1>1. CASE UNCHANGED store
  BY <1>1 DEF store, Stored, Contents!vars
<1>2. CASE exit
  <2>1. CASE io.op = "rewrite"
    BY <1>2, <2>1 DEF exit, StoreEnds, Contents!Next
  <2>2. CASE io.op # "rewrite"
    <3>1. file' = file /\ io'.op = "none"
      BY <1>2, <2>2 DEF exit, StoreEnds, NoIo
    <3>3. torn' \/ (~torn') = (~torn)
      <4>1. torn' = (torn \/ EntryHalfWritten \/ io.op = "rewrite")
        BY <1>2 DEF exit, StoreEnds
      <4> QED
        BY <4>1, Zenon
    <3>2. Stored' = Stored
      BY <2>2, <3>1 DEF Stored
    <3> QED
      BY <3>2, <3>3 DEF Contents!Next, Contents!vars
  <2> QED
    BY <2>1, <2>2
<1>3. CASE DispatchToStore \/ SwapIn \/ SwapOut \/ SwapOver
  <2>1. CASE UNCHANGED store
    BY <1>1, <2>1
  <2>2. CASE Quiet /\ UNCHANGED <<file, torn>> /\ io'.op \in {"append", "truncate"}
    <3>1. UNCHANGED <<Stored, torn>>
      BY <2>2, StoredWhileQuiet DEF Quiet
    <3> QED
      BY <3>1 DEF Contents!vars
  <2>3. \A x : BeginAppend(x) =>
               Quiet /\ UNCHANGED <<file, torn>> /\ io'.op \in {"append", "truncate"}
    BY DEF BeginAppend
  <2>4. BeginRemove =>
          Quiet /\ UNCHANGED <<file, torn>> /\ io'.op \in {"append", "truncate"}
    BY DEF BeginRemove
  <2>5. \/ UNCHANGED store
        \/ Quiet /\ UNCHANGED <<file, torn>> /\ io'.op \in {"append", "truncate"}
    BY <1>3, <2>3, <2>4 DEF DispatchToStore, SwapIn, SwapOut, SwapOver
  <2> QED
    BY <2>1, <2>2, <2>5
<1>4. CASE WriteStore
  <2>1. torn' = torn
    BY <1>4 DEF WriteStore, AppendCell, Truncate, Rewrite
  <2>2. Stored' = Stored \/ Contents!Store \/ Contents!RemoveFirst
    BY <1>4, AppendStores, TruncateRemoves, RewriteKeeps DEF WriteStore
  <2> QED
    BY <2>1, <2>2 DEF Contents!Next, Contents!vars
<1> QED
  <2>1. CASE \E name \in UserNames : ScreenStart(name) \/ screen_create_with_code(name)
    BY <1>1, <2>1 DEF ScreenStart, screen_create_with_code
  <2>2. CASE initialize \/ scheduler_start \/ stop_scheduler \/ ScreenPid \/ ScreenAdd
             \/ ScreenCreateAdd \/ ReadFreedName
    BY <1>1, <2>2 DEF initialize, init_backing_store, scheduler_start, stop_scheduler,
       ScreenPid, ScreenAdd, ScreenCreateAdd, ReadFreedName
  <2>3. CASE GenerateRead \/ GeneratePid \/ GenerateAdd \/ Dispatch \/ FreeStored \/ Preempt
    BY <1>1, <2>3 DEF GenerateRead, GeneratePid, GenerateAdd, Dispatch, FreeStored, Preempt
  <2>4. CASE EndRemove \/ ReadGarbage \/ Finish \/ FinishForeign \/ Remove
    BY <1>1, <2>4 DEF EndRemove, ReadGarbage, Finish, FinishForeign, Remove
  <2>5. CASE UNCHANGED vars
    BY <1>1, <2>5 DEF vars
  <2> QED
    BY <1>2, <1>3, <1>4, <2>1, <2>2, <2>3, <2>4, <2>5 DEF Next

(* The file is a first-in-first-out queue of whole processes, over all     *)
(* sessions, although an entry is written in several parts, removed by     *)
(* emptying the file and writing the rest again, and the program may end   *)
(* anywhere in between - up to the first end that leaves it damaged.       *)
THEOREM StoreIsDurable == Spec => RefinesDurableFifo
<1>1. Init => Contents!Init
  <2> SUFFICES ASSUME Init PROVE Contents!Init
    OBVIOUS
  <2>1. file = <<>> /\ io = NoIo /\ torn = FALSE
    BY DEF Init, StoreInit
  <2> QED
    BY <2>1, CompleteEmpty DEF Contents!Init, Stored, NoIo
<1>2. Typed /\ [Next]_vars => [Contents!Next]_Contents!vars
  BY StepsTheStore
<1> QED
  BY <1>1, <1>2, AlwaysTyped, PTL DEF Spec, RefinesDurableFifo, Contents!Spec
-----------------------------------------------------------------------------
(* The store stays readable: without damage the cells are entries, one     *)
(* behind the other.                                                       *)

EntryAt(c, i) ==
  /\ i + Len(Entry(c[i].of)) - 1 <= Len(c)
  /\ \A l \in 1 .. Len(Entry(c[i].of)) : c[i + l - 1] = Entry(c[i].of)[l]

StructAt(c, i) == i \in 1 .. Len(c) => c[i].part = "struct"

(* Where a struct is there is its entry, and behind it the next struct. *)
Whole(c) ==
  /\ StructAt(c, 1)
  /\ \A i \in 1 .. Len(c) :
       c[i].part = "struct" => EntryAt(c, i) /\ StructAt(c, i + Len(Entry(c[i].of)))

LEMMA EmptyIsWhole == Whole(<<>>)
<1>1. Len(<<>>) = 0
  BY EmptySeq
<1>2. 1 .. Len(<<>>) = {}
  BY <1>1
<1> QED
  BY <1>2 DEF Whole, StructAt

LEMMA WholeIsRead ==
  ASSUME NEW I, NEW c \in Seq(CellsOf(I)), Whole(c), c # <<>>
  PROVE  ReadsIn(c)
<1>1. Len(c) \in Nat /\ 1 \in 1 .. Len(c) /\ c[1] \in CellsOf(I)
  <2>1. Len(c) \in Nat /\ Len(c) # 0
    BY EmptySeq
  <2>2. 1 \in 1 .. Len(c)
    BY <2>1
  <2> QED
    BY <2>1, <2>2
<1> DEFINE e == Entry(c[1].of)
<1>2. e \in Seq(CellsOf(I)) /\ Len(e) \in Nat \ {0}
  <2>1. c[1].of \in I
    BY <1>1 DEF CellsOf
  <2> QED
    BY <2>1, EntryShape
<1>3. c[1].part = "struct" /\ EntryAt(c, 1)
  BY <1>1 DEF Whole, StructAt
<1>4. 1 + Len(e) - 1 <= Len(c) /\ \A l \in 1 .. Len(e) : c[1 + l - 1] = e[l]
  BY <1>3 DEF EntryAt
<1> HIDE DEF e
<1>5. Len(e) <= Len(c) /\ \A l \in 1 .. Len(e) : c[l] = e[l] /\ c[l] \in CellsOf(I)
  BY <1>1, <1>2, <1>4
<1>6. /\ SubSeq(c, 1, Len(e)) \in Seq(CellsOf(I)) /\ Len(SubSeq(c, 1, Len(e))) = Len(e)
      /\ \A i \in 1 .. Len(e) : SubSeq(c, 1, Len(e))[i] = c[i]
  BY <1>2, <1>5
<1>7. SubSeq(c, 1, Len(e)) = e
  BY <1>2, <1>5, <1>6, SeqEqual
<1> QED
  BY <1>3, <1>5, <1>7 DEF ReadsIn, e

(* The cells of c \o d. *)
Both(b, I, c, d) ==
  /\ b \in Seq(CellsOf(I)) /\ Len(b) = Len(c) + Len(d)
  /\ Len(b) \in Nat /\ Len(c) \in Nat /\ Len(d) \in Nat
  /\ \A i \in 1 .. Len(c) : b[i] = c[i] /\ c[i].of \in I
  /\ \A i \in 1 .. Len(d) : b[Len(c) + i] = d[i] /\ d[i].of \in I

LEMMA CellsOfBoth ==
  ASSUME NEW I, NEW c \in Seq(CellsOf(I)), NEW d \in Seq(CellsOf(I))
  PROVE  Both(c \o d, I, c, d)
<1> DEFINE b == c \o d
<1>1. /\ b \in Seq(CellsOf(I)) /\ Len(b) = Len(c) + Len(d)
      /\ \A i \in 1 .. Len(c) + Len(d) : b[i] = IF i <= Len(c) THEN c[i] ELSE d[i - Len(c)]
  BY ConcatProperties
<1> HIDE DEF b
<1>2. Len(b) \in Nat /\ Len(c) \in Nat /\ Len(d) \in Nat
  BY <1>1
<1>3. \A i \in 1 .. Len(c) : b[i] = c[i]
  BY <1>1, <1>2
<1>4. \A i \in 1 .. Len(d) : b[Len(c) + i] = d[i]
  BY <1>1, <1>2
<1>5. (\A i \in 1 .. Len(c) : c[i].of \in I) /\ (\A i \in 1 .. Len(d) : d[i].of \in I)
  <2>1. /\ \A i \in 1 .. Len(c) : c[i] \in CellsOf(I)
        /\ \A i \in 1 .. Len(d) : d[i] \in CellsOf(I)
    OBVIOUS
  <2>2. \A y \in CellsOf(I) : y.of \in I
    BY DEF CellsOf
  <2> QED
    BY <2>1, <2>2
<1> QED
  BY <1>1, <1>2, <1>3, <1>4, <1>5 DEF Both, b

LEMMA WholeWithEntry ==
  ASSUME NEW I, NEW x \in I, NEW c \in Seq(CellsOf(I)), Whole(c)
  PROVE  Whole(c \o Entry(x))
<1> DEFINE e == Entry(x)
           n == Len(c)
           m == Len(e)
<1>1. /\ e \in Seq(CellsOf(I)) /\ m \in {2, 3}
      /\ \A i \in 1 .. m : e[i].of = x /\ (e[i].part = "struct" <=> i = 1)
  BY EntryShape
<1>2. e = Entry(x)
  OBVIOUS
<1> HIDE DEF e
<1>m. 1 \in 1 .. m
  BY <1>1
<1> DEFINE b == c \o e
<1> HIDE DEF b
<1> SUFFICES Whole(b)
  BY <1>2 DEF b
<1>3. /\ Len(b) = n + m /\ n \in Nat /\ m \in Nat
      /\ \A i \in 1 .. n : b[i] = c[i] /\ c[i].of \in I
      /\ \A i \in 1 .. m : b[n + i] = e[i]
  <2>1. Both(c \o e, I, c, e)
    BY <1>1, CellsOfBoth
  <2> QED
    BY <2>1 DEF Both, b
<1>4. StructAt(b, n + 1)
  <2>1. 1 \in 1 .. m
    BY <1>m
  <2>2. b[n + 1] = e[1]
    BY <1>3, <2>1
  <2> QED
    BY <1>1, <2>1, <2>2 DEF StructAt
<1>5. StructAt(b, 1)
  <2>1. CASE n = 0
    BY <1>4, <2>1
  <2>2. CASE n # 0
    <3>1. 1 \in 1 .. n
      BY <1>3, <2>2
    <3> QED
      BY <1>3, <3>1 DEF Whole, StructAt
  <2> QED
    BY <2>1, <2>2
<1>6. ASSUME NEW i \in 1 .. Len(b), b[i].part = "struct"
      PROVE  EntryAt(b, i) /\ StructAt(b, i + Len(Entry(b[i].of)))
  <2>1. CASE i <= n
    <3>1. i \in 1 .. n /\ b[i] = c[i]
      BY <1>3, <2>1
    <3> DEFINE f == Entry(c[i].of)
               k == Len(f)
    <3>2. EntryAt(c, i) /\ StructAt(c, i + k)
      BY <1>6, <3>1 DEF Whole
    <3>3. k \in Nat \ {0}
      BY <1>3, <3>1, EntryShape
    <3>4. i + k - 1 <= n /\ \A l \in 1 .. k : c[i + l - 1] = f[l]
      BY <3>2 DEF EntryAt
    <3>5. EntryAt(b, i)
      <4> HIDE DEF f
      <4>1. i + k - 1 <= Len(b)
        BY <1>3, <3>1, <3>3, <3>4
      <4>2. \A l \in 1 .. k : i + l - 1 \in 1 .. n
        BY <1>3, <3>1, <3>3, <3>4
      <4>3. \A l \in 1 .. k : b[i + l - 1] = f[l]
        BY <1>3, <3>4, <4>2
      <4> QED
        BY <3>1, <4>1, <4>3 DEF EntryAt, f
    <3>6. StructAt(b, i + k)
      <4> HIDE DEF f
      <4>1. CASE i + k <= n
        <5>1. i + k \in 1 .. n
          BY <1>3, <3>1, <3>3, <4>1
        <5> QED
          BY <1>3, <3>2, <5>1 DEF StructAt
      <4>2. CASE ~(i + k <= n)
        <5>1. i + k = n + 1
          <6>1. n \in Nat /\ i \in Nat /\ k \in Nat /\ i + k - 1 <= n
            BY <1>3, <3>1, <3>3, <3>4
          <6> QED
            BY <4>2, <6>1
        <5> QED
          BY <1>4, <5>1
      <4> QED
        BY <4>1, <4>2
    <3> QED
      BY <3>1, <3>5, <3>6
  <2>2. CASE ~(i <= n)
    <3>1. i - n \in 1 .. m /\ n + (i - n) = i
      BY <1>3, <2>2
    <3>2. b[i] = e[i - n]
      BY <1>3, <3>1
    <3>3. i = n + 1 /\ b[i].of = x
      <4>1. i - n = 1 /\ b[i].of = x
        BY <1>1, <1>6, <3>1, <3>2
      <4> QED
        BY <1>3, <4>1
    <3>4. Len(Entry(b[i].of)) = m /\ Entry(b[i].of) = e
      BY <1>2, <3>3
    <3>5. i + m - 1 = Len(b) /\ i + m > Len(b)
      BY <1>3, <3>3
    <3>6. \A l \in 1 .. m : b[i + l - 1] = e[l]
      <4>1. \A l \in 1 .. m : i + l - 1 = n + l
        BY <1>3, <3>3
      <4> QED
        BY <1>3, <4>1
    <3>7. i + m \notin 1 .. Len(b) /\ i + m - 1 <= Len(b)
      BY <1>3, <3>5
    <3> QED
      BY <3>4, <3>6, <3>7 DEF EntryAt, StructAt
  <2> QED
    BY <2>1, <2>2
<1> QED
  BY <1>5, <1>6 DEF Whole

LEMMA WholeBehindEntry ==
  ASSUME NEW I, NEW x \in I, NEW r \in Seq(CellsOf(I)), Whole(Entry(x) \o r)
  PROVE  Whole(r)
<1> DEFINE e == Entry(x)
           m == Len(e)
           n == Len(r)
           b == e \o r
<1>1. /\ e \in Seq(CellsOf(I)) /\ m \in {2, 3}
      /\ e[1].part = "struct" /\ e[1].of = x /\ e = Entry(x)
  <2>1. m \in {2, 3} /\ 1 \in 1 .. m
    BY EntryShape
  <2> QED
    BY <2>1, EntryShape
<1>2. Whole(b) /\ b = e \o r
  OBVIOUS
<1> HIDE DEF e, b
<1>3. /\ Len(b) = m + n /\ n \in Nat /\ m \in Nat
      /\ \A i \in 1 .. m : b[i] = e[i]
      /\ \A i \in 1 .. n : b[m + i] = r[i] /\ r[i].of \in I
  <2>1. Both(e \o r, I, e, r)
    BY <1>1, CellsOfBoth
  <2> QED
    BY <1>2, <2>1 DEF Both
<1>4. StructAt(r, 1)
  <2>1. 1 \in 1 .. m /\ 1 \in 1 .. Len(b) /\ 1 + m = m + 1
    BY <1>1, <1>3
  <2>2. b[1] = e[1]
    BY <1>3, <2>1
  <2>3. StructAt(b, m + 1)
    BY <1>1, <1>2, <2>1, <2>2 DEF Whole
  <2> SUFFICES ASSUME 1 \in 1 .. n PROVE r[1].part = "struct"
    BY DEF StructAt
  <2>4. m + 1 \in 1 .. Len(b)
    BY <1>3
  <2> QED
    BY <1>3, <2>3, <2>4 DEF StructAt
<1>5. ASSUME NEW i \in 1 .. n, r[i].part = "struct"
      PROVE  EntryAt(r, i) /\ StructAt(r, i + Len(Entry(r[i].of)))
  <2>1. b[m + i] = r[i] /\ m + i \in 1 .. Len(b)
    BY <1>3
  <2> DEFINE f == Entry(r[i].of)
             k == Len(f)
  <2>2. EntryAt(b, m + i) /\ StructAt(b, m + i + k)
    BY <1>2, <1>5, <2>1 DEF Whole
  <2>3. k \in Nat \ {0}
    BY <1>3, EntryShape
  <2>4. m + i + k - 1 <= Len(b) /\ \A l \in 1 .. k : b[m + i + l - 1] = f[l]
    BY <2>1, <2>2 DEF EntryAt
  <2>5. EntryAt(r, i)
    <3> HIDE DEF f
    <3>1. i + k - 1 <= n
      BY <1>3, <2>3, <2>4
    <3>2. \A l \in 1 .. k : i + l - 1 \in 1 .. n /\ m + (i + l - 1) = m + i + l - 1
      BY <1>3, <2>3, <3>1
    <3>3. \A l \in 1 .. k : r[i + l - 1] = f[l]
      BY <1>3, <2>4, <3>2
    <3> QED
      BY <3>1, <3>3 DEF EntryAt, f
  <2>6. StructAt(r, i + k)
    <3> HIDE DEF f
    <3> SUFFICES ASSUME i + k \in 1 .. n PROVE r[i + k].part = "struct"
      BY DEF StructAt
    <3>1. m + i + k \in 1 .. Len(b) /\ m + (i + k) = m + i + k
      BY <1>3, <2>3
    <3> QED
      BY <1>3, <2>2, <3>1 DEF StructAt
  <2> QED
    BY <2>5, <2>6
<1> QED
  BY <1>4, <1>5 DEF Whole

LEMMA WholeBeforeEntry ==
  ASSUME NEW I, NEW x \in I, NEW c \in Seq(CellsOf(I)), Whole(c \o Entry(x))
  PROVE  Whole(c)
<1> DEFINE e == Entry(x)
           n == Len(c)
           m == Len(e)
           b == c \o e
<1>1. /\ e \in Seq(CellsOf(I)) /\ m \in {2, 3} /\ e[1].part = "struct"
  <2>1. m \in {2, 3} /\ 1 \in 1 .. m
    BY EntryShape
  <2> QED
    BY <2>1, EntryShape
<1>2. Whole(b) /\ b = c \o e
  OBVIOUS
<1> HIDE DEF e, b
<1>3. /\ Len(b) = n + m /\ n \in Nat /\ m \in Nat
      /\ \A i \in 1 .. n : b[i] = c[i] /\ c[i].of \in I
      /\ b[n + 1] = e[1]
  <2>1. 1 \in 1 .. m
    BY <1>1
  <2>2. Both(c \o e, I, c, e)
    BY <1>1, CellsOfBoth
  <2> QED
    BY <1>2, <2>1, <2>2 DEF Both
<1>4. StructAt(c, 1)
  <2>1. 1 \in 1 .. n => 1 \in 1 .. Len(b)
    BY <1>3
  <2> QED
    BY <1>2, <1>3, <2>1 DEF Whole, StructAt
<1>5. ASSUME NEW i \in 1 .. n, c[i].part = "struct"
      PROVE  EntryAt(c, i) /\ StructAt(c, i + Len(Entry(c[i].of)))
  <2>1. b[i] = c[i] /\ i \in 1 .. Len(b)
    BY <1>3
  <2> DEFINE f == Entry(c[i].of)
             k == Len(f)
  <2>2. EntryAt(b, i) /\ StructAt(b, i + k)
    BY <1>2, <1>5, <2>1 DEF Whole
  <2>3. k \in Nat \ {0} /\ \A l \in 1 .. k : f[l].part = "struct" <=> l = 1
    BY <1>3, EntryShape
  <2>4. i + k - 1 <= Len(b) /\ \A l \in 1 .. k : b[i + l - 1] = f[l]
    BY <2>1, <2>2 DEF EntryAt
  <2> HIDE DEF f
  <2>5. i + k - 1 <= n
    <3> SUFFICES ASSUME ~(i + k - 1 <= n) PROVE FALSE
      OBVIOUS
    <3> DEFINE l == n + 2 - i
    <3>1. l \in 1 .. k /\ l # 1 /\ i + l - 1 = n + 1
      BY <1>3, <2>3
    <3> HIDE DEF l
    <3>2. b[n + 1] = f[l]
      BY <2>4, <3>1
    <3> QED
      BY <1>1, <1>3, <2>3, <3>1, <3>2
  <2>6. EntryAt(c, i)
    <3>1. \A l \in 1 .. k : i + l - 1 \in 1 .. n
      BY <1>3, <2>3, <2>5
    <3>2. \A l \in 1 .. k : c[i + l - 1] = f[l]
      BY <1>3, <2>4, <3>1
    <3> QED
      BY <2>5, <3>2 DEF EntryAt, f
  <2>7. StructAt(c, i + k)
    <3>1. i + k \in 1 .. n => i + k \in 1 .. Len(b)
      BY <1>3
    <3> QED
      BY <1>3, <2>2, <3>1 DEF StructAt
  <2> QED
    BY <2>6, <2>7 DEF f
<1> QED
  BY <1>4, <1>5 DEF Whole

(* What will be in the file when the operation under way is over, or is    *)
(* there while it has not begun to change the file.                        *)
Unbroken ==
  ~torn =>
    /\ io.op \in {"none", "truncate"} => Whole(file)
    /\ io.op = "append" => Whole(file \o io.cells)
    /\ io.op = "rewrite" => Whole(io.cells)

LEMMA BeginsUnbroken ==
  ASSUME Typed, Unbroken, NEW x \in Made, BeginAppend(x)
  PROVE  Unbroken'
<1>1. /\ io' = [op |-> "append", cells |-> Written(x)] /\ file' = file /\ torn' = torn
      /\ io.op = "none" /\ file \in Seq(CellsOf(Made)) /\ Written(x) = Entry(x)
  BY EntryShape DEF BeginAppend, Quiet, Typed, StoreTyped, Cells
<1>2. ~torn => Whole(file \o Entry(x))
  BY <1>1, WholeWithEntry DEF Unbroken
<1>3. file' \o io'.cells = file \o Entry(x) /\ io'.op = "append"
  BY <1>1
<1> QED
  BY <1>1, <1>2, <1>3 DEF Unbroken

LEMMA AppendsUnbroken ==
  ASSUME Typed, Unbroken, AppendCell
  PROVE  Unbroken'
<1>1. /\ Target \in Made /\ WritingIn(file, io, Made, Target) /\ io.op = "append"
      /\ file \in Seq(CellsOf(Made)) /\ io.cells \in Seq(CellsOf(Made))
  BY WriteAt DEF AppendCell, Typed, StoreTyped, Cells, Writing
<1>2. io.cells # <<>>
  <2>1. PICK pre, k : NextCell(file, io, Made, Target, pre, k)
    BY <1>1, WritingNext
  <2>2. Len(io.cells) = Len(Entry(Target)) - k /\ k \in 0 .. Len(Entry(Target)) - 1
    BY <2>1 DEF NextCell
  <2>3. Len(Entry(Target)) \in Nat
    BY <1>1, EntryShape
  <2>4. Len(io.cells) # 0
    BY <2>2, <2>3
  <2> QED
    BY <2>4, EmptySeq
<1> DEFINE h == Head(io.cells)
           t == Tail(io.cells)
<1>3. /\ h \in CellsOf(Made) /\ t \in Seq(CellsOf(Made)) /\ io.cells = <<h>> \o t
      /\ Len(t) = Len(io.cells) - 1 /\ Len(io.cells) \in Nat
  BY <1>1, <1>2, HeadTailProperties
<1> DEFINE g == Append(file, h)
           q == IF Len(io.cells) = 1 THEN NoIo ELSE [io EXCEPT !.cells = Tail(@)]
<1>4. file' = g /\ io' = q /\ torn' = torn
  BY DEF AppendCell
<1>5. q \in [op : {"none", "append"}, cells : Seq(CellsOf(Made))]
  BY <1>1, WritingGoesOn
<1>6. Len(io.cells) # 1 => q.cells = t
  <2>1. io \in [op : {"none", "append", "truncate", "rewrite"}, cells : Seq(CellsOf(Made))]
    BY DEF Typed, StoreTyped, Cells
  <2> HIDE DEF t
  <2>2. t = Tail(io.cells)
    BY DEF t
  <2>3. [io EXCEPT !.cells = t].cells = t
    BY <2>1, <1>3
  <2> QED
    BY <2>2, <2>3
<1> HIDE DEF g, h, t, q
<1>7. g \o t = file \o io.cells
  <2>1. <<h>> \in Seq(CellsOf(Made))
    BY <1>3
  <2>2. g = file \o <<h>>
    BY <1>1, <1>3, AppendIsConcat DEF g
  <2> QED
    BY <1>1, <1>3, <2>1, <2>2, ConcatAssociative
<1>8. CASE torn
  BY <1>4, <1>8 DEF Unbroken
<1>9. CASE ~torn
  <2>1. Whole(g \o t)
    BY <1>1, <1>7, <1>9 DEF Unbroken
  <2>2. CASE Len(io.cells) = 1
    <3>1. t = <<>>
      <4>1. Len(t) = 0
        BY <1>3, <2>2
      <4> QED
        BY <1>3, <4>1, EmptySeq
    <3>2. g \in Seq(CellsOf(Made))
      BY <1>1, <1>3, AppendProperties DEF g
    <3>3. Whole(g)
      BY <2>1, <3>1, <3>2, ConcatEmptySeq
    <3>4. io'.op = "none"
      BY <1>4, <2>2 DEF q, NoIo
    <3> QED
      BY <1>4, <3>3, <3>4 DEF Unbroken
  <2>3. CASE Len(io.cells) # 1
    <3>1. file' \o io'.cells = g \o t
      BY <1>4, <1>6, <2>3
    <3>2. io'.op \in {"none", "append"}
      BY <1>4, <1>5
    <3>3. io'.op # "none"
      <4>1. q = [io EXCEPT !.cells = Tail(@)]
        BY <2>3 DEF q
      <4>2. io \in [op : {"none", "append", "truncate", "rewrite"}, cells : Seq(CellsOf(Made))]
        BY DEF Typed, StoreTyped, Cells
      <4>3. \A s : [io EXCEPT !.cells = s].op = io.op
        BY <4>2
      <4>4. q.op = io.op
        BY <4>1, <4>3
      <4> QED
        BY <1>1, <1>4, <4>4
    <3> QED
      BY <2>1, <3>1, <3>2, <3>3 DEF Unbroken
  <2> QED
    BY <2>2, <2>3
<1> QED
  BY <1>8, <1>9

LEMMA TruncatesUnbroken ==
  ASSUME Typed, Unbroken, Truncate
  PROVE  Unbroken'
<1>1. /\ ReadsIn(file) /\ io = [op |-> "truncate", cells |-> RestIn(file)]
      /\ file \in Seq(CellsOf(Made))
  BY WriteAt, OfTheFile DEF Truncate, Typed, StoreTyped, Cells, Reading
<1> DEFINE x == file[1].of
           r == RestIn(file)
<1>2. x \in Made /\ r \in Seq(CellsOf(Made)) /\ file = Entry(x) \o r
  BY <1>1, FirstTyped
<1> HIDE DEF x, r
<1>3. ~torn => Whole(r)
  <2>1. ~torn => Whole(file)
    BY <1>1 DEF Unbroken
  <2> QED
    BY <1>2, <2>1, WholeBehindEntry
<1>4. io.cells = r /\ file' = <<>> /\ torn' = torn
  BY <1>1 DEF Truncate, r
<1>5. CASE r = <<>>
  <2>1. io'.op = "none"
    BY <1>4, <1>5 DEF Truncate, NoIo
  <2> QED
    BY <1>4, <2>1, EmptyIsWhole DEF Unbroken
<1>6. CASE r # <<>>
  <2>1. io' = [io EXCEPT !.op = "rewrite"]
    BY <1>4, <1>6 DEF Truncate
  <2>2. io'.op = "rewrite" /\ io'.cells = r
    BY <1>1, <2>1 DEF r
  <2> QED
    BY <1>3, <1>4, <2>2 DEF Unbroken
<1> QED
  BY <1>5, <1>6

LEMMA RewritesUnbroken ==
  ASSUME Typed, Unbroken, Rewrite
  PROVE  Unbroken'
<1>1. file = <<>> /\ io.op = "rewrite" /\ io.cells \in Seq(CellsOf(Made))
  BY WriteAt DEF Rewrite, Typed, StoreTyped, Cells
<1>2. file' = io.cells /\ io'.op = "none" /\ torn' = torn
  BY <1>1, ConcatEmptySeq DEF Rewrite, NoIo
<1> QED
  BY <1>1, <1>2 DEF Unbroken

(* An end of the program that is not noted as damage. *)
LEMMA EndsUnbroken ==
  ASSUME Typed, Unbroken, StoreEnds
  PROVE  Unbroken'
<1>1. io'.op = "none" /\ file' = file
  BY DEF StoreEnds, NoIo
<1> SUFFICES ASSUME ~torn' PROVE Whole(file)
  BY <1>1 DEF Unbroken
<1>2. ~torn /\ ~EntryHalfWritten /\ io.op # "rewrite"
  <2>1. torn' = (torn \/ EntryHalfWritten \/ io.op = "rewrite")
    BY DEF StoreEnds
  <2> QED
    BY <2>1
<1>3. CASE io.op # "append"
  BY <1>2, <1>3 DEF Unbroken, Typed, StoreTyped
<1>4. CASE io.op = "append"
  <2>1. /\ Target \in Made /\ WritingIn(file, io, Made, Target)
        /\ file \in Seq(CellsOf(Made))
    BY <1>4, WriteAt DEF Typed, StoreTyped, Cells, Writing
  <2> DEFINE x == Target
             e == Entry(x)
  <2> HIDE DEF x
  <2>2. x \in Made /\ WritingIn(file, io, Made, x)
    BY <2>1 DEF x
  <2>3. /\ e \in Seq(CellsOf(Made)) /\ Len(e) \in Nat /\ Written(x) = e
        /\ \A i \in 1 .. Len(e) : e[i].of = x
    <3>1. e \in Seq(CellsOf(Made)) /\ Written(x) = e
      BY <2>2, EntryShape
    <3>2. \A i \in 1 .. Len(e) : e[i].of = x
      BY <2>2, EntryShape
    <3> QED
      BY <3>1, <3>2
  <2>4. PICK pre, k : NextCell(file, io, Made, x, pre, k)
    BY <1>4, <2>2, WritingNext
  <2>5. /\ k \in 0 .. Len(e) - 1 /\ Head(io.cells) = e[k + 1] /\ Len(io.cells) = Len(e) - k
    BY <2>4 DEF NextCell
  <2> HIDE DEF e
  <2>6. Head(io.cells).of = x
    <3>1. k + 1 \in 1 .. Len(e)
      BY <2>3, <2>5
    <3> QED
      BY <2>3, <2>5, <3>1
  <2>7. io.cells = e
    <3>1. io.cells = Written(Head(io.cells).of)
      BY <1>2, <1>4 DEF EntryHalfWritten
    <3> QED
      BY <2>3, <2>6, <3>1
  <2>8. Whole(file \o Entry(x))
    <3>1. Whole(file \o io.cells)
      BY <1>2, <1>4 DEF Unbroken
    <3> QED
      BY <2>7, <3>1 DEF e
  <2> QED
    BY <2>1, <2>2, <2>8, WholeBeforeEntry
<1> QED
  BY <1>3, <1>4

LEMMA StepUnbroken ==
  ASSUME Typed, Unbroken, [Next]_vars
  PROVE  Unbroken'
<1>1. CASE UNCHANGED store
  BY <1>1 DEF store, Unbroken
<1>2. CASE exit
  BY <1>2, EndsUnbroken DEF exit
<1>3. ASSUME BeginRemove PROVE Unbroken'
  <2>1. io'.op = "truncate" /\ io.op = "none" /\ file' = file /\ torn' = torn
    BY <1>3 DEF BeginRemove, Quiet
  <2> QED
    BY <2>1 DEF Unbroken
<1>4. CASE DispatchToStore
  <2>1. Head(ready) \in Made /\ BeginAppend(Head(ready))
    <3>1. ready \in Seq(Made) /\ ready # <<>>
      BY <1>4 DEF Typed, PlacesTyped, DispatchToStore
    <3> QED
      BY <1>4, <3>1, HeadTailProperties DEF DispatchToStore
  <2> QED
    BY <2>1, BeginsUnbroken
<1>5. CASE SwapOut
  <2>1. PICK p \in on : \E n \in {p.num_var, 1} : BeginAppend([p EXCEPT !.num_var = n])
    BY <1>5 DEF SwapOut
  <2>2. \A n \in {p.num_var, 1} : [p EXCEPT !.num_var = n] \in Made
    BY Marked DEF Typed, PlacesTyped
  <2> QED
    BY <2>1, <2>2, BeginsUnbroken
<1>6. CASE SwapIn \/ SwapOver
  <2>1. BeginRemove \/ UNCHANGED store
    BY <1>6 DEF SwapIn, SwapOver
  <2> QED
    BY <1>1, <1>3, <2>1
<1>7. CASE WriteStore
  BY <1>7, AppendsUnbroken, TruncatesUnbroken, RewritesUnbroken DEF WriteStore
<1> QED
  <2>1. CASE \E name \in UserNames : ScreenStart(name) \/ screen_create_with_code(name)
    BY <1>1, <2>1 DEF ScreenStart, screen_create_with_code
  <2>2. CASE initialize \/ scheduler_start \/ stop_scheduler \/ ScreenPid \/ ScreenAdd
             \/ ScreenCreateAdd \/ ReadFreedName
    BY <1>1, <2>2 DEF initialize, init_backing_store, scheduler_start, stop_scheduler,
       ScreenPid, ScreenAdd, ScreenCreateAdd, ReadFreedName
  <2>3. CASE GenerateRead \/ GeneratePid \/ GenerateAdd \/ Dispatch \/ FreeStored \/ Preempt
    BY <1>1, <2>3 DEF GenerateRead, GeneratePid, GenerateAdd, Dispatch, FreeStored, Preempt
  <2>4. CASE EndRemove \/ ReadGarbage \/ Finish \/ FinishForeign \/ Remove
    BY <1>1, <2>4 DEF EndRemove, ReadGarbage, Finish, FinishForeign, Remove
  <2>5. CASE UNCHANGED vars
    BY <1>1, <2>5 DEF vars
  <2> QED
    BY <1>2, <1>4, <1>5, <1>6, <1>7, <2>1, <2>2, <2>3, <2>4, <2>5 DEF Next

(* Whatever was written, removed and written again, in whatever session:   *)
(* the reader finds an entry at the beginning of the file, or an empty     *)
(* file, as long as no end of the program has damaged it.                  *)
THEOREM OnlyDamageIsGarbage == Spec => []GarbageOnlyIfTorn
<1>1. Init => Unbroken
  BY EmptyIsWhole DEF Init, StoreInit, Unbroken, NoIo
<1>2. Typed /\ Unbroken /\ [Next]_vars => Unbroken'
  BY StepUnbroken
<1>3. Typed /\ Unbroken => GarbageOnlyIfTorn
  <2> SUFFICES ASSUME Typed, Unbroken, Quiet, ReadsGarbage, ~torn PROVE FALSE
    BY DEF GarbageOnlyIfTorn
  <2>1. Whole(file) /\ file \in Seq(CellsOf(Made)) /\ file # <<>>
    BY DEF Unbroken, Quiet, Typed, StoreTyped, Cells, ReadsGarbage, ReadsNothing
  <2>2. ReadsIn(file)
    BY <2>1, WholeIsRead
  <2> QED
    BY <2>2, OfTheFile DEF ReadsGarbage
<1> QED
  BY <1>1, <1>2, <1>3, AlwaysTyped, PTL DEF Spec
-----------------------------------------------------------------------------
(* The limits of memory and cores.                                         *)

(* No two blocks have an address in common, and all are in the memory. *)
LaidOut(taken) == \A b \in taken : Hole(b.base, b.size, taken \ {b})

Within == LaidOut(blocks) /\ Cardinality(on) <= NumCores

LEMMA LaidOutFewer ==
  ASSUME NEW taken, NEW rest, rest \subseteq taken, LaidOut(taken) PROVE LaidOut(rest)
BY DEF LaidOut, Hole

LEMMA LaidOutWithOne ==
  ASSUME NEW x \in Process, NEW taken \in SUBSET BlockSet, IsFiniteSet(taken),
         Fits(x.memory_allocation, taken), LaidOut(taken)
  PROVE  LaidOut(Allocated(x, taken))
<1>1. PICK base \in 0 .. Memory - 1 :
        /\ Hole(base, x.memory_allocation, taken)
        /\ LET b == [pid |-> x.pid, id |-> x.id, base |-> base,
                     size |-> x.memory_allocation]
           IN  Allocated(x, taken) = taken \cup {b}
  BY AllocatedTyped
<1> DEFINE b == [pid |-> x.pid, id |-> x.id, base |-> base, size |-> x.memory_allocation]
<1>2. /\ b.base = base /\ b.size = x.memory_allocation
      /\ Allocated(x, taken) = taken \cup {b}
  BY <1>1
<1> HIDE DEF b
<1>3. Hole(b.base, b.size, taken)
  BY <1>1, <1>2
<1>4. Hole(b.base, b.size, (taken \cup {b}) \ {b})
  BY <1>3 DEF Hole
<1>5. ASSUME NEW c \in taken, c # b PROVE Hole(c.base, c.size, (taken \cup {b}) \ {c})
  <2>1. Hole(c.base, c.size, taken \ {c})
    BY DEF LaidOut
  <2>2. c.base + c.size <= b.base \/ b.base + b.size <= c.base
    BY <1>3 DEF Hole
  <2> QED
    BY <2>1, <2>2 DEF Hole
<1> QED
  BY <1>2, <1>4, <1>5 DEF LaidOut

LEMMA NoMoreOnCores ==
  ASSUME Typed, Within, NEW T, T \subseteq on
  PROVE  Cardinality(T) <= NumCores
<1> DEFINE c == Cardinality(T)
           d == Cardinality(on)
<1>1. c <= d /\ c \in Nat /\ d \in Nat /\ d <= NumCores /\ NumCores \in Nat
  BY FS_Subset, FS_CardinalityType, Constants DEF Typed, PlacesTyped, Within
<1> HIDE DEF c, d
<1>2. c <= NumCores
  BY <1>1
<1> QED
  BY <1>2 DEF c

LEMMA OneMoreOnCores ==
  ASSUME Typed, FreeCore, NEW x
  PROVE  Cardinality(on \cup {x}) <= NumCores
<1> DEFINE c == Cardinality(on \cup {x})
           d == Cardinality(on)
<1>1. IsFiniteSet(on) /\ d \in Nat /\ (c = d \/ c = d + 1) /\ d < NumCores
      /\ NumCores \in Nat
  <2>1. IsFiniteSet(on) /\ d < NumCores /\ NumCores \in Nat
    BY Constants DEF Typed, PlacesTyped, FreeCore
  <2>2. c = d \/ c = d + 1
    BY <2>1, FS_AddElement
  <2> QED
    BY <2>1, <2>2, FS_CardinalityType
<1> HIDE DEF c, d
<1>2. c <= NumCores
  BY <1>1
<1> QED
  BY <1>2 DEF c

LEMMA ResetWithin ==
  ASSUME on' = {}, blocks' = {} PROVE Within'
<1>1. Cardinality(on)' = 0
  BY FS_EmptySet
<1>2. 0 <= NumCores
  BY Constants
<1> QED
  BY <1>1, <1>2 DEF Within, LaidOut

LEMMA DispatchWithin ==
  ASSUME Typed, Within, Dispatch PROVE Within'
<1> DEFINE p == Head(ready)
<1>1. p \in Process
  <2>1. ready \in Seq(Made) /\ ready # <<>>
    BY DEF Typed, PlacesTyped, Dispatch
  <2> QED
    BY <2>1, HeadTailProperties DEF Made
<1>2. /\ on' = on \cup {[p EXCEPT !.in_memory = 1]} /\ FreeCore
      /\ \/ blocks' = blocks
         \/ Fits(p.memory_allocation, blocks) /\ blocks' = Allocated(p, blocks)
  BY DEF Dispatch
<1> HIDE DEF p
<1>3. Cardinality(on') <= NumCores
  BY <1>2, OneMoreOnCores
<1>4. LaidOut(blocks')
  BY <1>1, <1>2, LaidOutWithOne DEF Within, Typed, PlacesTyped
<1> QED
  BY <1>3, <1>4 DEF Within, LaidOut

LEMMA SwapInWithin ==
  ASSUME Typed, Within, SwapIn PROVE Within'
<1>1. FirstProcess \in Process
  BY FirstTyped, OfTheFile DEF Typed, StoreTyped, Cells, SwapIn, Made
<1>2. /\ Fits(FirstProcess.memory_allocation, blocks) /\ on' = on
      /\ blocks' = Allocated(FirstProcess, blocks)
  BY DEF SwapIn
<1>3. LaidOut(blocks')
  BY <1>1, <1>2, LaidOutWithOne DEF Within, Typed, PlacesTyped
<1> QED
  BY <1>2, <1>3 DEF Within, LaidOut

LEMMA SwapOverWithin ==
  ASSUME Typed, Within, SwapOver PROVE Within'
<1> DEFINE x == sched.process
           rest == Released(sched.victim)
<1>1. x \in Process
  BY DEF Typed, SchedTyped
<1>2. /\ \/ Fits(x.memory_allocation, rest) /\ blocks' = Allocated(x, rest)
         \/ blocks' = rest
      /\ on' \subseteq on
  BY DEF SwapOver
<1>3. rest \in SUBSET BlockSet /\ IsFiniteSet(rest) /\ rest \subseteq blocks
  BY ReleasedTyped DEF Typed, PlacesTyped
<1> HIDE DEF x, rest
<1>4. Cardinality(on') <= NumCores
  BY <1>2, NoMoreOnCores
<1>5. LaidOut(rest)
  BY <1>3, LaidOutFewer DEF Within
<1>6. LaidOut(blocks')
  BY <1>1, <1>2, <1>3, <1>5, LaidOutWithOne
<1> QED
  BY <1>4, <1>6 DEF Within, LaidOut

LEMMA FinishWithin ==
  ASSUME Typed, Within, Finish PROVE Within'
<1>1. PICK p \in on : on' = on \ {p} /\ blocks' = Released(p)
  BY DEF Finish
<1>2. Cardinality(on') <= NumCores
  BY <1>1, NoMoreOnCores
<1>3. LaidOut(blocks')
  BY <1>1, ReleasedTyped, LaidOutFewer DEF Within, Typed, PlacesTyped
<1> QED
  BY <1>2, <1>3 DEF Within, LaidOut

LEMMA StepWithin ==
  ASSUME Typed, Within, [Next]_vars PROVE Within'
<1>1. CASE UNCHANGED <<on, blocks>>
  BY <1>1 DEF Within, LaidOut
<1>2. CASE \E name \in UserNames : ScreenStart(name) \/ screen_create_with_code(name)
  BY <1>1, <1>2 DEF ScreenStart, screen_create_with_code, places
<1>3. CASE \/ stop_scheduler \/ ScreenAdd \/ ScreenCreateAdd \/ ReadFreedName
           \/ GenerateRead \/ GeneratePid \/ GenerateAdd \/ DispatchToStore \/ FreeStored \/ SwapOut \/ EndRemove
           \/ WriteStore \/ ReadGarbage \/ FinishForeign \/ UNCHANGED vars
  BY <1>1, <1>3 DEF stop_scheduler, ScreenAdd, ScreenCreateAdd, ReadFreedName, GenerateRead, GeneratePid,
     GenerateAdd, DispatchToStore, FreeStored, SwapOut, EndRemove, WriteStore, ReadGarbage,
     FinishForeign, vars, places
<1>4. CASE scheduler_start \/ ScreenPid \/ exit
  BY <1>1, <1>4, ResetWithin DEF scheduler_start, ScreenPid, exit, Start
<1>5. CASE initialize
  BY <1>5 DEF initialize, Within, LaidOut
<1>6. CASE Preempt \/ Remove
  <2>1. on' \subseteq on /\ blocks' = blocks
    BY <1>6 DEF Preempt, Remove
  <2>2. Cardinality(on') <= NumCores
    BY <2>1, NoMoreOnCores
  <2> QED
    BY <2>1, <2>2 DEF Within, LaidOut
<1>7. CASE Dispatch \/ SwapIn \/ SwapOver \/ Finish
  BY <1>7, DispatchWithin, SwapInWithin, SwapOverWithin, FinishWithin
<1> QED
  BY <1>2, <1>3, <1>4, <1>5, <1>6, <1>7 DEF Next

LEMMA TypedIsOK ==
  ASSUME Typed, Within PROVE TypeOK
<1>1. /\ session \in 1 .. MaxSessions /\ total \in 0 .. MaxCreated /\ created \in Nat
      /\ next_pid \in 1 .. total + 1 /\ process_count \in Nat /\ num_processes \in Nat
      /\ fault \in {"none", "freed name", "garbage", "foreign pointer"}
      /\ MaxCreated \in Nat
  BY Constants DEF Typed, Numbers
<1>2. Len(process_table) \in Nat
  BY DEF Typed, PlacesTyped
<1>3. num_processes \in 0 .. Len(process_table)
  <2>1. num_processes <= Len(process_table)
    BY DEF Typed, Counted
  <2>2. num_processes \in Nat
    BY <1>1
  <2> QED
    BY <1>2, <2>1, <2>2
<1>4. created <= total /\ process_count <= total
  <2> DEFINE a == IF cli.at = "pid" THEN 1 ELSE 0
             b == IF sched.at = "pid" THEN 1 ELSE 0
             c == IF cli.at = "prompt" THEN 0 ELSE 1
  <2>1. created + a + b <= total /\ process_count + c <= total
    BY DEF Typed, Counted
  <2>2. a \in Nat /\ b \in Nat /\ c \in Nat
    OBVIOUS
  <2>3. MaxCreated \in Nat /\ total \in 0 .. MaxCreated /\ created \in Nat /\ process_count \in Nat
    BY <1>1
  <2> HIDE DEF a, b, c
  <2> QED
    BY <2>1, <2>2, <2>3
<1>5. next_pid \in 1 .. MaxCreated + 1 /\ process_count \in 0 .. MaxCreated
  <2>1. MaxCreated \in Nat /\ total \in 0 .. MaxCreated /\ next_pid \in 1 .. total + 1
        /\ process_count \in Nat
    BY <1>1
  <2> QED
    BY <1>4, <2>1
<1>6. \A p \in Known : p.id[1] \in 1 .. session /\ p.num_var \in 0 .. 1
  <2>1. \A p \in Made : p.id[1] \in 1 .. session /\ p.num_var \in 0 .. 1
    BY DEF Made, Process
  <2> QED
    BY <2>1, KnownMade
<1>7. created <= total
  BY <1>4
<1>8. \A b \in blocks : b.base \in Nat
  BY DEF Typed, PlacesTyped, BlockSet
<1>9. \A b \in blocks : b.base \in Nat /\ Hole(b.base, b.size, blocks \ {b})
  BY <1>8, Zenon DEF Within, LaidOut
<1> QED
  BY <1>1, <1>3, <1>5, <1>6, <1>7, <1>9, Zenon DEF TypeOK, Within

(* Memory is never given out twice, no core is ever given two processes,   *)
(* the counters of the table, of the pids and of the processes stay with   *)
(* each other, and whatever is read from the file is a process of this     *)
(* session or an earlier one, at whatever point the threads and the        *)
(* program end.                                                            *)
THEOREM SessionsTypeCorrect == Spec => []TypeOK
<1>1. Init => Within
  BY FS_EmptySet, Constants DEF Init, Within, LaidOut
<1>2. Typed /\ Within /\ [Next]_vars => Within'
  BY StepWithin
<1>3. Typed /\ Within => TypeOK
  BY TypedIsOK
<1> QED
  BY <1>1, <1>2, <1>3, AlwaysTyped, PTL DEF Spec
-----------------------------------------------------------------------------
(* Places, by the ids of what is in them.                                  *)

Ids(s) == {s[i].id : i \in DOMAIN s}
IdsIn(T) == {p.id : p \in T}

(* No id twice. *)
Differ(s) == \A i, j \in DOMAIN s : s[i].id = s[j].id => i = j
DifferIn(T) == \A p, q \in T : p.id = q.id => p = q

LEMMA IdsOfNone == Ids(<<>>) = {} /\ Differ(<<>>) /\ IdsIn({}) = {} /\ DifferIn({})
<1>1. DOMAIN <<>> = {}
  OBVIOUS
<1> QED
  BY <1>1 DEF Ids, Differ, IdsIn, DifferIn

LEMMA IdsWithLast ==
  ASSUME NEW S, NEW s \in Seq(S), NEW x \in S
  PROVE  /\ Ids(Append(s, x)) = Ids(s) \cup {x.id}
         /\ Differ(s) /\ x.id \notin Ids(s) => Differ(Append(s, x))
<1> DEFINE a == Append(s, x)
           n == Len(s)
<1>1. /\ DOMAIN s = 1 .. n /\ DOMAIN a = 1 .. n + 1 /\ n \in Nat
      /\ \A i \in 1 .. n : a[i] = s[i]
      /\ a[n + 1] = x
  BY AppendProperties
<1> HIDE DEF a, n
<1>2. 1 .. n + 1 = (1 .. n) \cup {n + 1} /\ n + 1 \notin 1 .. n
  BY <1>1
<1>3. Ids(a) = Ids(s) \cup {x.id}
  BY <1>1, <1>2 DEF Ids
<1>4. ASSUME Differ(s), x.id \notin Ids(s) PROVE Differ(a)
  <2>1. \A i \in 1 .. n : a[i].id # x.id
    BY <1>1, <1>4 DEF Ids
  <2> QED
    BY <1>1, <1>2, <1>4, <2>1 DEF Differ
<1> QED
  BY <1>3, <1>4 DEF a

LEMMA IdsWithoutFirst ==
  ASSUME NEW S, NEW s \in Seq(S), s # <<>>
  PROVE  /\ Head(s) \in S /\ Head(s) = s[1] /\ Tail(s) \in Seq(S)
         /\ Ids(s) = Ids(Tail(s)) \cup {Head(s).id}
         /\ Differ(s) => Head(s).id \notin Ids(Tail(s)) /\ Differ(Tail(s))
<1> DEFINE t == Tail(s)
           n == Len(t)
           h == Head(s)
<1>1. /\ h \in S /\ t \in Seq(S) /\ n \in Nat /\ DOMAIN t = 1 .. n /\ DOMAIN s = 1 .. n + 1
      /\ \A i \in 1 .. n : t[i] = s[i + 1]
      /\ h = s[1]
  <2>1. /\ h \in S /\ t \in Seq(S) /\ h = s[1] /\ Len(t) = Len(s) - 1 /\ Len(s) \in Nat
        /\ \A i \in 1 .. Len(t) : t[i] = s[i + 1]
    BY HeadTailProperties
  <2>2. n \in Nat /\ DOMAIN t = 1 .. n /\ DOMAIN s = 1 .. Len(s)
    BY <2>1
  <2>3. Len(s) = n + 1
    BY <2>1
  <2> QED
    BY <2>1, <2>2, <2>3
<1> HIDE DEF t, n, h
<1>2. \A i \in 1 .. n + 1 : i = 1 \/ (i - 1 \in 1 .. n /\ (i - 1) + 1 = i)
  BY <1>1
<1>3. 1 \in 1 .. n + 1 /\ \A i \in 1 .. n : i + 1 \in 1 .. n + 1 /\ i + 1 # 1
  BY <1>1
<1>4. Ids(s) = Ids(t) \cup {h.id}
  <2>1. ASSUME NEW i \in 1 .. n + 1 PROVE s[i].id \in Ids(t) \cup {h.id}
    <3>1. CASE i = 1
      BY <1>1, <3>1
    <3>2. CASE i # 1
      <4>1. i - 1 \in 1 .. n /\ (i - 1) + 1 = i
        BY <1>2, <3>2
      <4>2. t[i - 1] = s[i]
        BY <1>1, <4>1
      <4> QED
        BY <1>1, <4>1, <4>2 DEF Ids
    <3> QED
      BY <3>1, <3>2
  <2>2. h.id \in Ids(s) /\ \A i \in 1 .. n : t[i].id \in Ids(s)
    BY <1>1, <1>3 DEF Ids
  <2> QED
    BY <1>1, <2>1, <2>2 DEF Ids
<1>5. ASSUME Differ(s) PROVE h.id \notin Ids(t) /\ Differ(t)
  <2>1. \A i \in 1 .. n : t[i].id # h.id
    BY <1>1, <1>3, <1>5 DEF Differ
  <2>2. ASSUME NEW i \in 1 .. n, NEW j \in 1 .. n, t[i].id = t[j].id PROVE i = j
    <3>1. i + 1 = j + 1
      BY <1>1, <1>3, <1>5, <2>2 DEF Differ
    <3> QED
      BY <1>1, <3>1
  <2> QED
    BY <1>1, <2>1, <2>2 DEF Differ, Ids
<1> QED
  BY <1>1, <1>4, <1>5 DEF t, h

LEMMA IdsWithOne ==
  ASSUME NEW T, NEW x
  PROVE  /\ IdsIn(T \cup {x}) = IdsIn(T) \cup {x.id}
         /\ DifferIn(T) /\ x.id \notin IdsIn(T) => DifferIn(T \cup {x})
BY DEF IdsIn, DifferIn

LEMMA IdsOfFewer ==
  ASSUME NEW T, NEW U, U \subseteq T
  PROVE  IdsIn(U) \subseteq IdsIn(T) /\ (DifferIn(T) => DifferIn(U))
BY DEF IdsIn, DifferIn

LEMMA IdsWithoutOne ==
  ASSUME NEW T, NEW x \in T
  PROVE  /\ IdsIn(T) = IdsIn(T \ {x}) \cup {x.id}
         /\ DifferIn(T) => x.id \notin IdsIn(T \ {x}) /\ DifferIn(T \ {x})
BY DEF IdsIn, DifferIn

LEMMA IdsWithoutId ==
  ASSUME NEW T, NEW v
  PROVE  LET U == {p \in T : p.id # v}
         IN  /\ IdsIn(U) = IdsIn(T) \ {v}
             /\ DifferIn(T) => DifferIn(U)
BY DEF IdsIn, DifferIn

(* The contents of the file, and what is read first. *)
LEMMA StoredTyped == ASSUME Typed PROVE Stored \in Seq(Made)
<1>1. file \in Seq(CellsOf(Made)) /\ io.cells \in Seq(CellsOf(Made))
  BY DEF Typed, StoreTyped, Cells
<1> QED
  BY <1>1, CompleteType DEF Stored

LEMMA StoredUnwritten ==
  ASSUME UNCHANGED store PROVE Stored' = Stored /\ io' = io
BY DEF store, Stored

LEMMA StoredBegins ==
  ASSUME UNCHANGED file, io.op = "none", io'.op \in {"append", "truncate"}
  PROVE  Stored' = Stored
BY DEF Stored

LEMMA StoredFirst ==
  ASSUME Typed, ReadsEntry, io.op # "rewrite"
  PROVE  /\ Stored # <<>> /\ Head(Stored) = FirstProcess /\ Tail(Stored) = Complete(Rest)
         /\ FirstProcess \in Made
<1> DEFINE x == FirstProcess
           r == Rest
<1>1. /\ x \in Made /\ r \in Seq(CellsOf(Made)) /\ file = Entry(x) \o r
  BY FirstTyped, OfTheFile DEF Typed, StoreTyped, Cells
<1> HIDE DEF x, r
<1>2. Complete(file) = <<x>> \o Complete(r) /\ Complete(r) \in Seq(Made)
  BY <1>1, CompleteFirst, CompleteType
<1> DEFINE c == Complete(r)
           d == <<x>> \o c
<1>3. d # <<>> /\ Head(d) = x /\ Tail(d) = c
  <2>1. <<x>> \in Seq(Made) /\ Len(<<x>>) = 1 /\ <<x>>[1] = x /\ c \in Seq(Made) /\ Len(c) \in Nat
    BY <1>1, <1>2
  <2> HIDE DEF c
  <2>2. /\ <<x>> \o c \in Seq(Made) /\ Len(<<x>> \o c) = 1 + Len(c)
        /\ \A i \in 1 .. 1 + Len(c) : (<<x>> \o c)[i] = IF i <= 1 THEN <<x>>[i] ELSE c[i - 1]
    BY <2>1, ConcatProperties
  <2>d. d = <<x>> \o c
    OBVIOUS
  <2> HIDE DEF d
  <2>3. /\ d \in Seq(Made) /\ Len(d) = 1 + Len(c) /\ d[1] = x
        /\ \A i \in 2 .. 1 + Len(c) : d[i] = c[i - 1]
    BY <2>1, <2>2, <2>d
  <2>4. d # <<>>
    BY <2>1, <2>3, EmptySeq
  <2>5. /\ Head(d) = d[1] /\ Tail(d) \in Seq(Made) /\ Len(Tail(d)) = Len(d) - 1
        /\ \A i \in 1 .. Len(Tail(d)) : Tail(d)[i] = d[i + 1]
    BY <2>3, <2>4, HeadTailProperties
  <2>6. Len(Tail(d)) = Len(c) /\ \A i \in 1 .. Len(c) : Tail(d)[i] = c[i]
    BY <2>1, <2>3, <2>5
  <2>7. Tail(d) = c
    BY <2>1, <2>5, <2>6, SeqEqual
  <2> QED
    BY <2>3, <2>4, <2>5, <2>7
<1>4. Stored = d
  BY <1>2 DEF Stored
<1> HIDE DEF d
<1> QED
  BY <1>1, <1>3, <1>4 DEF x, r

LEMMA StoredLast ==
  ASSUME Typed, sched.at \in {"storing", "victim"}, io = NoIo
  PROVE  Target.id \in Ids(Stored)
<1>1. Target \in Made /\ WritingIn(file, io, Made, Target) /\ io.op = "none"
  BY DEF Typed, StoreSteps, SchedTyped, Target, Holding, Writing, NoIo
<1>2. PICK s \in Seq(Made) : Complete(file) = Append(s, Target)
  BY <1>1, WritingEnded
<1>3. Stored = Append(s, Target)
  BY <1>1, <1>2 DEF Stored
<1>4. Ids(Append(s, Target)) = Ids(s) \cup {Target.id}
  BY <1>1, IdsWithLast
<1> QED
  BY <1>3, <1>4
-----------------------------------------------------------------------------
(* Before the scheduler is started nothing is anywhere, and after a second *)
(* start nothing is followed any more.                                     *)

Fresh ==
  /\ starts = 0 => /\ ~scheduler_running /\ created = 0 /\ cli.at # "add" /\ sched = InLoop
                   /\ ready = <<>> /\ on = {} /\ finished = {} /\ blocks = {}
                   /\ removed = {}
  /\ starts # 0 => scheduler_running

LEMMA StepFresh ==
  ASSUME Typed, Fresh, [Next]_vars PROVE Fresh'
<1>0. starts \in Nat
  BY DEF Typed, Numbers
<1>1. CASE \E name \in UserNames : ScreenStart(name) \/ screen_create_with_code(name)
  <2>0. PICK name \in UserNames : ScreenStart(name) \/ screen_create_with_code(name)
    BY <1>1
  <2>1. cli'.at \in {"pid", "create"}
    BY <2>0, ScreenStartReads DEF screen_create_with_code
  <2> QED
    BY <2>0, <2>1 DEF ScreenStart, screen_create_with_code, places, flags, Fresh
<1>2. CASE scheduler_start
  BY <1>0, <1>2 DEF scheduler_start, Start, Fresh
<1>3. CASE ScreenPid
  BY <1>0, <1>3 DEF ScreenPid, Start, Fresh
<1>4. CASE initialize \/ stop_scheduler \/ ReadFreedName
  <2>1. CASE initialize
    BY <2>1 DEF initialize, Fresh
  <2>2. CASE stop_scheduler
    BY <2>2 DEF stop_scheduler, history, races, places, Fresh
  <2>3. CASE ReadFreedName
    BY <2>3 DEF ReadFreedName, places, flags, Fresh
  <2> QED
    BY <1>4, <2>1, <2>2, <2>3
<1>5. CASE exit
  BY <1>5 DEF exit, Fresh, AtPrompt
<1>6. CASE ScreenAdd \/ ScreenCreateAdd
  <2>1. CASE ScreenAdd
    BY <2>1 DEF ScreenAdd, Fresh, history, races, flags, Typing
  <2>2. CASE ScreenCreateAdd
    BY <2>2 DEF ScreenCreateAdd, Fresh, history, races, flags, places, AtPrompt
  <2> QED
    BY <1>6, <2>1, <2>2
<1>7. CASE \/ GenerateRead \/ GeneratePid \/ GenerateAdd \/ Dispatch \/ DispatchToStore
           \/ FreeStored \/ Preempt
  <2>1. starts = 1 /\ UNCHANGED <<starts, scheduler_running>>
    BY <1>7 DEF GenerateRead, GeneratePid, GenerateAdd, Dispatch, DispatchToStore,
       FreeStored, Preempt, AtWork, history, races, flags
  <2> QED
    BY <2>1 DEF Fresh
<1>8. CASE SwapIn \/ SwapOut \/ SwapOver \/ EndRemove \/ WriteStore \/ ReadGarbage \/ Finish
           \/ FinishForeign \/ Remove
  <2>1. starts = 1 /\ UNCHANGED <<starts, scheduler_running>>
    BY <1>8 DEF SwapIn, SwapOut, SwapOver, EndRemove, WriteStore, ReadGarbage, Finish,
       FinishForeign, Remove, AtWork, history, races, flags
  <2> QED
    BY <2>1 DEF Fresh
<1>9. CASE UNCHANGED vars
  BY <1>9 DEF vars, history, races, places, flags, Fresh
<1> QED
  BY <1>1, <1>2, <1>3, <1>4, <1>5, <1>6, <1>7, <1>8, <1>9 DEF Next

LEMMA FreshAtFirst == ASSUME Init PROVE Fresh
BY DEF Init, Fresh, AtPrompt

-----------------------------------------------------------------------------
(* No process is in two places.                                            *)

Gone == finished \cup removed

(* r, o, f and s are the ids in the queue, on cores, gone and stored;  *)
(* p and v those of the process and the victim the scheduler thread holds, *)
(* at at; c that of the process that screen -s is about to add.            *)
ApartIn(r, o, f, s, at, p, v, op, cat, c) ==
  /\ r \cap o = {} /\ r \cap f = {} /\ r \cap s = {} /\ f \cap s = {} /\ o \cap f = {}
  /\ \A x \in o \cap s : at = "victim" /\ x = v
  /\ at \in Holding => p \notin r \cup o \cup f
  /\ (\/ at = "add"
      \/ at = "storing" /\ op = "append"
      \/ at = "removing" /\ op # "truncate") => p \notin s
  /\ at = "victim" => v \notin r \cup f /\ (op = "append" => v \notin s)
  /\ cat = "add" => /\ c \notin r \cup o \cup f \cup s
                    /\ at \in Holding => c # p
                    /\ at = "victim" => c # v

Moving == {"storing", "victim", "removing"}

Apart ==
  /\ Differ(ready) /\ Differ(Stored) /\ DifferIn(on) /\ DifferIn(Gone)
  /\ ApartIn(Ids(ready), IdsIn(on), IdsIn(Gone), Ids(Stored),
             sched.at, sched.process.id, sched.victim.id, io.op, cli.at, cli.process.id)

LEMMA ApartKept ==
  ASSUME Apart, UNCHANGED <<ready, on, Gone, Stored, sched, cli, io>> PROVE Apart'
BY DEF Apart

(* The next number is not yet taken. *)
LEMMA NewId ==
  ASSUME Typed, NEW x \in Made
  PROVE  x.id # <<session, created + 1>>
<1>1. x.id[1] = session => x.id[2] \in 1 .. created
  BY DEF Made
<1>2. created \in Nat
  BY DEF Typed, Numbers
<1>3. created + 1 \notin 1 .. created
  BY <1>2
<1> DEFINE n == created + 1
<1> HIDE DEF n
<1>4. <<session, n>>[1] = session /\ <<session, n>>[2] = n
  OBVIOUS
<1>5. x.id # <<session, n>>
  BY <1>1, <1>3, <1>4 DEF n
<1> QED
  BY <1>5 DEF n

LEMMA NewIdNowhere ==
  ASSUME Typed
  PROVE  LET n == <<session, created + 1>>
         IN  /\ n \notin Ids(ready) \cup IdsIn(on) \cup IdsIn(Gone) \cup Ids(Stored)
             /\ sched.at \in Holding => n # sched.process.id
             /\ sched.at = "victim" => n # sched.victim.id
             /\ cli.at = "add" => n # cli.process.id
<1>1. \A x \in Made : x.id # <<session, created + 1>>
  BY NewId
<1>2. ready \in Seq(Made) /\ on \subseteq Made /\ Gone \subseteq Made /\ Stored \in Seq(Made)
  BY StoredTyped DEF Typed, PlacesTyped, Gone
<1>3. /\ \A i \in DOMAIN ready : ready[i] \in Made
      /\ \A i \in DOMAIN Stored : Stored[i] \in Made
  BY <1>2
<1>4. /\ sched.at \in Holding => sched.process \in Made
      /\ sched.at = "victim" => sched.victim \in Made
      /\ cli.at = "add" => cli.process \in Made
  BY DEF Typed, SchedTyped, CliTyped
<1> QED
  BY <1>1, <1>2, <1>3, <1>4 DEF Ids, IdsIn

LEMMA CommandsApart ==
  ASSUME Typed, Apart,
         \/ initialize \/ stop_scheduler \/ scheduler_start \/ ReadFreedName
         \/ \E name \in UserNames : ScreenStart(name) \/ screen_create_with_code(name)
  PROVE  Apart'
<1>1. CASE initialize \/ stop_scheduler \/ ReadFreedName
  <2>1. UNCHANGED <<ready, on, Gone, sched, cli>> /\ UNCHANGED store
    BY <1>1 DEF initialize, init_backing_store, stop_scheduler, ReadFreedName, places, Gone
  <2> QED
    BY <2>1, StoredUnwritten, ApartKept
<1>2. CASE \E name \in UserNames : ScreenStart(name) \/ screen_create_with_code(name)
  <2>0. PICK name \in UserNames : ScreenStart(name) \/ screen_create_with_code(name)
    BY <1>2
  <2>1. /\ UNCHANGED <<ready, on, Gone, sched>> /\ UNCHANGED store
        /\ cli'.at \in {"pid", "create"}
    <3>1. CASE ScreenStart(name)
      BY <3>1, ScreenStartReads DEF ScreenStart, places, Gone
    <3>2. CASE screen_create_with_code(name)
      BY <3>2 DEF screen_create_with_code, places, Gone
    <3> QED
      BY <2>0, <3>1, <3>2
  <2>2. Stored' = Stored /\ io' = io
    BY <2>1, StoredUnwritten
  <2> QED
    BY <2>1, <2>2 DEF Apart, ApartIn
<1>3. CASE scheduler_start
  <2>1. /\ ready' = <<>> /\ on' = {} /\ Gone' \subseteq Gone /\ UNCHANGED <<sched, cli>>
        /\ UNCHANGED store
    BY <1>3 DEF scheduler_start, Start, Gone
  <2>2. Stored' = Stored /\ io' = io
    BY <2>1, StoredUnwritten
  <2>3. IdsIn(Gone') \subseteq IdsIn(Gone) /\ (DifferIn(Gone) => DifferIn(Gone'))
    BY <2>1, IdsOfFewer
  <2> QED
    BY <2>1, <2>2, <2>3, IdsOfNone DEF Apart, ApartIn
<1> QED
  BY <1>1, <1>2, <1>3

LEMMA ScreenPidIds ==
  ASSUME Typed, ScreenPid
  PROVE  /\ cli.at = "pid" /\ cli'.at = "add"
         /\ cli'.process.id = <<session, created + 1>> /\ created' = created + 1
         /\ UNCHANGED <<sched, io, Stored, removed>> /\ Gone' \subseteq Gone
         /\ \/ /\ UNCHANGED <<ready, on, finished, starts, blocks>> /\ scheduler_running
            \/ /\ ready' = <<>> /\ on' = {} /\ finished' = {} /\ blocks' = {}
               /\ starts' = starts + 1 /\ ~scheduler_running
<1>1. cli.process \in Process /\ cli.at = "pid"
  BY DEF Typed, CliTyped, ScreenPid, Typing
<1> DEFINE i == <<session, created + 1>>
<1>2. cli' = [at |-> "add", read |-> num_processes,
              process |-> [cli.process EXCEPT !.id = i, !.pid = cli.read + 1]]
  BY DEF ScreenPid
<1> HIDE DEF i
<1>3. \A n : [cli.process EXCEPT !.id = i, !.pid = n].id = i
  BY <1>1 DEF Process
<1>4. cli'.at = "add" /\ cli'.process.id = i
  BY <1>2, <1>3
<1>5. UNCHANGED store
  BY DEF ScreenPid
<1> QED
  BY <1>1, <1>4, <1>5, StoredUnwritten DEF ScreenPid, Start, i, Gone

LEMMA ScreenPidApart ==
  ASSUME Typed, Apart, ScreenPid PROVE Apart'
<1> DEFINE n == <<session, created + 1>>
<1>1. /\ n \notin Ids(ready) \cup IdsIn(on) \cup IdsIn(Gone) \cup Ids(Stored)
      /\ sched.at \in Holding => n # sched.process.id
      /\ sched.at = "victim" => n # sched.victim.id
  BY NewIdNowhere
<1>2. /\ cli'.at = "add" /\ cli'.process.id = n /\ UNCHANGED <<sched, io, Stored>>
      /\ Gone' \subseteq Gone
      /\ \/ UNCHANGED <<ready, on>>
         \/ ready' = <<>> /\ on' = {}
  BY ScreenPidIds
<1> HIDE DEF n
<1>5. IdsIn(Gone') \subseteq IdsIn(Gone) /\ (DifferIn(Gone) => DifferIn(Gone'))
  BY <1>2, IdsOfFewer
<1>3. CASE UNCHANGED <<ready, on>>
  BY <1>1, <1>2, <1>3, <1>5 DEF Apart, ApartIn
<1>4. CASE ready' = <<>> /\ on' = {}
  BY <1>1, <1>2, <1>4, <1>5, IdsOfNone DEF Apart, ApartIn
<1> QED
  BY <1>2, <1>3, <1>4

LEMMA ScreenAddIds ==
  ASSUME Typed, ScreenAdd
  PROVE  /\ cli.at = "add" /\ cli'.at = "prompt" /\ cli.process \in Made
         /\ ready' = Append(ready, cli.process) /\ ready \in Seq(Made)
         /\ Ids(ready') = Ids(ready) \cup {cli.process.id}
         /\ Differ(ready) /\ cli.process.id \notin Ids(ready) => Differ(ready')
         /\ UNCHANGED <<on, Gone, sched, io, Stored>>
<1>1. /\ cli.process \in Made /\ ready \in Seq(Made) /\ ready' = Append(ready, cli.process)
      /\ cli.at = "add" /\ cli'.at = "prompt"
  BY DEF Typed, CliTyped, PlacesTyped, ScreenAdd, Typing, AtPrompt
<1>2. UNCHANGED <<on, Gone, sched>> /\ UNCHANGED store
  BY DEF ScreenAdd, Gone
<1> QED
  BY <1>1, <1>2, IdsWithLast, StoredUnwritten

LEMMA ScreenAddApart ==
  ASSUME Typed, Apart, ScreenAdd PROVE Apart'
<1>1. /\ cli.at = "add" /\ cli'.at = "prompt"
      /\ Ids(ready') = Ids(ready) \cup {cli.process.id}
      /\ Differ(ready) /\ cli.process.id \notin Ids(ready) => Differ(ready')
      /\ UNCHANGED <<on, Gone, sched, io, Stored>>
  BY ScreenAddIds
<1> QED
  BY <1>1 DEF Apart, ApartIn

LEMMA ScreenCreateAddApart ==
  ASSUME Typed, Apart, ScreenCreateAdd PROVE Apart'
<1>1. UNCHANGED <<ready, on, Gone, sched>> /\ UNCHANGED store /\ cli'.at = "prompt"
  BY DEF ScreenCreateAdd, AtPrompt, places, Gone
<1> QED
  BY <1>1, StoredUnwritten DEF Apart, ApartIn

(* The scheduler thread. *)
LEMMA GeneratePidIds ==
  ASSUME Typed, GeneratePid
  PROVE  /\ sched.at = "pid" /\ sched'.at = "add"
         /\ sched'.process.id = <<session, created + 1>> /\ created' = created + 1
         /\ sched'.read = num_processes
         /\ UNCHANGED <<ready, on, Gone, cli, io, Stored>>
<1> DEFINE i == <<session, created + 1>>
           n == sched.read + 1
<1>1. /\ sched.at = "pid" /\ created' = created + 1 /\ UNCHANGED <<ready, on, Gone, cli>>
      /\ UNCHANGED store
      /\ sched' = [InLoop EXCEPT !.at = "add", !.read = num_processes,
                     !.process = [NoProcess EXCEPT !.id = i, !.name = n, !.pid = n]]
  BY DEF GeneratePid, AtWork, places, Gone
<1> HIDE DEF i, n
<1>2. [NoProcess EXCEPT !.id = i, !.name = n, !.pid = n].id = i
  BY DEF NoProcess
<1> DEFINE x == [NoProcess EXCEPT !.id = i, !.name = n, !.pid = n]
<1> HIDE DEF x
<1>3. /\ sched'.at = "add" /\ sched'.process = x /\ sched'.read = num_processes
  <2>1. sched' = [InLoop EXCEPT !.at = "add", !.read = num_processes, !.process = x]
    BY <1>1 DEF x
  <2> QED
    BY <2>1 DEF InLoop
<1>4. x.id = i
  BY <1>2 DEF x
<1> QED
  BY <1>1, <1>3, <1>4, StoredUnwritten DEF i

LEMMA GenerateAddIds ==
  ASSUME Typed, GenerateAdd
  PROVE  /\ sched.at = "add" /\ sched'.at = "loop" /\ sched.process \in Made
         /\ ready' = Append(ready, sched.process) /\ ready \in Seq(Made)
         /\ Ids(ready') = Ids(ready) \cup {sched.process.id}
         /\ Differ(ready) /\ sched.process.id \notin Ids(ready) => Differ(ready')
         /\ UNCHANGED <<on, Gone, cli, io, Stored>>
<1>1. /\ sched.process \in Made /\ ready \in Seq(Made) /\ ready' = Append(ready, sched.process)
      /\ sched.at = "add" /\ sched'.at = "loop"
  BY DEF Typed, SchedTyped, PlacesTyped, GenerateAdd, AtWork, InLoop, Holding
<1>2. UNCHANGED <<on, Gone, cli>> /\ UNCHANGED store
  BY DEF GenerateAdd, Gone
<1> QED
  BY <1>1, <1>2, IdsWithLast, StoredUnwritten

LEMMA GenerateApart ==
  ASSUME Typed, Apart, GenerateRead \/ GeneratePid \/ GenerateAdd PROVE Apart'
<1>1. CASE GenerateRead
  <2>1. UNCHANGED <<ready, on, Gone, cli>> /\ UNCHANGED store /\ sched.at = "loop"
    BY <1>1 DEF GenerateRead, places, AtWork, Gone
  <2>2. sched'.at = "pid"
    <3>1. sched' = [InLoop EXCEPT !.at = "pid", !.read = next_pid]
      BY <1>1 DEF GenerateRead
    <3> QED
      BY <3>1 DEF InLoop
  <2> QED
    BY <2>1, <2>2, StoredUnwritten DEF Apart, ApartIn, Holding
<1>2. CASE GeneratePid
  <2> DEFINE n == <<session, created + 1>>
  <2>1. /\ n \notin Ids(ready) \cup IdsIn(on) \cup IdsIn(Gone) \cup Ids(Stored)
        /\ cli.at = "add" => n # cli.process.id
    BY NewIdNowhere
  <2>2. /\ sched.at = "pid" /\ sched'.at = "add" /\ sched'.process.id = n
        /\ UNCHANGED <<ready, on, Gone, cli, io, Stored>>
    BY <1>2, GeneratePidIds
  <2> HIDE DEF n
  <2> QED
    BY <2>1, <2>2 DEF Apart, ApartIn
<1>3. CASE GenerateAdd
  <2>1. /\ sched.at = "add" /\ sched'.at = "loop"
        /\ Ids(ready') = Ids(ready) \cup {sched.process.id}
        /\ Differ(ready) /\ sched.process.id \notin Ids(ready) => Differ(ready')
        /\ UNCHANGED <<on, Gone, cli, io, Stored>>
    BY <1>3, GenerateAddIds
  <2> QED
    BY <2>1 DEF Apart, ApartIn, Holding
<1> QED
  BY <1>1, <1>2, <1>3

LEMMA HeadOfReady ==
  ASSUME Typed, ready # <<>>
  PROVE  /\ Head(ready) \in Made /\ ready \in Seq(Made) /\ Tail(ready) \in Seq(Made)
         /\ Ids(ready) = Ids(Tail(ready)) \cup {Head(ready).id}
         /\ Differ(ready) => Head(ready).id \notin Ids(Tail(ready)) /\ Differ(Tail(ready))
<1>1. ready \in Seq(Made)
  BY DEF Typed, PlacesTyped
<1> QED
  BY <1>1, IdsWithoutFirst

(* What a block says of its process. *)
Owner(p) == <<p.pid, p.id, p.memory_allocation>>

LEMMA MarkedId ==
  ASSUME NEW x \in Made
  PROVE  /\ [x EXCEPT !.in_memory = 1].id = x.id
         /\ Owner([x EXCEPT !.in_memory = 1]) = Owner(x)
         /\ [x EXCEPT !.in_memory = 1].in_memory = 1
         /\ \A n : LET y == [x EXCEPT !.num_var = n]
                  IN  /\ y.id = x.id /\ Owner(y) = Owner(x) /\ y.in_memory = x.in_memory
                      /\ y.memory_allocation = x.memory_allocation
BY DEF Made, Process, Owner

LEMMA DispatchIds ==
  ASSUME Typed, Dispatch
  PROVE  LET p == Head(ready)
         IN  /\ sched.at = "loop" /\ ready # <<>> /\ ready' = Tail(ready)
             /\ on' = on \cup {[p EXCEPT !.in_memory = 1]} /\ p \in Made
             /\ IdsIn(on') = IdsIn(on) \cup {p.id}
             /\ DifferIn(on) /\ p.id \notin IdsIn(on) => DifferIn(on')
             /\ UNCHANGED <<Gone, sched, cli, io, Stored>>
<1> DEFINE p == Head(ready)
           x == [p EXCEPT !.in_memory = 1]
<1>1. /\ ready # <<>> /\ ready' = Tail(ready) /\ on' = on \cup {x}
      /\ UNCHANGED <<Gone, sched, cli>> /\ UNCHANGED store /\ sched.at = "loop"
  BY DEF Dispatch, AtWork, Gone
<1>2. x.id = p.id /\ p \in Made
  BY <1>1, HeadOfReady, MarkedId
<1> HIDE DEF x
<1>3. /\ IdsIn(on') = IdsIn(on) \cup {p.id}
      /\ DifferIn(on) /\ p.id \notin IdsIn(on) => DifferIn(on')
  BY <1>1, <1>2, IdsWithOne
<1> QED
  BY <1>1, <1>2, <1>3, StoredUnwritten DEF x

LEMMA DispatchApart ==
  ASSUME Typed, Apart, Dispatch PROVE Apart'
<1> DEFINE p == Head(ready)
<1>1. /\ sched.at = "loop" /\ ready # <<>> /\ ready' = Tail(ready)
      /\ IdsIn(on') = IdsIn(on) \cup {p.id}
      /\ DifferIn(on) /\ p.id \notin IdsIn(on) => DifferIn(on')
      /\ UNCHANGED <<Gone, sched, cli, io, Stored>>
  BY DispatchIds
<1>2. /\ Ids(ready) = Ids(ready') \cup {p.id}
      /\ Differ(ready) => p.id \notin Ids(ready') /\ Differ(ready')
  BY <1>1, HeadOfReady
<1> HIDE DEF p
<1> QED
  BY <1>1, <1>2 DEF Apart, ApartIn, Holding

LEMMA DispatchToStoreIds ==
  ASSUME Typed, DispatchToStore
  PROVE  LET p == Head(ready)
         IN  /\ sched.at = "loop" /\ ready # <<>> /\ ready' = Tail(ready) /\ p \in Made
             /\ sched'.at = "storing" /\ sched'.process = p /\ sched'.victim = NoProcess
             /\ io.op = "none" /\ io'.op = "append" /\ p.in_memory = 0
             /\ ~Fits(p.memory_allocation, blocks)
             /\ UNCHANGED <<on, Gone, cli, Stored, blocks>>
<1> DEFINE p == Head(ready)
<1>1. /\ ready # <<>> /\ ready' = Tail(ready) /\ UNCHANGED <<on, Gone, cli, blocks>>
      /\ BeginAppend(p) /\ sched' = [InLoop EXCEPT !.at = "storing", !.process = p]
      /\ sched.at = "loop" /\ p.in_memory = 0 /\ ~Fits(p.memory_allocation, blocks)
  BY DEF DispatchToStore, AtWork, Gone
<1>2. p \in Made
  BY <1>1, HeadOfReady
<1> HIDE DEF p
<1>3. sched'.at = "storing" /\ sched'.process = p /\ sched'.victim = NoProcess
  BY <1>1 DEF InLoop
<1>4. io.op = "none" /\ io'.op = "append" /\ file' = file
  BY <1>1 DEF BeginAppend, Quiet
<1> QED
  BY <1>1, <1>2, <1>3, <1>4, StoredBegins DEF p

LEMMA DispatchToStoreApart ==
  ASSUME Typed, Apart, DispatchToStore PROVE Apart'
<1> DEFINE p == Head(ready)
<1>1. /\ sched.at = "loop" /\ ready # <<>> /\ ready' = Tail(ready)
      /\ sched'.at = "storing" /\ sched'.process = p
      /\ UNCHANGED <<on, Gone, cli, Stored>>
  BY DispatchToStoreIds
<1>2. /\ Ids(ready) = Ids(ready') \cup {p.id}
      /\ Differ(ready) => p.id \notin Ids(ready') /\ Differ(ready')
  BY <1>1, HeadOfReady
<1> HIDE DEF p
<1> QED
  BY <1>1, <1>2 DEF Apart, ApartIn, Holding

LEMMA FreeStoredApart ==
  ASSUME Typed, Apart, FreeStored PROVE Apart'
<1>1. UNCHANGED <<ready, on, Gone, cli>> /\ UNCHANGED store
      /\ sched.at = "storing" /\ sched'.at = "loop"
  BY DEF FreeStored, AtWork, places, InLoop, Gone
<1> QED
  BY <1>1, StoredUnwritten DEF Apart, ApartIn, Holding

LEMMA PreemptIds ==
  ASSUME Typed, Preempt
  PROVE  \E p \in on :
           /\ on' = on \ {p} /\ ready' = Append(ready, p) /\ p \in Made /\ ready \in Seq(Made)
           /\ Ids(ready') = Ids(ready) \cup {p.id}
           /\ Differ(ready) /\ p.id \notin Ids(ready) => Differ(ready')
           /\ IdsIn(on) = IdsIn(on') \cup {p.id}
           /\ DifferIn(on) => p.id \notin IdsIn(on') /\ DifferIn(on')
           /\ UNCHANGED <<Gone, sched, cli, io, Stored>>
           /\ sched.at = "loop"
<1>1. PICK p \in on : on' = on \ {p} /\ ready' = Append(ready, p)
  BY DEF Preempt
<1>2. p \in Made /\ ready \in Seq(Made)
  BY DEF Typed, PlacesTyped
<1>3. UNCHANGED <<Gone, sched, cli>> /\ UNCHANGED store /\ sched.at = "loop"
  BY DEF Preempt, AtWork, Gone
<1>4. /\ Ids(ready') = Ids(ready) \cup {p.id}
      /\ Differ(ready) /\ p.id \notin Ids(ready) => Differ(ready')
  BY <1>1, <1>2, IdsWithLast
<1>5. /\ IdsIn(on) = IdsIn(on') \cup {p.id}
      /\ DifferIn(on) => p.id \notin IdsIn(on') /\ DifferIn(on')
  BY <1>1, IdsWithoutOne
<1> QED
  BY <1>1, <1>2, <1>3, <1>4, <1>5, StoredUnwritten

LEMMA PreemptApart ==
  ASSUME Typed, Apart, Preempt PROVE Apart'
<1>1. PICK p \in on :
        /\ Ids(ready') = Ids(ready) \cup {p.id}
        /\ Differ(ready) /\ p.id \notin Ids(ready) => Differ(ready')
        /\ IdsIn(on) = IdsIn(on') \cup {p.id}
        /\ DifferIn(on) => p.id \notin IdsIn(on') /\ DifferIn(on')
        /\ UNCHANGED <<Gone, sched, cli, io, Stored>>
        /\ sched.at = "loop"
  BY PreemptIds
<1> QED
  BY <1>1 DEF Apart, ApartIn, Holding

LEMMA FinishIds ==
  ASSUME Typed, Finish
  PROVE  \E p \in on :
           /\ on' = on \ {p} /\ p \in Made /\ blocks' = Released(p) /\ removed' = removed
           /\ finished' = finished \cup {p} /\ Gone' = Gone \cup {p}
           /\ IdsIn(Gone') = IdsIn(Gone) \cup {p.id}
           /\ DifferIn(Gone) /\ p.id \notin IdsIn(Gone) => DifferIn(Gone')
           /\ IdsIn(on) = IdsIn(on') \cup {p.id}
           /\ DifferIn(on) => p.id \notin IdsIn(on') /\ DifferIn(on')
           /\ UNCHANGED <<ready, sched, cli, io, Stored>>
           /\ sched.at \notin Moving
<1>1. PICK p \in on : /\ on' = on \ {p} /\ finished' = finished \cup {p}
                      /\ blocks' = Released(p) /\ removed' = removed
  BY DEF Finish
<1>a. Gone' = Gone \cup {p}
  BY <1>1 DEF Gone
<1>2. p \in Made
  BY DEF Typed, PlacesTyped
<1>3. UNCHANGED <<ready, sched, cli>> /\ UNCHANGED store /\ sched.at \notin Moving
  BY DEF Finish, LockFree, Moving, Gone
<1>4. /\ IdsIn(Gone') = IdsIn(Gone) \cup {p.id}
      /\ DifferIn(Gone) /\ p.id \notin IdsIn(Gone) => DifferIn(Gone')
  BY <1>a, IdsWithOne
<1>5. /\ IdsIn(on) = IdsIn(on') \cup {p.id}
      /\ DifferIn(on) => p.id \notin IdsIn(on') /\ DifferIn(on')
  BY <1>1, IdsWithoutOne
<1> QED
  BY <1>1, <1>a, <1>2, <1>3, <1>4, <1>5, StoredUnwritten

LEMMA FinishApart ==
  ASSUME Typed, Apart, Finish PROVE Apart'
<1>1. PICK p \in on :
        /\ IdsIn(Gone') = IdsIn(Gone) \cup {p.id}
        /\ DifferIn(Gone) /\ p.id \notin IdsIn(Gone) => DifferIn(Gone')
        /\ IdsIn(on) = IdsIn(on') \cup {p.id}
        /\ DifferIn(on) => p.id \notin IdsIn(on') /\ DifferIn(on')
        /\ UNCHANGED <<ready, sched, cli, io, Stored>>
        /\ sched.at \notin Moving
  BY FinishIds
<1> QED
  BY <1>1 DEF Apart, ApartIn, Holding, Moving

LEMMA RemoveIds ==
  ASSUME Typed, Remove
  PROVE  \E p \in on :
           /\ on' = on \ {p} /\ p \in Made /\ blocks' = blocks /\ finished' = finished
           /\ removed' = removed \cup {p} /\ Gone' = Gone \cup {p}
           /\ IdsIn(Gone') = IdsIn(Gone) \cup {p.id}
           /\ DifferIn(Gone) /\ p.id \notin IdsIn(Gone) => DifferIn(Gone')
           /\ IdsIn(on) = IdsIn(on') \cup {p.id}
           /\ DifferIn(on) => p.id \notin IdsIn(on') /\ DifferIn(on')
           /\ UNCHANGED <<ready, sched, cli, io, Stored>>
           /\ sched.at \notin Moving
<1>1. PICK p \in on : /\ on' = on \ {p} /\ removed' = removed \cup {p}
                      /\ blocks' = blocks /\ finished' = finished
  BY DEF Remove
<1>a. Gone' = Gone \cup {p}
  BY <1>1 DEF Gone
<1>2. p \in Made
  BY DEF Typed, PlacesTyped
<1>3. UNCHANGED <<ready, sched, cli>> /\ UNCHANGED store /\ sched.at \notin Moving
  BY DEF Remove, LockFree, Moving, Gone
<1>4. /\ IdsIn(Gone') = IdsIn(Gone) \cup {p.id}
      /\ DifferIn(Gone) /\ p.id \notin IdsIn(Gone) => DifferIn(Gone')
  BY <1>a, IdsWithOne
<1>5. /\ IdsIn(on) = IdsIn(on') \cup {p.id}
      /\ DifferIn(on) => p.id \notin IdsIn(on') /\ DifferIn(on')
  BY <1>1, IdsWithoutOne
<1> QED
  BY <1>1, <1>a, <1>2, <1>3, <1>4, <1>5, StoredUnwritten

LEMMA RemoveApart ==
  ASSUME Typed, Apart, Remove PROVE Apart'
<1>1. PICK p \in on :
        /\ IdsIn(Gone') = IdsIn(Gone) \cup {p.id}
        /\ DifferIn(Gone) /\ p.id \notin IdsIn(Gone) => DifferIn(Gone')
        /\ IdsIn(on) = IdsIn(on') \cup {p.id}
        /\ DifferIn(on) => p.id \notin IdsIn(on') /\ DifferIn(on')
        /\ UNCHANGED <<ready, sched, cli, io, Stored>>
        /\ sched.at \notin Moving
  BY RemoveIds
<1> QED
  BY <1>1 DEF Apart, ApartIn, Holding, Moving

LEMMA ImageIs ==
  ASSUME Typed, ReadsEntry
  PROVE  /\ FirstProcess \in Made /\ Image \in Made /\ Image.id = FirstProcess.id
         /\ Owner(Image) = Owner(FirstProcess) /\ Image.in_memory = 1
<1>1. FirstProcess \in Made
  BY FirstTyped, OfTheFile DEF Typed, StoreTyped, Cells
<1> QED
  BY <1>1, Marked, MarkedId DEF Image

(* The first of what is stored is the process that is read. *)
LEMMA FirstIds ==
  ASSUME Typed, ReadsEntry, io.op # "rewrite"
  PROVE  /\ Stored # <<>> /\ Stored \in Seq(Made)
         /\ Ids(Stored) = Ids(Tail(Stored)) \cup {FirstProcess.id}
         /\ Differ(Stored) => FirstProcess.id \notin Ids(Tail(Stored)) /\ Differ(Tail(Stored))
<1>1. Stored # <<>> /\ Head(Stored) = FirstProcess /\ Stored \in Seq(Made)
  BY StoredFirst, StoredTyped
<1> QED
  BY <1>1, IdsWithoutFirst

LEMMA SwapInIds ==
  ASSUME Typed, SwapIn
  PROVE  /\ sched.at = "loop" /\ sched'.at = "removing" /\ sched'.process = Image
         /\ ReadsEntry /\ io.op = "none" /\ io'.op = "truncate"
         /\ FirstProcess \in Made /\ Image.id = FirstProcess.id
         /\ Ids(Stored) = Ids(Tail(Stored)) \cup {FirstProcess.id}
         /\ blocks' = Allocated(FirstProcess, blocks)
         /\ Fits(FirstProcess.memory_allocation, blocks)
         /\ UNCHANGED <<ready, on, Gone, cli, Stored>>
<1>1. /\ sched' = [InLoop EXCEPT !.at = "removing", !.process = Image] /\ BeginRemove
      /\ UNCHANGED <<ready, on, Gone, cli>> /\ sched.at = "loop" /\ ReadsEntry
      /\ blocks' = Allocated(FirstProcess, blocks)
      /\ Fits(FirstProcess.memory_allocation, blocks)
  BY DEF SwapIn, AtWork, Gone
<1>2. sched'.at = "removing" /\ sched'.process = Image
  <2> DEFINE x == Image
  <2> HIDE DEF x
  <2>1. sched' = [InLoop EXCEPT !.at = "removing", !.process = x]
    BY <1>1 DEF x
  <2>2. sched'.at = "removing" /\ sched'.process = x
    BY <2>1 DEF InLoop
  <2> QED
    BY <2>2 DEF x
<1>3. io.op = "none" /\ io'.op = "truncate" /\ file' = file
  BY <1>1 DEF BeginRemove, Quiet
<1> QED
  BY <1>1, <1>2, <1>3, ImageIs, FirstIds, StoredBegins

LEMMA SwapInApart ==
  ASSUME Typed, Apart, SwapIn PROVE Apart'
<1>1. /\ sched.at = "loop" /\ sched'.at = "removing" /\ sched'.process.id = FirstProcess.id
      /\ io'.op = "truncate" /\ FirstProcess.id \in Ids(Stored)
      /\ UNCHANGED <<ready, on, Gone, cli, Stored>>
  BY SwapInIds
<1> QED
  BY <1>1 DEF Apart, ApartIn, Holding

LEMMA SwapOutIds ==
  ASSUME Typed, SwapOut
  PROVE  /\ sched.at = "loop" /\ sched'.at = "victim" /\ sched'.process = Image
         /\ ReadsEntry /\ io.op = "none" /\ io'.op = "append"
         /\ FirstProcess \in Made /\ Image.id = FirstProcess.id
         /\ ~Fits(FirstProcess.memory_allocation, blocks)
         /\ Ids(Stored) = Ids(Tail(Stored)) \cup {FirstProcess.id}
         /\ UNCHANGED <<ready, on, Gone, blocks, cli, Stored>>
         /\ \E p \in on : /\ \E n : sched'.victim = [p EXCEPT !.num_var = n]
                         /\ sched'.victim.id = p.id
<1>1. /\ UNCHANGED <<ready, on, Gone, blocks, cli>> /\ sched.at = "loop" /\ ReadsEntry
      /\ ~Fits(FirstProcess.memory_allocation, blocks)
  BY DEF SwapOut, AtWork, places, Gone
<1>2. PICK p \in on : \E n \in {p.num_var, 1} :
        LET victim == [p EXCEPT !.num_var = n]
        IN  /\ BeginAppend(victim)
            /\ sched' = [InLoop EXCEPT !.at = "victim", !.process = Image, !.victim = victim]
  BY DEF SwapOut
<1>9. PICK n \in {p.num_var, 1} :
        LET victim == [p EXCEPT !.num_var = n]
        IN  /\ BeginAppend(victim)
            /\ sched' = [InLoop EXCEPT !.at = "victim", !.process = Image, !.victim = victim]
  BY <1>2
<1>3. p \in Made /\ [p EXCEPT !.num_var = n].id = p.id
  BY MarkedId DEF Typed, PlacesTyped
<1> DEFINE x == Image
           v == [p EXCEPT !.num_var = n]
<1>4. BeginAppend(v) /\ sched' = [InLoop EXCEPT !.at = "victim", !.process = x, !.victim = v]
  BY <1>9
<1>5. v.id = p.id
  BY <1>3
<1> HIDE DEF x, v
<1>6. sched'.at = "victim" /\ sched'.process = x /\ sched'.victim = v
  BY <1>4 DEF InLoop
<1>7. io.op = "none" /\ io'.op = "append" /\ file' = file
  BY <1>4 DEF BeginAppend, Quiet
<1>8. \E q \in on : /\ \E m : sched'.victim = [q EXCEPT !.num_var = m]
                    /\ sched'.victim.id = q.id
  BY <1>5, <1>6 DEF v
<1> QED
  BY <1>1, <1>6, <1>7, <1>8, ImageIs, FirstIds, StoredBegins DEF x

LEMMA SwapOutApart ==
  ASSUME Typed, Apart, SwapOut PROVE Apart'
<1>1. /\ sched.at = "loop" /\ sched'.at = "victim" /\ sched'.process.id = FirstProcess.id
      /\ FirstProcess.id \in Ids(Stored)
      /\ UNCHANGED <<ready, on, Gone, cli, Stored>>
  BY SwapOutIds
<1>2. sched'.victim.id \in IdsIn(on)
  BY SwapOutIds DEF IdsIn
<1> QED
  BY <1>1, <1>2 DEF Apart, ApartIn, Holding

LEMMA SwapOverIds ==
  ASSUME Typed, SwapOver
  PROVE  /\ sched.at = "victim" /\ io = NoIo /\ ReadsEntry /\ sched.process = Image
         /\ FirstProcess \in Made /\ Image.id = FirstProcess.id
         /\ Ids(Stored) = Ids(Tail(Stored)) \cup {FirstProcess.id}
         /\ sched.victim \in Made /\ sched.victim.id \in Ids(Stored)
         /\ on' = {p \in on : p.id # sched.victim.id}
         /\ IdsIn(on') = IdsIn(on) \ {sched.victim.id}
         /\ DifferIn(on) => DifferIn(on')
         /\ LET rest == Released(sched.victim)
            IN  \/ /\ sched'.at = "removing" /\ sched'.process = sched.process
                   /\ io'.op = "truncate" /\ blocks' = Allocated(sched.process, rest)
                   /\ Fits(sched.process.memory_allocation, rest)
                \/ sched'.at = "loop" /\ blocks' = rest
         /\ UNCHANGED <<ready, Gone, cli, Stored>>
<1>1. /\ sched.at = "victim" /\ Quiet /\ UNCHANGED <<ready, Gone, cli>>
      /\ on' = {p \in on : p.id # sched.victim.id}
  BY DEF SwapOver, AtWork, Gone
<1>2. io = NoIo /\ Reading /\ sched.victim \in Made /\ sched \in
         [at : SchedAts, read : Nat, process : Process, victim : Process]
  BY <1>1, QuietIsNoIo DEF Typed, StoreSteps, SchedTyped
<1> DEFINE rest == Released(sched.victim)
<1>3. \/ /\ BeginRemove /\ blocks' = Allocated(sched.process, rest)
         /\ Fits(sched.process.memory_allocation, rest)
         /\ sched' = [sched EXCEPT !.at = "removing", !.victim = NoProcess]
      \/ sched' = InLoop /\ UNCHANGED store /\ blocks' = rest
  BY DEF SwapOver
<1> HIDE DEF rest
<1>4. /\ Stored' = Stored
      /\ \/ /\ sched'.at = "removing" /\ sched'.process = sched.process
            /\ io'.op = "truncate" /\ blocks' = Allocated(sched.process, rest)
            /\ Fits(sched.process.memory_allocation, rest)
         \/ sched'.at = "loop" /\ blocks' = rest
  <2>1. CASE /\ BeginRemove /\ blocks' = Allocated(sched.process, rest)
             /\ Fits(sched.process.memory_allocation, rest)
             /\ sched' = [sched EXCEPT !.at = "removing", !.victim = NoProcess]
    <3>1. sched'.at = "removing" /\ sched'.process = sched.process
      BY <1>2, <2>1
    <3>2. io.op = "none" /\ io'.op = "truncate" /\ file' = file
      BY <2>1 DEF BeginRemove, Quiet
    <3> QED
      BY <2>1, <3>1, <3>2, StoredBegins
  <2>2. CASE sched' = InLoop /\ UNCHANGED store /\ blocks' = rest
    BY <2>2, StoredUnwritten DEF InLoop
  <2> QED
    BY <1>3, <2>1, <2>2
<1>5. ReadsEntry /\ sched.process = Image /\ io.op # "rewrite"
  BY <1>2 DEF Reading, NoIo
<1>6. sched.victim.id \in Ids(Stored)
  BY <1>1, <1>2, StoredLast DEF Target
<1>7. /\ IdsIn(on') = IdsIn(on) \ {sched.victim.id}
      /\ DifferIn(on) => DifferIn(on')
  BY <1>1, IdsWithoutId
<1> QED
  BY <1>1, <1>2, <1>4, <1>5, <1>6, <1>7, ImageIs, FirstIds DEF rest

LEMMA SwapOverApart ==
  ASSUME Typed, Apart, SwapOver PROVE Apart'
<1>1. /\ sched.at = "victim" /\ sched.process.id \in Ids(Stored)
      /\ IdsIn(on') = IdsIn(on) \ {sched.victim.id}
      /\ DifferIn(on) => DifferIn(on')
      /\ \/ sched'.at = "removing" /\ sched'.process = sched.process /\ io'.op = "truncate"
         \/ sched'.at = "loop"
      /\ UNCHANGED <<ready, Gone, cli, Stored>>
  BY SwapOverIds
<1>2. CASE sched'.at = "removing" /\ sched'.process = sched.process /\ io'.op = "truncate"
  BY <1>1, <1>2 DEF Apart, ApartIn, Holding
<1>3. CASE sched'.at = "loop"
  BY <1>1, <1>3 DEF Apart, ApartIn, Holding
<1> QED
  BY <1>1, <1>2, <1>3

LEMMA EndRemoveIds ==
  ASSUME Typed, EndRemove
  PROVE  /\ sched.at = "removing" /\ sched'.at = "loop" /\ sched.process \in Made
         /\ io = NoIo
         /\ ready' = Append(ready, sched.process) /\ ready \in Seq(Made)
         /\ Ids(ready') = Ids(ready) \cup {sched.process.id}
         /\ Differ(ready) /\ sched.process.id \notin Ids(ready) => Differ(ready')
         /\ UNCHANGED <<on, Gone, blocks, cli, io, Stored>>
<1>1. /\ sched.process \in Made /\ ready \in Seq(Made) /\ ready' = Append(ready, sched.process)
      /\ sched.at = "removing" /\ sched'.at = "loop"
  BY DEF Typed, SchedTyped, PlacesTyped, EndRemove, AtWork, InLoop, Holding
<1>2. UNCHANGED <<on, Gone, blocks, cli>> /\ UNCHANGED store /\ io = NoIo
  BY QuietIsNoIo DEF EndRemove, Gone
<1> QED
  BY <1>1, <1>2, IdsWithLast, StoredUnwritten

LEMMA EndRemoveApart ==
  ASSUME Typed, Apart, EndRemove PROVE Apart'
<1>1. /\ sched.at = "removing" /\ sched'.at = "loop" /\ io.op # "truncate"
      /\ Ids(ready') = Ids(ready) \cup {sched.process.id}
      /\ Differ(ready) /\ sched.process.id \notin Ids(ready) => Differ(ready')
      /\ UNCHANGED <<on, Gone, cli, io, Stored>>
  BY EndRemoveIds DEF NoIo
<1> QED
  BY <1>1 DEF Apart, ApartIn, Holding

LEMMA WriteStoreIds ==
  ASSUME Typed, WriteStore
  PROVE  /\ UNCHANGED <<ready, on, Gone, blocks, sched, cli>>
         /\ \/ Stored' = Stored /\ io'.op = "append" /\ io.op = "append"
            \/ /\ Stored' = Append(Stored, Target) /\ io.op = "append" /\ io'.op = "none"
               /\ sched.at \in {"storing", "victim"} /\ Target \in Made
               /\ Ids(Stored') = Ids(Stored) \cup {Target.id}
               /\ Differ(Stored) /\ Target.id \notin Ids(Stored) => Differ(Stored')
            \/ /\ Stored' = Tail(Stored) /\ io.op = "truncate" /\ io'.op \in {"none", "rewrite"}
               /\ sched.at = "removing" /\ Stored # <<>> /\ sched.process = Image
               /\ sched.process.id = FirstProcess.id /\ Head(Stored) = FirstProcess
               /\ Ids(Stored) = Ids(Stored') \cup {sched.process.id}
               /\ Differ(Stored) => sched.process.id \notin Ids(Stored') /\ Differ(Stored')
            \/ Stored' = Stored /\ io.op = "rewrite" /\ io'.op = "none" /\ sched.at = "removing"
<1>0. UNCHANGED <<ready, on, Gone, blocks, sched, cli>>
  BY DEF WriteStore, places, Gone
<1>1. CASE AppendCell
  <2>1. /\ Target \in Made /\ Writing(Target) /\ io.op = "append"
        /\ file \in Seq(CellsOf(Made)) /\ sched.at \in {"storing", "victim"}
    BY <1>1, WriteAt DEF AppendCell, Typed, StoreTyped, Cells
  <2>2. WritingIn(file, io, Made, Target)
    BY <2>1 DEF Writing
  <2> DEFINE g == Append(file, Head(io.cells))
             q == IF Len(io.cells) = 1 THEN NoIo ELSE [io EXCEPT !.cells = Tail(@)]
  <2>3. file' = g /\ io' = q
    BY <1>1 DEF AppendCell
  <2>4. Complete(g) = IF Len(io.cells) = 1 THEN Append(Complete(file), Target)
                      ELSE Complete(file)
    BY <2>1, <2>2, WritingStores
  <2>5. IF Len(io.cells) = 1 THEN q.op = "none" ELSE q.op = "append"
    <3>1. io \in [op : {"none", "append", "truncate", "rewrite"}, cells : Seq(Cells)]
      BY DEF Typed, StoreTyped
    <3>2. \A t : [io EXCEPT !.cells = t].op = io.op
      BY <3>1
    <3> QED
      BY <2>1, <3>2 DEF NoIo
  <2> HIDE DEF g, q
  <2>6. Stored = Complete(file) /\ Stored' = Complete(g)
    <3>1. io.op # "rewrite" /\ io'.op # "rewrite"
      BY <2>1, <2>3, <2>5
    <3> QED
      BY <2>3, <3>1 DEF Stored
  <2>7. Stored \in Seq(Made)
    BY StoredTyped
  <2>8. CASE Len(io.cells) = 1
    <3>1. Stored' = Append(Stored, Target) /\ io'.op = "none"
      BY <2>3, <2>4, <2>5, <2>6, <2>8
    <3>2. /\ Ids(Stored') = Ids(Stored) \cup {Target.id}
          /\ Differ(Stored) /\ Target.id \notin Ids(Stored) => Differ(Stored')
      BY <2>1, <2>7, <3>1, IdsWithLast
    <3> QED
      BY <1>0, <2>1, <3>1, <3>2
  <2>9. CASE Len(io.cells) # 1
    BY <1>0, <2>1, <2>3, <2>4, <2>5, <2>6, <2>9
  <2> QED
    BY <2>8, <2>9
<1>2. CASE Truncate
  <2>1. Reading /\ io.op = "truncate" /\ sched.at = "removing"
    BY <1>2, WriteAt DEF Truncate
  <2>2. ReadsEntry /\ sched.process = Image /\ io.op # "rewrite"
    BY <2>1 DEF Reading
  <2>3. Stored # <<>> /\ Stored' = Tail(Stored) /\ Head(Stored) = FirstProcess
    BY <1>2, <2>2, TruncateRemoves, StoredFirst DEF Contents!RemoveFirst
  <2>4. io'.op \in {"none", "rewrite"}
    <3>1. io \in [op : {"none", "append", "truncate", "rewrite"}, cells : Seq(Cells)]
      BY DEF Typed, StoreTyped
    <3>2. [io EXCEPT !.op = "rewrite"].op = "rewrite"
      BY <3>1
    <3> QED
      BY <1>2, <3>2 DEF Truncate, NoIo
  <2>5. /\ Ids(Stored) = Ids(Stored') \cup {FirstProcess.id}
        /\ Differ(Stored) => FirstProcess.id \notin Ids(Stored') /\ Differ(Stored')
    BY <2>2, <2>3, FirstIds
  <2>6. sched.process.id = FirstProcess.id
    BY <2>2, ImageIs
  <2> QED
    BY <1>0, <2>1, <2>2, <2>3, <2>4, <2>5, <2>6
<1>3. CASE Rewrite
  <2>1. io.op = "rewrite" /\ sched.at = "removing" /\ io'.op = "none"
    BY <1>3, WriteAt DEF Rewrite, NoIo
  <2>2. Stored' = Stored
    BY <1>3, RewriteKeeps
  <2> QED
    BY <1>0, <2>1, <2>2
<1> QED
  BY <1>1, <1>2, <1>3 DEF WriteStore

LEMMA WriteStoreApart ==
  ASSUME Typed, Apart, WriteStore PROVE Apart'
<1>0. UNCHANGED <<ready, on, Gone, sched, cli>>
  BY WriteStoreIds
<1>1. CASE Stored' = Stored /\ io'.op = "append" /\ io.op = "append"
  BY <1>0, <1>1 DEF Apart, ApartIn
<1>2. CASE /\ io.op = "append" /\ io'.op = "none" /\ sched.at \in {"storing", "victim"}
           /\ Ids(Stored') = Ids(Stored) \cup {Target.id}
           /\ Differ(Stored) /\ Target.id \notin Ids(Stored) => Differ(Stored')
  <2>1. CASE sched.at = "storing"
    BY <1>0, <1>2, <2>1 DEF Apart, ApartIn, Holding, Target
  <2>2. CASE sched.at = "victim"
    BY <1>0, <1>2, <2>2 DEF Apart, ApartIn, Holding, Target
  <2> QED
    BY <1>2, <2>1, <2>2
<1>3. CASE /\ io.op = "truncate" /\ io'.op \in {"none", "rewrite"} /\ sched.at = "removing"
           /\ Ids(Stored) = Ids(Stored') \cup {sched.process.id}
           /\ Differ(Stored) => sched.process.id \notin Ids(Stored') /\ Differ(Stored')
  BY <1>0, <1>3 DEF Apart, ApartIn, Holding
<1>4. CASE Stored' = Stored /\ io.op = "rewrite" /\ io'.op = "none" /\ sched.at = "removing"
  BY <1>0, <1>4 DEF Apart, ApartIn
<1> QED
  BY <1>1, <1>2, <1>3, <1>4, WriteStoreIds

LEMMA ExitIds ==
  ASSUME Typed, exit
  PROVE  /\ ready' = <<>> /\ on' = {} /\ finished' = {} /\ blocks' = {}
         /\ cli'.at = "prompt" /\ sched'.at = "loop" /\ session' = session + 1
         /\ created' = 0 /\ starts' = 0 /\ removed' = {} /\ Gone' = {}
         /\ Stored' = Stored \/ Stored' = <<>>
<1>1. /\ ready' = <<>> /\ on' = {} /\ finished' = {} /\ blocks' = {}
      /\ cli'.at = "prompt" /\ sched'.at = "loop" /\ session' = session + 1
      /\ created' = 0 /\ starts' = 0 /\ removed' = {} /\ Gone' = {} /\ file' = file /\ io' = NoIo
  BY DEF exit, AtPrompt, InLoop, StoreEnds, Gone
<1>2. Stored' = Complete(file)
  BY <1>1 DEF Stored, NoIo
<1>3. Stored' = Stored \/ Stored' = <<>>
  <2>1. CASE io.op = "rewrite"
    <3>1. file = <<>>
      BY <2>1, WriteAt
    <3> QED
      BY <1>2, <3>1, CompleteEmpty
  <2>2. CASE io.op # "rewrite"
    <3>1. Stored = Complete(file)
      BY <2>2 DEF Stored
    <3> QED
      BY <1>2, <3>1
  <2> QED
    BY <2>1, <2>2
<1> QED
  BY <1>1, <1>3

LEMMA ExitApart ==
  ASSUME Typed, Apart, exit PROVE Apart'
<1>1. /\ ready' = <<>> /\ on' = {} /\ Gone' = {}
      /\ cli'.at = "prompt" /\ sched'.at = "loop"
      /\ Stored' = Stored \/ Stored' = <<>>
  BY ExitIds
<1>2. Differ(Stored')
  BY <1>1, IdsOfNone DEF Apart
<1> QED
  BY <1>1, <1>2, IdsOfNone DEF Apart, ApartIn, Holding

LEMMA StepApart ==
  ASSUME Typed, Apart, [Next]_vars PROVE Apart'
<1>1. CASE \/ initialize \/ stop_scheduler \/ scheduler_start \/ ReadFreedName
           \/ \E name \in UserNames : ScreenStart(name) \/ screen_create_with_code(name)
  BY <1>1, CommandsApart
<1>2. CASE \/ ScreenPid \/ ScreenAdd \/ ScreenCreateAdd \/ exit
           \/ GenerateRead \/ GeneratePid \/ GenerateAdd
  BY <1>2, ScreenPidApart, ScreenAddApart, ScreenCreateAddApart, ExitApart, GenerateApart
<1>3. CASE Dispatch \/ DispatchToStore \/ FreeStored \/ Preempt \/ Finish \/ Remove
  BY <1>3, DispatchApart, DispatchToStoreApart, FreeStoredApart, PreemptApart, FinishApart,
     RemoveApart
<1>4. CASE SwapIn \/ SwapOut \/ SwapOver \/ EndRemove \/ WriteStore
  BY <1>4, SwapInApart, SwapOutApart, SwapOverApart, EndRemoveApart, WriteStoreApart
<1>5. CASE ReadGarbage \/ FinishForeign \/ UNCHANGED vars
  <2>1. UNCHANGED <<ready, on, Gone, sched, cli>> /\ UNCHANGED store
    BY <1>5 DEF ReadGarbage, FinishForeign, vars, places, Gone
  <2> QED
    BY <2>1, StoredUnwritten, ApartKept
<1> QED
  BY <1>1, <1>2, <1>3, <1>4, <1>5 DEF Next

LEMMA ApartAtFirst == ASSUME Init PROVE Apart
<1>1. /\ ready = <<>> /\ on = {} /\ Gone = {} /\ file = <<>> /\ io = NoIo
      /\ cli.at = "prompt" /\ sched.at = "loop"
  BY DEF Init, StoreInit, AtPrompt, InLoop, Gone
<1>2. Stored = <<>>
  BY <1>1, CompleteEmpty DEF Stored, NoIo
<1> QED
  BY <1>1, <1>2, IdsOfNone DEF Apart, ApartIn, Holding

LEMMA MadeIsSomeone == ASSUME Typed PROVE NoProcess \notin Made
<1>1. NoProcess.id[1] = 0
  BY DEF NoProcess
<1>2. MaxSessions \in Nat /\ session \in 1 .. MaxSessions
  BY Constants DEF Typed, Numbers
<1>3. 0 \notin 1 .. session
  BY <1>2
<1> QED
  BY <1>1, <1>3 DEF Made

(* The indices of an id: one if it is there, none otherwise. *)
LEMMA TimesInQueue ==
  ASSUME NEW S, NEW s \in Seq(S), Differ(s), NEW id
  PROVE  Cardinality({i \in DOMAIN s : s[i].id = id}) = IF id \in Ids(s) THEN 1 ELSE 0
<1>1. CASE id \in Ids(s)
  <2>1. PICK i \in DOMAIN s : s[i].id = id
    BY <1>1 DEF Ids
  <2>2. {j \in DOMAIN s : s[j].id = id} = {i}
    BY <2>1 DEF Differ
  <2> QED
    BY <1>1, <2>2, FS_Singleton
<1>2. CASE id \notin Ids(s)
  <2>1. {j \in DOMAIN s : s[j].id = id} = {}
    BY <1>2 DEF Ids
  <2> QED
    BY <1>2, <2>1, FS_EmptySet
<1> QED
  BY <1>1, <1>2

LEMMA TimesInSets ==
  ASSUME NEW T, NEW U, DifferIn(T), DifferIn(U), IdsIn(T) \cap IdsIn(U) = {}, NEW id
  PROVE  Cardinality({p \in T \cup U : p.id = id}) =
           IF id \in IdsIn(T) \cup IdsIn(U) THEN 1 ELSE 0
<1>1. CASE id \in IdsIn(T) \cup IdsIn(U)
  <2>1. PICK p \in T \cup U : p.id = id
    BY <1>1 DEF IdsIn
  <2>2. \A q \in T \cup U : q.id = id => q = p
    BY <2>1 DEF IdsIn, DifferIn
  <2>3. {q \in T \cup U : q.id = id} = {p}
    BY <2>1, <2>2
  <2> QED
    BY <1>1, <2>3, FS_Singleton
<1>2. CASE id \notin IdsIn(T) \cup IdsIn(U)
  <2>1. {q \in T \cup U : q.id = id} = {}
    BY <1>2 DEF IdsIn
  <2> QED
    BY <1>2, <2>1, FS_EmptySet
<1> QED
  BY <1>1, <1>2

LEMMA ApartIsOnce ==
  ASSUME Typed, Apart PROVE OncePlaced
<1> DEFINE q(id) == Cardinality({i \in DOMAIN ready : ready[i].id = id})
           t(id) == Cardinality({p \in on \cup Gone : p.id = id})
           s(id) == Cardinality({i \in DOMAIN Stored : Stored[i].id = id})
<1>1. ready \in Seq(Made) /\ Stored \in Seq(Made)
  BY StoredTyped DEF Typed, PlacesTyped
<1>2. /\ Differ(ready) /\ Differ(Stored) /\ DifferIn(on) /\ DifferIn(Gone)
      /\ IdsIn(on) \cap IdsIn(Gone) = {}
      /\ Ids(ready) \cap (IdsIn(on) \cup IdsIn(Gone) \cup Ids(Stored)) = {}
      /\ IdsIn(Gone) \cap Ids(Stored) = {}
      /\ \A x \in IdsIn(on) \cap Ids(Stored) : sched.at = "victim" /\ x = sched.victim.id
  BY DEF Apart, ApartIn
<1>3. ASSUME NEW p \in Known \ InTransit, p.id \notin {x.id : x \in InTransit}
      PROVE  q(p.id) + t(p.id) + s(p.id) = 1
  <2> DEFINE id == p.id
  <2>1. p.id \in Ids(ready) \cup IdsIn(on) \cup IdsIn(Gone) \cup Ids(Stored)
    BY DEF Known, Live, ToSet, Ids, IdsIn, Gone
  <2>2. ~(p.id \in IdsIn(on) /\ p.id \in Ids(Stored))
    <3> SUFFICES ASSUME p.id \in IdsIn(on) /\ p.id \in Ids(Stored) PROVE FALSE
      OBVIOUS
    <3>1. sched.at = "victim" /\ p.id = sched.victim.id
      BY <1>2
    <3>2. sched.victim \in Made
      BY <3>1 DEF Typed, SchedTyped
    <3>3. sched.victim # NoProcess
      BY <3>2, MadeIsSomeone
    <3>4. sched.victim \in InTransit
      BY <3>3 DEF InTransit
    <3> QED
      BY <1>3, <3>1, <3>4
  <2> HIDE DEF id
  <2>3. /\ q(id) = IF id \in Ids(ready) THEN 1 ELSE 0
        /\ s(id) = IF id \in Ids(Stored) THEN 1 ELSE 0
    BY <1>1, <1>2, TimesInQueue
  <2>4. t(id) = IF id \in IdsIn(on) \cup IdsIn(Gone) THEN 1 ELSE 0
    BY <1>2, TimesInSets
  <2> HIDE DEF q, t, s
  <2>5. id \in Ids(ready) \cup IdsIn(on) \cup IdsIn(Gone) \cup Ids(Stored)
    BY <2>1 DEF id
  <2>6. ~(id \in IdsIn(on) /\ id \in Ids(Stored))
    BY <2>2 DEF id
  <2>7. q(id) + t(id) + s(id) = 1
    <3>1. CASE id \in Ids(ready)
      <4>1. q(id) = 1 /\ t(id) = 0 /\ s(id) = 0
        BY <1>2, <2>3, <2>4, <3>1
      <4> QED
        BY <4>1
    <3>2. CASE id \in IdsIn(on) \cup IdsIn(Gone)
      <4>1. q(id) = 0 /\ t(id) = 1 /\ s(id) = 0
        BY <1>2, <2>3, <2>4, <2>6, <3>2
      <4> QED
        BY <4>1
    <3>3. CASE id \in Ids(Stored) /\ id \notin Ids(ready) \cup IdsIn(on) \cup IdsIn(Gone)
      <4>1. q(id) = 0 /\ t(id) = 0 /\ s(id) = 1
        BY <2>3, <2>4, <3>3
      <4> QED
        BY <4>1
    <3> QED
      BY <2>5, <3>1, <3>2, <3>3
  <2> QED
    BY <2>7 DEF id
<1>4. on \cup finished \cup removed = on \cup Gone
  BY DEF Gone
<1> QED
  BY <1>3, <1>4 DEF OncePlaced

(* However the threads interleave, a swap is cut off and the program is    *)
(* started again on what the file holds: no process is at two of queue,    *)
(* cores, finished and backing store, but while the scheduler thread is    *)
(* moving it.                                                              *)
THEOREM NeverTwice == Spec => []OncePlaced
<1>1. Init => Typed /\ Apart
  BY InitTyped, ApartAtFirst
<1>2. Typed /\ Apart /\ [Next]_vars => Typed' /\ Apart'
  BY StepTyped, StepApart
<1>3. Typed /\ Apart => OncePlaced
  BY ApartIsOnce
<1> QED
  BY <1>1, <1>2, <1>3, PTL DEF Spec
-----------------------------------------------------------------------------
(* No process is lost.                                                     *)

Around ==
  Ids(ready) \cup IdsIn(on) \cup IdsIn(Gone) \cup Ids(Stored)
    \cup (IF sched.at \in Moving THEN {sched.process.id} ELSE {})
    \cup (IF sched.at = "victim" THEN {sched.victim.id} ELSE {})

New ==
  (IF sched.at = "add" THEN {sched.process.id} ELSE {})
    \cup (IF cli.at = "add" THEN {cli.process.id} ELSE {})

(* What a step within a session does: with one scheduler thread all stay,  *)
(* what comes around has been added, and what is created is new.           *)
Stay == starts' <= 1 => Around \subseteq Around' /\ New \subseteq Around' \cup New'
Join == ScreenAdd \/ GenerateAdd \/ Around' \subseteq Around
Come == created' = created \/ (created' = created + 1 /\ <<session, created'>> \in New')
Goes == Stay /\ Join /\ Come

LEMMA GoesUnchanged ==
  ASSUME Typed, UNCHANGED <<ready, on, Gone, Stored, sched, created>>,
         cli' = cli \/ (cli.at # "add" /\ cli'.at # "add")
  PROVE  Goes
<1>1. Around' = Around
  BY DEF Around
<1>2. New' = New
  BY DEF New
<1> QED
  BY <1>1, <1>2 DEF Goes, Stay, Join, Come

LEMMA CommandsGo ==
  ASSUME Typed, Fresh,
         \/ initialize \/ stop_scheduler \/ scheduler_start \/ ReadFreedName
         \/ \E name \in UserNames : ScreenStart(name) \/ screen_create_with_code(name)
  PROVE  Goes
<1>1. CASE initialize \/ stop_scheduler \/ ReadFreedName
  <2>1. UNCHANGED <<ready, on, Gone, sched, cli, created>> /\ UNCHANGED store
    BY <1>1 DEF initialize, init_backing_store, stop_scheduler, ReadFreedName, places,
       history, races, Gone
  <2> QED
    BY <2>1, StoredUnwritten, GoesUnchanged
<1>2. CASE \E name \in UserNames : ScreenStart(name) \/ screen_create_with_code(name)
  <2>0. PICK name \in UserNames : ScreenStart(name) \/ screen_create_with_code(name)
    BY <1>2
  <2>1. UNCHANGED <<ready, on, Gone, sched, created>> /\ UNCHANGED store
        /\ cli'.at \in {"pid", "create"} /\ cli.at = "prompt"
    <3>1. CASE ScreenStart(name)
      BY <3>1, ScreenStartReads DEF ScreenStart, places, Typing, Gone
    <3>2. CASE screen_create_with_code(name)
      BY <3>2 DEF screen_create_with_code, places, Typing, Gone
    <3> QED
      BY <2>0, <3>1, <3>2
  <2> QED
    BY <2>1, StoredUnwritten, GoesUnchanged
<1>3. CASE scheduler_start
  <2>1. /\ ready' = <<>> /\ on' = {} /\ finished' = {}
        /\ UNCHANGED <<removed, sched, cli, created>>
        /\ UNCHANGED store /\ starts' = starts + 1 /\ starts \in Nat
    BY <1>3 DEF scheduler_start, Start, Typed, Numbers
  <2>2. starts' <= 1 => ready = <<>> /\ on = {} /\ finished = {}
    BY <2>1 DEF Fresh
  <2>3. Stored' = Stored
    BY <2>1, StoredUnwritten
  <2>4. New' = New
    BY <2>1 DEF New
  <2>6. Gone' \subseteq Gone /\ (finished = {} => Gone' = Gone)
    BY <2>1 DEF Gone
  <2>7. IdsIn(Gone') \subseteq IdsIn(Gone)
    BY <2>6, IdsOfFewer
  <2>5. /\ Around' \subseteq Around
        /\ ready = <<>> /\ on = {} /\ finished = {} => Around' = Around
    BY <2>1, <2>3, <2>6, <2>7, IdsOfNone DEF Around
  <2> QED
    BY <2>1, <2>2, <2>4, <2>5 DEF Goes, Stay, Join, Come
<1> QED
  BY <1>1, <1>2, <1>3

LEMMA ScreenPidGoes ==
  ASSUME Typed, Fresh, ScreenPid PROVE Goes
<1>1. /\ cli.at = "pid" /\ cli'.at = "add"
      /\ cli'.process.id = <<session, created + 1>> /\ created' = created + 1
      /\ UNCHANGED <<Gone, sched, Stored>>
      /\ UNCHANGED <<ready, on>> \/ (ready = <<>> /\ on = {} /\ ready' = <<>> /\ on' = {})
  <2>1. /\ cli.at = "pid" /\ cli'.at = "add"
        /\ cli'.process.id = <<session, created + 1>> /\ created' = created + 1
        /\ UNCHANGED <<sched, io, Stored, removed>>
        /\ \/ UNCHANGED <<ready, on, finished, starts, blocks>> /\ scheduler_running
           \/ /\ ready' = <<>> /\ on' = {} /\ finished' = {} /\ blocks' = {}
              /\ starts' = starts + 1 /\ ~scheduler_running
    BY ScreenPidIds
  <2>2. CASE UNCHANGED finished
    BY <2>1, <2>2 DEF Fresh, Gone
  <2>3. CASE ~scheduler_running
    BY <2>1, <2>3 DEF Fresh, Gone
  <2> QED
    BY <2>1, <2>2, <2>3
<1>2. Around' = Around
  BY <1>1 DEF Around
<1>3. New' = New \cup {<<session, created'>>}
  BY <1>1 DEF New
<1> QED
  BY <1>1, <1>2, <1>3 DEF Goes, Stay, Join, Come

LEMMA ScreenCreateAddGoes ==
  ASSUME Typed, ScreenCreateAdd PROVE Goes
<1>1. UNCHANGED <<ready, on, Gone, sched, created>> /\ UNCHANGED store
      /\ cli.at = "create" /\ cli'.at = "prompt"
  BY DEF ScreenCreateAdd, Typing, AtPrompt, places, history, Gone
<1> QED
  BY <1>1, StoredUnwritten, GoesUnchanged

LEMMA AddsGo ==
  ASSUME Typed, ScreenAdd \/ GenerateAdd PROVE Goes
<1>1. CASE ScreenAdd
  <2>1. /\ cli.at = "add" /\ cli'.at = "prompt"
        /\ Ids(ready') = Ids(ready) \cup {cli.process.id}
        /\ UNCHANGED <<on, Gone, sched, Stored>>
    BY <1>1, ScreenAddIds
  <2>2. created' = created
    BY <1>1 DEF ScreenAdd, history, races
  <2>3. Around' = Around \cup {cli.process.id}
    BY <2>1 DEF Around
  <2>4. New = New' \cup {cli.process.id}
    BY <2>1 DEF New
  <2> QED
    BY <2>2, <2>3, <2>4 DEF Goes, Stay, Join, Come
<1>2. CASE GenerateAdd
  <2>1. /\ sched.at = "add" /\ sched'.at = "loop"
        /\ Ids(ready') = Ids(ready) \cup {sched.process.id}
        /\ UNCHANGED <<on, Gone, cli, Stored>>
    BY <1>2, GenerateAddIds
  <2>2. created' = created
    BY <1>2 DEF GenerateAdd, history, races
  <2>3. Around' = Around \cup {sched.process.id}
    BY <2>1 DEF Around, Moving
  <2>4. New = New' \cup {sched.process.id}
    BY <2>1 DEF New
  <2> QED
    BY <2>2, <2>3, <2>4 DEF Goes, Stay, Join, Come
<1> QED
  BY <1>1, <1>2

LEMMA GeneratePidsGo ==
  ASSUME Typed, GenerateRead \/ GeneratePid PROVE Goes
<1>1. CASE GenerateRead
  <2>1. UNCHANGED <<ready, on, Gone, cli, created>> /\ UNCHANGED store /\ sched.at = "loop"
    BY <1>1 DEF GenerateRead, places, AtWork, Gone
  <2>2. sched'.at = "pid"
    <3>1. sched' = [InLoop EXCEPT !.at = "pid", !.read = next_pid]
      BY <1>1 DEF GenerateRead
    <3> QED
      BY <3>1 DEF InLoop
  <2>3. Around' = Around
    BY <2>1, <2>2, StoredUnwritten DEF Around, Moving
  <2>4. New' = New
    BY <2>1, <2>2 DEF New
  <2> QED
    BY <2>1, <2>3, <2>4 DEF Goes, Stay, Join, Come
<1>2. CASE GeneratePid
  <2>1. /\ sched.at = "pid" /\ sched'.at = "add"
        /\ sched'.process.id = <<session, created + 1>> /\ created' = created + 1
        /\ UNCHANGED <<ready, on, Gone, cli, Stored>>
    BY <1>2, GeneratePidIds
  <2>2. Around' = Around
    BY <2>1 DEF Around, Moving
  <2>3. New' = New \cup {<<session, created'>>}
    BY <2>1 DEF New
  <2> QED
    BY <2>1, <2>2, <2>3 DEF Goes, Stay, Join, Come
<1> QED
  BY <1>1, <1>2

(* With the scheduler thread in its loop or moving a process there is      *)
(* nothing new but what screen -s has.                                     *)
LEMMA GoesWithoutNew ==
  ASSUME sched.at # "add", sched'.at # "add", cli' = cli, created' = created, Around' = Around
  PROVE  Goes
<1>1. New' = New
  BY DEF New
<1> QED
  BY <1>1 DEF Goes, Stay, Join, Come

LEMMA DispatchesGo ==
  ASSUME Typed, Dispatch \/ DispatchToStore PROVE Goes
<1> DEFINE p == Head(ready)
<1>1. CASE Dispatch
  <2>1. /\ sched.at = "loop" /\ ready # <<>> /\ ready' = Tail(ready)
        /\ IdsIn(on') = IdsIn(on) \cup {p.id}
        /\ UNCHANGED <<Gone, sched, cli, Stored>>
    BY <1>1, DispatchIds
  <2>2. created' = created
    BY <1>1 DEF Dispatch, history, races
  <2>3. Ids(ready) = Ids(ready') \cup {p.id}
    BY <2>1, HeadOfReady
  <2> HIDE DEF p
  <2>4. Around' = Around
    BY <2>1, <2>3 DEF Around, Moving
  <2> QED
    BY <2>1, <2>2, <2>4, GoesWithoutNew
<1>2. CASE DispatchToStore
  <2>1. /\ sched.at = "loop" /\ ready # <<>> /\ ready' = Tail(ready)
        /\ sched'.at = "storing" /\ sched'.process = p
        /\ UNCHANGED <<on, Gone, cli, Stored>>
    BY <1>2, DispatchToStoreIds
  <2>2. created' = created
    BY <1>2 DEF DispatchToStore, history, races
  <2>3. Ids(ready) = Ids(ready') \cup {p.id}
    BY <2>1, HeadOfReady
  <2> HIDE DEF p
  <2>4. Around' = Around
    BY <2>1, <2>3 DEF Around, Moving
  <2> QED
    BY <2>1, <2>2, <2>4, GoesWithoutNew
<1> QED
  BY <1>1, <1>2

LEMMA FreeStoredGoes ==
  ASSUME Typed, FreeStored PROVE Goes
<1>1. /\ UNCHANGED <<ready, on, Gone, cli, created>> /\ UNCHANGED store
      /\ sched.at = "storing" /\ sched'.at = "loop" /\ Quiet
  BY DEF FreeStored, AtWork, places, InLoop, Gone
<1>2. sched.process.id \in Ids(Stored)
  <2>1. io = NoIo
    BY <1>1, QuietIsNoIo
  <2> QED
    BY <1>1, <2>1, StoredLast DEF Target
<1>3. Around' = Around
  BY <1>1, <1>2, StoredUnwritten DEF Around, Moving
<1> QED
  BY <1>1, <1>3, GoesWithoutNew

LEMMA PreemptGoes ==
  ASSUME Typed, Preempt PROVE Goes
<1>1. PICK p \in on :
        /\ Ids(ready') = Ids(ready) \cup {p.id}
        /\ IdsIn(on) = IdsIn(on') \cup {p.id}
        /\ UNCHANGED <<Gone, sched, cli, Stored>>
        /\ sched.at = "loop"
  BY PreemptIds
<1>2. created' = created
  BY DEF Preempt, history, races
<1>3. Around' = Around
  BY <1>1 DEF Around, Moving
<1> QED
  BY <1>1, <1>2, <1>3, GoesWithoutNew

LEMMA FinishGoes ==
  ASSUME Typed, Finish PROVE Goes
<1>1. PICK p \in on :
        /\ IdsIn(Gone') = IdsIn(Gone) \cup {p.id}
        /\ IdsIn(on) = IdsIn(on') \cup {p.id}
        /\ UNCHANGED <<ready, sched, cli, Stored>>
  BY FinishIds
<1>2. created' = created
  BY DEF Finish, history, races
<1>3. Around' = Around /\ New' = New
  BY <1>1 DEF Around, New
<1> QED
  BY <1>2, <1>3 DEF Goes, Stay, Join, Come

LEMMA RemoveGoes ==
  ASSUME Typed, Remove PROVE Goes
<1>1. PICK p \in on :
        /\ IdsIn(Gone') = IdsIn(Gone) \cup {p.id}
        /\ IdsIn(on) = IdsIn(on') \cup {p.id}
        /\ UNCHANGED <<ready, sched, cli, Stored>>
  BY RemoveIds
<1>2. created' = created
  BY DEF Remove, history, races
<1>3. Around' = Around /\ New' = New
  BY <1>1 DEF Around, New
<1> QED
  BY <1>2, <1>3 DEF Goes, Stay, Join, Come

LEMMA SwapsGo ==
  ASSUME Typed, SwapIn \/ SwapOut \/ SwapOver \/ EndRemove PROVE Goes
<1>1. CASE SwapIn
  <2>1. /\ sched.at = "loop" /\ sched'.at = "removing" /\ sched'.process.id = FirstProcess.id
        /\ FirstProcess.id \in Ids(Stored)
        /\ UNCHANGED <<ready, on, Gone, cli, Stored>>
    BY <1>1, SwapInIds
  <2>2. created' = created
    BY <1>1 DEF SwapIn, history, races
  <2>3. Around' = Around
    BY <2>1 DEF Around, Moving
  <2> QED
    BY <2>1, <2>2, <2>3, GoesWithoutNew
<1>2. CASE SwapOut
  <2>1. /\ sched.at = "loop" /\ sched'.at = "victim" /\ sched'.process.id = FirstProcess.id
        /\ FirstProcess.id \in Ids(Stored)
        /\ UNCHANGED <<ready, on, Gone, cli, Stored>>
    BY <1>2, SwapOutIds
  <2>2. sched'.victim.id \in IdsIn(on)
    BY <1>2, SwapOutIds DEF IdsIn
  <2>3. created' = created
    BY <1>2 DEF SwapOut, history, races
  <2>4. Around' = Around
    BY <2>1, <2>2 DEF Around, Moving
  <2> QED
    BY <2>1, <2>3, <2>4, GoesWithoutNew
<1>3. CASE SwapOver
  <2>1. /\ sched.at = "victim" /\ sched.process.id \in Ids(Stored)
        /\ sched.victim.id \in Ids(Stored)
        /\ IdsIn(on') = IdsIn(on) \ {sched.victim.id}
        /\ \/ sched'.at = "removing" /\ sched'.process = sched.process
           \/ sched'.at = "loop"
        /\ UNCHANGED <<ready, Gone, cli, Stored>>
    BY <1>3, SwapOverIds
  <2>2. created' = created
    BY <1>3 DEF SwapOver
  <2>3. Around' = Around
    <3>1. CASE sched'.at = "removing" /\ sched'.process = sched.process
      BY <2>1, <3>1 DEF Around, Moving
    <3>2. CASE sched'.at = "loop"
      BY <2>1, <3>2 DEF Around, Moving
    <3> QED
      BY <2>1, <3>1, <3>2
  <2> QED
    BY <2>1, <2>2, <2>3, GoesWithoutNew
<1>4. CASE EndRemove
  <2>1. /\ sched.at = "removing" /\ sched'.at = "loop"
        /\ Ids(ready') = Ids(ready) \cup {sched.process.id}
        /\ UNCHANGED <<on, Gone, cli, Stored>>
    BY <1>4, EndRemoveIds
  <2>2. created' = created
    BY <1>4 DEF EndRemove, history, races
  <2>3. Around' = Around
    BY <2>1 DEF Around, Moving
  <2> QED
    BY <2>1, <2>2, <2>3, GoesWithoutNew
<1> QED
  BY <1>1, <1>2, <1>3, <1>4

LEMMA WriteStoreGoes ==
  ASSUME Typed, WriteStore PROVE Goes
<1>0. UNCHANGED <<ready, on, Gone, sched, cli>> /\ created' = created
  BY WriteStoreIds DEF WriteStore, history, races
<1>1. sched.at # "add" /\ Around' = Around
  <2>1. CASE Stored' = Stored /\ io.op = "append"
    BY <1>0, <2>1, WriteAt DEF Around
  <2>2. CASE /\ sched.at \in {"storing", "victim"}
             /\ Ids(Stored') = Ids(Stored) \cup {Target.id}
    <3>1. CASE sched.at = "storing"
      BY <1>0, <2>2, <3>1 DEF Around, Moving, Target
    <3>2. CASE sched.at = "victim"
      BY <1>0, <2>2, <3>2 DEF Around, Moving, Target
    <3> QED
      BY <2>2, <3>1, <3>2
  <2>3. CASE /\ sched.at = "removing"
             /\ Ids(Stored) = Ids(Stored') \cup {sched.process.id}
    BY <1>0, <2>3 DEF Around, Moving
  <2>4. CASE Stored' = Stored /\ sched.at = "removing"
    BY <1>0, <2>4 DEF Around
  <2> QED
    BY <2>1, <2>2, <2>3, <2>4, WriteStoreIds
<1> QED
  BY <1>0, <1>1, GoesWithoutNew

LEMMA StepGoes ==
  ASSUME Typed, Fresh, [Next]_vars, ~exit PROVE Goes
<1>1. CASE \/ initialize \/ stop_scheduler \/ scheduler_start \/ ReadFreedName
           \/ \E name \in UserNames : ScreenStart(name) \/ screen_create_with_code(name)
  BY <1>1, CommandsGo
<1>2. CASE \/ ScreenPid \/ ScreenAdd \/ ScreenCreateAdd
           \/ GenerateRead \/ GeneratePid \/ GenerateAdd
  BY <1>2, ScreenPidGoes, AddsGo, GeneratePidsGo, ScreenCreateAddGoes
<1>3. CASE Dispatch \/ DispatchToStore \/ FreeStored \/ Preempt \/ Finish \/ Remove
  BY <1>3, DispatchesGo, FreeStoredGoes, PreemptGoes, FinishGoes, RemoveGoes
<1>4. CASE SwapIn \/ SwapOut \/ SwapOver \/ EndRemove \/ WriteStore
  BY <1>4, SwapsGo, WriteStoreGoes
<1>5. CASE ReadGarbage \/ FinishForeign \/ UNCHANGED vars
  <2>1. UNCHANGED <<ready, on, Gone, sched, cli, created>> /\ UNCHANGED store
    BY <1>5 DEF ReadGarbage, FinishForeign, vars, places, history, races, Gone
  <2> QED
    BY <2>1, StoredUnwritten, GoesUnchanged
<1> QED
  BY <1>1, <1>2, <1>3, <1>4, <1>5 DEF Next

(* The session, its starts, and what it does not forget. *)
LEMMA StepStarts ==
  ASSUME Typed, [Next]_vars, ~exit
  PROVE  session' = session /\ starts \in Nat /\ starts' \in {starts, starts + 1}
<1>0. starts \in Nat
  BY DEF Typed, Numbers
<1>1. CASE \/ initialize \/ stop_scheduler \/ scheduler_start \/ ReadFreedName
           \/ \E name \in UserNames : ScreenStart(name) \/ screen_create_with_code(name)
  BY <1>0, <1>1 DEF initialize, stop_scheduler, scheduler_start, Start, ReadFreedName, ScreenStart,
     screen_create_with_code, history, races
<1>2. CASE \/ ScreenPid \/ ScreenAdd \/ ScreenCreateAdd
           \/ GenerateRead \/ GeneratePid \/ GenerateAdd
  BY <1>0, <1>2 DEF ScreenPid, Start, ScreenAdd, ScreenCreateAdd, GenerateRead, GeneratePid,
     GenerateAdd, history, races
<1>3. CASE Dispatch \/ DispatchToStore \/ FreeStored \/ Preempt \/ Finish \/ Remove
  BY <1>0, <1>3 DEF Dispatch, DispatchToStore, FreeStored, Preempt, Finish, Remove, history, races
<1>4. CASE SwapIn \/ SwapOut \/ SwapOver \/ EndRemove \/ WriteStore
  BY <1>0, <1>4 DEF SwapIn, SwapOut, SwapOver, EndRemove, WriteStore, history, races
<1>5. CASE ReadGarbage \/ FinishForeign \/ UNCHANGED vars
  BY <1>0, <1>5 DEF ReadGarbage, FinishForeign, vars, history, races
<1> QED
  BY <1>1, <1>2, <1>3, <1>4, <1>5 DEF Next

LEMMA StepRemembers ==
  ASSUME [Next]_vars, ~exit
  PROVE  /\ overlapped => overlapped'
         /\ table_raced => table_raced'
         /\ memory_reset => memory_reset'
<1>1. CASE \/ scheduler_start \/ FreeStored \/ SwapOver \/ ReadGarbage \/ FinishForeign
           \/ ReadFreedName
  <2>1. UNCHANGED races /\ memory_reset' = memory_reset
    BY <1>1 DEF scheduler_start, FreeStored, SwapOver, ReadGarbage, FinishForeign,
       ReadFreedName
  <2> QED
    BY <2>1, Zenon DEF races
<1>2. CASE \/ ScreenPid \/ GenerateRead \/ GeneratePid
           \/ \E name \in UserNames : ScreenStart(name) \/ screen_create_with_code(name)
  <2>1. NoteOverlap /\ memory_reset' = memory_reset
    BY <1>2 DEF ScreenPid, GenerateRead, GeneratePid, ScreenStart, screen_create_with_code
  <2> QED
    BY <2>1, Zenon DEF NoteOverlap
<1>3. CASE initialize
  <2>1. UNCHANGED races /\ memory_reset' = (memory_reset \/ blocks # {})
    BY <1>3 DEF initialize
  <2> QED
    BY <2>1, Zenon DEF races
<1>4. CASE \/ stop_scheduler \/ ScreenAdd \/ ScreenCreateAdd \/ GenerateAdd \/ Dispatch
           \/ DispatchToStore \/ Preempt \/ Finish \/ Remove \/ SwapIn \/ SwapOut
           \/ EndRemove \/ WriteStore \/ UNCHANGED vars
  <2>1. UNCHANGED history
    BY <1>4 DEF stop_scheduler, ScreenAdd, ScreenCreateAdd, GenerateAdd, Dispatch,
       DispatchToStore, Preempt, Finish, Remove, SwapIn, SwapOut, EndRemove, WriteStore, vars
  <2>2. UNCHANGED races /\ memory_reset' = memory_reset
    BY <2>1 DEF history
  <2> QED
    BY <2>2, Zenon DEF races
<1> QED
  BY <1>1, <1>2, <1>3, <1>4 DEF Next

AllHere == starts <= 1 => \A n \in 1 .. created : <<session, n>> \in Around \cup New

LEMMA StepAllHere ==
  ASSUME Typed, Fresh, AllHere, [Next]_vars PROVE AllHere'
<1>0. created \in Nat
  BY DEF Typed, Numbers
<1>1. CASE exit
  <2>1. created' = 0
    BY <1>1 DEF exit
  <2> QED
    BY <2>1 DEF AllHere
<1>2. CASE ~exit
  <2> SUFFICES ASSUME starts' <= 1, NEW n \in 1 .. created'
               PROVE  <<session', n>> \in Around' \cup New'
    BY DEF AllHere
  <2>1. Goes /\ session' = session /\ starts <= 1
    BY <1>2, StepGoes, StepStarts
  <2>2. CASE n \in 1 .. created
    BY <2>1, <2>2 DEF AllHere, Goes, Stay
  <2>3. CASE n \notin 1 .. created
    <3>1. n = created' /\ <<session, created'>> \in New'
      BY <1>0, <2>1, <2>3 DEF Goes, Come
    <3> QED
      BY <2>1, <3>1
  <2> QED
    BY <2>2, <2>3
<1> QED
  BY <1>1, <1>2

LEMMA AroundIsKnown ==
  ASSUME Typed
  PROVE  /\ Around \subseteq {p.id : p \in Known}
         /\ Around \cup New \subseteq {p.id : p \in Known \cup {cli.process}}
<1>1. NoProcess \notin Made
  BY MadeIsSomeone
<1>2. /\ sched.at \in Holding => sched.process \in InTransit
      /\ sched.at = "victim" => sched.victim \in InTransit
  BY <1>1 DEF Typed, SchedTyped, InTransit
<1>3. Moving \subseteq Holding /\ "add" \in Holding
  BY DEF Moving, Holding
<1>4. InTransit \subseteq Known /\ on \cup Gone \cup ToSet(ready) \cup ToSet(Stored) \subseteq Known
  BY DEF Known, Live, Gone
<1>5. Ids(ready) \cup IdsIn(on) \cup IdsIn(Gone) \cup Ids(Stored) \subseteq {p.id : p \in Known}
  BY <1>4 DEF Ids, IdsIn, ToSet
<1>6. Around \subseteq {p.id : p \in Known}
  BY <1>2, <1>3, <1>4, <1>5 DEF Around
<1>7. New \subseteq {p.id : p \in Known \cup {cli.process}}
  BY <1>2, <1>3, <1>4 DEF New
<1> QED
  BY <1>6, <1>7

(* However the threads interleave, as long as the scheduler is started     *)
(* once: every process that was created in the session is in the queue,    *)
(* on a core, finished, stored, in the hands of a thread, or a core has    *)
(* removed it as invalid.                                                  *)
THEOREM NobodyDisappears == Spec => []Accounted
<1>1. Init => Typed /\ Fresh /\ AllHere
  <2>1. Init => created = 0
    BY DEF Init
  <2>2. created = 0 => AllHere
    BY DEF AllHere
  <2> QED
    BY <2>1, <2>2, InitTyped, FreshAtFirst
<1>2. Typed /\ Fresh /\ AllHere /\ [Next]_vars => Typed' /\ Fresh' /\ AllHere'
  BY StepTyped, StepFresh, StepAllHere
<1>3. Typed /\ AllHere => Accounted
  BY AroundIsKnown DEF AllHere, Accounted
<1> QED
  BY <1>1, <1>2, <1>3, PTL DEF Spec
-----------------------------------------------------------------------------
(* Every process is listed.                                                *)

IsListed(id) == \E i \in DOMAIN process_table : i <= num_processes /\ process_table[i].id = id

Racing == cli.at \in Adding /\ sched.at \in Adding

(* As long as one thread at a time adds to the table, what it has read is  *)
(* the number of the processes.                                            *)
Lists ==
  ~table_raced =>
    /\ ~Racing
    /\ cli.at \in Adding => cli.read = num_processes
    /\ sched.at \in Adding => sched.read = num_processes
    /\ \A n \in 1 .. created : <<session, n>> \in Around => IsListed(<<session, n>>)

(* What is listed changes only by what adds to the list, and exit. *)
Listing == ScreenAdd \/ ScreenCreateAdd \/ GenerateAdd

TableKept ==
  /\ UNCHANGED table
  /\ sched'.at \in Adding =>
       \/ sched.at \in Adding /\ sched'.read = sched.read
       \/ sched'.read = num_processes
  /\ cli'.at \in Adding =>
       \/ cli.at \in Adding /\ cli'.read = cli.read
       \/ cli'.read = num_processes
  /\ ~Racing /\ ~table_raced' => ~Racing'

LEMMA KeptAlone ==
  ASSUME UNCHANGED <<table, cli>>, sched' = sched \/ sched'.at \notin Adding PROVE TableKept
<1>1. CASE sched' = sched
  BY <1>1 DEF TableKept, Racing
<1>2. CASE sched'.at \notin Adding
  BY <1>2 DEF TableKept, Racing
<1> QED
  BY <1>1, <1>2

LEMMA StepKeepsTable ==
  ASSUME Typed, [Next]_vars, ~exit, ~Listing PROVE TableKept
<1>1. CASE \/ initialize \/ scheduler_start \/ stop_scheduler \/ ReadFreedName \/ Dispatch
           \/ Preempt \/ WriteStore \/ ReadGarbage \/ Finish \/ FinishForeign \/ Remove
           \/ UNCHANGED vars
  <2>1. UNCHANGED <<table, cli, sched>>
    BY <1>1 DEF initialize, scheduler_start, stop_scheduler, ReadFreedName, Dispatch, Preempt,
       WriteStore, ReadGarbage, Finish, FinishForeign, Remove, vars
  <2> QED
    BY <2>1, KeptAlone
<1>2. CASE DispatchToStore
  <2>1. UNCHANGED <<table, cli>> /\ sched'.at = "storing"
    BY <1>2 DEF DispatchToStore, InLoop
  <2> QED
    BY <2>1, KeptAlone DEF Adding
<1>3. CASE FreeStored \/ EndRemove
  <2>1. UNCHANGED <<table, cli>> /\ sched'.at = "loop"
    BY <1>3 DEF FreeStored, EndRemove, InLoop
  <2> QED
    BY <2>1, KeptAlone DEF Adding
<1>4. CASE SwapIn \/ SwapOut
  <2>1. UNCHANGED <<table, cli>> /\ sched'.at \in {"removing", "victim"}
    BY <1>4 DEF SwapIn, SwapOut, InLoop
  <2> QED
    BY <2>1, KeptAlone DEF Adding
<1>5. CASE SwapOver
  <2>1. UNCHANGED <<table, cli>>
    BY <1>5 DEF SwapOver
  <2>2. sched'.at \in {"removing", "loop"}
    BY <1>5, SwapOverIds
  <2> QED
    BY <2>1, <2>2, KeptAlone DEF Adding
<1>6. CASE GenerateRead
  <2>1. UNCHANGED <<table, cli>> /\ sched'.at = "pid"
    BY <1>6 DEF GenerateRead, InLoop
  <2> QED
    BY <2>1, KeptAlone DEF Adding
<1>7. CASE GeneratePid
  <2>1. UNCHANGED <<table, cli>> /\ sched'.read = num_processes /\ NoteOverlap
    BY <1>7 DEF GeneratePid, InLoop
  <2>2. ~table_raced' => ~Racing'
    BY <2>1 DEF NoteOverlap, Racing
  <2> QED
    BY <2>1, <2>2 DEF TableKept
<1>8. CASE ScreenPid
  <2>1. UNCHANGED <<table, sched>> /\ cli'.read = num_processes /\ NoteOverlap
    BY <1>8 DEF ScreenPid
  <2>2. ~table_raced' => ~Racing'
    BY <2>1 DEF NoteOverlap, Racing
  <2> QED
    BY <2>1, <2>2 DEF TableKept
<1>9. CASE \E name \in UserNames : ScreenStart(name)
  <2>1. UNCHANGED <<table, sched>> /\ cli'.at = "pid"
    BY <1>9 DEF ScreenStart
  <2> QED
    BY <2>1 DEF TableKept, Racing, Adding
<1>10. CASE \E name \in UserNames : screen_create_with_code(name)
  <2>1. UNCHANGED <<table, sched>> /\ cli'.read = num_processes /\ NoteOverlap
    BY <1>10 DEF screen_create_with_code
  <2>2. ~table_raced' => ~Racing'
    BY <2>1 DEF NoteOverlap, Racing
  <2> QED
    BY <2>1, <2>2 DEF TableKept
<1> QED
  BY <1>1, <1>2, <1>3, <1>4, <1>5, <1>6, <1>7, <1>8, <1>9, <1>10 DEF Next, Listing

LEMMA KeptLists ==
  ASSUME Typed, Fresh, Lists, [Next]_vars, ~exit, ~Listing PROVE Lists'
<1>0. TableKept /\ Goes /\ session' = session
  BY StepKeepsTable, StepGoes, StepStarts
<1> SUFFICES ASSUME ~table_raced' PROVE Lists'
  BY DEF Lists
<1>1. ~table_raced
  BY StepRemembers, Zenon
<1>2. UNCHANGED <<process_table, num_processes>>
  BY <1>0 DEF TableKept, table
<1>3. /\ ~Racing'
      /\ cli'.at \in Adding => cli'.read = num_processes'
      /\ sched'.at \in Adding => sched'.read = num_processes'
  BY <1>0, <1>1, <1>2 DEF TableKept, Lists
<1>4. ASSUME NEW n \in 1 .. created', <<session, n>> \in Around' PROVE IsListed(<<session, n>>)'
  <2>0. created \in Nat
    BY DEF Typed, Numbers
  <2>1. <<session, n>> \in Around
    BY <1>0, <1>4 DEF Goes, Join, Listing
  <2>2. <<session, created + 1>> \notin Around
    BY NewIdNowhere DEF Around, Moving, Holding
  <2>3. n # created + 1
    BY <2>1, <2>2
  <2>4. n \in 1 .. created
    BY <1>0, <1>4, <2>0, <2>3 DEF Goes, Come
  <2> QED
    BY <1>0, <1>1, <1>2, <2>1, <2>4 DEF Lists, IsListed
<1> QED
  BY <1>0, <1>3, <1>4 DEF Lists

(* One thread adds, and the other does not.                                *)
LEMMA AddsAlone ==
  ASSUME Typed, Lists, Listing, ~table_raced
  PROVE  \E x \in Process :
           /\ Listed(num_processes, x)
           /\ Around' \subseteq Around \cup {x.id}
           /\ cli'.at \notin Adding /\ sched'.at \notin Adding
<1>1. CASE ScreenAdd \/ ScreenCreateAdd
  <2>1. /\ cli.at \in Adding /\ cli'.at = "prompt" /\ sched' = sched
        /\ Listed(cli.read, cli.process)
    BY <1>1 DEF ScreenAdd, ScreenCreateAdd, Typing, AtPrompt, Adding
  <2>2. cli.read = num_processes /\ sched.at \notin Adding /\ cli.process \in Process
    BY <2>1 DEF Lists, Racing, Typed, CliTyped
  <2>3. Around' \subseteq Around \cup {cli.process.id}
    <3>1. CASE ScreenAdd
      BY <3>1, ScreenAddIds DEF Around
    <3>2. CASE ScreenCreateAdd
      <4>1. UNCHANGED <<ready, on, Gone, sched>> /\ UNCHANGED store
        BY <3>2 DEF ScreenCreateAdd, places, Gone
      <4> QED
        BY <4>1, StoredUnwritten DEF Around
    <3> QED
      BY <1>1, <3>1, <3>2
  <2> QED
    BY <2>1, <2>2, <2>3 DEF Adding
<1>2. CASE GenerateAdd
  <2>1. /\ sched.at = "add" /\ sched'.at = "loop" /\ cli' = cli
        /\ Ids(ready') = Ids(ready) \cup {sched.process.id}
        /\ UNCHANGED <<on, Gone, Stored>> /\ Listed(sched.read, sched.process)
    BY <1>2, GenerateAddIds DEF GenerateAdd
  <2>2. sched.read = num_processes /\ cli.at \notin Adding /\ sched.process \in Process
    BY <2>1 DEF Lists, Racing, Typed, SchedTyped, Adding
  <2>3. Around' = Around \cup {sched.process.id}
    BY <2>1 DEF Around, Moving
  <2> QED
    BY <2>1, <2>2, <2>3 DEF Adding
<1> QED
  BY <1>1, <1>2 DEF Listing

LEMMA AddsList ==
  ASSUME Typed, Lists, Listing PROVE Lists'
<1>0. /\ table_raced' = table_raced /\ session' = session /\ created' = created
      /\ num_processes \in Nat /\ num_processes <= Len(process_table)
      /\ process_table \in Seq(Process) /\ Len(process_table) \in Nat
  <2>1. UNCHANGED history
    BY DEF ScreenAdd, ScreenCreateAdd, GenerateAdd, Listing
  <2>2. num_processes \in Nat /\ process_table \in Seq(Process)
    BY DEF Typed, Numbers, PlacesTyped
  <2>3. num_processes <= Len(process_table)
    BY DEF Typed, Counted
  <2> QED
    BY <2>1, <2>2, <2>3 DEF history, races
<1> SUFFICES ASSUME ~table_raced PROVE Lists'
  BY <1>0, Zenon DEF Lists
<1> DEFINE m == num_processes
<1>1. PICK x \in Process : /\ Listed(m, x) /\ Around' \subseteq Around \cup {x.id}
                           /\ cli'.at \notin Adding /\ sched'.at \notin Adding
  BY AddsAlone
<1>2. /\ process_table' \in Seq(Process)
      /\ num_processes' = m + 1 /\ num_processes' <= Len(process_table')
      /\ Len(process_table') >= Len(process_table)
      /\ \A i \in 1 .. Len(process_table') :
           process_table'[i] = IF i = m + 1 THEN x ELSE process_table[i]
  BY <1>0, <1>1, ListedTyped
<1>3. Len(process_table') \in Nat /\ m + 1 \in 1 .. Len(process_table')
      /\ DOMAIN process_table' = 1 .. Len(process_table')
      /\ DOMAIN process_table = 1 .. Len(process_table)
  BY <1>0, <1>1, <1>2
<1>4. \A id : IsListed(id) => IsListed(id)'
  <2> SUFFICES ASSUME NEW i \in DOMAIN process_table, i <= m
               PROVE  /\ i \in DOMAIN process_table' /\ i <= m + 1
                      /\ process_table'[i] = process_table[i]
    BY <1>2 DEF IsListed
  <2>1. i \in 1 .. Len(process_table') /\ i # m + 1 /\ i <= m + 1
    BY <1>0, <1>2, <1>3
  <2> QED
    BY <1>2, <1>3, <2>1
<1>5. \E j \in DOMAIN process_table' : j <= num_processes' /\ process_table'[j].id = x.id
  <2> DEFINE i == m + 1
  <2>1. i \in DOMAIN process_table' /\ process_table'[i].id = x.id /\ i <= num_processes'
    BY <1>0, <1>2, <1>3
  <2> HIDE DEF i
  <2> QED
    BY <2>1
<1>6. ASSUME NEW n \in 1 .. created', <<session, n>> \in Around'
      PROVE  IsListed(<<session, n>>)'
  <2>1. CASE <<session, n>> = x.id
    <3>1. \E j \in DOMAIN process_table' :
            j <= num_processes' /\ process_table'[j].id = <<session, n>>
      BY <1>5, <2>1
    <3> QED
      BY <1>0, <3>1 DEF IsListed
  <2>2. CASE <<session, n>> # x.id
    <3>1. <<session, n>> \in Around /\ n \in 1 .. created
      BY <1>0, <1>1, <1>6, <2>2
    <3> QED
      BY <1>0, <1>4, <3>1 DEF Lists
  <2> QED
    BY <2>1, <2>2
<1> QED
  BY <1>0, <1>1, <1>6 DEF Lists, Racing

LEMMA StepLists ==
  ASSUME Typed, Fresh, Lists, [Next]_vars PROVE Lists'
<1>1. CASE exit
  <2>1. created' = 0 /\ sched'.at = "loop" /\ cli'.at = "prompt"
    BY <1>1 DEF exit, InLoop, AtPrompt
  <2> QED
    BY <2>1 DEF Lists, Racing, Adding
<1>2. CASE Listing
  BY <1>2, AddsList
<1>3. CASE ~exit /\ ~Listing
  BY <1>3, KeptLists
<1> QED
  BY <1>1, <1>2, <1>3

(* screen -r and screen -ls look into the table: every process of the      *)
(* session that is in the queue, on a core, finished or removed is listed  *)
(* there, although the generator and the commands of the user add to it    *)
(* without a lock, unless two threads were in add_process at the same time.*)
THEOREM AllAreListed == Spec => []TableLists
<1>1. Init => Typed /\ Fresh /\ Lists
  <2>1. Init => created = 0 /\ sched.at = "loop" /\ cli.at = "prompt"
    BY DEF Init, InLoop, AtPrompt
  <2>2. created = 0 /\ sched.at = "loop" /\ cli.at = "prompt" => Lists
    BY DEF Lists, Racing, Adding
  <2> QED
    BY <2>1, <2>2, InitTyped, FreshAtFirst
<1>2. Typed /\ Fresh /\ Lists /\ [Next]_vars => Typed' /\ Fresh' /\ Lists'
  BY StepTyped, StepFresh, StepLists
<1>3. Typed /\ Lists => TableLists
  <2> SUFFICES ASSUME Typed, Lists, ~table_raced,
                      NEW p \in ToSet(ready) \cup on \cup finished \cup removed,
                      p.id[1] = session
               PROVE  \E i \in InTable : process_table[i].id = p.id
    BY DEF TableLists
  <2>1. p \in Made /\ p.id \in Around
    BY KnownMade DEF Known, Live, Around, Ids, IdsIn, ToSet, Gone
  <2>2. p.id = <<session, p.id[2]>> /\ p.id[2] \in 1 .. created
    BY <2>1 DEF Made, Process
  <2>3. IsListed(p.id)
    BY <2>1, <2>2 DEF Lists
  <2> QED
    BY <2>3 DEF IsListed, InTable
<1> QED
  BY <1>1, <1>2, <1>3, PTL DEF Spec
-----------------------------------------------------------------------------
(* The processes in memory and their blocks.                               *)

(* Those removed as invalid keep theirs. *)
InMemory ==
  on \cup removed \cup {q \in ToSet(ready) : q.in_memory = 1}
    \cup (IF sched.at = "removing" THEN {sched.process} ELSE {})

Owners == {Owner(p) : p \in InMemory}

OwnerOf(b) == <<b.pid, b.id, b.size>>
OwnersIn(taken) == {OwnerOf(b) : b \in taken}

Single(taken) == \A b, c \in taken : b.id = c.id => b = c

(* A new process has no memory yet; one that executes or is swapped in has.*)
Loaded ==
  /\ \A p \in on : p.in_memory = 1
  /\ sched.at \in {"victim", "removing"} => sched.process.in_memory = 1
  /\ sched.at = "add" => sched.process.in_memory = 0
  /\ cli.at \in Creating => cli.process.in_memory = 0

Older == \E x \in Around : x[1] # session

Calm == starts <= 1 /\ ~overlapped /\ ~Older

(* Every block is that of a process in memory, which has no other; and     *)
(* each of those has a block, unless the memory has been initialised again.*)
Backed == Calm => Single(blocks) /\ OwnersIn(blocks) \subseteq Owners
Owning == Calm /\ ~memory_reset => Owners \subseteq OwnersIn(blocks)

(* After a second start nothing is followed any further. *)
Stopped == starts > 1 => ready = <<>> /\ on = {}

LEMMA SetOfNone == ToSet(<<>>) = {}
BY DEF ToSet

LEMMA SetWithLast ==
  ASSUME NEW S, NEW s \in Seq(S), NEW x \in S
  PROVE  ToSet(Append(s, x)) = ToSet(s) \cup {x}
<1> DEFINE a == Append(s, x)
           n == Len(s)
<1>1. /\ DOMAIN s = 1 .. n /\ DOMAIN a = 1 .. n + 1 /\ n \in Nat
      /\ \A i \in 1 .. n : a[i] = s[i]
      /\ a[n + 1] = x
  BY AppendProperties
<1> HIDE DEF a, n
<1>2. 1 .. n + 1 = (1 .. n) \cup {n + 1}
  BY <1>1
<1>3. ToSet(a) = ToSet(s) \cup {x}
  BY <1>1, <1>2 DEF ToSet
<1> QED
  BY <1>3 DEF a

LEMMA SetWithoutFirst ==
  ASSUME NEW S, NEW s \in Seq(S), s # <<>>
  PROVE  ToSet(s) = ToSet(Tail(s)) \cup {Head(s)}
<1> DEFINE t == Tail(s)
           n == Len(t)
           h == Head(s)
<1>1. /\ n \in Nat /\ DOMAIN t = 1 .. n /\ DOMAIN s = 1 .. n + 1
      /\ \A i \in 1 .. n : t[i] = s[i + 1]
      /\ h = s[1]
  <2>1. /\ t \in Seq(S) /\ h = s[1] /\ Len(t) = Len(s) - 1 /\ Len(s) \in Nat
        /\ \A i \in 1 .. Len(t) : t[i] = s[i + 1]
    BY HeadTailProperties
  <2>2. n \in Nat /\ DOMAIN t = 1 .. n /\ DOMAIN s = 1 .. Len(s)
    BY <2>1
  <2>3. Len(s) = n + 1
    BY <2>1
  <2> QED
    BY <2>1, <2>2, <2>3
<1> HIDE DEF t, n, h
<1>2. \A i \in 1 .. n + 1 : i = 1 \/ (i - 1 \in 1 .. n /\ (i - 1) + 1 = i)
  BY <1>1
<1>3. 1 \in 1 .. n + 1 /\ \A i \in 1 .. n : i + 1 \in 1 .. n + 1
  BY <1>1
<1>4. ASSUME NEW i \in 1 .. n + 1 PROVE s[i] \in ToSet(t) \cup {h}
  <2>1. CASE i = 1
    BY <1>1, <2>1
  <2>2. CASE i # 1
    <3>1. i - 1 \in 1 .. n /\ t[i - 1] = s[i]
      BY <1>1, <1>2, <2>2
    <3> QED
      BY <1>1, <3>1 DEF ToSet
  <2> QED
    BY <2>1, <2>2
<1>5. h \in ToSet(s) /\ \A i \in 1 .. n : t[i] \in ToSet(s)
  BY <1>1, <1>3 DEF ToSet
<1>6. ToSet(s) = ToSet(t) \cup {h}
  BY <1>1, <1>4, <1>5 DEF ToSet
<1> QED
  BY <1>6 DEF t, h

LEMMA SetOfTyped == ASSUME NEW S, NEW s \in Seq(S) PROVE ToSet(s) \subseteq S
BY DEF ToSet

LEMMA LoadedKept ==
  ASSUME Loaded, on' \subseteq on,
         cli' = cli \/ cli'.at \notin Creating,
         \/ sched'.at = sched.at /\ sched'.process = sched.process
         \/ sched'.at \in {"loop", "pid", "storing"}
  PROVE  Loaded'
<1>1. \A p \in on' : p.in_memory = 1
  BY DEF Loaded
<1>2. sched'.at \in {"victim", "removing"} => sched'.process.in_memory = 1
  BY DEF Loaded
<1>3. sched'.at = "add" => sched'.process.in_memory = 0
  BY DEF Loaded
<1>4. cli'.at \in Creating => cli'.process.in_memory = 0
  BY DEF Loaded
<1> QED
  BY <1>1, <1>2, <1>3, <1>4 DEF Loaded, Creating

LEMMA CommandsLoaded ==
  ASSUME Typed, Loaded,
         \/ initialize \/ stop_scheduler \/ scheduler_start \/ ReadFreedName \/ ScreenAdd
         \/ ScreenCreateAdd \/ exit \/ ScreenPid
         \/ \E name \in UserNames : ScreenStart(name) \/ screen_create_with_code(name)
  PROVE  Loaded'
<1>1. CASE initialize \/ stop_scheduler \/ scheduler_start \/ ReadFreedName
  <2>1. on' \subseteq on /\ cli' = cli /\ sched' = sched
    BY <1>1 DEF initialize, stop_scheduler, scheduler_start, Start, ReadFreedName, places
  <2> QED
    BY <2>1, LoadedKept
<1>2. CASE \/ ScreenAdd \/ ScreenCreateAdd \/ exit
           \/ \E name \in UserNames : screen_create_with_code(name)
  <2>1. /\ on' \subseteq on /\ cli'.at \in {"prompt", "create"}
        /\ sched' = sched \/ sched'.at = "loop"
    <3>1. CASE ScreenAdd
      BY <3>1 DEF ScreenAdd, AtPrompt
    <3>4. CASE exit
      BY <3>4 DEF exit, AtPrompt, InLoop
    <3>2. CASE ScreenCreateAdd
      BY <3>2 DEF ScreenCreateAdd, AtPrompt, places
    <3>3. CASE \E name \in UserNames : screen_create_with_code(name)
      <4>1. PICK name \in UserNames : screen_create_with_code(name)
        BY <3>3
      <4> DEFINE x == [NoProcess EXCEPT !.name = name, !.pid = process_count + 1]
      <4> HIDE DEF x
      <4>2. cli' = [at |-> "create", read |-> num_processes, process |-> x]
        BY <4>1 DEF screen_create_with_code, x
      <4>3. on' = on /\ sched' = sched
        BY <4>1 DEF screen_create_with_code, places
      <4> QED
        BY <4>2, <4>3
    <3> QED
      BY <1>2, <3>1, <3>2, <3>3, <3>4
  <2> QED
    BY <2>1, LoadedKept DEF Creating
<1>3. CASE \E name \in UserNames : ScreenStart(name)
  <2>0. PICK name \in UserNames : ScreenStart(name)
    BY <1>3
  <2>1. PICK memory_size \in UserSizes :
          /\ UNCHANGED <<on, sched>>
          /\ cli' = [at |-> "pid", read |-> next_pid,
                     process |-> Requested(name, memory_size)]
    BY <2>0 DEF ScreenStart, places
  <2>2. cli'.process.in_memory = 0
    BY <2>1 DEF NoProcess, Requested
  <2> QED
    BY <2>1, <2>2 DEF Loaded
<1>4. CASE ScreenPid
  <2>1. /\ on' \subseteq on /\ sched' = sched /\ cli.at = "pid"
        /\ cli' = [at |-> "add", read |-> num_processes,
                   process |-> [cli.process EXCEPT !.id = <<session, created'>>,
                                  !.pid = cli.read + 1]]
    BY <1>4 DEF ScreenPid, Start, Typing
  <2>2. cli'.process.in_memory = cli.process.in_memory
    <3>1. cli.process \in Process
      BY DEF Typed, CliTyped
    <3>2. \A i, n : [cli.process EXCEPT !.id = i, !.pid = n].in_memory = cli.process.in_memory
      BY <3>1 DEF Process
    <3> QED
      BY <2>1, <3>2
  <2> QED
    BY <2>1, <2>2 DEF Loaded, Creating
<1> QED
  BY <1>1, <1>2, <1>3, <1>4

LEMMA StepLoaded ==
  ASSUME Typed, Loaded, [Next]_vars PROVE Loaded'
<1>1. CASE \/ initialize \/ stop_scheduler \/ scheduler_start \/ ReadFreedName \/ ScreenAdd
           \/ ScreenCreateAdd \/ exit \/ ScreenPid
           \/ \E name \in UserNames : ScreenStart(name) \/ screen_create_with_code(name)
  BY <1>1, CommandsLoaded
<1>2. CASE GenerateRead \/ GenerateAdd \/ FreeStored
  <2>1. on' = on /\ cli' = cli
    BY <1>2 DEF GenerateRead, GenerateAdd, FreeStored, places
  <2>2. sched' = InLoop \/ sched' = [InLoop EXCEPT !.at = "pid", !.read = next_pid]
    BY <1>2 DEF GenerateRead, GenerateAdd, FreeStored
  <2>3. InLoop.at = "loop" /\ [InLoop EXCEPT !.at = "pid", !.read = next_pid].at = "pid"
    BY DEF InLoop
  <2>4. sched'.at \in {"loop", "pid"}
    BY <2>2, <2>3
  <2> QED
    BY <2>1, <2>4, LoadedKept
<1>3. CASE GeneratePid
  <2> DEFINE n == sched.read + 1
             i == <<session, created'>>
             x == [NoProcess EXCEPT !.id = i, !.name = n, !.pid = n]
  <2>1. /\ on' = on /\ cli' = cli
        /\ sched' = [InLoop EXCEPT !.at = "add", !.read = num_processes, !.process = x]
    BY <1>3 DEF GeneratePid, places
  <2> HIDE DEF n, i
  <2>2. x.in_memory = 0
    BY DEF NoProcess
  <2> HIDE DEF x
  <2>3. sched'.at = "add" /\ sched'.process = x
    BY <2>1 DEF InLoop
  <2> QED
    BY <2>1, <2>2, <2>3 DEF Loaded
<1>4. CASE Dispatch
  <2> DEFINE x == [Head(ready) EXCEPT !.in_memory = 1]
  <2>1. on' = on \cup {x} /\ Head(ready) \in Made /\ UNCHANGED <<sched, cli>>
    BY <1>4, DispatchIds
  <2>2. x.in_memory = 1
    BY <2>1, MarkedId
  <2> HIDE DEF x
  <2> QED
    BY <2>1, <2>2 DEF Loaded
<1>5. CASE DispatchToStore
  <2>1. sched'.at = "storing" /\ on' = on /\ cli' = cli
    BY <1>5, DispatchToStoreIds
  <2> QED
    BY <2>1, LoadedKept
<1>6. CASE \/ Preempt \/ Finish \/ Remove \/ WriteStore \/ ReadGarbage \/ FinishForeign
           \/ UNCHANGED vars
  <2>1. on' \subseteq on /\ UNCHANGED <<sched, cli>>
    BY <1>6 DEF Preempt, Finish, Remove, WriteStore, ReadGarbage, FinishForeign, vars, places
  <2> QED
    BY <2>1, LoadedKept
<1>7. CASE SwapIn \/ SwapOut
  <2>1. /\ UNCHANGED <<on, cli>> /\ sched'.process = Image /\ ReadsEntry
        /\ sched'.at \in {"removing", "victim"}
    BY <1>7, SwapInIds, SwapOutIds
  <2>2. Image.in_memory = 1
    BY <2>1, ImageIs
  <2> QED
    BY <2>1, <2>2 DEF Loaded
<1>8. CASE SwapOver
  <2>1. /\ cli' = cli /\ on' \subseteq on /\ sched.at = "victim"
        /\ \/ sched'.at = "removing" /\ sched'.process = sched.process
           \/ sched'.at = "loop"
    BY <1>8, SwapOverIds
  <2>2. CASE sched'.at = "removing" /\ sched'.process = sched.process
    BY <2>1, <2>2 DEF Loaded
  <2>3. CASE sched'.at = "loop"
    BY <2>1, <2>3, LoadedKept
  <2> QED
    BY <2>1, <2>2, <2>3
<1>9. CASE EndRemove
  <2>1. UNCHANGED <<on, cli>> /\ sched'.at = "loop"
    BY <1>9, EndRemoveIds
  <2> QED
    BY <2>1, LoadedKept
<1> QED
  BY <1>1, <1>2, <1>3, <1>4, <1>5, <1>6, <1>7, <1>8, <1>9 DEF Next

(* With calm, blocks with one pid are one process's. *)
LEMMA InMemoryTyped ==
  ASSUME Typed
  PROVE  InMemory \subseteq Made /\ \A p \in InMemory : p.id \in Around
<1>1. on \subseteq Made /\ removed \subseteq Made /\ ToSet(ready) \subseteq Made
  BY SetOfTyped DEF Typed, PlacesTyped
<1>2. sched.at = "removing" => sched.process \in Made
  BY DEF Typed, SchedTyped, Holding
<1>3. \A p \in on \cup removed : p.id \in Around
  BY DEF Around, IdsIn, Gone
<1>4. \A p \in ToSet(ready) : p.id \in Around
  BY DEF Around, Ids, ToSet
<1>5. sched.at = "removing" => sched.process.id \in Around
  BY DEF Around, Moving
<1> QED
  BY <1>1, <1>2, <1>3, <1>4, <1>5 DEF InMemory

LEMMA PidIsId ==
  ASSUME Typed, Calm, NEW p \in Made, NEW q \in Made, p.id \in Around, q.id \in Around
  PROVE  p.pid = q.pid <=> p.id = q.id
<1>1. p.id[1] = session /\ q.id[1] = session /\ ~overlapped
  BY DEF Calm, Older
<1>2. p.pid = q.pid /\ p.id # q.id => FALSE
  BY <1>1, MadeWithItsPid
<1>3. p.id = q.id => p.pid = q.pid
  BY <1>1 DEF Made
<1> QED
  BY <1>2, <1>3

Without(x) == {o \in Owners : o[2] # x.id}

(* A release by pid takes the block of the process and no other. *)
LEMMA ReleasesItsOwn ==
  ASSUME Typed, Apart, Calm, NEW x \in Made, x.id \in Around,
         Single(blocks), OwnersIn(blocks) \subseteq Owners
  PROVE  /\ Single(Released(x)) /\ OwnersIn(Released(x)) \subseteq Without(x)
         /\ Owners \subseteq OwnersIn(blocks) => Without(x) \subseteq OwnersIn(Released(x))
<1>1. ASSUME NEW b \in blocks PROVE \E q \in InMemory : b.pid = q.pid /\ b.id = q.id
  <2>1. OwnerOf(b) \in Owners
    BY DEF OwnersIn
  <2>2. PICK q \in InMemory : OwnerOf(b) = Owner(q)
    BY <2>1 DEF Owners
  <2> QED
    BY <2>2 DEF OwnerOf, Owner
<1>2. \A b \in blocks : b.pid = x.pid <=> b.id = x.id
  BY <1>1, InMemoryTyped, PidIsId
<1>3. \A b \in blocks : b.base <= b.base
  BY DEF Typed, PlacesTyped, BlockSet
<1> DEFINE same == {b \in blocks : b.pid = x.pid}
<1>4. same = {b \in blocks : b.id = x.id} /\ \A b, c \in same : b = c
  BY <1>2 DEF Single
<1>5. Released(x) = blocks \ same
  <2>1. Released(x) = blocks \ {b \in same : \A other \in same : b.base <= other.base}
    BY DEF Released
  <2>2. \A b \in same : \A other \in same : b.base <= other.base
    BY <1>3, <1>4
  <2> HIDE DEF same
  <2> QED
    BY <2>1, <2>2
<1>6. Released(x) = {b \in blocks : b.id # x.id}
  BY <1>4, <1>5
<1>7. Single(Released(x))
  BY <1>6 DEF Single
<1>8. OwnersIn(Released(x)) \subseteq Without(x)
  BY <1>6 DEF OwnersIn, OwnerOf, Without
<1>9. ASSUME Owners \subseteq OwnersIn(blocks) PROVE Without(x) \subseteq OwnersIn(Released(x))
  BY <1>6, <1>9 DEF OwnersIn, OwnerOf, Without
<1> QED
  BY <1>7, <1>8, <1>9

(* What a step does to the blocks and to the processes in memory. *)
Same == Owners' = Owners /\ blocks' = blocks
Emptied == Owners' = Owners /\ blocks' = {} /\ memory_reset' = (memory_reset \/ blocks # {})
Nothing == Owners' = {} /\ blocks' = {}

Comes(x, owners, taken) ==
  /\ \A q \in InMemory : q.id # x.id
  /\ Owners' = owners \cup {Owner(x)}
  /\ \E b : OwnerOf(b) = Owner(x) /\ blocks' = taken \cup {b}

Allotted == \E x \in Made : Comes(x, Owners, blocks)
Replaced ==
  \E x \in Made :
    /\ x.id \in Around
    /\ \/ Owners' = Without(x) /\ blocks' = Released(x)
       \/ \E y \in Made : Comes(y, Without(x), Released(x))

LEMMA AllocatedOwner ==
  ASSUME NEW x, NEW taken
  PROVE  \E b : OwnerOf(b) = Owner(x) /\ Allocated(x, taken) = taken \cup {b}
<1> DEFINE holes == Holes(x.memory_allocation, taken)
           base == CHOOSE base \in holes : \A other \in holes : base <= other
           b == [pid |-> x.pid, id |-> x.id, base |-> base, size |-> x.memory_allocation]
<1>1. Allocated(x, taken) = taken \cup {b}
  BY DEF Allocated
<1> HIDE DEF base
<1>2. OwnerOf(b) = Owner(x)
  BY DEF OwnerOf, Owner
<1> QED
  BY <1>1, <1>2

LEMMA SameWhen ==
  ASSUME UNCHANGED <<on, removed, ready, blocks>>,
         sched' = sched \/ (sched.at # "removing" /\ sched'.at # "removing")
  PROVE  Same
<1>1. InMemory' = InMemory
  BY DEF InMemory
<1> QED
  BY <1>1 DEF Same, Owners

LEMMA NothingWhen ==
  ASSUME ready' = <<>>, on' = {}, removed' = {}, blocks' = {}, sched'.at # "removing"
  PROVE  Nothing
<1>1. InMemory' = {}
  BY SetOfNone DEF InMemory
<1> QED
  BY <1>1 DEF Nothing, Owners

LEMMA CommandsOccupy ==
  ASSUME Typed, Fresh, Loaded, starts' <= 1,
         \/ initialize \/ stop_scheduler \/ scheduler_start \/ ReadFreedName \/ ScreenAdd
         \/ ScreenCreateAdd \/ ScreenPid
         \/ \E name \in UserNames : ScreenStart(name) \/ screen_create_with_code(name)
  PROVE  Same \/ Emptied \/ Nothing
<1>0. starts \in Nat
  BY DEF Typed, Numbers
<1>1. CASE \/ stop_scheduler \/ ReadFreedName \/ ScreenCreateAdd
           \/ \E name \in UserNames : ScreenStart(name) \/ screen_create_with_code(name)
  <2>1. UNCHANGED <<on, removed, ready, blocks, sched>>
    BY <1>1 DEF stop_scheduler, ReadFreedName, ScreenStart, ScreenCreateAdd,
       screen_create_with_code, places
  <2> QED
    BY <2>1, SameWhen
<1>2. CASE initialize
  <2>1. /\ UNCHANGED <<on, removed, ready, sched>> /\ blocks' = {}
        /\ memory_reset' = (memory_reset \/ blocks # {})
    BY <1>2 DEF initialize
  <2>2. InMemory' = InMemory
    BY <2>1 DEF InMemory
  <2> QED
    BY <2>1, <2>2 DEF Emptied, Owners
<1>3. CASE scheduler_start
  <2>1. /\ ready' = <<>> /\ on' = {} /\ blocks' = {} /\ sched' = sched /\ removed' = removed
        /\ starts' = starts + 1
    BY <1>3 DEF scheduler_start, Start
  <2>2. sched'.at # "removing" /\ removed' = {}
    BY <1>0, <2>1 DEF Fresh, InLoop
  <2> QED
    BY <2>1, <2>2, NothingWhen
<1>4. CASE ScreenPid
  <2>1. /\ sched' = sched /\ removed' = removed
        /\ \/ UNCHANGED <<ready, on, starts, blocks>>
           \/ /\ ready' = <<>> /\ on' = {} /\ blocks' = {} /\ starts' = starts + 1
    BY <1>4, ScreenPidIds
  <2>2. starts' = starts + 1 => sched'.at # "removing" /\ removed' = {}
    BY <1>0, <2>1 DEF Fresh, InLoop
  <2> QED
    BY <2>1, <2>2, NothingWhen, SameWhen
<1>5. CASE ScreenAdd
  <2>1. /\ UNCHANGED <<on, removed, blocks, sched>> /\ cli.at = "add" /\ cli.process \in Made
        /\ ready' = Append(ready, cli.process) /\ ready \in Seq(Made)
    BY <1>5, ScreenAddIds DEF ScreenAdd
  <2>2. ToSet(ready') = ToSet(ready) \cup {cli.process} /\ cli.process.in_memory = 0
    BY <2>1, SetWithLast DEF Loaded, Creating
  <2>3. InMemory' = InMemory
    BY <2>1, <2>2 DEF InMemory
  <2> QED
    BY <2>1, <2>3 DEF Same, Owners
<1> QED
  BY <1>1, <1>2, <1>3, <1>4, <1>5

LEMMA GeneratesOccupy ==
  ASSUME Typed, Loaded, GenerateRead \/ GeneratePid \/ GenerateAdd PROVE Same
<1>1. CASE GenerateRead
  <2>1. UNCHANGED <<on, removed, ready, blocks>> /\ sched.at = "loop"
        /\ sched' = [InLoop EXCEPT !.at = "pid", !.read = next_pid]
    BY <1>1 DEF GenerateRead, places, AtWork
  <2>2. sched'.at = "pid"
    BY <2>1 DEF InLoop
  <2> QED
    BY <2>1, <2>2, SameWhen
<1>2. CASE GeneratePid
  <2>1. UNCHANGED <<on, removed, ready, blocks>> /\ sched.at = "pid" /\ sched'.at = "add"
    BY <1>2, GeneratePidIds DEF GeneratePid, places
  <2> QED
    BY <2>1, SameWhen
<1>3. CASE GenerateAdd
  <2>1. /\ UNCHANGED <<on, removed, blocks>> /\ sched.at = "add" /\ sched.process \in Made
        /\ sched'.at = "loop"
        /\ ready' = Append(ready, sched.process) /\ ready \in Seq(Made)
    BY <1>3, GenerateAddIds DEF GenerateAdd
  <2>2. ToSet(ready') = ToSet(ready) \cup {sched.process} /\ sched.process.in_memory = 0
    BY <2>1, SetWithLast DEF Loaded
  <2>3. InMemory' = InMemory
    BY <2>1, <2>2 DEF InMemory
  <2> QED
    BY <2>1, <2>3 DEF Same, Owners
<1> QED
  BY <1>1, <1>2, <1>3

(* What is in the queue without memory has its id alone. *)
LEMMA NotInMemory ==
  ASSUME Apart, NEW p \in ToSet(ready), p.in_memory # 1, sched.at # "removing"
  PROVE  \A q \in InMemory : q.id # p.id
<1>1. \A q \in ToSet(ready) : q.id = p.id => q = p
  <2> SUFFICES ASSUME NEW i \in DOMAIN ready, NEW j \in DOMAIN ready, ready[i].id = ready[j].id
               PROVE  ready[i] = ready[j]
    BY DEF ToSet
  <2>1. i = j
    BY DEF Apart, Differ
  <2> QED
    BY <2>1
<1>2. p.id \notin IdsIn(on) /\ p.id \notin IdsIn(Gone)
  BY DEF Apart, ApartIn, Ids, ToSet
<1> QED
  BY <1>1, <1>2 DEF InMemory, IdsIn, Gone

LEMMA DispatchOccupies ==
  ASSUME Typed, Apart, Dispatch PROVE Same \/ Allotted
<1> DEFINE p == Head(ready)
           x == [p EXCEPT !.in_memory = 1]
<1>1. /\ sched.at = "loop" /\ ready # <<>> /\ ready' = Tail(ready) /\ p \in Made
      /\ on' = on \cup {x} /\ sched' = sched /\ removed' = removed
  BY DispatchIds DEF Dispatch
<1>2. \/ p.in_memory = 1 /\ blocks' = blocks
      \/ p.in_memory = 0 /\ blocks' = Allocated(p, blocks)
  BY DEF Dispatch
<1>3. ToSet(ready) = ToSet(ready') \cup {p}
  <2>1. ready \in Seq(Made)
    BY DEF Typed, PlacesTyped
  <2> QED
    BY <1>1, <2>1, SetWithoutFirst
<1>4. Owner(x) = Owner(p) /\ x.in_memory = 1
  BY <1>1, MarkedId
<1>5. p.in_memory = 1 => x = p
  BY <1>1 DEF Made, Process
<1> HIDE DEF x, p
<1>6. CASE p.in_memory = 1 /\ blocks' = blocks
  <2>1. InMemory' = InMemory
    BY <1>1, <1>3, <1>5, <1>6 DEF InMemory
  <2> QED
    BY <1>6, <2>1 DEF Same, Owners
<1>7. CASE p.in_memory = 0 /\ blocks' = Allocated(p, blocks)
  <2>1. InMemory' = InMemory \cup {x}
    BY <1>1, <1>3, <1>7 DEF InMemory
  <2>2. Owners' = Owners \cup {Owner(p)}
    BY <1>4, <2>1 DEF Owners
  <2>3. \A q \in InMemory : q.id # p.id
    <3>1. p \in ToSet(ready) /\ p.in_memory # 1
      BY <1>3, <1>7
    <3> QED
      BY <1>1, <3>1, NotInMemory
  <2> QED
    BY <1>1, <1>7, <2>2, <2>3, AllocatedOwner DEF Allotted, Comes
<1> QED
  BY <1>2, <1>6, <1>7

LEMMA LeavesMemory ==
  ASSUME Typed, Apart, Loaded, DispatchToStore \/ FreeStored \/ Preempt \/ Remove PROVE Same
<1>1. CASE DispatchToStore
  <2> DEFINE p == Head(ready)
  <2>1. /\ sched.at = "loop" /\ ready # <<>> /\ ready' = Tail(ready) /\ p \in Made
        /\ sched'.at = "storing" /\ p.in_memory = 0 /\ UNCHANGED <<on, removed, blocks>>
    BY <1>1, DispatchToStoreIds DEF DispatchToStore
  <2>2. ToSet(ready) = ToSet(ready') \cup {p}
    <3>1. ready \in Seq(Made)
      BY DEF Typed, PlacesTyped
    <3> QED
      BY <2>1, <3>1, SetWithoutFirst
  <2> HIDE DEF p
  <2>3. InMemory' = InMemory
    BY <2>1, <2>2 DEF InMemory
  <2> QED
    BY <2>1, <2>3 DEF Same, Owners
<1>2. CASE FreeStored
  <2>1. UNCHANGED <<on, removed, ready, blocks>> /\ sched.at = "storing" /\ sched'.at = "loop"
    BY <1>2 DEF FreeStored, AtWork, places, InLoop
  <2> QED
    BY <2>1, SameWhen
<1>3. CASE Preempt
  <2>1. PICK p \in on : /\ on' = on \ {p} /\ ready' = Append(ready, p)
                        /\ p \in Made /\ ready \in Seq(Made) /\ sched' = sched
    BY <1>3, PreemptIds
  <2>2. /\ ToSet(ready') = ToSet(ready) \cup {p} /\ p.in_memory = 1
        /\ blocks' = blocks /\ removed' = removed
    BY <1>3, <2>1, SetWithLast DEF Loaded, Preempt
  <2>3. InMemory' = InMemory
    BY <2>1, <2>2 DEF InMemory
  <2> QED
    BY <2>2, <2>3 DEF Same, Owners
<1>4. CASE Remove
  <2>1. PICK p \in on : /\ on' = on \ {p} /\ removed' = removed \cup {p} /\ blocks' = blocks
                        /\ UNCHANGED <<ready, sched>>
    BY <1>4, RemoveIds
  <2>2. InMemory' = InMemory
    BY <2>1 DEF InMemory
  <2> QED
    BY <2>1, <2>2 DEF Same, Owners
<1> QED
  BY <1>1, <1>2, <1>3, <1>4

LEMMA WithoutThose ==
  ASSUME NEW x, NEW T, T = {q \in InMemory : q.id # x.id}
  PROVE  {Owner(q) : q \in T} = Without(x)
<1>1. \A q : Owner(q)[2] = q.id
  BY DEF Owner
<1> QED
  BY <1>1 DEF Without, Owners

LEMMA FinishOccupies ==
  ASSUME Typed, Apart, Finish PROVE Replaced
<1>1. PICK p \in on : /\ on' = on \ {p} /\ p \in Made /\ blocks' = Released(p)
                      /\ UNCHANGED <<ready, sched, removed>> /\ sched.at \notin Moving
  BY FinishIds
<1>2. /\ \A q \in on : q.id = p.id <=> q = p
      /\ \A q \in ToSet(ready) : q.id # p.id
      /\ \A q \in removed : q.id # p.id
  BY DEF Apart, ApartIn, DifferIn, IdsIn, Ids, ToSet, Gone
<1>3. InMemory' = {q \in InMemory : q.id # p.id}
  BY <1>1, <1>2 DEF InMemory, Moving
<1>4. Owners' = Without(p)
  BY <1>3, WithoutThose DEF Owners
<1>5. p.id \in Around
  BY DEF Around, IdsIn
<1> QED
  BY <1>1, <1>4, <1>5 DEF Replaced

(* What is stored, and not about to be swapped out, is not in memory. *)
LEMMA StoredNotInMemory ==
  ASSUME Typed, Apart, NEW id \in Ids(Stored), sched.at # "removing",
         sched.at = "victim" => id # sched.victim.id
  PROVE  \A q \in InMemory : q.id # id
<1>1. id \notin Ids(ready) /\ id \notin IdsIn(Gone) /\ id \notin IdsIn(on)
  BY DEF Apart, ApartIn
<1> QED
  BY <1>1 DEF InMemory, Ids, IdsIn, ToSet, Gone

LEMMA SwapsOccupy ==
  ASSUME Typed, Apart, Loaded, SwapIn \/ SwapOut \/ SwapOver \/ EndRemove
  PROVE  Same \/ Allotted \/ Replaced
<1>1. CASE SwapIn
  <2>1. /\ sched.at = "loop" /\ sched'.at = "removing" /\ sched'.process = Image
        /\ blocks' = Allocated(FirstProcess, blocks) /\ UNCHANGED <<on, removed, ready>>
        /\ ReadsEntry /\ FirstProcess \in Made /\ FirstProcess.id \in Ids(Stored)
    BY <1>1, SwapInIds DEF SwapIn
  <2>2. Owner(Image) = Owner(FirstProcess)
    BY <2>1, ImageIs
  <2>3. InMemory' = InMemory \cup {Image}
    BY <2>1 DEF InMemory
  <2>4. Owners' = Owners \cup {Owner(FirstProcess)}
    BY <2>2, <2>3 DEF Owners
  <2>5. \A q \in InMemory : q.id # FirstProcess.id
    BY <2>1, StoredNotInMemory
  <2>6. \E b : OwnerOf(b) = Owner(FirstProcess) /\ blocks' = blocks \cup {b}
    BY <2>1, AllocatedOwner
  <2> QED
    BY <2>1, <2>4, <2>5, <2>6 DEF Allotted, Comes
<1>2. CASE SwapOut
  <2>1. sched.at = "loop" /\ sched'.at = "victim" /\ UNCHANGED <<on, removed, ready, blocks>>
    BY <1>2, SwapOutIds DEF SwapOut, places
  <2> QED
    BY <2>1, SameWhen
<1>3. CASE SwapOver
  <2> DEFINE v == sched.victim
             x == sched.process
             rest == Released(v)
  <2>1. /\ sched.at = "victim" /\ v \in Made /\ UNCHANGED <<ready, removed>>
        /\ on' = {p \in on : p.id # v.id} /\ x \in Made /\ x.id \in Ids(Stored)
        /\ \/ sched'.at = "removing" /\ sched'.process = x /\ blocks' = Allocated(x, rest)
           \/ sched'.at = "loop" /\ blocks' = rest
    BY <1>3, SwapOverIds, ImageIs DEF SwapOver
  <2>2. v.id \notin Ids(ready) /\ v.id \notin IdsIn(Gone) /\ v.id \in Around /\ x.id \notin IdsIn(on)
    BY <2>1 DEF Apart, ApartIn, Around, Holding
  <2>3. (\A q \in ToSet(ready) : q.id # v.id) /\ (\A q \in removed : q.id # v.id)
    BY <2>2 DEF ToSet, Ids, IdsIn, Gone
  <2>4. \A q \in InMemory : q.id # x.id
    <3>1. x.id \notin Ids(ready) /\ x.id \notin IdsIn(Gone)
      BY <2>1 DEF Apart, ApartIn
    <3> HIDE DEF x
    <3> QED
      BY <2>1, <2>2, <3>1 DEF InMemory, Ids, IdsIn, ToSet, Gone
  <2> HIDE DEF v, x, rest
  <2> DEFINE T == {q \in InMemory : q.id # v.id}
  <2>5. {Owner(q) : q \in T} = Without(v)
    BY WithoutThose
  <2>6. CASE sched'.at = "removing" /\ sched'.process = x /\ blocks' = Allocated(x, rest)
    <3>1. InMemory' = T \cup {x}
      BY <2>1, <2>3, <2>6 DEF InMemory
    <3> HIDE DEF T
    <3>2. Owners' = Without(v) \cup {Owner(x)}
      BY <2>5, <3>1 DEF Owners
    <3>3. \E b : OwnerOf(b) = Owner(x) /\ blocks' = rest \cup {b}
      BY <2>6, AllocatedOwner
    <3> QED
      BY <2>1, <2>2, <2>4, <3>2, <3>3 DEF Replaced, Comes, rest
  <2>7. CASE sched'.at = "loop" /\ blocks' = rest
    <3>1. InMemory' = T
      BY <2>1, <2>3, <2>7 DEF InMemory
    <3> HIDE DEF T
    <3>2. Owners' = Without(v)
      BY <2>5, <3>1 DEF Owners
    <3> QED
      BY <2>1, <2>2, <2>7, <3>2 DEF Replaced, rest
  <2> QED
    BY <2>1, <2>6, <2>7
<1>4. CASE EndRemove
  <2> DEFINE p == sched.process
  <2>1. /\ sched.at = "removing" /\ sched'.at = "loop" /\ p \in Made
        /\ ready' = Append(ready, p) /\ ready \in Seq(Made)
        /\ UNCHANGED <<on, removed, blocks>>
    BY <1>4, EndRemoveIds DEF EndRemove
  <2>2. ToSet(ready') = ToSet(ready) \cup {p} /\ p.in_memory = 1
    BY <2>1, SetWithLast DEF Loaded
  <2>3. InMemory' = InMemory
    BY <2>1, <2>2 DEF InMemory
  <2> QED
    BY <2>1, <2>3 DEF Same, Owners
<1> QED
  BY <1>1, <1>2, <1>3, <1>4

LEMMA StepOccupies ==
  ASSUME Typed, Fresh, Apart, Loaded, [Next]_vars, ~exit, starts' <= 1
  PROVE  Same \/ Emptied \/ Allotted \/ Replaced \/ Nothing
<1>1. CASE \/ initialize \/ stop_scheduler \/ scheduler_start \/ ReadFreedName \/ ScreenAdd
           \/ ScreenCreateAdd \/ ScreenPid
           \/ \E name \in UserNames : ScreenStart(name) \/ screen_create_with_code(name)
  BY <1>1, CommandsOccupy
<1>2. CASE GenerateRead \/ GeneratePid \/ GenerateAdd
  BY <1>2, GeneratesOccupy
<1>3. CASE Dispatch \/ DispatchToStore \/ FreeStored \/ Preempt \/ Finish \/ Remove
  BY <1>3, DispatchOccupies, LeavesMemory, FinishOccupies
<1>4. CASE SwapIn \/ SwapOut \/ SwapOver \/ EndRemove
  BY <1>4, SwapsOccupy
<1>5. CASE WriteStore \/ ReadGarbage \/ FinishForeign \/ UNCHANGED vars
  <2>1. UNCHANGED <<ready, on, removed, blocks, sched>>
    BY <1>5 DEF WriteStore, ReadGarbage, FinishForeign, vars, places
  <2> QED
    BY <2>1, SameWhen
<1> QED
  BY <1>1, <1>2, <1>3, <1>4, <1>5 DEF Next

LEMMA WasCalm ==
  ASSUME Typed, Fresh, [Next]_vars, ~exit, Calm'
  PROVE  /\ Calm /\ starts' <= 1 /\ ~overlapped
         /\ ~memory_reset' => ~memory_reset
<1>1. /\ session' = session /\ starts \in Nat /\ starts' \in {starts, starts + 1}
  BY StepStarts
<1>6. (overlapped => overlapped') /\ (memory_reset => memory_reset')
  BY StepRemembers
<1>2. starts' <= 1 /\ ~overlapped' /\ ~Older'
  BY DEF Calm
<1>7. ~overlapped /\ (~memory_reset' => ~memory_reset)
  BY <1>2, <1>6, Zenon
<1>3. Around \subseteq Around'
  BY <1>2, StepGoes DEF Goes, Stay
<1>4. ~Older
  BY <1>1, <1>2, <1>3 DEF Older
<1>5. starts <= 1
  BY <1>1, <1>2
<1>8. Calm
  BY <1>4, <1>5, <1>7 DEF Calm
<1> QED
  BY <1>2, <1>7, <1>8, Zenon

LEMMA ComesAlone ==
  ASSUME NEW x, NEW owners, NEW taken, Comes(x, owners, taken), owners \subseteq Owners,
         Single(taken), OwnersIn(taken) \subseteq owners
  PROVE  /\ Single(blocks') /\ OwnersIn(blocks') \subseteq Owners'
         /\ owners \subseteq OwnersIn(taken) => Owners' \subseteq OwnersIn(blocks')
<1>1. PICK b : OwnerOf(b) = Owner(x) /\ blocks' = taken \cup {b}
  BY DEF Comes
<1>2. Owners' = owners \cup {Owner(x)} /\ b.id = x.id
  BY <1>1 DEF Comes, OwnerOf, Owner
<1>3. \A c \in taken : c.id # x.id
  <2> SUFFICES ASSUME NEW c \in taken PROVE c.id # x.id
    OBVIOUS
  <2>1. OwnerOf(c) \in Owners
    BY DEF OwnersIn
  <2>2. PICK q \in InMemory : OwnerOf(c) = Owner(q)
    BY <2>1 DEF Owners
  <2>3. c.id = q.id
    BY <2>2 DEF OwnerOf, Owner
  <2> QED
    BY <2>3 DEF Comes
<1>4. Single(blocks')
  BY <1>1, <1>2, <1>3 DEF Single
<1>5. OwnersIn(blocks') = OwnersIn(taken) \cup {Owner(x)}
  BY <1>1 DEF OwnersIn
<1> QED
  BY <1>2, <1>4, <1>5

LEMMA StepOwning ==
  ASSUME Typed, Fresh, Apart, Loaded, Backed, Owning, [Next]_vars
  PROVE  Backed' /\ Owning'
<1>1. CASE exit
  <2>1. ready' = <<>> /\ on' = {} /\ removed' = {} /\ blocks' = {} /\ sched'.at = "loop"
    BY <1>1, ExitIds
  <2>2. Nothing
    BY <2>1, NothingWhen
  <2> QED
    BY <2>2 DEF Backed, Owning, Nothing, OwnersIn, Single
<1>2. CASE ~exit /\ ~Calm'
  BY <1>2 DEF Backed, Owning
<1>3. CASE ~exit /\ Calm'
  <2>1. /\ Calm /\ starts' <= 1 /\ (~memory_reset' => ~memory_reset)
        /\ Single(blocks) /\ OwnersIn(blocks) \subseteq Owners
        /\ ~memory_reset' => Owners \subseteq OwnersIn(blocks)
    BY <1>3, WasCalm DEF Backed, Owning
  <2> SUFFICES /\ Single(blocks') /\ OwnersIn(blocks') \subseteq Owners'
               /\ ~memory_reset' => Owners' \subseteq OwnersIn(blocks')
    BY DEF Backed, Owning, Single, OwnersIn, OwnerOf
  <2>2. CASE Same
    BY <2>1, <2>2 DEF Same
  <2>3. CASE Emptied
    BY <2>1, <2>3 DEF Emptied, OwnersIn, Single
  <2>4. CASE Allotted
    <3>1. PICK x \in Made : Comes(x, Owners, blocks)
      BY <2>4 DEF Allotted
    <3> QED
      BY <2>1, <3>1, ComesAlone DEF Owners
  <2>5. CASE Replaced
    <3>1. PICK x \in Made : x.id \in Around /\
            \/ Owners' = Without(x) /\ blocks' = Released(x)
            \/ \E y \in Made : Comes(y, Without(x), Released(x))
      BY <2>5 DEF Replaced
    <3>2. /\ Single(Released(x)) /\ OwnersIn(Released(x)) \subseteq Without(x)
          /\ Owners \subseteq OwnersIn(blocks) => Without(x) \subseteq OwnersIn(Released(x))
      BY <2>1, <3>1, ReleasesItsOwn
    <3>3. CASE Owners' = Without(x) /\ blocks' = Released(x)
      BY <2>1, <3>2, <3>3
    <3>4. CASE \E y \in Made : Comes(y, Without(x), Released(x))
      <4>1. PICK y \in Made : Comes(y, Without(x), Released(x))
        BY <3>4
      <4>2. Without(x) \subseteq Owners
        BY DEF Without
      <4> QED
        BY <2>1, <3>2, <4>1, <4>2, ComesAlone
    <3> QED
      BY <3>1, <3>3, <3>4
  <2>6. CASE Nothing
    BY <2>6 DEF Nothing, OwnersIn, Single
  <2> QED
    BY <1>3, <2>1, <2>2, <2>3, <2>4, <2>5, <2>6, StepOccupies
<1> QED
  BY <1>1, <1>2, <1>3

(* Whatever goes on is with one scheduler thread at most. *)
LEMMA StepStopped ==
  ASSUME Typed, Stopped, [Next]_vars PROVE Stopped'
<1>0. starts \in Nat
  BY DEF Typed, Numbers
<1>1. CASE UNCHANGED <<starts, ready, on>>
  BY <1>1 DEF Stopped
<1>2. CASE ready' = <<>> /\ on' = {}
  BY <1>2 DEF Stopped
<1>3. CASE starts <= 1 /\ UNCHANGED starts
  BY <1>0, <1>3 DEF Stopped
<1>4. CASE \/ initialize \/ stop_scheduler \/ scheduler_start \/ ReadFreedName \/ ScreenAdd
           \/ ScreenCreateAdd
           \/ \E name \in UserNames : ScreenStart(name) \/ screen_create_with_code(name)
  BY <1>2, <1>3, <1>4 DEF initialize, stop_scheduler, scheduler_start, Start, ReadFreedName,
     ScreenStart, screen_create_with_code, ScreenAdd, ScreenCreateAdd, history, races, Typing
<1>5. CASE ScreenPid \/ exit
  <2>1. ScreenPid => (starts <= 1 /\ UNCHANGED starts) \/ (ready' = <<>> /\ on' = {})
    BY DEF ScreenPid, Start, Typing
  <2>2. exit => ready' = <<>> /\ on' = {}
    BY ExitIds
  <2> QED
    BY <1>2, <1>3, <1>5, <2>1, <2>2
<1>6. CASE GenerateRead \/ GeneratePid \/ GenerateAdd \/ Dispatch \/ DispatchToStore \/ Preempt
  BY <1>3, <1>6 DEF GenerateRead, GeneratePid, GenerateAdd, Dispatch, DispatchToStore,
     Preempt, history, races, AtWork
<1>7. CASE SwapIn \/ SwapOut \/ SwapOver \/ EndRemove \/ WriteStore
  <2>1. starts = 1 /\ UNCHANGED starts
    BY <1>7 DEF SwapIn, SwapOut, SwapOver, EndRemove, WriteStore, history, races, AtWork
  <2> QED
    BY <1>3, <2>1
<1>8. CASE FreeStored \/ ReadGarbage \/ FinishForeign \/ Finish \/ Remove
  <2>1. starts = 1 /\ UNCHANGED starts
    BY <1>8 DEF FreeStored, ReadGarbage, FinishForeign, Finish, Remove, history, races, AtWork
  <2> QED
    BY <1>3, <2>1
<1>9. CASE UNCHANGED vars
  BY <1>1, <1>9 DEF vars, history, races, places
<1> QED
  BY <1>4, <1>5, <1>6, <1>7, <1>8, <1>9 DEF Next

LEMMA OlderIsKnown == ASSUME Typed, Older PROVE OldAround
<1>1. Around \subseteq {p.id : p \in Known}
  BY AroundIsKnown
<1>2. PICK x \in Around : x[1] # session
  BY DEF Older
<1>3. PICK p \in Known : x = p.id
  BY <1>1, <1>2
<1> QED
  BY <1>2, <1>3 DEF OldAround

Memories == Fresh /\ Apart /\ Loaded /\ Backed /\ Owning /\ Stopped

LEMMA MemoriesAtFirst == ASSUME Init PROVE Memories
<1>1. /\ ready = <<>> /\ on = {} /\ removed = {} /\ blocks = {} /\ starts = 0
      /\ cli.at = "prompt" /\ sched.at = "loop"
  BY DEF Init, AtPrompt, InLoop
<1>2. InMemory = {}
  BY <1>1, SetOfNone DEF InMemory
<1>3. Owners = {}
  BY <1>2 DEF Owners
<1>4. Loaded
  BY <1>1 DEF Loaded, Creating
<1> QED
  BY <1>1, <1>3, <1>4, FreshAtFirst, ApartAtFirst
     DEF Memories, Backed, Owning, Stopped, OwnersIn, Single

LEMMA StepMemories == ASSUME Typed, Memories, [Next]_vars PROVE Memories'
<1>1. Fresh' /\ Apart' /\ Loaded'
  BY StepFresh, StepApart, StepLoaded DEF Memories
<1>2. Backed' /\ Owning' /\ Stopped'
  BY StepOwning, StepStopped DEF Memories
<1> QED
  BY <1>1, <1>2 DEF Memories

(* Memory is released by pid, and the first block with the pid is freed:   *)
(* that never takes the block of another process of this session, nor      *)
(* leaves one without its block, however the threads of the generator, the *)
(* swaps and the cores interleave, as long as pids differ and the memory   *)
(* is not initialised again.                                               *)
THEOREM BlocksAreOwned == Spec => []OwnBlocks
<1>1. Init => Typed /\ Memories
  BY InitTyped, MemoriesAtFirst
<1>2. Typed /\ Memories /\ [Next]_vars => Typed' /\ Memories'
  BY StepTyped, StepMemories
<1>3. Typed /\ Memories => OwnBlocks
  <2> SUFFICES ASSUME Typed, Memories, ~overlapped, ~memory_reset, ~OldAround,
                      NEW p \in on \cup {q \in ToSet(ready) : q.in_memory = 1}
               PROVE  \E b \in blocks :
                        <<b.pid, b.id, b.size>> = <<p.pid, p.id, p.memory_allocation>>
    BY DEF OwnBlocks
  <2>1. starts \in Nat
    BY DEF Typed, Numbers
  <2>2. CASE starts > 1
    BY <2>2, SetOfNone DEF Memories, Stopped
  <2>3. CASE starts <= 1
    <3>1. Calm
      BY <2>3, OlderIsKnown DEF Calm
    <3>2. Owners \subseteq OwnersIn(blocks) /\ p \in InMemory
      BY <3>1 DEF Memories, Owning, InMemory
    <3>3. PICK b \in blocks : OwnerOf(b) = Owner(p)
      BY <3>2 DEF Owners, OwnersIn
    <3> QED
      BY <3>3 DEF OwnerOf, Owner
  <2> QED
    BY <2>1, <2>2, <2>3
<1> QED
  BY <1>1, <1>2, <1>3, PTL DEF Spec
-----------------------------------------------------------------------------
(* A struct is freed only when memory is short.                            *)

(* While the scheduler thread writes to the store, there is no room for    *)
(* the process it writes, or the one it writes another for: nothing        *)
(* releases memory meanwhile.                                              *)
Short ==
  Calm /\ ~memory_reset /\ sched.at \in {"storing", "victim"} =>
    ~Fits(sched.process.memory_allocation, blocks)

LEMMA EntersShort ==
  ASSUME Typed, DispatchToStore \/ SwapOut
  PROVE  ~Fits(sched'.process.memory_allocation, blocks) /\ blocks' = blocks
<1>1. CASE DispatchToStore
  BY <1>1, DispatchToStoreIds
<1>2. CASE SwapOut
  <2>1. /\ sched'.process = Image /\ ReadsEntry /\ blocks' = blocks
        /\ ~Fits(FirstProcess.memory_allocation, blocks)
    BY <1>2, SwapOutIds
  <2>2. Image.memory_allocation = FirstProcess.memory_allocation
    BY <2>1, ImageIs DEF Owner
  <2> QED
    BY <2>1, <2>2
<1> QED
  BY <1>1, <1>2

(* With one start and no initialize the blocks stay as they are. *)
LEMMA StaysShort ==
  ASSUME Typed, Fresh, [Next]_vars, ~exit, starts' <= 1, ~memory_reset',
         sched.at \in {"storing", "victim"}, sched'.at \in {"storing", "victim"}
  PROVE  blocks' = blocks /\ sched'.process = sched.process
<1>0. starts \in Nat /\ starts # 0
  <2>1. starts \in Nat
    BY DEF Typed, Numbers
  <2>2. starts = 0 => sched.at = "loop"
    BY DEF Fresh, InLoop
  <2> QED
    BY <2>1, <2>2
<1>1. CASE \/ stop_scheduler \/ ReadFreedName \/ ScreenAdd \/ ScreenCreateAdd
           \/ \E name \in UserNames : ScreenStart(name) \/ screen_create_with_code(name)
  BY <1>1 DEF stop_scheduler, ReadFreedName, ScreenAdd, ScreenCreateAdd, ScreenStart,
     screen_create_with_code, places
<1>2. CASE initialize
  <2>1. sched' = sched /\ blocks' = {} /\ memory_reset' = (memory_reset \/ blocks # {})
    BY <1>2 DEF initialize
  <2>2. blocks = {}
    BY <2>1, Zenon
  <2> QED
    BY <2>1, <2>2
<1>3. CASE scheduler_start
  <2>1. starts' = starts + 1
    BY <1>3 DEF scheduler_start, Start
  <2> QED
    BY <1>0, <2>1
<1>4. CASE ScreenPid
  <2>1. sched' = sched /\ (blocks' = blocks \/ starts' = starts + 1)
    BY <1>4, ScreenPidIds
  <2> QED
    BY <1>0, <2>1
<1>5. CASE \/ GenerateRead \/ GeneratePid \/ GenerateAdd \/ Dispatch \/ DispatchToStore
           \/ FreeStored \/ Preempt \/ Finish \/ Remove
  BY <1>5 DEF GenerateRead, GeneratePid, GenerateAdd, Dispatch, DispatchToStore, FreeStored,
     Preempt, Finish, Remove, AtWork, LockFree, InLoop
<1>6. CASE SwapIn \/ SwapOut \/ SwapOver \/ EndRemove
  BY <1>6, SwapInIds, SwapOutIds, SwapOverIds, EndRemoveIds
<1>7. CASE WriteStore \/ ReadGarbage \/ FinishForeign \/ UNCHANGED vars
  BY <1>7 DEF WriteStore, ReadGarbage, FinishForeign, vars, places
<1> QED
  BY <1>1, <1>2, <1>3, <1>4, <1>5, <1>6, <1>7 DEF Next

(* The scheduler thread gets to write only in its loop. *)
LEMMA StepToWrite ==
  ASSUME Typed, [Next]_vars, sched.at \notin {"storing", "victim"},
         sched'.at \in {"storing", "victim"}
  PROVE  DispatchToStore \/ SwapOut
<1>00. CASE UNCHANGED sched
  BY <1>00
<1>1. CASE \/ initialize \/ stop_scheduler \/ scheduler_start \/ ReadFreedName \/ ScreenAdd
           \/ ScreenCreateAdd \/ ScreenPid \/ WriteStore \/ ReadGarbage \/ FinishForeign
           \/ Finish \/ Remove \/ Preempt \/ Dispatch \/ UNCHANGED vars
           \/ \E name \in UserNames : ScreenStart(name) \/ screen_create_with_code(name)
  BY <1>00, <1>1 DEF initialize, stop_scheduler, scheduler_start, ReadFreedName, ScreenAdd,
     ScreenCreateAdd, ScreenPid, WriteStore, ReadGarbage, FinishForeign, Finish, Remove, Preempt,
     Dispatch, ScreenStart, screen_create_with_code, vars
<1>2. CASE exit
  BY <1>2, ExitIds
<1>3. CASE GenerateRead
  <2>1. sched' = [InLoop EXCEPT !.at = "pid", !.read = next_pid]
    BY <1>3 DEF GenerateRead
  <2> QED
    BY <2>1 DEF InLoop
<1>4. CASE GeneratePid \/ GenerateAdd \/ SwapIn \/ SwapOver \/ EndRemove
  BY <1>4, GeneratePidIds, GenerateAddIds, SwapInIds, SwapOverIds, EndRemoveIds
<1>5. CASE FreeStored
  BY <1>5 DEF FreeStored, InLoop
<1> QED
  BY <1>1, <1>2, <1>3, <1>4, <1>5 DEF Next

LEMMA StepShort ==
  ASSUME Typed, Memories, Short, [Next]_vars PROVE Short'
<1>1. CASE exit
  BY <1>1, ExitIds DEF Short
<1>2. CASE ~exit
  <2> SUFFICES ASSUME Calm', ~memory_reset', sched'.at \in {"storing", "victim"}
               PROVE  ~Fits(sched'.process.memory_allocation, blocks')
    BY DEF Short, Fits, Holes, Hole
  <2>1. Calm /\ starts' <= 1 /\ ~memory_reset
    BY <1>2, WasCalm DEF Memories
  <2>2. CASE sched.at \in {"storing", "victim"}
    <3>1. ~Fits(sched.process.memory_allocation, blocks)
      BY <2>1, <2>2 DEF Short
    <3>2. blocks' = blocks /\ sched'.process = sched.process
      BY <1>2, <2>1, <2>2, StaysShort DEF Memories
    <3> QED
      BY <3>1, <3>2
  <2>3. CASE sched.at \notin {"storing", "victim"}
    <3>1. DispatchToStore \/ SwapOut
      BY <2>3, StepToWrite
    <3>2. ~Fits(sched'.process.memory_allocation, blocks) /\ blocks' = blocks
      BY <3>1, EntersShort
    <3> QED
      BY <3>2
  <2> QED
    BY <2>2, <2>3
<1> QED
  BY <1>1, <1>2

LEMMA FreesWhile ==
  ASSUME [Next]_vars, ~(freed' \subseteq freed)
  PROVE  starts = 1 /\ sched.at \in {"storing", "victim"}
<1>1. CASE \/ initialize \/ stop_scheduler \/ scheduler_start \/ ReadFreedName \/ ScreenAdd
           \/ ScreenCreateAdd \/ ScreenPid
           \/ \E name \in UserNames : ScreenStart(name) \/ screen_create_with_code(name)
  BY <1>1 DEF initialize, stop_scheduler, scheduler_start, ReadFreedName, ScreenAdd,
     ScreenCreateAdd, ScreenPid, ScreenStart, screen_create_with_code, history, races
<1>2. CASE exit \/ GenerateRead \/ GeneratePid \/ GenerateAdd \/ Dispatch \/ DispatchToStore
           \/ Preempt \/ Finish \/ FinishForeign \/ Remove
  BY <1>2 DEF exit, GenerateRead, GeneratePid, GenerateAdd, Dispatch, DispatchToStore, Preempt,
     Finish, FinishForeign, Remove, history, races
<1>3. CASE SwapIn \/ SwapOut \/ EndRemove \/ WriteStore \/ ReadGarbage \/ UNCHANGED vars
  BY <1>3 DEF SwapIn, SwapOut, EndRemove, WriteStore, ReadGarbage, history, races, vars
<1>4. CASE FreeStored \/ SwapOver
  BY <1>4 DEF FreeStored, SwapOver, AtWork
<1> QED
  BY <1>1, <1>2, <1>3, <1>4 DEF Next

(* Every block is that of a process which is yet to execute or removed. *)
LEMMA BlocksAreOccupied ==
  ASSUME Typed, Calm, Backed PROVE Occupied = blocks
<1>1. InMemory \subseteq Live \cup removed
  <2>1. sched.at = "removing" => sched.process \in InTransit
    BY MadeIsSomeone DEF Typed, SchedTyped, InTransit, Holding
  <2> QED
    BY <2>1 DEF InMemory, Live
<1>2. ASSUME NEW b \in blocks PROVE b.id \in {p.id : p \in Live \cup removed}
  <2>1. OwnerOf(b) \in Owners
    BY DEF Backed, OwnersIn
  <2>2. PICK q \in InMemory : OwnerOf(b) = Owner(q)
    BY <2>1 DEF Owners
  <2>3. b.id = q.id
    BY <2>2 DEF OwnerOf, Owner
  <2> QED
    BY <1>1, <2>3
<1> QED
  BY <1>2 DEF Occupied

(* The struct of a process that is still listed is freed only to make room *)
(* for one that finds no hole beside the blocks of the processes that are  *)
(* yet to execute and of those removed as invalid: no block is kept for a  *)
(* process that has finished or is stored, whatever the size of the memory *)
(* and of the processes, as long as pids differ and the user does not      *)
(* initialise the memory again.                                            *)
THEOREM FreedInShortage == Spec => FreedWhenShort
<1>1. Init => Typed /\ Memories /\ Short
  <2>1. Init => sched.at = "loop"
    BY DEF Init, InLoop
  <2> QED
    BY <2>1, InitTyped, MemoriesAtFirst DEF Short
<1>2. Typed /\ Memories /\ Short /\ [Next]_vars => Typed' /\ Memories' /\ Short'
  BY StepTyped, StepMemories, StepShort
<1> DEFINE Step == ~(freed' \subseteq freed) /\ ~overlapped /\ ~memory_reset /\ ~OldAround =>
                     ~Fits(sched.process.memory_allocation, Occupied)
<1>3. Typed /\ Memories /\ Short /\ [Next]_vars => [Step]_vars
  <2> SUFFICES ASSUME Typed, Memories, Short, [Next]_vars, ~(freed' \subseteq freed),
                      ~overlapped, ~memory_reset, ~OldAround
               PROVE  ~Fits(sched.process.memory_allocation, Occupied)
    OBVIOUS
  <2>1. starts = 1 /\ sched.at \in {"storing", "victim"}
    BY FreesWhile
  <2>2. Calm
    BY <2>1, OlderIsKnown DEF Calm
  <2>3. Occupied = blocks
    BY <2>2, BlocksAreOccupied DEF Memories
  <2> QED
    BY <2>1, <2>2, <2>3 DEF Short
<1>4. Spec => [][Step]_vars
  <2> HIDE DEF Step
  <2> QED
    BY <1>1, <1>2, <1>3, PTL DEF Spec
<1>5. FreedWhenShort <=> [][Step]_vars
  BY DEF FreedWhenShort
<1> HIDE DEF Step
<1> QED
  BY <1>4, <1>5, PTL
=============================================================================
