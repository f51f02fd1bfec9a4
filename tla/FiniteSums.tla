--------------------------- MODULE FiniteSums ---------------------------
(***************************************************************************)
(* What the proofs need of the natural numbers and of sums over a finite   *)
(* set: SumFunctionOnSet(w, S) is the sum of w[x] for the x in S.          *)
(***************************************************************************)
EXTENDS Integers, Functions, FiniteSetTheorems, WellFoundedInduction, TLAPS

(* A set of natural numbers that is not empty has a least one: a proof by  *)
(* induction looks at the least number its claim is false for.             *)
LEMMA Least ==
  ASSUME NEW T \in SUBSET Nat, T # {}
  PROVE  \E x \in T : \A y \in T : x <= y
<1> DEFINE R == OpToRel(<, Nat)
<1>1. IsWellFoundedOn(R, Nat)
  BY NatLessThanWellFounded
<1>2. \A a, b \in Nat : <<a, b>> \in R <=> a < b
  BY DEF OpToRel
<1> HIDE DEF R
<1>3. PICK x \in T : \A y \in T : ~(<<y, x>> \in R)
  BY <1>1, WFMin
<1>4. ASSUME NEW y \in T PROVE x <= y
  <2>1. x \in Nat /\ y \in Nat
    OBVIOUS
  <2>2. ~(y < x)
    BY <1>2, <1>3, <2>1
  <2> QED
    BY <2>1, <2>2
<1> QED
  BY <1>4
-----------------------------------------------------------------------------
(* w gives every element of the finite set S a number. *)
Numbered(w, S) == IsFiniteSet(S) /\ \A x \in S : w[x] \in Nat

Chosen(s) == CHOOSE x \in s : TRUE

SumsOn(w, f, D) ==
  \A s \in D : f[s] = IF s = {} THEN 0 ELSE w[Chosen(s)] + f[s \ {Chosen(s)}]

PartSums(w, S) ==
  CHOOSE f : f = [s \in SUBSET S |-> IF s = {} THEN 0
                                     ELSE w[Chosen(s)] + f[s \ {Chosen(s)}]]

LEMMA SumIsPartSum ==
  ASSUME NEW w, NEW S PROVE SumFunctionOnSet(w, S) = PartSums(w, S)[S]
BY DEF SumFunctionOnSet, FoldFunctionOnSet, MapThenFoldSet, PartSums, Chosen

LEMMA ChosenIsIn == ASSUME NEW s, s # {} PROVE Chosen(s) \in s
BY DEF Chosen

(* One element less. *)
LEMMA Smaller ==
  ASSUME NEW s, IsFiniteSet(s), NEW x \in s
  PROVE  /\ IsFiniteSet(s \ {x}) /\ Cardinality(s \ {x}) \in Nat /\ Cardinality(s) \in Nat
         /\ Cardinality(s \ {x}) = Cardinality(s) - 1
         /\ Cardinality(s \ {x}) < Cardinality(s)
<1>1. /\ IsFiniteSet(s \ {x}) /\ Cardinality(s \ {x}) = Cardinality(s) - 1
  BY FS_RemoveElement
<1>2. Cardinality(s \ {x}) \in Nat /\ Cardinality(s) \in Nat
  BY <1>1, FS_CardinalityType
<1> QED
  BY <1>1, <1>2

(* The equation of a sum determines it. *)
LEMMA SumsAgree ==
  ASSUME NEW w, NEW S, IsFiniteSet(S), NEW f, NEW g,
         SumsOn(w, f, SUBSET S), SumsOn(w, g, SUBSET S)
  PROVE  \A s \in SUBSET S : g[s] = f[s]
<1> DEFINE T == {k \in Nat : \E s \in SUBSET S : Cardinality(s) = k /\ g[s] # f[s]}
<1>1. T = {}
  <2> SUFFICES ASSUME T # {} PROVE FALSE
    OBVIOUS
  <2>1. PICK k \in T : \A l \in T : k <= l
    <3>1. T \in SUBSET Nat
      OBVIOUS
    <3> HIDE DEF T
    <3> QED
      BY <3>1, Least
  <2>2. PICK s \in SUBSET S : Cardinality(s) = k /\ g[s] # f[s]
    BY <2>1
  <2>3. s # {}
    BY <2>2 DEF SumsOn
  <2> DEFINE r == s \ {Chosen(s)}
  <2>4. Cardinality(r) \in Nat /\ Cardinality(r) < k /\ k \in Nat
    <3>1. IsFiniteSet(s)
      BY FS_Subset
    <3> QED
      BY <2>2, <2>3, <3>1, ChosenIsIn, Smaller
  <2>5. r \in SUBSET S
    OBVIOUS
  <2>6. g[s] = w[Chosen(s)] + g[r] /\ f[s] = w[Chosen(s)] + f[r]
    BY <2>3 DEF SumsOn
  <2> HIDE DEF r
  <2>7. g[r] # f[r]
    BY <2>2, <2>6
  <2>8. Cardinality(r) \in T
    BY <2>4, <2>5, <2>7
  <2> QED
    BY <2>1, <2>4, <2>8
<1> SUFFICES ASSUME NEW s \in SUBSET S PROVE g[s] = f[s]
  OBVIOUS
<1>2. Cardinality(s) \in Nat
  BY FS_Subset, FS_CardinalityType
<1> QED
  BY <1>1, <1>2

SmallParts(S, n) == {s \in SUBSET S : Cardinality(s) <= n}

(* ... and there is one, by induction on the size of the sets. *)
LEMMA PartSumsUpTo ==
  ASSUME NEW w, NEW S, Numbered(w, S), NEW n \in Nat
  PROVE  \E f \in [SmallParts(S, n) -> Nat] : SumsOn(w, f, SmallParts(S, n))
<1> DEFINE D(k) == {s \in SUBSET S : Cardinality(s) <= k}
           T == {k \in Nat : ~\E f \in [D(k) -> Nat] : SumsOn(w, f, D(k))}
<1> SUFFICES ASSUME T # {} PROVE FALSE
  BY DEF SmallParts
<1>1. PICK k \in T : \A l \in T : k <= l
  <2>1. T \in SUBSET Nat
    OBVIOUS
  <2> HIDE DEF T
  <2> QED
    BY <2>1, Least
<1>2. k \in Nat /\ ~\E f \in [D(k) -> Nat] : SumsOn(w, f, D(k))
  BY <1>1
<1>3. \A s \in SUBSET S : /\ IsFiniteSet(s) /\ Cardinality(s) \in Nat
                          /\ Cardinality(s) = 0 <=> s = {}
  <2> TAKE s \in SUBSET S
  <2>1. IsFiniteSet(s)
    BY FS_Subset DEF Numbered
  <2> QED
    BY <2>1, FS_CardinalityType, FS_EmptySet
<1>4. CASE k = 0
  <2>1. \A s \in D(0) : s = {}
    BY <1>3
  <2> DEFINE f == [s \in D(0) |-> 0]
  <2>2. f \in [D(0) -> Nat] /\ SumsOn(w, f, D(0))
    BY <2>1 DEF SumsOn
  <2> QED
    BY <1>2, <1>4, <2>2
<1>5. CASE k # 0
  <2>1. k - 1 \in Nat /\ k - 1 \notin T
    <3>1. k - 1 \in Nat /\ ~(k <= k - 1)
      BY <1>2, <1>5
    <3> HIDE DEF T
    <3> QED
      BY <1>1, <3>1
  <2>2. PICK g \in [D(k - 1) -> Nat] : SumsOn(w, g, D(k - 1))
    BY <2>1
  <2> DEFINE f == [s \in D(k) |-> IF s = {} THEN 0
                                  ELSE w[Chosen(s)] + g[s \ {Chosen(s)}]]
  <2>3. ASSUME NEW s \in D(k), s # {}
        PROVE  /\ s \ {Chosen(s)} \in D(k - 1) /\ s \ {Chosen(s)} \in D(k)
               /\ w[Chosen(s)] \in Nat
    <3>1. Chosen(s) \in s /\ Chosen(s) \in S
      BY <2>3, ChosenIsIn
    <3>2. /\ Cardinality(s \ {Chosen(s)}) = Cardinality(s) - 1
          /\ Cardinality(s) \in Nat
      BY <1>3, <3>1, Smaller
    <3>3. Cardinality(s) <= k
      OBVIOUS
    <3>4. Cardinality(s \ {Chosen(s)}) <= k - 1 /\ Cardinality(s \ {Chosen(s)}) <= k
      BY <1>2, <3>2, <3>3
    <3> QED
      BY <3>1, <3>4 DEF Numbered
  <2>4. f \in [D(k) -> Nat]
    <3> SUFFICES ASSUME NEW s \in D(k), s # {}
                 PROVE  w[Chosen(s)] + g[s \ {Chosen(s)}] \in Nat
      OBVIOUS
    <3>1. g[s \ {Chosen(s)}] \in Nat /\ w[Chosen(s)] \in Nat
      BY <2>2, <2>3
    <3> QED
      BY <3>1
  <2>5. \A s \in D(k - 1) : s \in D(k) /\ f[s] = g[s]
    <3> TAKE s \in D(k - 1)
    <3>1. s \in D(k)
      BY <1>2, <1>3
    <3>2. g[s] = IF s = {} THEN 0 ELSE w[Chosen(s)] + g[s \ {Chosen(s)}]
      BY <2>2 DEF SumsOn
    <3> QED
      BY <3>1, <3>2
  <2>6. SumsOn(w, f, D(k))
    <3> SUFFICES ASSUME NEW s \in D(k)
                 PROVE  f[s] = IF s = {} THEN 0 ELSE w[Chosen(s)] + f[s \ {Chosen(s)}]
      BY DEF SumsOn
    <3>1. f[s] = IF s = {} THEN 0 ELSE w[Chosen(s)] + g[s \ {Chosen(s)}]
      OBVIOUS
    <3>2. s # {} => f[s \ {Chosen(s)}] = g[s \ {Chosen(s)}]
      BY <2>3, <2>5
    <3> HIDE DEF f
    <3> QED
      BY <3>1, <3>2
  <2> HIDE DEF f
  <2> QED
    BY <1>2, <2>4, <2>6
<1> QED
  BY <1>4, <1>5

LEMMA PartSumsAre ==
  ASSUME NEW w, NEW S, Numbered(w, S)
  PROVE  PartSums(w, S) \in [SUBSET S -> Nat] /\ SumsOn(w, PartSums(w, S), SUBSET S)
<1> DEFINE n == Cardinality(S)
           Is(f) == f = [s \in SUBSET S |-> IF s = {} THEN 0
                                            ELSE w[Chosen(s)] + f[s \ {Chosen(s)}]]
<1>1. n \in Nat /\ \A s \in SUBSET S : Cardinality(s) <= n
  <2>1. IsFiniteSet(S)
    BY DEF Numbered
  <2>2. \A s \in SUBSET S : Cardinality(s) <= Cardinality(S)
    BY <2>1, FS_Subset
  <2> QED
    BY <2>1, <2>2, FS_CardinalityType
<1>2. SmallParts(S, n) = SUBSET S
  BY <1>1 DEF SmallParts
<1>3. PICK f \in [SUBSET S -> Nat] : SumsOn(w, f, SUBSET S)
  <2>1. \E f \in [SmallParts(S, n) -> Nat] : SumsOn(w, f, SmallParts(S, n))
    <3> HIDE DEF n
    <3> QED
      BY <1>1, PartSumsUpTo
  <2> QED
    BY <1>2, <2>1
<1>4. Is(f)
  <2>1. f = [s \in SUBSET S |-> f[s]]
    OBVIOUS
  <2>2. \A s \in SUBSET S : f[s] = IF s = {} THEN 0 ELSE w[Chosen(s)] + f[s \ {Chosen(s)}]
    BY <1>3 DEF SumsOn
  <2> QED
    BY <2>1, <2>2
<1>5. PartSums(w, S) = CHOOSE g : Is(g)
  BY DEF PartSums
<1>6. Is(PartSums(w, S))
  BY <1>4, <1>5
<1>7. SumsOn(w, PartSums(w, S), SUBSET S)
  BY <1>6 DEF SumsOn
<1>8. PartSums(w, S) = f
  <2> DEFINE g == PartSums(w, S)
  <2>1. IsFiniteSet(S)
    BY DEF Numbered
  <2>2. \A s \in SUBSET S : g[s] = f[s]
    <3> HIDE DEF g
    <3> QED
      BY <1>3, <1>7, <2>1, SumsAgree DEF g
  <2>3. g = [s \in SUBSET S |-> g[s]]
    <3>1. g = [s \in SUBSET S |-> IF s = {} THEN 0 ELSE w[Chosen(s)] + g[s \ {Chosen(s)}]]
      BY <1>6 DEF g
    <3> QED
      BY <3>1
  <2> QED
    BY <2>2, <2>3 DEF g
<1> QED
  BY <1>7, <1>8

(* The sum of a part is the same in every larger set. *)
LEMMA SumInside ==
  ASSUME NEW w, NEW S, Numbered(w, S), NEW r \in SUBSET S
  PROVE  SumFunctionOnSet(w, r) = PartSums(w, S)[r]
<1> DEFINE f == PartSums(w, S)
           g == PartSums(w, r)
<1>1. IsFiniteSet(r) /\ Numbered(w, r)
  BY FS_Subset DEF Numbered
<1>2. SumsOn(w, f, SUBSET S) /\ SumsOn(w, g, SUBSET r)
  BY <1>1, PartSumsAre
<1> HIDE DEF f, g
<1>3. SumsOn(w, f, SUBSET r)
  BY <1>2 DEF SumsOn
<1>4. g[r] = f[r]
  BY <1>1, <1>2, <1>3, SumsAgree
<1> QED
  BY <1>4, SumIsPartSum DEF f, g

LEMMA SumChosen ==
  ASSUME NEW w, NEW S, Numbered(w, S)
  PROVE  /\ SumFunctionOnSet(w, S) \in Nat
         /\ S = {} => SumFunctionOnSet(w, S) = 0
         /\ S # {} => SumFunctionOnSet(w, S)
                        = w[Chosen(S)] + SumFunctionOnSet(w, S \ {Chosen(S)})
<1>1. PartSums(w, S) \in [SUBSET S -> Nat] /\ SumsOn(w, PartSums(w, S), SUBSET S)
  BY PartSumsAre
<1>2. /\ SumFunctionOnSet(w, S) = PartSums(w, S)[S]
      /\ SumFunctionOnSet(w, S \ {Chosen(S)}) = PartSums(w, S)[S \ {Chosen(S)}]
  BY SumInside
<1> QED
  BY <1>1, <1>2 DEF SumsOn

(* Any element counts with its number. *)
LEMMA SumWith ==
  ASSUME NEW w, NEW S, Numbered(w, S), NEW b \in S
  PROVE  /\ SumFunctionOnSet(w, S) = w[b] + SumFunctionOnSet(w, S \ {b})
         /\ SumFunctionOnSet(w, S) \in Nat /\ SumFunctionOnSet(w, S \ {b}) \in Nat
         /\ w[b] \in Nat
<1> DEFINE Adds(s) ==
             \A x \in s : SumFunctionOnSet(w, s) = w[x] + SumFunctionOnSet(w, s \ {x})
           T == {k \in Nat : \E s \in SUBSET S : Cardinality(s) = k /\ ~Adds(s)}
<1>0. \A s \in SUBSET S : Numbered(w, s) /\ IsFiniteSet(s) /\ Cardinality(s) \in Nat
  BY FS_Subset, FS_CardinalityType DEF Numbered
<1>1. T = {}
  <2> SUFFICES ASSUME T # {} PROVE FALSE
    OBVIOUS
  <2>1. PICK k \in T : \A l \in T : k <= l
    <3>1. T \in SUBSET Nat
      OBVIOUS
    <3> HIDE DEF T
    <3> QED
      BY <3>1, Least
  <2>2. PICK s \in SUBSET S : Cardinality(s) = k /\ ~Adds(s)
    BY <2>1
  <2>3. PICK x \in s : SumFunctionOnSet(w, s) # w[x] + SumFunctionOnSet(w, s \ {x})
    BY <2>2
  <2> DEFINE c == Chosen(s)
             r == s \ {c}
             q == s \ {x}
  <2>4. c \in s /\ w[c] \in Nat /\ w[x] \in Nat
    BY <2>3, ChosenIsIn DEF Numbered
  <2>5. SumFunctionOnSet(w, s) = w[c] + SumFunctionOnSet(w, r)
    BY <1>0, <2>2, <2>3, SumChosen
  <2>6. x # c
    BY <2>3, <2>5
  <2>7. Numbered(w, r) /\ Numbered(w, q) /\ q \in SUBSET S /\ r \in SUBSET S
    BY <1>0
  <2>8. /\ Cardinality(r) < k /\ Cardinality(q) < k /\ k \in Nat
        /\ Cardinality(r) \in Nat /\ Cardinality(q) \in Nat
    BY <1>0, <2>2, <2>4, Smaller
  <2> HIDE DEF c
  <2>9. \A t \in SUBSET S : Cardinality(t) < k /\ Cardinality(t) \in Nat => Adds(t)
    <3> SUFFICES ASSUME NEW t \in SUBSET S, Cardinality(t) < k, Cardinality(t) \in Nat,
                        ~Adds(t)
                 PROVE  FALSE
      OBVIOUS
    <3>1. Cardinality(t) \in T
      OBVIOUS
    <3> HIDE DEF T
    <3> QED
      BY <2>1, <2>8, <3>1
  <2> HIDE DEF T
  <2>10. /\ SumFunctionOnSet(w, r) = w[x] + SumFunctionOnSet(w, r \ {x})
         /\ SumFunctionOnSet(w, q) = w[c] + SumFunctionOnSet(w, q \ {c})
    <3>1. x \in r /\ c \in q
      BY <2>4, <2>6
    <3>2. Adds(r) /\ Adds(q)
      BY <2>7, <2>8, <2>9
    <3> QED
      BY <3>1, <3>2
  <2>11. r \ {x} = q \ {c}
    OBVIOUS
  <2>12. SumFunctionOnSet(w, q \ {c}) \in Nat
    BY <1>0, SumChosen
  <2> DEFINE u == SumFunctionOnSet(w, q \ {c})
             cs == w[c]
             xs == w[x]
  <2>13. u \in Nat /\ cs \in Nat /\ xs \in Nat
    BY <2>4, <2>12
  <2>14. /\ SumFunctionOnSet(w, s) = cs + SumFunctionOnSet(w, r)
         /\ SumFunctionOnSet(w, r) = xs + u /\ SumFunctionOnSet(w, q) = cs + u
    BY <2>5, <2>10, <2>11
  <2> HIDE DEF q, r, u, cs, xs
  <2>15. SumFunctionOnSet(w, s) = xs + SumFunctionOnSet(w, q)
    BY <2>13, <2>14
  <2> QED
    BY <2>3, <2>15 DEF q, xs
<1>2. Adds(S)
  <2>1. Cardinality(S) \in Nat /\ S \in SUBSET S
    BY <1>0
  <2> HIDE DEF Adds
  <2> QED
    BY <1>1, <2>1
<1>3. /\ SumFunctionOnSet(w, S) \in Nat /\ SumFunctionOnSet(w, S \ {b}) \in Nat
      /\ w[b] \in Nat
  BY <1>0, SumChosen DEF Numbered
<1> QED
  BY <1>2, <1>3

(* One element more. *)
LEMMA SumMore ==
  ASSUME NEW w, NEW S, Numbered(w, S), NEW x, x \notin S, w[x] \in Nat
  PROVE  /\ SumFunctionOnSet(w, S \cup {x}) = SumFunctionOnSet(w, S) + w[x]
         /\ Numbered(w, S \cup {x}) /\ SumFunctionOnSet(w, S) \in Nat
<1>1. Numbered(w, S \cup {x})
  BY FS_AddElement DEF Numbered
<1>2. (S \cup {x}) \ {x} = S
  OBVIOUS
<1>3. x \in S \cup {x}
  OBVIOUS
<1> DEFINE T == S \cup {x}
<1> HIDE DEF T
<1>4. SumFunctionOnSet(w, T) = w[x] + SumFunctionOnSet(w, T \ {x})
  BY <1>1, <1>3, SumWith DEF T
<1>5. SumFunctionOnSet(w, S) \in Nat
  BY SumChosen
<1> DEFINE u == SumFunctionOnSet(w, S)
           v == SumFunctionOnSet(w, T)
           n == w[x]
<1>6. v = n + u /\ n \in Nat /\ u \in Nat
  BY <1>2, <1>4, <1>5 DEF T
<1> HIDE DEF u, v, n
<1>7. v = u + n
  BY <1>6
<1> QED
  BY <1>1, <1>5, <1>7 DEF u, v, n, T
=============================================================================
