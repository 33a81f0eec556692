---------------------------- MODULE UsageProofs ----------------------------
(* Proofs about the usage of connections and its reports.                    *)
EXTENDS UsageAccounting, FiniteSetTheorems, WellFoundedInduction, TLAPS

-----------------------------------------------------------------------------
(* Sums over finite sets.  Induction is over a set of subsets: what holds of *)
(* a set once it holds of its proper subsets.                                *)
LEMMA LeastOf ==
  ASSUME NEW S \in SUBSET Nat, S # {}
  PROVE  \E n \in S : \A m \in S : n <= m
<1>1. PICK x \in S : \A y \in S : ~(<<y, x>> \in OpToRel(<, Nat))
  BY NatLessThanWellFounded, WFMin
<1>2. \A y \in S : ~(y < x)
  BY <1>1 DEF OpToRel
<1> QED
  BY <1>2

LEMMA BySubsets ==
  ASSUME NEW S, IsFiniteSet(S), NEW T,
         \A s \in SUBSET S : (\A t \in SUBSET s : t # s => t \in T) => s \in T
  PROVE  \A s \in SUBSET S : s \in T
<1> SUFFICES ASSUME NEW bad \in SUBSET S, bad \notin T PROVE FALSE
  OBVIOUS
<1> DEFINE Sizes == {Cardinality(s) : s \in {t \in SUBSET S : t \notin T}}
<1>1. \A s \in SUBSET S : IsFiniteSet(s) /\ Cardinality(s) \in Nat
  BY FS_Subset, FS_CardinalityType
<1>2. Sizes \in SUBSET Nat /\ Sizes # {}
  BY <1>1
<1>3. PICK n \in Sizes : \A m \in Sizes : n <= m
  <2> HIDE DEF Sizes
  <2> QED
    BY <1>2, LeastOf
<1>4. PICK s \in SUBSET S : s \notin T /\ Cardinality(s) = n
  BY <1>3
<1>5. \A t \in SUBSET s : t # s => t \in T
  <2> SUFFICES ASSUME NEW t \in SUBSET s, t # s, t \notin T PROVE FALSE
    OBVIOUS
  <2>1. /\ IsFiniteSet(s) /\ Cardinality(s) \in Nat /\ Cardinality(t) \in Nat
    BY <1>1
  <2>2. Cardinality(t) <= Cardinality(s) /\ Cardinality(s) # Cardinality(t)
    BY <2>1, FS_Subset
  <2>3. Cardinality(t) \in Sizes
    OBVIOUS
  <2>4. n <= Cardinality(t)
    BY <1>3, <2>3
  <2> QED
    BY <1>4, <2>1, <2>2, <2>4
<1> QED
  BY <1>4, <1>5

(* The element a fold takes next, and what it means that a function holds    *)
(* the sums of all subsets.                                                  *)
First(s) == CHOOSE x \in s : TRUE

Sums(g, v, S) ==
  \A s \in SUBSET S : g[s] = IF s = {} THEN Zero ELSE Add(v[First(s)], g[s \ {First(s)}])

LEMMA FirstIn ==
  ASSUME NEW s, s # {}
  PROVE  First(s) \in s
BY DEF First

LEMMA OneSum ==
  ASSUME NEW S, IsFiniteSet(S), NEW v, NEW g, NEW h, Sums(g, v, S), Sums(h, v, S)
  PROVE  \A s \in SUBSET S : g[s] = h[s]
<1> DEFINE T == {s \in SUBSET S : g[s] = h[s]}
<1>1. ASSUME NEW s \in SUBSET S, \A t \in SUBSET s : t # s => t \in T
      PROVE  s \in T
  <2>1. CASE s = {}
    BY <2>1 DEF Sums
  <2>2. CASE s # {}
    <3>1. First(s) \in s
      BY <2>2, FirstIn
    <3>2. g[s \ {First(s)}] = h[s \ {First(s)}]
      BY <1>1, <3>1
    <3> QED
      BY <2>2, <3>2 DEF Sums
  <2> QED
    BY <2>1, <2>2
<1> HIDE DEF T
<1>2. \A s \in SUBSET S : s \in T
  BY <1>1, BySubsets
<1> QED
  BY <1>2 DEF T

(* The function a fold chooses.                                              *)
Fold(v, S) ==
  CHOOSE g : g = [s \in SUBSET S |-> IF s = {} THEN Zero ELSE Add(v[First(s)], g[s \ {First(s)}])]

Folded(v, S) ==
  Fold(v, S) = [s \in SUBSET S |->
                  IF s = {} THEN Zero ELSE Add(v[First(s)], Fold(v, S)[s \ {First(s)}])]

LEMMA AddAllIsFold ==
  ASSUME NEW v, NEW S
  PROVE  AddAll(v, S) = Fold(v, S)[S]
BY DEF AddAll, FoldSet, MapThenFoldSet, Fold, First

LEMMA FoldedSums ==
  ASSUME NEW v, NEW S, Folded(v, S)
  PROVE  Sums(Fold(v, S), v, S)
BY DEF Folded, Sums

LEMMA SubSums ==
  ASSUME NEW g, NEW v, NEW S, Sums(g, v, S), NEW s \in SUBSET S
  PROVE  Sums(g, v, s)
BY DEF Sums

LEMMA FoldExists ==
  ASSUME NEW v, NEW S, IsFiniteSet(S)
  PROVE  \A s \in SUBSET S : Folded(v, s)
<1> DEFINE T == {s \in SUBSET S : Folded(v, s)}
<1>1. ASSUME NEW s \in SUBSET S, \A t \in SUBSET s : t # s => t \in T
      PROVE  s \in T
  <2> DEFINE Rest(t) == t \ {First(t)}
             h == [t \in SUBSET s |->
                     IF t = {} THEN Zero ELSE Add(v[First(t)], Fold(v, Rest(t))[Rest(t)])]
  <2>1. \A t \in SUBSET s : t # s => Sums(Fold(v, t), v, t)
    BY <1>1, FoldedSums
  <2>2. ASSUME NEW t \in SUBSET s, t # s
        PROVE  h[t] = Fold(v, t)[t]
    <3>1. CASE t = {}
      BY <2>1, <2>2, <3>1 DEF Sums
    <3>2. CASE t # {}
      <4>1. First(t) \in t
        BY <3>2, FirstIn
      <4>2. Rest(t) \in SUBSET t /\ Rest(t) \in SUBSET s /\ Rest(t) # s
        BY <4>1
      <4>3. Fold(v, t)[t] = Add(v[First(t)], Fold(v, t)[Rest(t)])
        BY <2>1, <2>2, <3>2 DEF Sums
      <4>4. Fold(v, t)[Rest(t)] = Fold(v, Rest(t))[Rest(t)]
        <5>1. Sums(Fold(v, t), v, Rest(t))
          BY <2>1, <2>2, <4>2, SubSums
        <5>2. Sums(Fold(v, Rest(t)), v, Rest(t))
          BY <2>1, <4>2
        <5>3. IsFiniteSet(Rest(t))
          BY <1>1, <4>2, FS_Subset
        <5> HIDE DEF Rest
        <5> QED
          BY <5>1, <5>2, <5>3, OneSum
      <4>5. h[t] = Add(v[First(t)], Fold(v, Rest(t))[Rest(t)])
        BY <2>2, <3>2
      <4> QED
        BY <4>3, <4>4, <4>5
    <3> QED
      BY <3>1, <3>2
  <2>3. h = [t \in SUBSET s |-> IF t = {} THEN Zero ELSE Add(v[First(t)], h[t \ {First(t)}])]
    <3>1. ASSUME NEW t \in SUBSET s, t # {}
          PROVE  Fold(v, Rest(t))[Rest(t)] = h[t \ {First(t)}]
      <4>1. First(t) \in t
        BY <3>1, FirstIn
      <4>2. Rest(t) \in SUBSET s /\ Rest(t) # s
        BY <4>1
      <4> HIDE DEF h
      <4> QED
        BY <2>2, <4>2
    <3> QED
      BY <3>1
  <2> HIDE DEF h
  <2>4. Folded(v, s)
    BY <2>3 DEF Folded, Fold
  <2> QED
    BY <2>4
<1> HIDE DEF T
<1>2. \A s \in SUBSET S : s \in T
  BY <1>1, BySubsets
<1> QED
  BY <1>2 DEF T

(* What AddAll computes, one element at a time.                              *)
LEMMA AddAllNone ==
  ASSUME NEW v
  PROVE  AddAll(v, {}) = Zero
<1>1. Folded(v, {})
  BY FoldExists, FS_EmptySet
<1> QED
  BY <1>1, FoldedSums, AddAllIsFold DEF Sums

LEMMA AddAllFirst ==
  ASSUME NEW v, NEW S, IsFiniteSet(S), S # {}
  PROVE  AddAll(v, S) = Add(v[First(S)], AddAll(v, S \ {First(S)}))
<1> DEFINE R == S \ {First(S)}
<1>1. R \in SUBSET S /\ IsFiniteSet(R)
  BY FS_Subset
<1>2. Sums(Fold(v, S), v, S) /\ Sums(Fold(v, R), v, R)
  BY <1>1, FoldExists, FoldedSums
<1>3. Fold(v, S)[S] = Add(v[First(S)], Fold(v, S)[R])
  BY <1>2 DEF Sums
<1>4. Fold(v, S)[R] = Fold(v, R)[R]
  <2>1. Sums(Fold(v, S), v, R)
    BY <1>1, <1>2, SubSums
  <2> HIDE DEF R
  <2> QED
    BY <1>1, <1>2, <2>1, OneSum
<1> QED
  BY <1>3, <1>4, AddAllIsFold

(* Counters, and their sums.  Tokens may shrink: an event corrects what an   *)
(* earlier one told.                                                         *)
Counts == [requests : Int, failed : Int, tokens : Int]

LEMMA ZeroCounts == Zero \in Counts
BY DEF Zero, Counts

LEMMA AddCounts ==
  ASSUME NEW a \in Counts, NEW b \in Counts
  PROVE  Add(a, b) \in Counts
BY DEF Add, Counts

LEMMA AddZero ==
  ASSUME NEW a \in Counts
  PROVE  Add(a, Zero) = a /\ Add(Zero, a) = a
BY DEF Add, Counts, Zero

LEMMA AddCommutes ==
  ASSUME NEW a \in Counts, NEW b \in Counts
  PROVE  Add(a, b) = Add(b, a)
BY DEF Add, Counts

LEMMA AddAssociates ==
  ASSUME NEW a \in Counts, NEW b \in Counts, NEW c \in Counts
  PROVE  Add(a, Add(b, c)) = Add(Add(a, b), c)
BY DEF Add, Counts

LEMMA AddSwaps ==
  ASSUME NEW a \in Counts, NEW b \in Counts, NEW c \in Counts
  PROVE  Add(a, Add(b, c)) = Add(b, Add(a, c))
BY DEF Add, Counts

LEMMA AddMoves ==
  ASSUME NEW a \in Counts, NEW b \in Counts, NEW c \in Counts
  PROVE  Add(Add(a, b), c) = Add(Add(a, c), b)
BY DEF Add, Counts

LEMMA AddAllCounts ==
  ASSUME NEW v, NEW S, IsFiniteSet(S), \A x \in S : v[x] \in Counts
  PROVE  AddAll(v, S) \in Counts
<1> DEFINE T == {s \in SUBSET S : AddAll(v, s) \in Counts}
<1>1. ASSUME NEW s \in SUBSET S, \A t \in SUBSET s : t # s => t \in T
      PROVE  s \in T
  <2>1. CASE s = {}
    BY <2>1, AddAllNone, ZeroCounts
  <2>2. CASE s # {}
    <3>1. First(s) \in s
      BY <2>2, FirstIn
    <3>2. AddAll(v, s \ {First(s)}) \in Counts
      BY <1>1, <3>1
    <3>3. AddAll(v, s) = Add(v[First(s)], AddAll(v, s \ {First(s)}))
      BY <2>2, AddAllFirst, FS_Subset
    <3>4. v[First(s)] \in Counts
      BY <3>1
    <3> QED
      BY <3>2, <3>3, <3>4, AddCounts
  <2> QED
    BY <2>1, <2>2
<1> HIDE DEF T
<1>2. \A s \in SUBSET S : s \in T
  BY <1>1, BySubsets
<1> QED
  BY <1>2 DEF T

LEMMA AddAllSame ==
  ASSUME NEW v, NEW w, NEW S, IsFiniteSet(S), \A x \in S : v[x] = w[x]
  PROVE  AddAll(v, S) = AddAll(w, S)
<1> DEFINE T == {s \in SUBSET S : AddAll(v, s) = AddAll(w, s)}
<1>1. ASSUME NEW s \in SUBSET S, \A t \in SUBSET s : t # s => t \in T
      PROVE  s \in T
  <2>1. CASE s = {}
    BY <2>1, AddAllNone
  <2>2. CASE s # {}
    <3>1. First(s) \in s
      BY <2>2, FirstIn
    <3>2. AddAll(v, s \ {First(s)}) = AddAll(w, s \ {First(s)})
      BY <1>1, <3>1
    <3>3. /\ AddAll(v, s) = Add(v[First(s)], AddAll(v, s \ {First(s)}))
          /\ AddAll(w, s) = Add(w[First(s)], AddAll(w, s \ {First(s)}))
      BY <2>2, AddAllFirst, FS_Subset
    <3>4. v[First(s)] = w[First(s)]
      BY <3>1
    <3> QED
      BY <3>2, <3>3, <3>4
  <2> QED
    BY <2>1, <2>2
<1> HIDE DEF T
<1>2. \A s \in SUBSET S : s \in T
  BY <1>1, BySubsets
<1> QED
  BY <1>2 DEF T

(* Any element may be taken out of a sum.                                    *)
LEMMA AddAllTakes ==
  ASSUME NEW v, NEW S, IsFiniteSet(S), \A x \in S : v[x] \in Counts
  PROVE  \A y \in S : AddAll(v, S) = Add(v[y], AddAll(v, S \ {y}))
<1> DEFINE T == {s \in SUBSET S : \A y \in s : AddAll(v, s) = Add(v[y], AddAll(v, s \ {y}))}
<1>1. ASSUME NEW s \in SUBSET S, \A t \in SUBSET s : t # s => t \in T
      PROVE  s \in T
  <2> SUFFICES ASSUME NEW y \in s PROVE AddAll(v, s) = Add(v[y], AddAll(v, s \ {y}))
    OBVIOUS
  <2> DEFINE x == First(s)
  <2>1. x \in s /\ IsFiniteSet(s)
    BY FirstIn, FS_Subset
  <2>2. AddAll(v, s) = Add(v[x], AddAll(v, s \ {x}))
    BY <2>1, AddAllFirst
  <2>3. CASE x = y
    BY <2>2, <2>3
  <2>4. CASE x # y
    <3> HIDE DEF x
    <3> DEFINE a == v[x]
               b == v[y]
               r == AddAll(v, (s \ {x}) \ {y})
    <3>1. AddAll(v, s \ {x}) = Add(b, r)
      BY <1>1, <2>1, <2>4
    <3>2. AddAll(v, s \ {y}) = Add(a, AddAll(v, (s \ {y}) \ {x}))
      BY <1>1, <2>1, <2>4
    <3>3. (s \ {y}) \ {x} = (s \ {x}) \ {y}
      OBVIOUS
    <3>4. a \in Counts /\ b \in Counts /\ r \in Counts
      <4>1. (s \ {x}) \ {y} \in SUBSET S /\ IsFiniteSet((s \ {x}) \ {y})
        BY FS_Subset
      <4>2. x \in S /\ y \in S
        BY <2>1
      <4>3. \A z \in (s \ {x}) \ {y} : v[z] \in Counts
        OBVIOUS
      <4>4. AddAll(v, (s \ {x}) \ {y}) \in Counts
        BY <4>1, <4>3, AddAllCounts
      <4> QED
        BY <4>2, <4>4
    <3>5. Add(a, Add(b, r)) = Add(b, Add(a, r))
      <4> HIDE DEF a, b, r
      <4> QED
        BY <3>4, AddSwaps
    <3> QED
      BY <2>2, <3>1, <3>2, <3>3, <3>5
  <2> QED
    BY <2>3, <2>4
<1> HIDE DEF T
<1>2. S \in T
  BY <1>1, BySubsets
<1> QED
  BY <1>2 DEF T

(* Sums of disjoint sets add up, and so do the sums of the classes of a      *)
(* finite set.                                                               *)
LEMMA AddAllUnion ==
  ASSUME NEW v, NEW A, NEW B, IsFiniteSet(A), IsFiniteSet(B), A \cap B = {},
         \A x \in A \cup B : v[x] \in Counts
  PROVE  AddAll(v, A \cup B) = Add(AddAll(v, A), AddAll(v, B))
<1> DEFINE T == {s \in SUBSET A : AddAll(v, s \cup B) = Add(AddAll(v, s), AddAll(v, B))}
<1>1. ASSUME NEW s \in SUBSET A, \A t \in SUBSET s : t # s => t \in T
      PROVE  s \in T
  <2>0. AddAll(v, B) \in Counts
    BY AddAllCounts
  <2>1. CASE s = {}
    <3>1. s \cup B = B
      BY <2>1
    <3> QED
      BY <2>0, <2>1, <3>1, AddAllNone, AddZero
  <2>2. CASE s # {}
    <3> DEFINE x == First(s)
               r == s \ {x}
    <3>1. x \in s /\ x \notin B /\ r \in SUBSET s /\ r \in SUBSET A /\ r # s
      BY <2>2, FirstIn
    <3>2. IsFiniteSet(s) /\ IsFiniteSet(r) /\ IsFiniteSet(s \cup B)
      BY <3>1, FS_Subset, FS_Union
    <3> HIDE DEF x
    <3>3. (s \cup B) \ {x} = r \cup B
      BY <3>1
    <3>4. AddAll(v, s \cup B) = Add(v[x], AddAll(v, r \cup B))
      <4>1. \A y \in s \cup B : v[y] \in Counts
        OBVIOUS
      <4> HIDE DEF r
      <4> QED
        BY <3>1, <3>2, <3>3, <4>1, AddAllTakes
    <3>5. AddAll(v, s) = Add(v[x], AddAll(v, r))
      <4>1. \A y \in s : v[y] \in Counts
        OBVIOUS
      <4> QED
        BY <3>1, <3>2, <4>1, AddAllTakes
    <3>6. AddAll(v, r \cup B) = Add(AddAll(v, r), AddAll(v, B))
      <4> HIDE DEF r
      <4> QED
        BY <1>1, <3>1
    <3>7. AddAll(v, r) \in Counts /\ v[x] \in Counts
      <4>1. \A y \in r : v[y] \in Counts
        OBVIOUS
      <4> HIDE DEF r
      <4> QED
        BY <3>1, <3>2, <4>1, AddAllCounts
    <3> HIDE DEF r
    <3> QED
      BY <2>0, <3>4, <3>5, <3>6, <3>7, AddAssociates
  <2> QED
    BY <2>1, <2>2
<1> HIDE DEF T
<1>2. A \in T
  BY <1>1, BySubsets
<1> QED
  BY <1>2 DEF T

(* Only the elements that count need be added.                               *)
LEMMA AddAllZeros ==
  ASSUME NEW v, NEW S, IsFiniteSet(S), \A x \in S : v[x] = Zero
  PROVE  AddAll(v, S) = Zero
<1> DEFINE T == {s \in SUBSET S : AddAll(v, s) = Zero}
<1>1. ASSUME NEW s \in SUBSET S, \A t \in SUBSET s : t # s => t \in T
      PROVE  s \in T
  <2>1. CASE s = {}
    BY <2>1, AddAllNone
  <2>2. CASE s # {}
    <3>1. First(s) \in s
      BY <2>2, FirstIn
    <3>2. AddAll(v, s \ {First(s)}) = Zero
      BY <1>1, <3>1
    <3>3. AddAll(v, s) = Add(v[First(s)], AddAll(v, s \ {First(s)}))
      BY <2>2, AddAllFirst, FS_Subset
    <3>4. v[First(s)] = Zero
      BY <3>1
    <3> QED
      BY <3>2, <3>3, <3>4, AddZero, ZeroCounts
  <2> QED
    BY <2>1, <2>2
<1> HIDE DEF T
<1>2. S \in T
  BY <1>1, BySubsets
<1> QED
  BY <1>2 DEF T

Class(W, k, p) == {s \in W : k[s] = p}

LEMMA AddAllClasses ==
  ASSUME NEW v, NEW k, NEW W, NEW P, NEW w, IsFiniteSet(W), IsFiniteSet(P),
         \A s \in W : v[s] \in Counts,
         \A p \in P : w[p] = AddAll(v, Class(W, k, p))
  PROVE  AddAll(w, P) = AddAll(v, {s \in W : k[s] \in P})
<1> DEFINE Of(q) == {s \in W : k[s] \in q}
           T == {q \in SUBSET P : AddAll(w, q) = AddAll(v, Of(q))}
<1>1. ASSUME NEW q \in SUBSET P, \A t \in SUBSET q : t # q => t \in T
      PROVE  q \in T
  <2>1. CASE q = {}
    <3>1. Of(q) = {}
      BY <2>1
    <3> QED
      BY <2>1, <3>1, AddAllNone
  <2>2. CASE q # {}
    <3> DEFINE p == First(q)
               r == q \ {p}
    <3>1. p \in q /\ r \in SUBSET q /\ r # q /\ IsFiniteSet(q)
      BY <2>2, FirstIn, FS_Subset
    <3>2. AddAll(w, q) = Add(w[p], AddAll(w, r))
      BY <2>2, <3>1, AddAllFirst
    <3> HIDE DEF p
    <3>3. w[p] = AddAll(v, Class(W, k, p))
      BY <3>1
    <3>4. AddAll(w, r) = AddAll(v, Of(r))
      <4> HIDE DEF r
      <4> QED
        BY <1>1, <3>1
    <3>5. Class(W, k, p) \cap Of(r) = {} /\ Class(W, k, p) \cup Of(r) = Of(q)
      BY <3>1 DEF Class
    <3>6. Class(W, k, p) \in SUBSET W /\ Of(r) \in SUBSET W
      BY DEF Class
    <3>7. IsFiniteSet(Class(W, k, p)) /\ IsFiniteSet(Of(r))
      <4> HIDE DEF Of, r
      <4> QED
        BY <3>6, FS_Subset
    <3>8. AddAll(v, Class(W, k, p) \cup Of(r)) = Add(AddAll(v, Class(W, k, p)), AddAll(v, Of(r)))
      <4>1. \A s \in Class(W, k, p) \cup Of(r) : v[s] \in Counts
        BY <3>6
      <4> HIDE DEF Of, r
      <4> QED
        BY <3>5, <3>7, <4>1, AddAllUnion
    <3> HIDE DEF Of, r
    <3>9. AddAll(w, q) = AddAll(v, Of(q))
      BY <3>2, <3>3, <3>4, <3>5, <3>8
    <3> QED
      BY <3>9
  <2> QED
    BY <2>1, <2>2
<1> HIDE DEF T, Of
<1>2. P \in T
  BY <1>1, BySubsets
<1> QED
  BY <1>2 DEF T, Of

-----------------------------------------------------------------------------
(* Times and buckets.                                                        *)
LEMMA DivMod ==
  ASSUME NEW a \in Int, NEW d \in Nat \ {0}
  PROVE  /\ a % d \in Int /\ 0 <= a % d /\ a % d < d
         /\ a \div d \in Int /\ a = (a \div d) * d + (a % d)
OBVIOUS

LEMMA TruncatedTo ==
  ASSUME NEW t \in Int, NEW d \in Nat \ {0}
  PROVE  /\ Truncated(t, d) \in Int /\ Truncated(t, d) <= t /\ t < Truncated(t, d) + d
         /\ \E q \in Int : Truncated(t, d) = q * d
<1>1. /\ t % d \in Int /\ 0 <= t % d /\ t % d < d
      /\ t \div d \in Int /\ t = (t \div d) * d + (t % d)
  BY DivMod
<1>2. Truncated(t, d) = (t \div d) * d
  BY <1>1 DEF Truncated
<1> QED
  BY <1>1, <1>2 DEF Truncated

LEMMA MultiplesApart ==
  ASSUME NEW d \in Nat \ {0}, NEW p \in Int, NEW q \in Int, p * d < q * d + d
  PROVE  p * d <= q * d
<1>1. p < q + 1
  OBVIOUS
<1>2. p <= q
  BY <1>1
<1> QED
  BY <1>2

LEMMA MultipleOf ==
  ASSUME NEW d \in Nat \ {0}, NEW p \in Int, NEW q \in Int
  PROVE  (p * d - q * d) % d = 0
<1>1. p - q \in Int /\ p * d - q * d \in Int /\ p * d - q * d = (p - q) * d + 0
  OBVIOUS
<1>2. ASSUME NEW a \in Int, NEW k \in Int, a = k * d + 0
      PROVE  a % d = 0
  BY <1>2
<1> QED
  BY <1>1, <1>2

LEMMA TruncatedMonotone ==
  ASSUME NEW s \in Int, NEW t \in Int, s <= t, NEW d \in Nat \ {0}
  PROVE  Truncated(s, d) <= Truncated(t, d)
<1>1. PICK p \in Int, q \in Int : Truncated(s, d) = p * d /\ Truncated(t, d) = q * d
  BY TruncatedTo
<1>2. p * d <= s /\ t < q * d + d
  BY <1>1, TruncatedTo
<1>3. p * d \in Int /\ q * d \in Int
  OBVIOUS
<1>4. p * d < q * d + d
  BY <1>2, <1>3
<1> QED
  BY <1>1, <1>4, MultiplesApart

LEMMA Settings ==
  /\ BucketDuration \in Nat \ {0} /\ Retention \in Nat \ {0}
  /\ \A step \in Steps : step \in Nat \ {0}
  /\ Times \subseteq Nat /\ Starts \subseteq Int
  /\ \A t \in Times : BucketStart(t) \in Starts
<1>1. BucketDuration \in Nat \ {0} /\ Retention \in Nat \ {0} /\ Times \subseteq Nat
  BY UsageAssumption
<1>2. ASSUME NEW step \in Steps
      PROVE  step \in Nat \ {0}
  <2>1. PICK n \in 1 .. Retention : step = n * BucketDuration
    BY UsageAssumption
  <2>2. n \in Nat \ {0}
    BY <1>1
  <2> QED
    BY <1>1, <2>1, <2>2
<1>3. Starts \subseteq Int
  <2>1. ASSUME NEW t \in Times
        PROVE  BucketStart(t) \in Int
    <3>1. t \in Int
      BY <1>1
    <3> QED
      BY <1>1, <3>1, TruncatedTo DEF BucketStart
  <2> QED
    BY <2>1, Zenon DEF Starts
<1> QED
  BY <1>1, <1>2, <1>3 DEF Starts

LEMMA Numbers == (\A t \in Times : t \in Int) /\ (\A s \in Starts : s \in Int)
BY Settings

LEMMA BucketNumbers ==
  ASSUME NEW t \in Int
  PROVE  BucketStart(t) \in Int /\ WindowStart(t, Retention) \in Int
<1>1. BucketStart(t) \in Int /\ BucketDuration \in Int /\ Retention \in Int
  BY Settings, TruncatedTo DEF BucketStart
<1>2. (Retention - 1) * BucketDuration \in Int
  BY <1>1
<1> QED
  BY <1>1, <1>2 DEF WindowStart

LEMMA LaterWindow ==
  ASSUME NEW t \in Int, NEW u \in Int, t <= u
  PROVE  WindowStart(t, Retention) <= WindowStart(u, Retention)
<1>1. BucketStart(t) <= BucketStart(u) /\ BucketStart(t) \in Int /\ BucketStart(u) \in Int
  BY Settings, TruncatedMonotone, TruncatedTo DEF BucketStart
<1>2. (Retention - 1) * BucketDuration \in Int
  BY Settings
<1> QED
  BY <1>1, <1>2 DEF WindowStart

(* No report looks further back than the table is kept.                      *)
LEMMA WithinKept ==
  ASSUME NEW window \in Windows \cup {Today}, now \in Times
  PROVE  From(window) \in Int /\ WindowEnd \in Int /\ WindowStart(now, Retention) <= From(window)
<1> DEFINE B == BucketStart(now)
<1>1. now \in Int /\ BucketDuration \in Nat \ {0} /\ Retention \in Nat \ {0}
  BY Settings
<1>2. PICK q \in Int : B = q * BucketDuration
  BY <1>1, TruncatedTo DEF BucketStart
<1>3. B \in Int /\ B <= now /\ now < B + BucketDuration
  BY <1>1, TruncatedTo DEF BucketStart
<1> HIDE DEF B
<1>4. WindowEnd \in Int
  BY <1>1, <1>3 DEF WindowEnd, B
<1>5. CASE window = Today
  <2>1. PICK n \in 1 .. Retention : Day = n * BucketDuration
    BY UsageAssumption
  <2>2. n \in Nat \ {0} /\ n <= Retention
    BY <1>1, <2>1
  <2>3. Day \in Nat \ {0}
    BY <1>1, <2>1, <2>2
  <2>4. DayStart \in Int /\ now < DayStart + Day
    BY <1>1, <2>3, TruncatedTo DEF DayStart
  <2>5. PICK k \in Int : DayStart = k * Day
    BY <1>1, <2>3, TruncatedTo DEF DayStart
  <2>6. DayStart = (k * n) * BucketDuration
    BY <1>1, <2>1, <2>2, <2>5
  <2>7. q * BucketDuration < (k * n) * BucketDuration + n * BucketDuration
    BY <1>1, <1>2, <1>3, <2>1, <2>4, <2>6
  <2>8. k * n \in Int
    BY <2>2
  <2>9. ASSUME NEW kn \in Int, q * BucketDuration < kn * BucketDuration + n * BucketDuration
        PROVE  (q - Retention + 1) * BucketDuration <= kn * BucketDuration
    <3>1. q * BucketDuration < (kn + n) * BucketDuration
      BY <1>1, <2>2, <2>9
    <3>2. q < kn + n
      BY <1>1, <2>2, <3>1
    <3>3. q - Retention + 1 <= kn
      BY <1>1, <2>2, <3>2
    <3>4. q - Retention + 1 \in Int
      BY <1>1
    <3> QED
      BY <1>1, <3>3, <3>4
  <2>10. (q - Retention + 1) * BucketDuration <= DayStart
    BY <2>6, <2>7, <2>8, <2>9
  <2>11. WindowStart(now, Retention) = (q - Retention + 1) * BucketDuration
    BY <1>1, <1>2 DEF WindowStart, B
  <2> QED
    BY <1>4, <1>5, <2>4, <2>10, <2>11 DEF From
<1>6. CASE window # Today
  <2>1. window \in Nat \ {0} /\ window <= Retention
    BY <1>1, <1>6, UsageAssumption
  <2>2. (window - 1) * BucketDuration <= (Retention - 1) * BucketDuration
    BY <1>1, <2>1
  <2>3. (window - 1) * BucketDuration \in Int /\ (Retention - 1) * BucketDuration \in Int
    BY <1>1, <2>1
  <2> QED
    BY <1>3, <1>4, <1>6, <2>2, <2>3 DEF From, WindowStart, B
<1> QED
  BY <1>5, <1>6

-----------------------------------------------------------------------------
(* Reports.  A bucket that a report may still ask for holds all that was     *)
(* booked in it.                                                             *)
Tables == [Starts -> [Dimensions -> Counts]]

Kept == \A s \in Starts : WindowStart(now, Retention) <= s => buckets[s] = booked[s]

Shown(window) == {s \in Starts : From(window) <= s /\ s < WindowEnd}

LEMMA ShownIsFinite ==
  ASSUME now \in Times, NEW window \in Windows \cup {Today}
  PROVE  Shown(window) \subseteq Int /\ IsFiniteSet(Shown(window))
<1>1. From(window) \in Int /\ WindowEnd \in Int
  BY WithinKept
<1>2. ASSUME NEW s \in Shown(window)
      PROVE  s \in Int /\ s \in From(window) .. WindowEnd
  <2>1. s \in Int /\ From(window) <= s /\ s < WindowEnd
    BY Settings DEF Shown
  <2> QED
    BY <1>1, <2>1
<1>3. IsFiniteSet(From(window) .. WindowEnd) /\ Shown(window) \in SUBSET (From(window) .. WindowEnd)
  BY <1>1, <1>2, FS_Interval
<1>4. IsFiniteSet(Shown(window))
  BY <1>3, FS_Subset
<1> QED
  BY <1>2, <1>4

LEMMA TotalsAgree ==
  ASSUME now \in Times, Kept, NEW window \in Windows \cup {Today}
  PROVE  Total(buckets, From(window), WindowEnd) = Total(booked, From(window), WindowEnd)
<1>0. now \in Int
  BY Settings
<1>1. \A s \in Shown(window) : buckets[s] = booked[s]
  <2>1. /\ From(window) \in Int /\ WindowStart(now, Retention) <= From(window)
        /\ WindowStart(now, Retention) \in Int
    <3>2. WindowStart(now, Retention) \in Int
      BY <1>0, BucketNumbers
    <3> QED
      BY <3>2, WithinKept
  <2>2. ASSUME NEW s \in Shown(window)
        PROVE  s \in Starts /\ WindowStart(now, Retention) <= s
    BY <2>1, <2>2, Settings DEF Shown
  <2> QED
    BY <2>2 DEF Kept
<1>2. \A d \in Dimensions : [s \in Shown(window) |-> buckets[s][d]] = [s \in Shown(window) |-> booked[s][d]]
  BY <1>1
<1> QED
  BY <1>2 DEF Total, Shown

(* The steps of a series: every bucket that is shown lies in one of them.    *)
LEMMA StepsFilled ==
  ASSUME now \in Times, NEW window \in Windows \cup {Today}, NEW step \in Steps
  PROVE  /\ \A s \in Shown(window) : Truncated(s, step) \in Filled(window, step)
         /\ IsFiniteSet(Filled(window, step))
<1> DEFINE from == Truncated(From(window), step)
<1>1. From(window) \in Int /\ WindowEnd \in Int /\ step \in Nat \ {0}
  BY WithinKept, Settings
<1>2. PICK p \in Int : from = p * step
  BY <1>1, TruncatedTo
<1>3. from \in Int
  BY <1>1, TruncatedTo
<1>4. ASSUME NEW s \in Shown(window)
      PROVE  Truncated(s, step) \in Filled(window, step)
  <2>1. s \in Int /\ From(window) <= s /\ s < WindowEnd
    BY Settings DEF Shown
  <2>2. Truncated(s, step) \in Int /\ Truncated(s, step) <= s /\ from <= Truncated(s, step)
    BY <1>1, <2>1, TruncatedTo, TruncatedMonotone
  <2>3. PICK q \in Int : Truncated(s, step) = q * step
    BY <1>1, <2>1, TruncatedTo
  <2>4. (Truncated(s, step) - from) % step = 0
    BY <1>1, <1>2, <2>3, MultipleOf
  <2>5. Truncated(s, step) \in from .. WindowEnd - 1
    <3> HIDE DEF from
    <3> QED
      BY <1>1, <1>3, <2>1, <2>2
  <2> QED
    BY <2>4, <2>5 DEF Filled
<1>5. IsFiniteSet(Filled(window, step))
  <2>1. Filled(window, step) \subseteq from .. WindowEnd - 1
    BY DEF Filled
  <2>2. WindowEnd - 1 \in Int
    BY <1>1
  <2> HIDE DEF from
  <2> QED
    BY <1>3, <2>1, <2>2, FS_Interval, FS_Subset
<1> QED
  BY <1>4, <1>5

LEMMA SeriesIsTotal ==
  ASSUME now \in Times, buckets \in Tables, NEW window \in Windows \cup {Today}, NEW step \in Steps
  PROVE  Series(window, step) = Total(buckets, From(window), WindowEnd)
<1> DEFINE W == Shown(window)
           P == Filled(window, step)
           k == [s \in W |-> Truncated(s, step)]
<1>1. IsFiniteSet(W) /\ IsFiniteSet(P) /\ W \subseteq Starts
  BY ShownIsFinite, StepsFilled DEF Shown
<1>2. ASSUME NEW d \in Dimensions
      PROVE  Series(window, step)[d] = Total(buckets, From(window), WindowEnd)[d]
  <2> DEFINE v == [s \in W |-> buckets[s][d]]
             w == [p \in P |-> Point(window, step, p)[d]]
  <2>1. \A s \in W : v[s] \in Counts
    BY <1>1 DEF Tables
  <2>2. ASSUME NEW p \in P
        PROVE  w[p] = AddAll(v, Class(W, k, p))
    <3> DEFINE C == Class(W, k, p)
               in == {s \in Starts : From(window) <= s /\ s < WindowEnd /\ Truncated(s, step) = p}
    <3>1. C = in /\ C \in SUBSET W
      BY DEF Class, Shown
    <3>2. IsFiniteSet(C)
      <4> HIDE DEF C, W
      <4> QED
        BY <1>1, <3>1, FS_Subset
    <3>3. w[p] = AddAll([s \in in |-> buckets[s][d]], in)
      BY DEF Point
    <3>4. AddAll([s \in C |-> buckets[s][d]], C) = AddAll(v, C)
      <4>1. \A s \in C : [t \in C |-> buckets[t][d]][s] = v[s]
        BY <3>1
      <4> HIDE DEF C, v
      <4> QED
        BY <3>2, <4>1, AddAllSame
    <3> QED
      BY <3>1, <3>3, <3>4
  <2>3. AddAll(w, P) = AddAll(v, {s \in W : k[s] \in P})
    <3> HIDE DEF W, P, k, v, w
    <3> QED
      BY <1>1, <2>1, <2>2, AddAllClasses
  <2>4. {s \in W : k[s] \in P} = W
    BY StepsFilled
  <2>5. Series(window, step)[d] = AddAll(w, P)
    BY DEF Series
  <2>6. Total(buckets, From(window), WindowEnd)[d] = AddAll(v, W)
    BY DEF Total, Shown
  <2> QED
    BY <2>3, <2>4, <2>5, <2>6
<1> QED
  BY <1>2 DEF Series, Total

LEMMA ReportsFollow ==
  ASSUME now \in Times, buckets \in Tables, Kept
  PROVE  ReportsComplete
<1>1. ASSUME NEW window \in Windows \cup {Today}, NEW step \in Steps
      PROVE  Points(window, step) \subseteq Filled(window, step)
  BY StepsFilled DEF Points, Shown
<1> QED
  BY <1>1, TotalsAgree, SeriesIsTotal DEF ReportsComplete

-----------------------------------------------------------------------------
(* The types of what a connection records.                                   *)
Responses ==
  [model : Models, skip : BOOLEAN, first : Int, last : Int, events : Int, done : BOOLEAN]
Captures ==
  [at : {"read", "none", "read to its end", "closed"}, tokens : Int, inLine : BOOLEAN,
   cut : BOOLEAN, finished : BOOLEAN, failed : BOOLEAN]
InForce == [model : Models, skip : BOOLEAN]
Records == [at : Int, dimension : Dimensions, counters : Counts, waits : BOOLEAN]
Pauses == {"read", "forward", "done"}

BridgeTypes ==
  /\ metadata \in InForce /\ settings \in InForce
  /\ inbound \in [at : Pauses, message : Messages]
  /\ outbound \in [at : Pauses, last : BOOLEAN]
  /\ recorded \in [usage : BOOLEAN, responses : [1 .. MaxRequests -> Int]]
  /\ requests \in Seq(Responses) /\ Len(requests) <= MaxRequests
  /\ inbound.at = "forward" /\ inbound.message.kind = "create" => Len(requests) < MaxRequests

(* A record waits with the time it was made, under a dimension of its        *)
(* connection.                                                               *)
Own(who) == IF who = "bridge" THEN Models ELSE {who}

RecordTypes ==
  /\ pending \in [Connections -> Records]
  /\ \A who \in Connections : pending[who].waits =>
       pending[who].at \in Times /\ pending[who].at <= now /\ pending[who].dimension \in Own(who)

UsageTypes ==
  /\ now \in Times
  /\ bodies \in [Bodies -> Captures]
  /\ buckets \in Tables /\ booked \in Tables

UsageInv == BridgeTypes /\ RecordTypes /\ UsageTypes

LEMMA MessageFields ==
  ASSUME NEW m \in Messages
  PROVE  m.model \in Models \cup {NoModel} /\ m.skip \in BOOLEAN
<1>1. ASSUME NEW kind, NEW n \in Creates \cup Controls, m = Message(kind, n)
      PROVE  m.model \in Models \cup {NoModel} /\ m.skip \in BOOLEAN
  <2>1. n[1] \in Models \cup {NoModel} /\ n[3] \in BOOLEAN
    BY UsageAssumption
  <2> QED
    BY <1>1, <2>1 DEF Message
<1>2. CASE m \in {Nothing, [Nothing EXCEPT !.kind = "fast"]}
  <2>1. m = Nothing \/ m = [kind |-> "fast", model |-> NoModel, other |-> FALSE, skip |-> FALSE]
    BY <1>2 DEF Nothing, Message
  <2>2. m.model = NoModel
    BY <2>1 DEF Nothing, Message
  <2>3. m.skip \in BOOLEAN
    <3>1. CASE m = Nothing
      BY <3>1 DEF Nothing, Message
    <3>2. CASE m = [kind |-> "fast", model |-> NoModel, other |-> FALSE, skip |-> FALSE]
      BY <3>2, Zenon
    <3> QED
      BY <2>1, <3>1, <3>2
  <2> QED
    BY <2>2, <2>3
<1> QED
  BY <1>1, <1>2 DEF Messages

LEMMA NothingIsMessage == Nothing \in Messages /\ Nothing.kind = "control"
BY DEF Messages, Nothing, Message

(* The settings a message leaves in force, and the metadata after it.        *)
LEMMA LeftTyped ==
  ASSUME BridgeTypes, NEW m \in Messages
  PROVE  Left(m) \in InForce /\ Merged(m) \in InForce
<1>1. /\ settings.model \in Models /\ settings.skip \in BOOLEAN
      /\ metadata.model \in Models
  BY DEF BridgeTypes, InForce
<1>2. /\ (IF m.model = NoModel THEN settings.model ELSE m.model) \in Models
      /\ (IF m.model = NoModel THEN metadata.model ELSE m.model) \in Models
      /\ (IF Names(m) THEN m.skip ELSE settings.skip) \in BOOLEAN /\ m.skip \in BOOLEAN
  BY <1>1, MessageFields
<1> QED
  BY <1>2 DEF Left, Merged, InForce

LEMMA LeftIsMerged ==
  ASSUME BridgeTypes, metadata = settings, NEW m \in Messages
  PROVE  Left(m) = IF Names(m) THEN Merged(m) ELSE metadata
<1>1. CASE Names(m)
  BY <1>1 DEF Left, Merged
<1>2. CASE ~Names(m)
  <2>1. m.model = NoModel
    BY <1>2 DEF Names
  <2>2. Left(m) = [model |-> settings.model, skip |-> settings.skip]
    BY <1>2, <2>1 DEF Left
  <2>3. settings \in InForce
    BY DEF BridgeTypes
  <2>4. settings = [model |-> settings.model, skip |-> settings.skip]
    BY <2>3 DEF InForce
  <2> QED
    BY <1>2, <2>2, <2>4
<1> QED
  BY <1>1, <1>2

LEMMA NoRecordTyped == NoRecord \in Records /\ ~NoRecord.waits
BY UsageAssumption, ZeroCounts DEF NoRecord, Records, Dimensions

LEMMA RecordTyped ==
  ASSUME now \in Times, NEW dimension \in Dimensions
  PROVE  \A n \in Int : \A correction, failure :
           LET v == Record(dimension, n, correction, failure)
           IN  v \in Records /\ v.at = now /\ v.dimension = dimension /\ v.waits
<1> SUFFICES ASSUME NEW n \in Int, NEW correction, NEW failure
             PROVE  LET v == Record(dimension, n, correction, failure)
                    IN  v \in Records /\ v.at = now /\ v.dimension = dimension /\ v.waits
  OBVIOUS
<1>1. now \in Int
  BY Settings
<1>2. [requests |-> IF correction THEN 0 ELSE 1,
       failed |-> IF failure /\ ~correction THEN 1 ELSE 0, tokens |-> n] \in Counts
  BY DEF Counts
<1> QED
  BY <1>1, <1>2 DEF Record, Records

LEMMA Stamped ==
  ASSUME RecordTypes, now \in Times, now' = now, NEW who \in Connections,
         NEW r \in Records, r.at = now, r.dimension \in Own(who), Stamp(who, r)
  PROVE  RecordTypes'
<1>1. CASE pending' = pending
  BY <1>1 DEF RecordTypes
<1>2. CASE pending' = [pending EXCEPT ![who] = r]
  <2>1. pending' \in [Connections -> Records]
    BY <1>2 DEF RecordTypes
  <2>2. now <= now
    BY Settings
  <2>3. ASSUME NEW c \in Connections, pending'[c].waits
        PROVE  pending'[c].at \in Times /\ pending'[c].at <= now /\ pending'[c].dimension \in Own(c)
    BY <1>2, <2>2, <2>3 DEF RecordTypes
  <2> QED
    BY <2>1, <2>3 DEF RecordTypes, Own
<1> QED
  BY <1>1, <1>2 DEF Stamp

LEMMA NotStamped ==
  ASSUME RecordTypes, pending' = pending, now' = now
  PROVE  RecordTypes'
BY DEF RecordTypes, Own

(* The response upstream answers.                                            *)
LEMMA AnsweringIs ==
  ASSUME BridgeTypes, Waiting
  PROVE  /\ Answering \in DOMAIN requests /\ ~requests[Answering].done
         /\ \A j \in 1 .. Answering - 1 : requests[j].done
         /\ Answering \in 1 .. MaxRequests
<1> DEFINE Undone == {i \in DOMAIN requests : ~requests[i].done}
<1>0. DOMAIN requests = 1 .. Len(requests) /\ Len(requests) \in Nat /\ Len(requests) <= MaxRequests
      /\ MaxRequests \in Nat
  BY UsageAssumption DEF BridgeTypes
<1>1. Undone \in SUBSET Nat /\ Undone # {}
  BY <1>0 DEF Waiting
<1>2. PICK i \in Undone : \A j \in Undone : i <= j
  <2> HIDE DEF Undone
  <2> QED
    BY <1>1, LeastOf
<1>3. i \in DOMAIN requests /\ ~requests[i].done /\ i \in Nat /\ i <= Len(requests)
  BY <1>0
<1>4. ASSUME NEW j \in 1 .. i - 1
      PROVE  requests[j].done
  <2>1. j \in DOMAIN requests /\ ~(i <= j)
    BY <1>0, <1>3
  <2> QED
    BY <1>2, <2>1
<1>5. /\ Answering \in DOMAIN requests /\ ~requests[Answering].done
      /\ \A j \in 1 .. Answering - 1 : requests[j].done
  BY <1>3, <1>4 DEF Answering
<1> QED
  BY <1>0, <1>5

-----------------------------------------------------------------------------
(* What each step does to them.                                              *)
LEMMA Upserted ==
  ASSUME NEW r \in Records, r.at \in Times, NEW table \in Tables
  PROVE  /\ Upsert(r, table) \in Tables
         /\ \A s \in Starts : \A d \in Dimensions :
              Upsert(r, table)[s][d] = IF s = BucketStart(r.at) /\ d = r.dimension
                                       THEN Add(table[s][d], r.counters) ELSE table[s][d]
         /\ \A s \in Starts : s # BucketStart(r.at) => Upsert(r, table)[s] = table[s]
<1> DEFINE b == BucketStart(r.at)
<1>1. b \in Starts
  BY Settings
<1>2. r.dimension \in Dimensions /\ r.counters \in Counts
  BY DEF Records
<1>3. Add(table[b][r.dimension], r.counters) \in Counts
  BY <1>1, <1>2, AddCounts DEF Tables
<1>4. Upsert(r, table) =
        [table EXCEPT ![b] = [table[b] EXCEPT ![r.dimension] = Add(table[b][r.dimension], r.counters)]]
  BY DEF Upsert
<1> HIDE DEF b
<1>5. [table[b] EXCEPT ![r.dimension] = Add(table[b][r.dimension], r.counters)] \in [Dimensions -> Counts]
  BY <1>1, <1>2, <1>3 DEF Tables
<1>6. Upsert(r, table) \in Tables
  BY <1>1, <1>4, <1>5 DEF Tables
<1>7. \A s \in Starts : s # b => Upsert(r, table)[s] = table[s]
  BY <1>1, <1>4 DEF Tables
<1>8. ASSUME NEW s \in Starts, NEW d \in Dimensions
      PROVE  Upsert(r, table)[s][d] = IF s = b /\ d = r.dimension
                                      THEN Add(table[s][d], r.counters) ELSE table[s][d]
  BY <1>1, <1>2, <1>4 DEF Tables
<1> QED
  BY <1>6, <1>7, <1>8 DEF b

LEMMA UpsertedAlike ==
  ASSUME NEW r \in Records, r.at \in Times, NEW t \in Tables, NEW u \in Tables,
         NEW s \in Starts, t[s] = u[s]
  PROVE  Upsert(r, t)[s] = Upsert(r, u)[s]
<1>0. Upsert(r, t) \in Tables /\ Upsert(r, u) \in Tables
  BY Upserted
<1>1. /\ Upsert(r, t)[s] \in [Dimensions -> Counts]
      /\ Upsert(r, u)[s] \in [Dimensions -> Counts]
  BY <1>0 DEF Tables
<1>2. \A d \in Dimensions : Upsert(r, t)[s][d] = Upsert(r, u)[s][d]
  BY Upserted
<1> QED
  BY <1>1, <1>2

LEMMA PrunedTable ==
  ASSUME NEW t, NEW table \in Tables
  PROVE  /\ Pruned(t, table) \in Tables
         /\ \A s \in Starts : ~(s < WindowStart(t, Retention)) => Pruned(t, table)[s] = table[s]
BY ZeroCounts DEF Pruned, Tables

LEMMA CommitKeeps ==
  ASSUME UsageInv, Kept, NEW who \in Connections, Commit(who)
  PROVE  (UsageInv /\ Kept)'
<1> DEFINE r == pending[who]
<1>1. r \in Records /\ r.waits /\ r.at \in Times /\ r.at <= now
  BY DEF Commit, UsageInv, RecordTypes
<1>2. BridgeTypes'
  BY DEF Commit, bridgeVars, UsageInv, BridgeTypes
<1>3. RecordTypes'
  <2>1. pending' = [pending EXCEPT ![who] = NoRecord] /\ now' = now
    BY DEF Commit
  <2>2. pending' \in [Connections -> Records]
    BY <2>1, NoRecordTyped DEF UsageInv, RecordTypes
  <2>3. ASSUME NEW c \in Connections, pending'[c].waits
        PROVE  c # who /\ pending'[c] = pending[c]
    BY <2>1, <2>3, NoRecordTyped DEF UsageInv, RecordTypes
  <2> QED
    BY <2>1, <2>2, <2>3 DEF UsageInv, RecordTypes, Own
<1>4. now' = now /\ bodies' = bodies
  BY DEF Commit
<1> HIDE DEF r
<1>5. CASE UNCHANGED <<buckets, booked>>
  BY <1>2, <1>3, <1>4, <1>5 DEF UsageInv, UsageTypes, Kept, WindowStart, BucketStart, Truncated
<1>6. CASE buckets' = Pruned(r.at, Upsert(r, buckets)) /\ booked' = Upsert(r, booked)
  <2>1. buckets \in Tables /\ booked \in Tables /\ now \in Times
    BY DEF UsageInv, UsageTypes
  <2>2. /\ Upsert(r, buckets) \in Tables /\ Upsert(r, booked) \in Tables
        /\ buckets' \in Tables
    BY <1>1, <1>6, <2>1, Upserted, PrunedTable
  <2>3. UsageTypes'
    BY <1>4, <1>6, <2>2 DEF UsageInv, UsageTypes
  <2>4. ASSUME NEW s \in Starts, WindowStart(now, Retention) <= s
        PROVE  buckets'[s] = booked'[s]
    <3>1. r.at \in Int /\ now \in Int /\ s \in Int
      BY <1>1, <2>1, Numbers
    <3>2. WindowStart(r.at, Retention) <= WindowStart(now, Retention)
      BY <1>1, <3>1, LaterWindow
    <3>3. WindowStart(r.at, Retention) \in Int /\ WindowStart(now, Retention) \in Int
      BY <3>1, BucketNumbers
    <3>4. ~(s < WindowStart(r.at, Retention))
      BY <2>4, <3>1, <3>2, <3>3
    <3>5. buckets'[s] = Upsert(r, buckets)[s]
      BY <1>6, <2>2, <3>4, PrunedTable
    <3>6. buckets[s] = booked[s]
      BY <2>4 DEF Kept
    <3> QED
      BY <1>1, <1>6, <2>1, <3>5, <3>6, UpsertedAlike
  <2>5. Kept'
    BY <1>4, <2>4 DEF Kept, WindowStart, BucketStart, Truncated
  <2> QED
    BY <1>2, <1>3, <2>3, <2>5 DEF UsageInv
<1> QED
  BY <1>5, <1>6 DEF Commit, r

LEMMA TickKeeps ==
  ASSUME UsageInv, Kept, Tick
  PROVE  (UsageInv /\ Kept)'
<1>1. PICK t \in Times : t > now /\ now' = t
  BY DEF Tick
<1>2. UNCHANGED <<bridgeVars, bodies, pending, buckets, booked>>
  BY DEF Tick
<1>3. now \in Int /\ t \in Int /\ now \in Times
  BY Settings DEF UsageInv, UsageTypes
<1>4. BridgeTypes' /\ UsageTypes'
  BY <1>1, <1>2 DEF bridgeVars, UsageInv, BridgeTypes, UsageTypes
<1>5. RecordTypes'
  <2>1. ASSUME NEW n \in Int, n <= now
        PROVE  n <= t
    BY <1>1, <1>3, <2>1
  <2>2. \A who \in Connections : pending[who].waits => pending[who].at \in Int
    BY Numbers DEF UsageInv, RecordTypes
  <2> QED
    BY <1>1, <1>2, <2>1, <2>2 DEF UsageInv, RecordTypes, Own
<1>6. Kept'
  <2>1. WindowStart(now, Retention) <= WindowStart(t, Retention)
    BY <1>1, <1>3, LaterWindow
  <2>2. WindowStart(now, Retention) \in Int /\ WindowStart(t, Retention) \in Int
    BY <1>3, BucketNumbers
  <2>3. ASSUME NEW s \in Starts, WindowStart(t, Retention) <= s
        PROVE  buckets'[s] = booked'[s]
    <3>1. s \in Int
      BY Numbers
    <3>2. WindowStart(now, Retention) <= s
      BY <2>1, <2>2, <2>3, <3>1
    <3> QED
      BY <1>2, <3>2 DEF Kept
  <2> QED
    BY <1>1, <2>3 DEF Kept, WindowStart, BucketStart, Truncated
<1> QED
  BY <1>4, <1>5, <1>6 DEF UsageInv

LEMMA TablesStay ==
  ASSUME UsageTypes, Kept, UNCHANGED <<now, buckets, booked>>, bodies' \in [Bodies -> Captures]
  PROVE  UsageTypes' /\ Kept'
BY DEF UsageTypes, Kept, WindowStart, BucketStart, Truncated

LEMMA ElsewhereStays ==
  ASSUME UsageTypes, Kept, Elsewhere
  PROVE  UsageTypes' /\ Kept' /\ now' = now /\ now \in Times
BY TablesStay DEF UsageTypes, Elsewhere

LEMMA BridgeRecords ==
  ASSUME UsageTypes, RecordTypes, now' = now,
         NEW tokens \in Int, NEW again \in BOOLEAN, NEW failed \in BOOLEAN,
         metadata.model \in Models,
         Stamp("bridge", Record(metadata.model, tokens, again, failed))
  PROVE  RecordTypes'
<1> DEFINE r == Record(metadata.model, tokens, again, failed)
<1>1. metadata.model \in Dimensions /\ "bridge" \in Connections /\ Own("bridge") = Models
  BY DEF Dimensions, Connections, Own
<1>2. r \in Records /\ r.at = now /\ r.dimension = metadata.model
  <2>1. now \in Times
    BY DEF UsageTypes
  <2> QED
    BY <1>1, <2>1, RecordTyped
<1>3. Stamp("bridge", r)
  OBVIOUS
<1> HIDE DEF r
<1> QED
  BY <1>1, <1>2, <1>3, Stamped DEF UsageTypes

LEMMA NothingStamped ==
  ASSUME RecordTypes, now' = now, NothingToStamp
  PROVE  RecordTypes'
BY NotStamped DEF NothingToStamp

(* The steps of the bridge that leave its requests and records alone.        *)
LEMMA QuietKeeps ==
  ASSUME UsageInv, Kept, Elsewhere, NothingToStamp,
         UNCHANGED <<metadata, recorded, requests, settings>>,
         \/ UNCHANGED inbound
         \/ inbound' = [at |-> "done", message |-> Nothing],
         \/ UNCHANGED outbound
         \/ outbound' = [at |-> "done", last |-> FALSE]
  PROVE  (UsageInv /\ Kept)'
<1>1. UsageTypes' /\ Kept' /\ RecordTypes'
  BY ElsewhereStays, NothingStamped DEF UsageInv
<1>2. inbound' \in [at : Pauses, message : Messages]
  BY NothingIsMessage DEF UsageInv, BridgeTypes, Pauses
<1>3. outbound' \in [at : Pauses, last : BOOLEAN]
  <2>1. CASE UNCHANGED outbound
    BY <2>1 DEF UsageInv, BridgeTypes
  <2>2. CASE outbound' = [at |-> "done", last |-> FALSE]
    BY <2>2, Zenon DEF Pauses
  <2> QED
    BY <2>1, <2>2
<1>4. inbound'.at = "forward" /\ inbound'.message.kind = "create" =>
        Len(requests') < MaxRequests
  BY DEF UsageInv, BridgeTypes
<1>5. BridgeTypes'
  BY <1>2, <1>3, <1>4 DEF UsageInv, BridgeTypes
<1> QED
  BY <1>1, <1>5 DEF UsageInv

LEMMA DialKeeps ==
  ASSUME UsageInv, Kept, Dial
  PROVE  (UsageInv /\ Kept)'
<1>1. CASE NothingToStamp
  BY <1>1, QuietKeeps DEF Dial, Dialed
<1>2. CASE Stamp("bridge", Record(metadata.model, 0, FALSE, TRUE))
  <2>1. UsageTypes' /\ Kept' /\ now' = now
    BY ElsewhereStays DEF Dial, UsageInv
  <2>2. metadata.model \in Models
    BY DEF UsageInv, BridgeTypes, InForce
  <2>3. RecordTypes'
    <3>1. 0 \in Int /\ TRUE \in BOOLEAN /\ FALSE \in BOOLEAN
      OBVIOUS
    <3> QED
      BY <1>2, <2>1, <2>2, <3>1, BridgeRecords DEF UsageInv
  <2>4. BridgeTypes'
    BY DEF Dial, Dialed, UsageInv, BridgeTypes
  <2> QED
    BY <2>1, <2>3, <2>4 DEF UsageInv
<1> QED
  BY <1>1, <1>2 DEF Dial

LEMMA EndBridgeKeeps ==
  ASSUME UsageInv, Kept, EndBridge
  PROVE  (UsageInv /\ Kept)'
<1>1. CASE NothingToStamp
  BY <1>1, QuietKeeps DEF EndBridge
<1>2. CASE Stamp("bridge", Record(metadata.model, 0, FALSE, FALSE))
  <2>1. UsageTypes' /\ Kept' /\ now' = now
    BY ElsewhereStays DEF EndBridge, UsageInv
  <2>2. metadata.model \in Models
    BY DEF UsageInv, BridgeTypes, InForce
  <2>3. RecordTypes'
    <3>1. 0 \in Int /\ TRUE \in BOOLEAN /\ FALSE \in BOOLEAN
      OBVIOUS
    <3> QED
      BY <1>2, <2>1, <2>2, <3>1, BridgeRecords DEF UsageInv
  <2>4. BridgeTypes'
    BY DEF EndBridge, UsageInv, BridgeTypes
  <2> QED
    BY <2>1, <2>3, <2>4 DEF UsageInv
<1> QED
  BY <1>1, <1>2 DEF EndBridge

LEMMA ReadMessageKeeps ==
  ASSUME UsageInv, Kept, NEW m \in Messages, ReadMessage(m)
  PROVE  (UsageInv /\ Kept)'
<1>1. UsageTypes' /\ Kept' /\ now' = now
  BY ElsewhereStays DEF ReadMessage, UsageInv
<1>2. RecordTypes'
  BY <1>1, NotStamped DEF ReadMessage, UsageInv
<1>3. CASE m.kind = "fast"
  <2>1. inbound' = [inbound EXCEPT !.at = "done"] /\ UNCHANGED <<metadata, outbound, recorded, requests, settings>>
    BY <1>3 DEF ReadMessage
  <2>2. inbound' \in [at : Pauses, message : Messages] /\ inbound'.at # "forward"
    BY <2>1 DEF UsageInv, BridgeTypes, Pauses
  <2>3. BridgeTypes'
    BY <2>1, <2>2 DEF UsageInv, BridgeTypes
  <2> QED
    BY <1>1, <1>2, <2>3 DEF UsageInv
<1>4. CASE m.kind # "fast"
  <2>1. /\ inbound' = [at |-> "forward", message |-> m]
        /\ UNCHANGED <<outbound, recorded, requests, settings>>
        /\ metadata' = IF Names(m) THEN Merged(m) ELSE metadata
        /\ m.kind = "create" => Len(requests) < MaxRequests
    BY <1>4 DEF ReadMessage
  <2>2. metadata' \in InForce
    BY <2>1, LeftTyped DEF UsageInv, BridgeTypes
  <2>3. inbound' \in [at : Pauses, message : Messages]
    BY <2>1 DEF Pauses
  <2>4. inbound'.message = m
    BY <2>1
  <2>5. BridgeTypes'
    BY <2>1, <2>2, <2>3, <2>4 DEF UsageInv, BridgeTypes
  <2> QED
    BY <1>1, <1>2, <2>5 DEF UsageInv
<1> QED
  BY <1>3, <1>4

LEMMA AskedTyped ==
  ASSUME BridgeTypes, NEW m \in Messages
  PROVE  Asked(m) \in Responses
<1>1. Left(m).model \in Models /\ Left(m).skip \in BOOLEAN
  BY LeftTyped DEF InForce
<1>2. Asked(m) = [model |-> Left(m).model, skip |-> Left(m).skip,
                  first |-> -1, last |-> 0, events |-> 0, done |-> FALSE]
  BY DEF Asked
<1> DEFINE v == Left(m)
<1>3. v.model \in Models /\ v.skip \in BOOLEAN
  BY <1>1
<1>4. Asked(m) = [model |-> v.model, skip |-> v.skip,
                  first |-> -1, last |-> 0, events |-> 0, done |-> FALSE]
  BY <1>2
<1> HIDE DEF v
<1> QED
  BY <1>3, <1>4 DEF Responses

LEMMA ForwardMessageKeeps ==
  ASSUME UsageInv, Kept, ForwardMessage
  PROVE  (UsageInv /\ Kept)'
<1>1. UsageTypes' /\ Kept' /\ RecordTypes'
  BY ElsewhereStays, NothingStamped DEF ForwardMessage, UsageInv
<1>2. /\ inbound.at = "forward" /\ inbound' = [at |-> "read", message |-> Nothing]
      /\ UNCHANGED <<metadata, outbound, recorded>> /\ settings' = Left(inbound.message)
      /\ requests' = IF inbound.message.kind = "create" THEN Append(requests, Asked(inbound.message)) ELSE requests
  BY DEF ForwardMessage
<1>3. inbound' \in [at : Pauses, message : Messages] /\ inbound'.at # "forward"
  BY <1>2, NothingIsMessage DEF Pauses
<1>4. requests' \in Seq(Responses) /\ Len(requests') <= MaxRequests
  <2>1. requests \in Seq(Responses) /\ Len(requests) \in Nat /\ Len(requests) <= MaxRequests
        /\ MaxRequests \in Nat
    BY UsageAssumption DEF UsageInv, BridgeTypes
  <2>2. CASE inbound.message.kind = "create"
    <3>1. Len(requests) < MaxRequests /\ inbound.message \in Messages
      BY <1>2, <2>2 DEF UsageInv, BridgeTypes
    <3>2. Asked(inbound.message) \in Responses
      BY <3>1, AskedTyped DEF UsageInv
    <3> QED
      BY <1>2, <2>1, <2>2, <3>1, <3>2
  <2> QED
    BY <1>2, <2>1, <2>2
<1>5. settings' \in InForce
  BY <1>2, LeftTyped DEF UsageInv, BridgeTypes
<1>6. BridgeTypes'
  BY <1>2, <1>3, <1>4, <1>5 DEF UsageInv, BridgeTypes
<1> QED
  BY <1>1, <1>6 DEF UsageInv

(* What becomes of the requests when upstream answers one.                   *)
LEMMA OneChanged ==
  ASSUME BridgeTypes, NEW i \in DOMAIN requests, NEW r \in Responses
  PROVE  [requests EXCEPT ![i] = r] \in Seq(Responses) /\ Len([requests EXCEPT ![i] = r]) = Len(requests)
BY DEF BridgeTypes

LEMMA MarkedDone ==
  ASSUME BridgeTypes,
         requests' = requests \/ requests' = [requests EXCEPT ![Answering].done = TRUE]
  PROVE  requests' \in Seq(Responses) /\ Len(requests') = Len(requests)
<1>1. CASE requests' = requests
  BY <1>1 DEF BridgeTypes
<1>2. CASE Answering \in DOMAIN requests /\ requests' = [requests EXCEPT ![Answering].done = TRUE]
  <2>1. Answering \in DOMAIN requests
    BY <1>2
  <2>2. requests[Answering] \in Responses
    BY <2>1 DEF BridgeTypes
  <2>3. [requests[Answering] EXCEPT !.done = TRUE] \in Responses
    BY <2>2 DEF Responses
  <2>4. requests' = [requests EXCEPT ![Answering] = [requests[Answering] EXCEPT !.done = TRUE]]
    BY <1>2
  <2> QED
    BY <2>1, <2>3, <2>4, OneChanged
<1>3. CASE Answering \notin DOMAIN requests /\ requests' = [requests EXCEPT ![Answering].done = TRUE]
  BY <1>1, <1>3 DEF BridgeTypes
<1> QED
  BY <1>1, <1>2, <1>3

LEMMA ToldTyped ==
  ASSUME BridgeTypes, Waiting, NEW tokens \in Int,
         requests' = [requests EXCEPT ![Answering].first = IF @ = -1 THEN tokens ELSE @,
                                      ![Answering].last = tokens, ![Answering].events = @ + 1]
  PROVE  requests' \in Seq(Responses) /\ Len(requests') = Len(requests)
<1> DEFINE r == requests[Answering]
           told == [r EXCEPT !.first = IF @ = -1 THEN tokens ELSE @, !.last = tokens, !.events = @ + 1]
<1>1. Answering \in DOMAIN requests
  BY AnsweringIs
<1>2. r \in Responses
  BY <1>1 DEF BridgeTypes
<1> HIDE DEF r
<1>3. told \in Responses
  <2>1. (IF r.first = -1 THEN tokens ELSE r.first) \in Int /\ r.events + 1 \in Int
    BY <1>2 DEF Responses
  <2> QED
    BY <1>2, <2>1 DEF Responses
<1>4. requests' = [requests EXCEPT ![Answering] = told]
  BY <1>1 DEF BridgeTypes, r
<1>5. ASSUME NEW t \in Responses
      PROVE  /\ [requests EXCEPT ![Answering] = t] \in Seq(Responses)
             /\ Len([requests EXCEPT ![Answering] = t]) = Len(requests)
  BY <1>1, OneChanged
<1> HIDE DEF told
<1>6. /\ [requests EXCEPT ![Answering] = told] \in Seq(Responses)
      /\ Len([requests EXCEPT ![Answering] = told]) = Len(requests)
  BY <1>3, <1>5
<1> QED
  BY <1>4, <1>6, Zenon

LEMMA ForwardEventKeeps ==
  ASSUME UsageInv, Kept, ForwardEvent
  PROVE  (UsageInv /\ Kept)'
<1>1. UsageTypes' /\ Kept' /\ RecordTypes'
  BY ElsewhereStays, NothingStamped DEF ForwardEvent, UsageInv
<1>2. /\ outbound' = [at |-> "read", last |-> FALSE]
      /\ UNCHANGED <<metadata, inbound, recorded, settings>>
      /\ requests' = IF outbound.last THEN [requests EXCEPT ![Answering].done = TRUE] ELSE requests
  BY DEF ForwardEvent
<1>3. outbound' \in [at : Pauses, last : BOOLEAN]
  BY <1>2, Zenon DEF Pauses
<1>4. requests' \in Seq(Responses) /\ Len(requests') = Len(requests)
  BY <1>2, MarkedDone DEF UsageInv
<1>5. BridgeTypes'
  BY <1>2, <1>3, <1>4 DEF UsageInv, BridgeTypes
<1> QED
  BY <1>1, <1>5 DEF UsageInv

LEMMA InspectKeeps ==
  ASSUME UsageInv, Kept, now' = now, Waiting, NEW tokens \in Int, Inspect(tokens)
  PROVE  RecordTypes' /\ recorded' \in [usage : BOOLEAN, responses : [1 .. MaxRequests -> Int]]
<1> DEFINE All == [usage : BOOLEAN, responses : [1 .. MaxRequests -> Int]]
<1>1. recorded \in All /\ recorded.responses \in [1 .. MaxRequests -> Int]
  BY DEF UsageInv, BridgeTypes
<1>2. Answering \in 1 .. MaxRequests
  BY AnsweringIs DEF UsageInv
<1>3. CASE metadata.skip
  <2>1. recorded' = [recorded EXCEPT !.usage = TRUE] /\ NothingToStamp
    BY <1>3 DEF Inspect
  <2>2. recorded' \in All
    BY <1>1, <2>1
  <2> QED
    BY <2>1, <2>2, NothingStamped DEF UsageInv
<1>4. CASE ~metadata.skip
  <2> DEFINE noted == IF named THEN [recorded.responses EXCEPT ![Answering] = tokens] ELSE recorded.responses
  <2>1. recorded' = [usage |-> TRUE, responses |-> noted]
    BY <1>4 DEF Inspect
  <2>2. noted \in [1 .. MaxRequests -> Int]
    BY <1>1, <1>2
  <2>3. recorded' \in All
    <3> HIDE DEF noted
    <3> QED
      BY <2>1, <2>2, Zenon
  <2>4. CASE Delta(tokens) = 0
    <3>1. NothingToStamp
      BY <1>4, <2>4 DEF Inspect
    <3> QED
      BY <2>3, <3>1, NothingStamped DEF UsageInv
  <2>5. CASE Delta(tokens) # 0
    <3>1. Stamp("bridge", Record(metadata.model, Delta(tokens), Recorded # -1, FALSE))
      BY <1>4, <2>5 DEF Inspect
    <3>2. Recorded \in Int
      <4>1. recorded.responses[Answering] \in Int
        BY <1>1, <1>2
      <4> QED
        BY <4>1 DEF Recorded
    <3>3. Delta(tokens) \in Int
      BY <3>2 DEF Delta
    <3>4. metadata.model \in Models /\ (Recorded # -1) \in BOOLEAN /\ FALSE \in BOOLEAN
      BY DEF UsageInv, BridgeTypes, InForce
    <3>5. RecordTypes'
      BY <3>1, <3>3, <3>4, BridgeRecords DEF UsageInv
    <3> QED
      BY <2>3, <3>5
  <2> QED
    BY <2>4, <2>5
<1> QED
  BY <1>3, <1>4

LEMMA ReadEventKeeps ==
  ASSUME UsageInv, Kept, NEW tokens \in Amounts, NEW tells \in BOOLEAN, NEW last \in BOOLEAN,
         ReadEvent(tells, tokens, last)
  PROVE  (UsageInv /\ Kept)'
<1>1. UsageTypes' /\ Kept' /\ now' = now
  BY ElsewhereStays DEF ReadEvent, UsageInv
<1>2. outbound' = [at |-> "forward", last |-> last] /\ UNCHANGED <<metadata, inbound, settings>> /\ Waiting
  BY DEF ReadEvent
<1>3. outbound' \in [at : Pauses, last : BOOLEAN]
  BY <1>2, Zenon DEF Pauses
<1>4. tokens \in Int
  BY UsageAssumption
<1>5. CASE tells
  <2>1. /\ requests' = [requests EXCEPT ![Answering].first = IF @ = -1 THEN tokens ELSE @,
                                        ![Answering].last = tokens, ![Answering].events = @ + 1]
        /\ Inspect(tokens)
    BY <1>5 DEF ReadEvent
  <2>2. RecordTypes' /\ recorded' \in [usage : BOOLEAN, responses : [1 .. MaxRequests -> Int]]
    BY <1>1, <1>2, <1>4, <2>1, InspectKeeps
  <2>3. requests' \in Seq(Responses) /\ Len(requests') = Len(requests)
    BY <1>2, <1>4, <2>1, ToldTyped DEF UsageInv
  <2>4. BridgeTypes'
    BY <1>2, <1>3, <2>2, <2>3 DEF UsageInv, BridgeTypes
  <2> QED
    BY <1>1, <2>2, <2>4 DEF UsageInv
<1>6. CASE ~tells
  <2>1. NothingToStamp /\ UNCHANGED <<requests, recorded>>
    BY <1>6 DEF ReadEvent
  <2>2. RecordTypes'
    BY <1>1, <2>1, NothingStamped DEF UsageInv
  <2>3. BridgeTypes'
    BY <1>2, <1>3, <2>1 DEF UsageInv, BridgeTypes
  <2> QED
    BY <1>1, <2>2, <2>3 DEF UsageInv
<1> QED
  BY <1>5, <1>6

-----------------------------------------------------------------------------
LEMMA CaptureKeeps ==
  ASSUME UsageInv, Kept, UNCHANGED <<now, bridgeVars, buckets, booked>>, RecordTypes',
         bodies' \in [Bodies -> Captures]
  PROVE  (UsageInv /\ Kept)'
<1>1. UsageTypes' /\ Kept'
  BY TablesStay DEF UsageInv
<1>2. BridgeTypes'
  BY DEF bridgeVars, UsageInv, BridgeTypes
<1> QED
  BY <1>1, <1>2 DEF UsageInv

LEMMA FinishOnceKeeps ==
  ASSUME UsageInv, Kept, UNCHANGED <<now, bridgeVars, buckets, booked>>,
         NEW b \in Bodies, NEW at \in {"read to its end", "closed"}, FinishOnce(b, at)
  PROVE  (UsageInv /\ Kept)'
<1>1. bodies[b] \in Captures /\ bodies \in [Bodies -> Captures]
  BY DEF UsageInv, UsageTypes
<1>2. bodies' \in [Bodies -> Captures]
  <2>1. [bodies[b] EXCEPT !.at = at, !.finished = TRUE] \in Captures
    BY <1>1 DEF Captures
  <2>2. bodies' = [bodies EXCEPT ![b] = [bodies[b] EXCEPT !.at = at, !.finished = TRUE]]
    BY <1>1 DEF FinishOnce
  <2> QED
    BY <1>1, <2>1, <2>2
<1>3. CASE NothingToStamp
  BY <1>2, <1>3, NothingStamped, CaptureKeeps DEF UsageInv
<1>4. CASE Stamp(b, Record(b, bodies[b].tokens, FALSE, bodies[b].failed))
  <2> DEFINE r == Record(b, bodies[b].tokens, FALSE, bodies[b].failed)
  <2>1. b \in Dimensions /\ b \in Connections /\ bodies[b].tokens \in Int
    BY <1>1 DEF Dimensions, Connections, Captures
  <2>2. b \in Own(b)
    BY UsageAssumption DEF Own
  <2>3. now \in Times
    BY DEF UsageInv, UsageTypes
  <2>4. r \in Records /\ r.at = now /\ r.dimension = b
    <3> HIDE DEF r
    <3>1. \A n \in Int : \A correction, failure :
            LET v == Record(b, n, correction, failure)
            IN  v \in Records /\ v.at = now /\ v.dimension = b /\ v.waits
      BY <2>1, <2>3, RecordTyped, Zenon
    <3>2. \A correction, failure :
            LET v == Record(b, bodies[b].tokens, correction, failure)
            IN  v \in Records /\ v.at = now /\ v.dimension = b /\ v.waits
      <4>1. bodies[b].tokens \in Int
        BY <2>1
      <4> QED
        BY <3>1, <4>1, Zenon
    <3> QED
      BY <3>2, Zenon DEF r
  <2>5. Stamp(b, r)
    BY <1>4
  <2> HIDE DEF r
  <2>6. RecordTypes'
    BY <2>1, <2>2, <2>3, <2>4, <2>5, Stamped DEF UsageInv
  <2> QED
    BY <1>2, <2>6, CaptureKeeps
<1> QED
  BY <1>3, <1>4 DEF FinishOnce

LEMMA CapturedKeeps ==
  ASSUME UsageInv, Kept, Captured
  PROVE  (UsageInv /\ Kept)'
<1>1. PICK b \in Bodies :
        \/ CutPayload(b) \/ CaptureEOF(b) \/ CaptureClose(b)
        \/ \E tokens \in Amounts, inLine \in BOOLEAN : CaptureUsage(b, tokens, inLine)
  BY DEF Captured
<1>2. bodies[b] \in Captures /\ bodies \in [Bodies -> Captures]
  BY DEF UsageInv, UsageTypes
<1>3. CASE CaptureEOF(b)
  BY <1>3, FinishOnceKeeps DEF CaptureEOF
<1>4. CASE CaptureClose(b)
  <2>1. UNCHANGED <<now, bridgeVars, buckets, booked>>
    BY <1>4 DEF CaptureClose
  <2>2. CASE b \in Proxied
    BY <1>4, <2>1, <2>2, FinishOnceKeeps DEF CaptureClose
  <2>3. CASE b \notin Proxied
    <3>1. bodies' = [bodies EXCEPT ![b].at = "closed"] /\ NothingToStamp
      BY <1>4, <2>3 DEF CaptureClose
    <3>2. [bodies[b] EXCEPT !.at = "closed"] \in Captures
      BY <1>2 DEF Captures
    <3>3. bodies' \in [Bodies -> Captures]
      BY <1>2, <3>1, <3>2
    <3> QED
      BY <2>1, <3>1, <3>3, NothingStamped, CaptureKeeps DEF UsageInv
  <2> QED
    BY <2>2, <2>3
<1>5. ASSUME NEW tokens \in Amounts, NEW inLine \in BOOLEAN, CaptureUsage(b, tokens, inLine)
      PROVE  (UsageInv /\ Kept)'
  <2>1. tokens \in Int
    BY UsageAssumption
  <2>2. /\ bodies' = [bodies EXCEPT ![b] = [bodies[b] EXCEPT !.tokens = tokens, !.inLine = inLine]]
        /\ UNCHANGED <<now, bridgeVars, pending, buckets, booked>>
    BY <1>2, <1>5 DEF CaptureUsage
  <2>3. [bodies[b] EXCEPT !.tokens = tokens, !.inLine = inLine] \in Captures
    BY <1>2, <2>1 DEF Captures
  <2>4. bodies' \in [Bodies -> Captures]
    BY <1>2, <2>2, <2>3
  <2> QED
    BY <2>2, <2>4, NotStamped, CaptureKeeps DEF UsageInv
<1>6. CASE CutPayload(b)
  <2>1. /\ bodies' = [bodies EXCEPT ![b] = [bodies[b] EXCEPT !.cut = TRUE]]
        /\ UNCHANGED <<now, bridgeVars, pending, buckets, booked>>
    BY <1>2, <1>6 DEF CutPayload
  <2>2. [bodies[b] EXCEPT !.cut = TRUE] \in Captures
    BY <1>2 DEF Captures
  <2>3. bodies' \in [Bodies -> Captures]
    BY <1>2, <2>1, <2>2
  <2> QED
    BY <2>1, <2>3, NotStamped, CaptureKeeps DEF UsageInv
<1> QED
  BY <1>1, <1>3, <1>4, <1>5, <1>6

-----------------------------------------------------------------------------
LEMMA UsageStarts == UsageInit => UsageInv /\ Kept
<1> SUFFICES ASSUME UsageInit PROVE UsageInv /\ Kept
  OBVIOUS
<1>1. now \in Times
  <2>1. Times \in SUBSET Nat /\ Times # {}
    BY UsageAssumption
  <2>2. \E n \in Times : \A m \in Times : n <= m
    BY <2>1, LeastOf
  <2> QED
    BY <2>2 DEF UsageInit, Min
<1>2. buckets \in Tables /\ booked = buckets
  BY ZeroCounts DEF UsageInit, Tables
<1>3. bodies \in [Bodies -> Captures]
  <2>1. [at : {"read", "none"}, tokens : {0}, inLine : {FALSE}, cut : {FALSE},
         finished : {FALSE}, failed : BOOLEAN] \subseteq Captures
    <3>1. {"read", "none"} \subseteq {"read", "none", "read to its end", "closed"}
          /\ {0} \subseteq Int /\ {FALSE} \subseteq BOOLEAN
      OBVIOUS
    <3> QED
      BY <3>1, Zenon DEF Captures
  <2> QED
    BY <2>1 DEF UsageInit
<1>4. RecordTypes
  BY NoRecordTyped DEF UsageInit, RecordTypes
<1>5. BridgeTypes
  <2>1. metadata \in InForce /\ settings \in InForce
    <3>1. [model |-> FirstModel, skip |-> FALSE] \in InForce
      BY UsageAssumption DEF InForce
    <3> QED
      BY <3>1 DEF UsageInit
  <2>2. inbound \in [at : Pauses, message : Messages] /\ inbound.at = "read"
    BY NothingIsMessage DEF UsageInit, Pauses
  <2>3. outbound \in [at : Pauses, last : BOOLEAN]
    BY Zenon DEF UsageInit, Pauses
  <2>4. recorded \in [usage : BOOLEAN, responses : [1 .. MaxRequests -> Int]]
    <3>1. [r \in 1 .. MaxRequests |-> -1] \in [1 .. MaxRequests -> Int]
      OBVIOUS
    <3> QED
      BY <3>1, Zenon DEF UsageInit
  <2>5. requests \in Seq(Responses) /\ Len(requests) <= MaxRequests
    BY UsageAssumption DEF UsageInit
  <2> QED
    BY <2>1, <2>2, <2>3, <2>4, <2>5 DEF BridgeTypes
<1> QED
  BY <1>1, <1>2, <1>3, <1>4, <1>5 DEF UsageInv, UsageTypes, Kept

LEMMA UsageKeeps ==
  ASSUME UsageInv, Kept, [UsageNext]_usageVars
  PROVE  (UsageInv /\ Kept)'
<1>1. CASE UNCHANGED usageVars
  <2>1. RecordTypes' /\ UNCHANGED <<now, bridgeVars, bodies, buckets, booked>>
    BY <1>1, NotStamped DEF usageVars, UsageInv
  <2> QED
    BY <2>1, CaptureKeeps DEF UsageInv, UsageTypes
<1>2. CASE Copying
  <2>1. CASE EndInbound
    BY <2>1, QuietKeeps DEF EndInbound
  <2>2. CASE EndOutbound
    BY <2>2, QuietKeeps DEF EndOutbound
  <2>3. CASE CloseOnShutdown
    BY <2>3, QuietKeeps DEF CloseOnShutdown
  <2> QED
    BY <1>2, <2>1, <2>2, <2>3, DialKeeps, ForwardMessageKeeps, ForwardEventKeeps, EndBridgeKeeps,
       CommitKeeps DEF Copying
<1>3. CASE Peers
  <2>1. ASSUME NEW peer \in {"client", "upstream"}, Leave(peer)
        PROVE  (UsageInv /\ Kept)'
    BY <2>1, QuietKeeps DEF Leave
  <2> QED
    BY <1>3, <2>1, ReadMessageKeeps, ReadEventKeeps DEF Peers
<1>4. CASE Captured
  BY <1>4, CapturedKeeps
<1>5. CASE Shutdown
  <2>1. RecordTypes' /\ UNCHANGED <<now, bridgeVars, bodies, buckets, booked>>
    BY <1>5, NotStamped DEF Shutdown, UsageInv
  <2> QED
    BY <2>1, CaptureKeeps DEF UsageInv, UsageTypes
<1>6. CASE Tick
  BY <1>6, TickKeeps
<1> QED
  BY <1>1, <1>2, <1>3, <1>4, <1>5, <1>6 DEF UsageNext

(* The accounting keeps its types: a record waits under a dimension of its   *)
(* connection and with a time that has come (RecordUsage).                   *)
THEOREM UsageTypesHold == UsageSpec => []UsageInv
<1>1. UsageInv /\ Kept /\ [UsageNext]_usageVars => (UsageInv /\ Kept)'
  BY UsageKeeps
<1> QED
  BY <1>1, UsageStarts, PTL DEF UsageSpec

(* Whatever records prune and in whatever order they commit, a report over a *)
(* window or the day, and its timeseries in every step, shows all that was   *)
(* ever booked in it (pruneUsageData, aggregateUsageRangeDB,                 *)
(* fillUsageTimeseriesZeros).                                                *)
THEOREM ReportsAreComplete == UsageSpec => []ReportsComplete
<1>1. UsageInv /\ Kept /\ [UsageNext]_usageVars => (UsageInv /\ Kept)'
  BY UsageKeeps
<1>2. UsageInv /\ Kept => ReportsComplete
  BY ReportsFollow DEF UsageInv, UsageTypes
<1> QED
  BY <1>1, <1>2, UsageStarts, PTL DEF UsageSpec

-----------------------------------------------------------------------------
(* What was used is booked once.  A record that waits counts as booked.      *)
Awaited(who, d) == IF pending[who].waits /\ pending[who].dimension = d THEN pending[who].counters ELSE Zero
Booked(who, d) == Add(Sum(booked, d), Awaited(who, d))

(* A captured body: nothing until it is finished, and then all it told.      *)
Use(b) == [requests |-> 1, failed |-> IF bodies[b].failed THEN 1 ELSE 0, tokens |-> bodies[b].tokens]

BodyInv(b) ==
  /\ bodies[b].at = "read" => ~bodies[b].finished
  /\ bodies[b].at = "read to its end" => bodies[b].finished
  /\ bodies[b].at = "closed" /\ b \in Proxied => bodies[b].finished
  /\ ~bodies[b].finished => ~pending[b].waits
  /\ b \notin excuse => Booked(b, b) = IF bodies[b].finished THEN Use(b) ELSE Zero

BodiesInv == \A b \in Bodies : BodyInv(b)

(* Where the goroutines of the bridge are, and the record of the bridge.     *)
PlacesInv ==
  /\ bridge # "copy" => inbound.at # "forward" /\ outbound.at # "forward"
  /\ bridge \notin {"copy", "ended"} => requests = <<>>
  /\ bridge \in {"dial", "copy"} /\ outbound.at # "forward" => ~pending["bridge"].waits

(* A client that waits for each response: the messages that ask for one or   *)
(* change the metadata come between two responses.                           *)
Asking == inbound.at = "forward" /\ inbound.message.kind = "create"
Saying == inbound.at = "forward" /\ (inbound.message.kind = "create" \/ Names(inbound.message))

PoliteInv ==
  /\ Saying => ~Waiting
  /\ \A i \in 1 .. Len(requests) - 1 : requests[i].done
  /\ Waiting => /\ metadata.model = requests[Len(requests)].model
                /\ metadata.skip = requests[Len(requests)].skip
  /\ inbound.at = "forward" => metadata = Left(inbound.message)
  /\ inbound.at = "read" => metadata = settings

(* What recordWebSocketUsage remembers of each response.                     *)
Remembered(i) ==
  IF ~named \/ i > Len(requests) THEN -1
  ELSE IF requests[i].skip THEN -1 ELSE IF requests[i].first = -1 THEN -1 ELSE requests[i].last

RecordedInv ==
  /\ \A i \in 1 .. MaxRequests : recorded.responses[i] = Remembered(i)
  /\ recorded.usage <=> Told # {}
  /\ \A i \in DOMAIN requests : /\ requests[i].first >= -1 /\ requests[i].last >= 0 /\ requests[i].events >= 0
                                /\ (requests[i].first = -1 <=> requests[i].events = 0)

Dues == [i \in DOMAIN requests |-> Due(requests[i])]
One == [requests |-> 1, failed |-> IF bridge = "refused" THEN 1 ELSE 0, tokens |-> 0]
Alone == bridge \in {"ended", "refused"} /\ Told = {}

SumsInv ==
  \A m \in Models :
    Booked("bridge", m) = IF Alone THEN IF m = metadata.model THEN One ELSE Zero
                          ELSE AddAll(Dues, Owed(m))

BridgeInv == "bridge" \notin excuse => PoliteInv /\ RecordedInv /\ SumsInv

BookInv == BodiesInv /\ PlacesInv /\ BridgeInv

LEMMA StartsFinite == IsFiniteSet(Starts)
<1> DEFINE f == [t \in Times |-> BucketStart(t)]
<1>1. f \in Surjection(Times, Starts)
  BY DEF Surjection, Starts
<1> QED
  BY <1>1, UsageAssumption, FS_Surjection

LEMMA SumCounts ==
  ASSUME NEW table \in Tables, NEW d \in Dimensions
  PROVE  Sum(table, d) \in Counts
<1> DEFINE v == [s \in Starts |-> table[s][d]]
<1>1. \A s \in Starts : v[s] \in Counts
  BY DEF Tables
<1>2. Sum(table, d) = AddAll(v, Starts)
  BY DEF Sum
<1> HIDE DEF v
<1> QED
  BY <1>1, <1>2, StartsFinite, AddAllCounts

LEMMA SumUpserted ==
  ASSUME NEW r \in Records, r.at \in Times, NEW table \in Tables, NEW d \in Dimensions
  PROVE  Sum(Upsert(r, table), d) =
           IF d = r.dimension THEN Add(Sum(table, d), r.counters) ELSE Sum(table, d)
<1> DEFINE v == [s \in Starts |-> table[s][d]]
           w == [s \in Starts |-> Upsert(r, table)[s][d]]
           b == BucketStart(r.at)
<1>1. b \in Starts /\ r.counters \in Counts /\ r.dimension \in Dimensions
  BY Settings DEF Records
<1>2. /\ \A s \in Starts : v[s] \in Counts
      /\ \A s \in Starts : w[s] = IF s = b /\ d = r.dimension THEN Add(v[s], r.counters) ELSE v[s]
  BY Upserted DEF Tables
<1>3. Sum(table, d) = AddAll(v, Starts) /\ Sum(Upsert(r, table), d) = AddAll(w, Starts)
  BY DEF Sum
<1> HIDE DEF v, w, b
<1>4. CASE d = r.dimension
  <2> DEFINE rest == AddAll(v, Starts \ {b})
  <2>1. v[b] \in Counts /\ w[b] = Add(v[b], r.counters)
    BY <1>1, <1>2, <1>4
  <2>2. IsFiniteSet(Starts) /\ IsFiniteSet(Starts \ {b})
    BY StartsFinite, FS_RemoveElement
  <2>3. rest \in Counts
    BY <1>2, <2>2, AddAllCounts
  <2>4. AddAll(v, Starts) = Add(v[b], rest)
    BY <1>1, <1>2, <2>2, AddAllTakes
  <2>5. AddAll(w, Starts) = Add(w[b], AddAll(w, Starts \ {b}))
    <3>1. \A s \in Starts : w[s] \in Counts
      BY <1>1, <1>2, AddCounts
    <3> QED
      BY <1>1, <2>2, <3>1, AddAllTakes
  <2>6. AddAll(w, Starts \ {b}) = rest
    BY <1>2, <2>2, AddAllSame
  <2> HIDE DEF rest
  <2>7. Add(Add(v[b], r.counters), rest) = Add(Add(v[b], rest), r.counters)
    BY <1>1, <2>1, <2>3, AddMoves
  <2> QED
    BY <1>3, <1>4, <2>1, <2>4, <2>5, <2>6, <2>7
<1>5. CASE d # r.dimension
  <2>1. \A s \in Starts : v[s] = w[s]
    BY <1>2, <1>5
  <2> QED
    BY <1>3, <1>5, <2>1, StartsFinite, AddAllSame
<1> QED
  BY <1>4, <1>5

(* No two connections book under one dimension.                              *)
LEMMA OwnDimensions ==
  ASSUME NEW who \in Connections, NEW d \in Own(who)
  PROVE  d \in Dimensions /\ \A other \in Connections \ {who} : d \notin Own(other)
BY UsageAssumption DEF Own, Dimensions, Connections

LEMMA AwaitedCounts ==
  ASSUME RecordTypes, NEW who \in Connections, NEW d
  PROVE  Awaited(who, d) \in Counts
BY ZeroCounts DEF Awaited, RecordTypes, Records

LEMMA BookedStays ==
  ASSUME NEW who, NEW d, booked' = booked, pending'[who] = pending[who]
  PROVE  Booked(who, d)' = Booked(who, d)
BY DEF Booked, Awaited, Sum

LEMMA BookedCommits ==
  ASSUME UsageInv, NEW who \in Connections, NEW by \in Connections, Commit(by), NEW d \in Own(who)
  PROVE  (who \in excuse' /\ by = who) \/ (Booked(who, d)' = Booked(who, d) /\ excuse' \subseteq excuse \cup {by})
<1> DEFINE r == pending[by]
<1>1. /\ r \in Records /\ r.at \in Times /\ r.waits /\ r.dimension \in Own(by)
      /\ pending' = [pending EXCEPT ![by] = NoRecord] /\ pending \in [Connections -> Records]
      /\ booked \in Tables
  BY DEF Commit, UsageInv, RecordTypes, UsageTypes
<1>2. d \in Dimensions /\ \A other \in Connections \ {who} : d \notin Own(other)
  BY OwnDimensions
<1>3. Sum(booked, d) \in Counts /\ r.counters \in Counts
  BY <1>1, <1>2, SumCounts DEF Records
<1>4. CASE excuse' = excuse \cup {by} /\ booked' = booked
  <2>1. CASE by = who
    BY <1>4, <2>1
  <2>2. CASE by # who
    <3>1. pending'[who] = pending[who]
      BY <1>1, <2>2
    <3> QED
      BY <1>4, <3>1, BookedStays
  <2> QED
    BY <2>1, <2>2
<1>5. CASE booked' = Upsert(r, booked) /\ excuse' = excuse
  <2>1. Sum(booked', d) = IF d = r.dimension THEN Add(Sum(booked, d), r.counters) ELSE Sum(booked, d)
    BY <1>1, <1>2, <1>5, SumUpserted
  <2>2. CASE by = who
    <3>1. Awaited(who, d)' = Zero
      BY <1>1, <2>2, NoRecordTyped DEF Awaited
    <3>2. Booked(who, d)' = Add(Sum(booked', d), Zero)
      BY <3>1 DEF Booked, Sum
    <3>3. CASE d = r.dimension
      <4>1. Awaited(who, d) = r.counters
        BY <1>1, <2>2, <3>3 DEF Awaited
      <4>2. Add(Sum(booked, d), r.counters) \in Counts
        BY <1>3, AddCounts
      <4> HIDE DEF r
      <4> QED
        BY <1>5, <2>1, <3>2, <3>3, <4>1, <4>2, AddZero DEF Booked
    <3>4. CASE d # r.dimension
      <4>1. Awaited(who, d) = Zero
        BY <2>2, <3>4 DEF Awaited
      <4> QED
        BY <1>5, <2>1, <3>2, <3>4, <4>1 DEF Booked
    <3> QED
      BY <3>3, <3>4
  <2>3. CASE by # who
    <3>1. pending'[who] = pending[who]
      BY <1>1, <2>3
    <3>2. d # r.dimension
      BY <1>1, <1>2, <2>3
    <3> QED
      BY <1>5, <2>1, <3>1, <3>2 DEF Booked, Awaited, Sum
  <2> QED
    BY <2>2, <2>3
<1> QED
  BY <1>4, <1>5 DEF Commit

LEMMA BookedStamps ==
  ASSUME UsageInv, booked' = booked, NEW who \in Connections, ~pending[who].waits,
         NEW r \in Records, r.waits, Stamp(who, r), who \notin excuse', NEW d \in Dimensions
  PROVE  Booked(who, d)' = Add(Booked(who, d), IF d = r.dimension THEN r.counters ELSE Zero)
<1>1. pending' = [pending EXCEPT ![who] = r] /\ pending \in [Connections -> Records]
  BY DEF Stamp, UsageInv, RecordTypes
<1>2. Sum(booked, d) \in Counts
  BY SumCounts DEF UsageInv, UsageTypes
<1>3. Booked(who, d) = Sum(booked, d)
  BY <1>2, AddZero DEF Booked, Awaited
<1>4. Booked(who, d)' = Add(Sum(booked, d), IF d = r.dimension THEN r.counters ELSE Zero)
  BY <1>1 DEF Booked, Awaited, Sum
<1> QED
  BY <1>3, <1>4

LEMMA StampAside ==
  ASSUME RecordTypes, NEW who \in Connections, (\E r : Stamp(who, r)) \/ NothingToStamp,
         NEW other \in Connections, other # who
  PROVE  pending'[other] = pending[other] /\ (other \in excuse' <=> other \in excuse)
<1>1. CASE NothingToStamp
  BY <1>1 DEF NothingToStamp
<1>2. ASSUME NEW r, Stamp(who, r)
      PROVE  pending'[other] = pending[other] /\ (other \in excuse' <=> other \in excuse)
  BY <1>2 DEF Stamp, RecordTypes
<1> QED
  BY <1>1, <1>2

-----------------------------------------------------------------------------
(* The captured bodies.                                                      *)
LEMMA BodyAside ==
  ASSUME UsageInv, NEW b \in Bodies, BodyInv(b), bodies'[b] = bodies[b], booked' = booked,
         pending'[b] = pending[b], b \notin excuse' => b \notin excuse
  PROVE  BodyInv(b)'
<1>1. Booked(b, b)' = Booked(b, b)
  BY BookedStays
<1>2. Use(b)' = Use(b)
  BY DEF Use
<1>3. b \notin excuse' => Booked(b, b)' = IF bodies'[b].finished THEN Use(b)' ELSE Zero
  BY <1>1, <1>2 DEF BodyInv
<1>4. /\ bodies'[b].at = bodies[b].at /\ bodies'[b].finished = bodies[b].finished
      /\ pending'[b].waits = pending[b].waits
  OBVIOUS
<1>5. ~bodies'[b].finished => ~pending'[b].waits
  BY <1>4 DEF BodyInv
<1> QED
  BY <1>3, <1>4, <1>5 DEF BodyInv

LEMMA BodyConnections ==
  ASSUME NEW b \in Bodies
  PROVE  b \in Connections /\ b # "bridge" /\ b \in Dimensions /\ Own(b) = {b}
BY UsageAssumption DEF Connections, Dimensions, Own

LEMMA BridgeLeavesBodies ==
  ASSUME UsageInv, BodiesInv, (\E r : Stamp("bridge", r)) \/ NothingToStamp, Elsewhere
  PROVE  BodiesInv'
<1> SUFFICES ASSUME NEW b \in Bodies PROVE BodyInv(b)'
  BY DEF BodiesInv
<1>1. "bridge" \in Connections /\ RecordTypes
  BY DEF Connections, UsageInv
<1>2. pending'[b] = pending[b] /\ (b \in excuse' <=> b \in excuse)
  BY <1>1, BodyConnections, StampAside
<1> QED
  BY <1>2, BodyAside DEF BodiesInv, Elsewhere

LEMMA CommitsBodies ==
  ASSUME UsageInv, BodiesInv, NEW by \in Connections, Commit(by)
  PROVE  BodiesInv'
<1> SUFFICES ASSUME NEW b \in Bodies PROVE BodyInv(b)'
  BY DEF BodiesInv
<1>1. b \in Connections /\ b \in Own(b) /\ BodyInv(b)
  BY BodyConnections DEF BodiesInv
<1>2. bodies' = bodies /\ pending' = [pending EXCEPT ![by] = NoRecord] /\ pending \in [Connections -> Records]
  BY DEF Commit, UsageInv, RecordTypes
<1>3. ~pending[b].waits => ~pending'[b].waits
  BY <1>1, <1>2, NoRecordTyped
<1>4. b \notin excuse' => b \notin excuse
  BY DEF Commit
<1>5. b \in excuse' \/ Booked(b, b)' = Booked(b, b)
  BY <1>1, BookedCommits
<1> QED
  BY <1>1, <1>2, <1>3, <1>4, <1>5 DEF BodyInv, Use

LEMMA FinishesBodies ==
  ASSUME UsageInv, BodiesInv, NEW b \in Bodies, NEW at \in {"read to its end", "closed"},
         bodies[b].at \in {"read", "read to its end"},
         FinishOnce(b, at), booked' = booked
  PROVE  BodiesInv'
<1>1. b \in Connections /\ b \in Dimensions /\ BodyInv(b) /\ RecordTypes
  BY BodyConnections DEF BodiesInv, UsageInv
<1>2. bodies[b] \in Captures /\ bodies \in [Bodies -> Captures]
  BY DEF UsageInv, UsageTypes
<1>3. /\ bodies'[b].at = at /\ bodies'[b].finished /\ bodies'[b].tokens = bodies[b].tokens
      /\ bodies'[b].failed = bodies[b].failed
      /\ \A c \in Bodies \ {b} : bodies'[c] = bodies[c]
  BY <1>2 DEF FinishOnce, Captures
<1>4. (\E r : Stamp(b, r)) \/ NothingToStamp
  BY DEF FinishOnce
<1>5. ASSUME NEW c \in Bodies \ {b}
      PROVE  BodyInv(c)'
  <2>1. c \in Connections /\ BodyInv(c)
    BY BodyConnections DEF BodiesInv
  <2>2. pending'[c] = pending[c] /\ (c \in excuse' <=> c \in excuse)
    BY <1>1, <1>4, <2>1, StampAside
  <2> QED
    BY <1>3, <2>1, <2>2, BodyAside
<1>6. Use(b)' = Use(b)
  BY <1>3 DEF Use
<1>7. b \notin excuse' => Booked(b, b)' = Use(b)
  <2> SUFFICES ASSUME b \notin excuse' PROVE Booked(b, b)' = Use(b)
    OBVIOUS
  <2>1. CASE bodies[b].finished
    <3>1. pending' = pending /\ excuse' = excuse
      BY <2>1 DEF FinishOnce, NothingToStamp
    <3>2. Booked(b, b)' = Booked(b, b)
      BY <3>1, BookedStays
    <3> QED
      BY <1>1, <2>1, <3>1, <3>2 DEF BodyInv
  <2>2. CASE ~bodies[b].finished
    <3> DEFINE r == Record(b, bodies[b].tokens, FALSE, bodies[b].failed)
    <3>1. Stamp(b, r)
      BY <2>2 DEF FinishOnce
    <3>2. bodies[b].tokens \in Int
      BY <1>2 DEF Captures
    <3>3. now \in Times
      BY DEF UsageInv, UsageTypes
    <3>4. r \in Records /\ r.waits /\ r.dimension = b
      <4> HIDE DEF r
      <4>1. \A n \in Int : \A correction, failure :
              LET v == Record(b, n, correction, failure)
              IN  v \in Records /\ v.at = now /\ v.dimension = b /\ v.waits
        BY <1>1, <3>3, RecordTyped, Zenon
      <4>2. \A correction, failure :
              LET v == Record(b, bodies[b].tokens, correction, failure)
              IN  v \in Records /\ v.at = now /\ v.dimension = b /\ v.waits
        <5>1. bodies[b].tokens \in Int
          BY <3>2
        <5> QED
          BY <4>1, <5>1, Zenon
      <4> QED
        BY <4>2, Zenon DEF r
    <3>5. r.counters = Use(b)
      BY DEF Record, Use
    <3>6. ~pending[b].waits
      BY <1>1, <2>2 DEF BodyInv
    <3>7. Booked(b, b) = Zero
      BY <1>1, <2>2 DEF BodyInv, Stamp, FinishOnce
    <3> HIDE DEF r
    <3>8. Booked(b, b)' = Add(Booked(b, b), r.counters)
      BY <1>1, <3>1, <3>4, <3>6, BookedStamps
    <3>9. r.counters \in Counts
      BY <3>4 DEF Records
    <3> QED
      BY <3>5, <3>7, <3>8, <3>9, AddZero
  <2> QED
    BY <2>1, <2>2
<1>8. BodyInv(b)'
  BY <1>3, <1>6, <1>7 DEF BodyInv
<1> QED
  BY <1>5, <1>8 DEF BodiesInv

LEMMA CapturesBodies ==
  ASSUME UsageInv, BodiesInv, Captured
  PROVE  BodiesInv'
<1>1. PICK b \in Bodies :
        \/ CutPayload(b) \/ CaptureEOF(b) \/ CaptureClose(b)
        \/ \E tokens \in Amounts, inLine \in BOOLEAN : CaptureUsage(b, tokens, inLine)
  BY DEF Captured
<1>2. bodies[b] \in Captures /\ bodies \in [Bodies -> Captures] /\ BodyInv(b)
  BY DEF UsageInv, UsageTypes, BodiesInv
<1>3. CASE CaptureEOF(b)
  BY <1>3, FinishesBodies DEF CaptureEOF
<1>4. CASE CaptureClose(b) /\ b \in Proxied
  BY <1>4, FinishesBodies DEF CaptureClose
<1>5. CASE CaptureClose(b) /\ b \notin Proxied
  <2>1. bodies' = [bodies EXCEPT ![b].at = "closed"] /\ UNCHANGED <<booked, pending, excuse>>
    BY <1>5 DEF CaptureClose, NothingToStamp
  <2>2. /\ bodies'[b].at = "closed" /\ bodies'[b].finished = bodies[b].finished
        /\ bodies'[b].tokens = bodies[b].tokens /\ bodies'[b].failed = bodies[b].failed
        /\ \A c \in Bodies \ {b} : bodies'[c] = bodies[c]
    BY <1>2, <2>1 DEF Captures
  <2>3. Booked(b, b)' = Booked(b, b)
    BY <2>1, BookedStays
  <2>4. BodyInv(b)'
    BY <1>2, <1>5, <2>1, <2>2, <2>3 DEF BodyInv, Use
  <2>5. \A c \in Bodies \ {b} : BodyInv(c)'
    BY <2>1, <2>2, BodyAside DEF BodiesInv
  <2> QED
    BY <2>4, <2>5 DEF BodiesInv
<1>6. ASSUME (\E tokens \in Amounts, inLine \in BOOLEAN : CaptureUsage(b, tokens, inLine)) \/ CutPayload(b)
      PROVE  BodiesInv'
  <2> DEFINE Reads == /\ UNCHANGED <<booked, pending, excuse>> /\ bodies[b].at = "read"
                      /\ bodies'[b].at = bodies[b].at /\ bodies'[b].finished = bodies[b].finished
                      /\ \A c \in Bodies \ {b} : bodies'[c] = bodies[c]
  <2>1. Reads
    <3>1. ASSUME NEW tokens \in Amounts, NEW inLine \in BOOLEAN, CaptureUsage(b, tokens, inLine)
          PROVE  Reads
      BY <1>2, <3>1 DEF CaptureUsage, Captures
    <3>2. ASSUME CutPayload(b)
          PROVE  Reads
      BY <1>2, <3>2 DEF CutPayload, Captures
    <3> QED
      BY <1>6, <3>1, <3>2
  <2>2. Booked(b, b)' = Booked(b, b)
    BY <2>1, BookedStays
  <2>3. ~bodies[b].finished
    BY <1>2, <2>1 DEF BodyInv
  <2>4. BodyInv(b)'
    BY <1>2, <2>1, <2>2, <2>3 DEF BodyInv
  <2>5. \A c \in Bodies \ {b} : BodyInv(c)'
    BY <2>1, BodyAside DEF BodiesInv
  <2> QED
    BY <2>4, <2>5 DEF BodiesInv
<1> QED
  BY <1>1, <1>3, <1>4, <1>5, <1>6

-----------------------------------------------------------------------------
(* The bridge: what leaves its requests as they are.                         *)
LEMMA PoliteStays ==
  ASSUME PoliteInv, UNCHANGED <<requests, metadata, settings>>,
         inbound' = inbound \/ inbound'.at = "done"
  PROVE  PoliteInv'
BY DEF PoliteInv, Saying, Waiting, Left, Names

LEMMA RecordedStays ==
  ASSUME RecordedInv, UNCHANGED <<recorded, requests, named>>
  PROVE  RecordedInv'
BY DEF RecordedInv, Remembered, Told

LEMMA SumsStay ==
  ASSUME SumsInv, UNCHANGED <<requests, booked>>, pending'["bridge"] = pending["bridge"],
         UNCHANGED <<bridge, metadata>> \/ (~Alone /\ ~Alone')
  PROVE  SumsInv'
<1> SUFFICES ASSUME NEW m \in Models
             PROVE  Booked("bridge", m)' = IF Alone' THEN IF m = metadata'.model THEN One' ELSE Zero
                                           ELSE AddAll(Dues, Owed(m))'
  BY DEF SumsInv
<1>1. Booked("bridge", m)' = Booked("bridge", m)
  BY BookedStays
<1>2. AddAll(Dues, Owed(m))' = AddAll(Dues, Owed(m))
  <2>1. Dues' = Dues /\ Owed(m)' = Owed(m)
    BY DEF Dues, Owed, Told
  <2> QED
    BY <2>1
<1>3. Booked("bridge", m) = IF Alone THEN IF m = metadata.model THEN One ELSE Zero
                            ELSE AddAll(Dues, Owed(m))
  BY DEF SumsInv
<1>4. CASE ~Alone /\ ~Alone'
  BY <1>1, <1>2, <1>3, <1>4
<1>5. CASE UNCHANGED <<bridge, metadata>>
  <2>1. Alone' = Alone /\ One' = One
    BY <1>5 DEF Alone, Told, One
  <2> QED
    BY <1>1, <1>2, <1>3, <1>5, <2>1
<1> QED
  BY <1>4, <1>5

LEMMA BridgeStays ==
  ASSUME BridgeInv, "bridge" \notin excuse' => "bridge" \notin excuse,
         UNCHANGED <<requests, metadata, settings, recorded, named, booked>>,
         pending'["bridge"] = pending["bridge"],
         inbound' = inbound \/ inbound'.at = "done",
         bridge' = bridge \/ (~Alone /\ ~Alone')
  PROVE  BridgeInv'
BY PoliteStays, RecordedStays, SumsStay DEF BridgeInv

LEMMA AsideBridge ==
  ASSUME BridgeInv, PlacesInv, UNCHANGED <<bridgeVars, booked>>, pending'["bridge"] = pending["bridge"],
         "bridge" \notin excuse' => "bridge" \notin excuse
  PROVE  PlacesInv' /\ BridgeInv'
BY BridgeStays DEF PlacesInv, bridgeVars

LEMMA CapturesBridge ==
  ASSUME UsageInv, PlacesInv, BridgeInv, Captured
  PROVE  PlacesInv' /\ BridgeInv'
<1>1. PICK b \in Bodies :
        \/ CutPayload(b) \/ CaptureEOF(b) \/ CaptureClose(b)
        \/ \E tokens \in Amounts, inLine \in BOOLEAN : CaptureUsage(b, tokens, inLine)
  BY DEF Captured
<1>2. UNCHANGED <<bridgeVars, booked>>
  BY <1>1 DEF CutPayload, CaptureEOF, CaptureClose, CaptureUsage
<1>3. UNCHANGED <<pending, excuse>> \/ (\E r : Stamp(b, r)) \/ NothingToStamp
  BY <1>1 DEF CutPayload, CaptureEOF, CaptureClose, CaptureUsage, FinishOnce
<1>4. b \in Connections /\ "bridge" \in Connections /\ b # "bridge"
  BY BodyConnections DEF Connections
<1>5. pending'["bridge"] = pending["bridge"] /\ ("bridge" \in excuse' <=> "bridge" \in excuse)
  BY <1>3, <1>4, StampAside DEF UsageInv
<1> QED
  BY <1>2, <1>5, AsideBridge

LEMMA CommitsBridge ==
  ASSUME UsageInv, PlacesInv, BridgeInv, NEW by \in Connections, Commit(by)
  PROVE  PlacesInv' /\ BridgeInv'
<1>1. UNCHANGED <<bridge, metadata, settings, inbound, outbound, recorded, requests, named>>
      /\ pending' = [pending EXCEPT ![by] = NoRecord] /\ pending \in [Connections -> Records]
      /\ excuse \subseteq excuse'
  BY DEF Commit, bridgeVars, UsageInv, RecordTypes
<1>2. "bridge" \in Connections /\ Own("bridge") = Models
  BY DEF Connections, Own
<1>3. ~pending["bridge"].waits => ~pending'["bridge"].waits
  BY <1>1, <1>2, NoRecordTyped
<1>4. PlacesInv'
  BY <1>1, <1>3 DEF PlacesInv
<1>5. ASSUME "bridge" \notin excuse'
      PROVE  PoliteInv' /\ RecordedInv' /\ SumsInv'
  <2>1. PoliteInv /\ RecordedInv /\ SumsInv
    BY <1>1, <1>5 DEF BridgeInv
  <2>2. PoliteInv' /\ RecordedInv'
    BY <1>1, <2>1, PoliteStays, RecordedStays
  <2>3. ASSUME NEW m \in Models
        PROVE  Booked("bridge", m)' = Booked("bridge", m)
    BY <1>2, <1>5, BookedCommits
  <2>4. /\ Alone' = Alone /\ One' = One
        /\ \A m \in Models : AddAll(Dues, Owed(m))' = AddAll(Dues, Owed(m))
    <3>1. Alone' = Alone /\ One' = One /\ Dues' = Dues
      BY <1>1 DEF Alone, Told, One, Dues
    <3>2. \A m \in Models : Owed(m)' = Owed(m)
      BY <1>1 DEF Owed, Told
    <3> QED
      BY <3>1, <3>2
  <2>5. SumsInv'
    BY <1>1, <2>1, <2>3, <2>4 DEF SumsInv
  <2> QED
    BY <2>2, <2>5
<1> QED
  BY <1>4, <1>5 DEF BridgeInv

(* The response that is due is the last one.                                 *)
LEMMA LastIsAnswered ==
  ASSUME BridgeTypes, PoliteInv, Waiting
  PROVE  /\ Answering = Len(requests) /\ Len(requests) \in DOMAIN requests
         /\ Len(requests) \in 1 .. MaxRequests /\ requests # <<>>
<1>1. Len(requests) \in Nat /\ DOMAIN requests = 1 .. Len(requests)
  BY DEF BridgeTypes
<1>2. Answering \in 1 .. Len(requests) /\ ~requests[Answering].done /\ Answering \in 1 .. MaxRequests
  BY <1>1, AnsweringIs
<1>3. Answering \notin 1 .. Len(requests) - 1
  BY <1>2 DEF PoliteInv
<1> DEFINE n == Len(requests)
<1>4. Answering = n
  <2> HIDE DEF n
  <2>1. ASSUME NEW a \in 1 .. n, a \notin 1 .. n - 1, n \in Nat
        PROVE  a = n
    BY <2>1
  <2> QED
    BY <1>1, <1>2, <1>3, <2>1, Zenon DEF n
<1>5. requests # <<>>
  BY <1>1, <1>2
<1> QED
  BY <1>1, <1>2, <1>4, <1>5

(* Requests that keep what they asked for.                                   *)
LEMMA PoliteAlike ==
  ASSUME PoliteInv, UNCHANGED <<metadata, settings, inbound>>,
         requests \in Seq(Responses), requests' \in Seq(Responses), Len(requests') = Len(requests),
         \A i \in DOMAIN requests :
           /\ requests'[i].model = requests[i].model /\ requests'[i].skip = requests[i].skip
           /\ requests[i].done => requests'[i].done
  PROVE  PoliteInv'
<1>1. /\ Len(requests) \in Nat /\ DOMAIN requests = 1 .. Len(requests)
      /\ DOMAIN requests' = DOMAIN requests
  OBVIOUS
<1>2. Waiting' => Waiting
  BY <1>1 DEF Waiting
<1>3. (requests' = <<>>) <=> (requests = <<>>)
  BY <1>1
<1>4. requests # <<>> => Len(requests) \in DOMAIN requests
  BY <1>1
<1>5. inbound.at = "forward" => metadata' = Left(inbound.message)'
  BY DEF PoliteInv, Left, Names
<1>6. Waiting => requests # <<>>
  BY <1>1 DEF Waiting
<1>7. Saying' = Saying
  BY DEF Saying, Names
<1>8. Waiting' => /\ metadata'.model = requests'[Len(requests')].model
                  /\ metadata'.skip = requests'[Len(requests')].skip
  BY <1>2, <1>4, <1>6 DEF PoliteInv
<1>9. \A i \in 1 .. Len(requests') - 1 : requests'[i].done
  <2>1. \A i \in 1 .. Len(requests) - 1 : i \in DOMAIN requests
    BY <1>1
  <2> QED
    BY <2>1 DEF PoliteInv
<1> QED
  BY <1>2, <1>5, <1>7, <1>8, <1>9 DEF PoliteInv

(* Requests that differ in what is done only.                                *)
Fields(i) == <<requests[i].model, requests[i].skip, requests[i].first, requests[i].last, requests[i].events>>
Alike == /\ Len(requests') = Len(requests) /\ DOMAIN requests' = DOMAIN requests
         /\ \A i \in DOMAIN requests : /\ Fields(i)' = Fields(i)
                                       /\ requests[i].done => requests'[i].done

LEMMA MarkedAlike ==
  ASSUME UsageInv, ForwardEvent
  PROVE  Alike
<1>1. /\ requests' \in Seq(Responses) /\ Len(requests') = Len(requests)
      /\ requests \in Seq(Responses)
  BY MarkedDone DEF ForwardEvent, UsageInv, BridgeTypes
<1>2. DOMAIN requests' = DOMAIN requests
  BY <1>1
<1>3. ASSUME NEW i \in DOMAIN requests
      PROVE  /\ requests'[i].model = requests[i].model /\ requests'[i].skip = requests[i].skip
             /\ requests'[i].first = requests[i].first /\ requests'[i].last = requests[i].last
             /\ requests'[i].events = requests[i].events
             /\ (requests[i].done => requests'[i].done)
  <2>1. requests[i] \in Responses
    BY <1>1
  <2>2. CASE requests' = requests
    BY <2>2
  <2>3. CASE requests' = [requests EXCEPT ![Answering].done = TRUE]
    BY <2>1, <2>3 DEF Responses
  <2> QED
    BY <2>2, <2>3 DEF ForwardEvent
<1> QED
  BY <1>1, <1>2, <1>3 DEF Alike, Fields

LEMMA AlikeKeeps ==
  ASSUME UsageInv, PlacesInv, BridgeInv, ForwardEvent
  PROVE  PlacesInv' /\ BridgeInv'
<1>1. /\ UNCHANGED <<bridge, metadata, settings, inbound, recorded, named, pending, excuse, booked>>
      /\ outbound.at = "forward" /\ ~pending["bridge"].waits /\ bridge = "copy"
  BY DEF ForwardEvent, NothingToStamp, Elsewhere, Idle, PlacesInv
<1>2. Alike
  BY MarkedAlike
<1>3. PlacesInv'
  <2>1. outbound'.at = "read"
    BY DEF ForwardEvent
  <2> QED
    BY <1>1, <2>1 DEF PlacesInv
<1>4. /\ requests' \in Seq(Responses) /\ requests \in Seq(Responses)
      /\ Len(requests) \in Nat /\ DOMAIN requests = 1 .. Len(requests)
      /\ Len(requests') = Len(requests)
  BY MarkedDone DEF ForwardEvent, UsageInv, BridgeTypes
<1>5. \A i \in DOMAIN requests :
        /\ requests'[i].model = requests[i].model /\ requests'[i].skip = requests[i].skip
        /\ requests'[i].first = requests[i].first /\ requests'[i].last = requests[i].last
        /\ requests'[i].events = requests[i].events
        /\ (requests[i].done => requests'[i].done)
  BY <1>2 DEF Alike, Fields
<1>6. ASSUME PoliteInv
      PROVE  PoliteInv'
  BY <1>1, <1>4, <1>5, <1>6, PoliteAlike
<1>7. Told' = Told
  BY <1>2, <1>5 DEF Told, Alike
<1>8. ASSUME RecordedInv
      PROVE  RecordedInv'
  <2>1. ASSUME NEW i \in 1 .. MaxRequests
        PROVE  Remembered(i)' = Remembered(i)
    <3>1. CASE i > Len(requests)
      BY <1>1, <1>4, <3>1 DEF Remembered
    <3>2. CASE ~(i > Len(requests))
      <4>1. i \in DOMAIN requests
        BY <1>4, <3>2
      <4> QED
        BY <1>1, <1>4, <1>5, <4>1 DEF Remembered
    <3> QED
      BY <3>1, <3>2
  <2> QED
    BY <1>1, <1>2, <1>5, <1>7, <1>8, <2>1 DEF RecordedInv, Alike
<1>9. ASSUME SumsInv
      PROVE  SumsInv'
  <2>1. Dues' = Dues
    BY <1>2, <1>5 DEF Dues, Due, Alike
  <2>2. ASSUME NEW m \in Models
        PROVE  Owed(m)' = Owed(m)
    BY <1>5, <1>7 DEF Owed, Told
  <2>3. Alone' = Alone /\ One' = One
    BY <1>1, <1>7 DEF Alone, One
  <2>4. ASSUME NEW m \in Models
        PROVE  Booked("bridge", m)' = Booked("bridge", m)
    BY <1>1, BookedStays
  <2> QED
    BY <1>1, <1>9, <2>1, <2>2, <2>3, <2>4 DEF SumsInv
<1> QED
  BY <1>1, <1>3, <1>6, <1>8, <1>9 DEF BridgeInv

(* A bridge without usage owes nothing, and is booked as one request.        *)
LEMMA NothingOwed ==
  ASSUME Told = {}, NEW m
  PROVE  AddAll(Dues, Owed(m)) = Zero
<1>1. Owed(m) = {}
  BY DEF Owed
<1> QED
  BY <1>1, AddAllNone

LEMMA BookedAlone ==
  ASSUME UsageInv, SumsInv, Told = {}, bridge \in {"dial", "copy"}, bridge' \in {"ended", "refused"},
         UNCHANGED <<metadata, requests, booked>>, ~pending["bridge"].waits,
         NEW failed \in BOOLEAN, failed <=> bridge' = "refused",
         Stamp("bridge", Record(metadata.model, 0, FALSE, failed)), "bridge" \notin excuse'
  PROVE  SumsInv'
<1> DEFINE r == Record(metadata.model, 0, FALSE, failed)
<1>1. metadata.model \in Models /\ metadata.model \in Dimensions /\ "bridge" \in Connections
  BY DEF UsageInv, BridgeTypes, InForce, Dimensions, Connections
<1>2. now \in Times /\ 0 \in Int
  BY DEF UsageInv, UsageTypes
<1>3. r \in Records /\ r.waits /\ r.dimension = metadata.model
  <2> HIDE DEF r
  <2>1. \A n \in Int : \A correction, failure :
          LET v == Record(metadata.model, n, correction, failure)
          IN  v \in Records /\ v.at = now /\ v.dimension = metadata.model /\ v.waits
    <3>1. now \in Times /\ metadata.model \in Dimensions
      BY <1>1, <1>2
    <3> QED
      BY <3>1, RecordTyped, Zenon
  <2> QED
    BY <1>2, <2>1, Zenon DEF r
<1>4. r.counters = One'
  BY DEF Record, One
<1>5. Stamp("bridge", r)
  OBVIOUS
<1> HIDE DEF r
<1>6. Alone'
  BY DEF Alone, Told
<1>7. ASSUME NEW m \in Models
      PROVE  Booked("bridge", m)' = IF m = metadata.model THEN One' ELSE Zero
  <2>1. Booked("bridge", m) = Zero
    BY NothingOwed DEF SumsInv, Alone
  <2>2. m \in Dimensions
    BY DEF Dimensions
  <2>3. Booked("bridge", m)' = Add(Booked("bridge", m), IF m = r.dimension THEN r.counters ELSE Zero)
    BY <1>1, <1>3, <1>5, <2>2, BookedStamps
  <2>4. r.counters \in Counts
    BY <1>3 DEF Records
  <2>5. CASE m = metadata.model
    <3>1. Booked("bridge", m)' = Add(Zero, r.counters)
      BY <1>3, <2>1, <2>3, <2>5
    <3> QED
      BY <1>4, <2>4, <2>5, <3>1, AddZero
  <2>6. CASE m # metadata.model
    <3>1. Booked("bridge", m)' = Add(Zero, Zero)
      BY <1>3, <2>1, <2>3, <2>6
    <3> QED
      BY <2>6, <3>1, AddZero, ZeroCounts
  <2> QED
    BY <2>5, <2>6
<1> QED
  BY <1>6, <1>7 DEF SumsInv

LEMMA DialBooks ==
  ASSUME UsageInv, PlacesInv, BridgeInv, Dial
  PROVE  PlacesInv' /\ BridgeInv'
<1>1. /\ bridge = "dial" /\ requests = <<>> /\ ~pending["bridge"].waits
      /\ UNCHANGED <<metadata, settings, inbound, outbound, recorded, requests, named, booked>>
  BY DEF Dial, Dialed, Elsewhere, PlacesInv
<1>2. \/ (bridge' \in {"copy", "canceled"} /\ NothingToStamp)
      \/ (bridge' = "refused" /\ Stamp("bridge", Record(metadata.model, 0, FALSE, TRUE)))
  BY DEF Dial
<1>3. PlacesInv'
  BY <1>1, <1>2 DEF PlacesInv, NothingToStamp
<1>4. Told = {}
  BY <1>1 DEF Told
<1>5. CASE bridge' \in {"copy", "canceled"} /\ NothingToStamp
  <2>1. ~Alone /\ ~Alone'
    BY <1>1, <1>5 DEF Alone
  <2> QED
    BY <1>1, <1>3, <1>5, <2>1, BridgeStays DEF NothingToStamp
<1>6. CASE bridge' = "refused" /\ Stamp("bridge", Record(metadata.model, 0, FALSE, TRUE))
  <2> SUFFICES ASSUME "bridge" \notin excuse' PROVE PoliteInv' /\ RecordedInv' /\ SumsInv'
    BY <1>3 DEF BridgeInv
  <2>1. PoliteInv /\ RecordedInv /\ SumsInv
    BY <1>6 DEF Stamp, BridgeInv
  <2>2. PoliteInv' /\ RecordedInv'
    BY <1>1, <2>1, PoliteStays, RecordedStays
  <2>3. TRUE \in BOOLEAN /\ (TRUE <=> bridge' = "refused")
    BY <1>6
  <2>4. SumsInv'
    BY <1>1, <1>4, <1>6, <2>1, <2>3, BookedAlone
  <2> QED
    BY <2>2, <2>4
<1> QED
  BY <1>2, <1>5, <1>6

LEMMA EndBridgeBooks ==
  ASSUME UsageInv, PlacesInv, BridgeInv, EndBridge
  PROVE  PlacesInv' /\ BridgeInv'
<1>1. /\ bridge = "copy" /\ bridge' = "ended" /\ inbound.at = "done" /\ outbound.at = "done"
      /\ UNCHANGED <<metadata, settings, inbound, outbound, recorded, requests, named, booked>>
      /\ ~pending["bridge"].waits
  BY DEF EndBridge, Elsewhere, PlacesInv
<1>2. PlacesInv'
  BY <1>1 DEF PlacesInv
<1>3. ASSUME "bridge" \notin excuse'
      PROVE  PoliteInv' /\ RecordedInv' /\ SumsInv'
  <2>1. "bridge" \notin excuse
    BY <1>3 DEF EndBridge, Stamp, NothingToStamp
  <2>2. PoliteInv /\ RecordedInv /\ SumsInv
    BY <2>1 DEF BridgeInv
  <2>3. PoliteInv' /\ RecordedInv'
    BY <1>1, <2>2, PoliteStays, RecordedStays
  <2>4. CASE recorded.usage
    <3>1. Told # {}
      BY <2>2, <2>4 DEF RecordedInv
    <3>2. ~Alone /\ ~Alone'
      BY <1>1, <3>1 DEF Alone, Told
    <3>3. pending' = pending
      BY <2>4 DEF EndBridge, NothingToStamp
    <3> QED
      BY <1>1, <2>2, <2>3, <3>2, <3>3, SumsStay
  <2>5. CASE ~recorded.usage
    <3>1. Told = {}
      BY <2>2, <2>5 DEF RecordedInv
    <3>2. Stamp("bridge", Record(metadata.model, 0, FALSE, FALSE))
      BY <2>5 DEF EndBridge
    <3>3. FALSE \in BOOLEAN /\ (FALSE <=> bridge' = "refused")
      BY <1>1
    <3>4. SumsInv'
      BY <1>1, <1>3, <2>2, <3>1, <3>2, <3>3, BookedAlone
    <3> QED
      BY <2>3, <3>4
  <2> QED
    BY <2>4, <2>5
<1> QED
  BY <1>2, <1>3 DEF BridgeInv

(* A goroutine that ends, and a peer that leaves.                            *)
LEMMA QuietBooks ==
  ASSUME UsageInv, PlacesInv, BridgeInv, Elsewhere, NothingToStamp, bridge = "copy",
         UNCHANGED <<bridge, metadata, settings, recorded, requests, named>>,
         inbound' = inbound \/ inbound'.at = "done",
         outbound' = outbound \/ (outbound'.at = "done" /\ (outbound.at # "forward" \/ Idle))
  PROVE  PlacesInv' /\ BridgeInv'
<1>1. PlacesInv'
  BY DEF PlacesInv, NothingToStamp, Idle
<1>2. UNCHANGED <<booked, pending, excuse>>
  BY DEF Elsewhere, NothingToStamp
<1> QED
  BY <1>1, <1>2, BridgeStays

LEMMA ReadMessageBooks ==
  ASSUME UsageInv, PlacesInv, BridgeInv, NEW m \in Messages, ReadMessage(m)
  PROVE  PlacesInv' /\ BridgeInv'
<1>1. /\ bridge = "copy" /\ inbound.at = "read"
      /\ UNCHANGED <<bridge, outbound, recorded, requests, named, settings, pending, booked>>
  BY DEF ReadMessage, Elsewhere
<1>2. PlacesInv'
  BY <1>1 DEF PlacesInv
<1>3. CASE m.kind = "fast"
  <2>1. inbound'.at = "done" /\ UNCHANGED <<metadata, excuse>>
    BY <1>3 DEF ReadMessage, UsageInv, BridgeTypes
  <2> QED
    BY <1>1, <1>2, <2>1, BridgeStays
<1>4. CASE m.kind # "fast"
  <2>1. /\ inbound' = [at |-> "forward", message |-> m]
        /\ metadata' = IF Names(m) THEN Merged(m) ELSE metadata
        /\ excuse' = IF (m.kind = "create" \/ Names(m)) /\ Waiting THEN excuse \cup {"bridge"} ELSE excuse
    BY <1>4 DEF ReadMessage
  <2> SUFFICES ASSUME "bridge" \notin excuse' PROVE PoliteInv' /\ RecordedInv' /\ SumsInv'
    BY <1>2 DEF BridgeInv
  <2>2. PoliteInv /\ RecordedInv /\ SumsInv /\ (m.kind = "create" \/ Names(m) => ~Waiting)
    BY <2>1 DEF BridgeInv
  <2>3. ~Alone /\ ~Alone'
    BY <1>1 DEF Alone
  <2>4. RecordedInv' /\ SumsInv'
    BY <1>1, <2>2, <2>3, RecordedStays, SumsStay
  <2>5. metadata = settings
    BY <1>1, <2>2 DEF PoliteInv
  <2>6. metadata' = Left(m)
    BY <2>1, <2>5, LeftIsMerged DEF UsageInv
  <2>7. inbound'.at = "forward" /\ inbound'.message = m
    BY <2>1
  <2>8. (Waiting <=> Waiting') /\ Left(m)' = Left(m)
    BY <1>1 DEF Waiting, Left, Names
  <2>9. Saying' => ~Waiting'
    BY <2>2, <2>7, <2>8 DEF Saying, Names
  <2>10. Waiting' => metadata' = metadata
    BY <2>1, <2>2, <2>8
  <2>11. PoliteInv'
    <3>1. metadata' = Left(inbound.message)'
      BY <1>1, <2>6, <2>7 DEF Left, Names
    <3> QED
      BY <1>1, <2>2, <2>7, <2>8, <2>9, <2>10, <3>1 DEF PoliteInv
  <2> QED
    BY <2>4, <2>11
<1> QED
  BY <1>3, <1>4

(* A message that asks for a response is sent on, and owes nothing yet.      *)
LEMMA OwedCounts ==
  ASSUME BridgeTypes, NEW m
  PROVE  /\ IsFiniteSet(Owed(m)) /\ Owed(m) \subseteq DOMAIN requests
         /\ \A i \in DOMAIN requests : Dues[i] = Due(requests[i]) /\ Dues[i] \in Counts
<1>1. DOMAIN requests = 1 .. Len(requests) /\ Len(requests) \in Nat /\ 1 \in Int
  BY DEF BridgeTypes
<1>2. IsFiniteSet(DOMAIN requests)
  BY <1>1, FS_Interval
<1>3. Owed(m) \subseteq DOMAIN requests
  BY DEF Owed, Told
<1>4. ASSUME NEW i \in DOMAIN requests
      PROVE  Dues[i] = Due(requests[i]) /\ Dues[i] \in Counts
  <2>1. requests[i] \in Responses
    BY DEF BridgeTypes
  <2>2. Due(requests[i]) \in Counts
    BY <2>1 DEF Due, Counts, Responses
  <2> QED
    BY <2>2 DEF Dues
<1> QED
  BY <1>2, <1>3, <1>4, FS_Subset

LEMMA ForwardMessageBooks ==
  ASSUME UsageInv, UsageInv', PlacesInv, BridgeInv, ForwardMessage
  PROVE  PlacesInv' /\ BridgeInv'
<1>1. /\ inbound.at = "forward" /\ bridge = "copy"
      /\ inbound' = [at |-> "read", message |-> Nothing]
      /\ requests' = IF inbound.message.kind = "create" THEN Append(requests, Asked(inbound.message)) ELSE requests
      /\ settings' = Left(inbound.message)
      /\ UNCHANGED <<bridge, metadata, outbound, recorded, named, pending, excuse, booked>>
  BY DEF ForwardMessage, NothingToStamp, Elsewhere, PlacesInv
<1>2. PlacesInv'
  BY <1>1 DEF PlacesInv
<1> SUFFICES ASSUME "bridge" \notin excuse' PROVE PoliteInv' /\ RecordedInv' /\ SumsInv'
  BY <1>2 DEF BridgeInv
<1>3. PoliteInv /\ RecordedInv /\ SumsInv
  BY <1>1 DEF BridgeInv
<1>4. ~Saying' /\ inbound'.at = "read" /\ metadata' = settings'
  BY <1>1, <1>3 DEF Saying, PoliteInv
<1>5. ~Alone /\ ~Alone'
  BY <1>1 DEF Alone
<1>6. CASE ~Asking
  <2>1. requests' = requests
    BY <1>1, <1>6 DEF Asking
  <2>2. RecordedInv' /\ SumsInv'
    BY <1>1, <1>3, <1>5, <2>1, RecordedStays, SumsStay
  <2>3. Waiting' = Waiting
    BY <2>1 DEF Waiting
  <2>4. PoliteInv'
    BY <1>1, <1>3, <1>4, <2>1, <2>3 DEF PoliteInv
  <2> QED
    BY <2>2, <2>4
<1>7. CASE Asking
  <2> DEFINE n == Len(requests)
             r == Asked(inbound.message)
  <2>1. requests' = Append(requests, r) /\ requests \in Seq(Responses) /\ r \in Responses
    BY <1>1, <1>7, AskedTyped DEF Asking, UsageInv, BridgeTypes
  <2>2. /\ n \in Nat /\ DOMAIN requests = 1 .. n /\ DOMAIN requests' = 1 .. n + 1
        /\ Len(requests') = n + 1 /\ requests' # <<>> /\ requests'[n + 1] = r
        /\ \A i \in 1 .. n : requests'[i] = requests[i]
    <3> HIDE DEF r
    <3> QED
      BY <2>1
  <2>3. /\ ~r.done /\ r.first = -1 /\ r.last = 0 /\ r.events = 0
        /\ r.model = metadata.model /\ r.skip = metadata.skip
    <3>1. metadata = Left(inbound.message)
      BY <1>1, <1>3 DEF PoliteInv
    <3>2. r.first = -1 /\ r.last = 0 /\ r.events = 0 /\ r.model = metadata.model /\ r.skip = metadata.skip
      BY <3>1 DEF Asked
    <3>3. ~r.done
      BY Zenon DEF Asked
    <3> HIDE DEF r
    <3> QED
      BY <3>2, <3>3
  <2> HIDE DEF n, r
  <2>4. PoliteInv'
    <3>1. \A i \in 1 .. Len(requests') - 1 : requests'[i].done
      <4>1. \A i \in 1 .. n : requests[i].done
        BY <1>3, <1>7, <2>2 DEF PoliteInv, Waiting, Asking, Saying
      <4>2. Len(requests') - 1 = n
        BY <2>2
      <4> QED
        BY <2>2, <4>1, <4>2
    <3>2. metadata'.model = requests'[Len(requests')].model /\ metadata'.skip = requests'[Len(requests')].skip
      BY <1>1, <2>2, <2>3
    <3> QED
      BY <1>4, <3>1, <3>2 DEF PoliteInv
  <2>5. Told' = Told
    <3>1. n + 1 \notin Told'
      BY <2>2, <2>3 DEF Told
    <3>2. \A i \in 1 .. n + 1 : i = n + 1 \/ i \in 1 .. n
      BY <2>2
    <3>3. \A i \in 1 .. n : i \in 1 .. n + 1
      BY <2>2
    <3>4. Told' \subseteq Told
      BY <2>2, <3>1, <3>2 DEF Told
    <3> QED
      BY <2>2, <3>3, <3>4 DEF Told
  <2>6. RecordedInv'
    <3>1. ASSUME NEW i \in 1 .. MaxRequests
          PROVE  Remembered(i)' = Remembered(i)
      <4>1. CASE i \in 1 .. n
        <5>1. ~(i > Len(requests)) /\ ~(i > Len(requests')) /\ requests'[i] = requests[i]
          BY <2>2, <4>1 DEF n
        <5> QED
          BY <1>1, <5>1 DEF Remembered
      <4>2. CASE i = n + 1
        <5>1. i > Len(requests) /\ requests'[i].first = -1
          BY <2>2, <2>3, <4>2 DEF n
        <5> QED
          BY <1>1, <5>1 DEF Remembered
      <4>3. CASE i > n + 1
        <5>1. i > Len(requests) /\ i > Len(requests')
          BY <2>2, <4>3 DEF n
        <5> QED
          BY <1>1, <5>1 DEF Remembered
      <4> QED
        BY <2>2, <4>1, <4>2, <4>3
    <3>2. ASSUME NEW i \in DOMAIN requests'
          PROVE  /\ requests'[i].first >= -1 /\ requests'[i].last >= 0 /\ requests'[i].events >= 0
                 /\ (requests'[i].first = -1 <=> requests'[i].events = 0)
      <4>1. CASE i = n + 1
        BY <2>2, <2>3, <4>1
      <4>2. CASE i \in DOMAIN requests
        BY <1>3, <2>2, <4>2 DEF RecordedInv
      <4> QED
        BY <2>2, <4>1, <4>2
    <3>3. \A i \in 1 .. MaxRequests : recorded'.responses[i] = Remembered(i)'
      BY <1>1, <1>3, <3>1 DEF RecordedInv
    <3>4. recorded'.usage <=> Told' # {}
      BY <1>1, <1>3, <2>5 DEF RecordedInv
    <3> QED
      BY <3>2, <3>3, <3>4 DEF RecordedInv
  <2>7. ASSUME NEW m \in Models
        PROVE  Booked("bridge", m)' = AddAll(Dues', Owed(m)')
    <3>1. Owed(m)' = Owed(m)
      BY <2>2, <2>5 DEF Owed, Told
    <3>2. \A i \in Owed(m) : Dues'[i] = Dues[i]
      <4>1. \A i \in Owed(m) : i \in 1 .. n /\ i \in 1 .. n + 1
        BY <2>2 DEF Owed, Told
      <4> QED
        BY <2>2, <4>1 DEF Dues
    <3>3. IsFiniteSet(Owed(m))
      BY OwedCounts DEF UsageInv
    <3>4. AddAll(Dues', Owed(m)) = AddAll(Dues, Owed(m))
      BY <3>2, <3>3, AddAllSame
    <3>5. Booked("bridge", m)' = Booked("bridge", m)
      BY <1>1, BookedStays
    <3> QED
      BY <1>3, <1>5, <3>1, <3>4, <3>5 DEF SumsInv
  <2>8. SumsInv'
    BY <1>5, <2>7 DEF SumsInv
  <2> QED
    BY <2>4, <2>6, <2>8
<1> QED
  BY <1>6, <1>7

(* Upstream tells of the usage of the response that is due.                  *)
TellsOf(tokens) ==
  requests' = [requests EXCEPT ![Answering].first = IF @ = -1 THEN tokens ELSE @,
                               ![Answering].last = tokens, ![Answering].events = @ + 1]

LEMMA TellsShape ==
  ASSUME BridgeTypes, PoliteInv, Waiting, NEW tokens \in Int, TellsOf(tokens)
  PROVE  LET n == Answering IN
         /\ n = Len(requests) /\ n \in DOMAIN requests /\ n \in 1 .. MaxRequests
         /\ requests' \in Seq(Responses) /\ Len(requests') = n /\ DOMAIN requests' = DOMAIN requests
         /\ \A i \in DOMAIN requests \ {n} : requests'[i] = requests[i]
         /\ requests'[n].model = requests[n].model /\ requests'[n].skip = requests[n].skip
         /\ requests'[n].done = requests[n].done /\ requests'[n].last = tokens
         /\ requests'[n].first = IF requests[n].first = -1 THEN tokens ELSE requests[n].first
         /\ requests'[n].events = requests[n].events + 1
         /\ metadata.model = requests[n].model /\ metadata.skip = requests[n].skip
<1> DEFINE n == Answering
<1>1. n = Len(requests) /\ n \in DOMAIN requests /\ n \in 1 .. MaxRequests
  BY LastIsAnswered
<1>2. requests' \in Seq(Responses) /\ Len(requests') = Len(requests) /\ requests \in Seq(Responses)
  BY ToldTyped DEF TellsOf, BridgeTypes
<1>3. DOMAIN requests' = DOMAIN requests
  BY <1>2
<1>4. requests[n] \in Responses
  BY <1>1, <1>2
<1>5. metadata.model = requests[n].model /\ metadata.skip = requests[n].skip
  BY <1>1 DEF PoliteInv
<1>6. requests' = [requests EXCEPT ![n].first = IF @ = -1 THEN tokens ELSE @,
                                   ![n].last = tokens, ![n].events = @ + 1]
  BY DEF TellsOf
<1> HIDE DEF n
<1>7. /\ \A i \in DOMAIN requests \ {n} : requests'[i] = requests[i]
      /\ requests'[n].model = requests[n].model /\ requests'[n].skip = requests[n].skip
      /\ requests'[n].done = requests[n].done /\ requests'[n].last = tokens
      /\ requests'[n].first = IF requests[n].first = -1 THEN tokens ELSE requests[n].first
      /\ requests'[n].events = requests[n].events + 1
  BY <1>1, <1>2, <1>4, <1>6 DEF Responses
<1> QED
  BY <1>1, <1>2, <1>3, <1>5, <1>7 DEF n

LEMMA TellsPolite ==
  ASSUME BridgeTypes, PoliteInv, Waiting, NEW tokens \in Int, TellsOf(tokens),
         UNCHANGED <<metadata, settings, inbound>>
  PROVE  PoliteInv'
<1>1. requests \in Seq(Responses) /\ requests' \in Seq(Responses) /\ Len(requests') = Len(requests)
  BY TellsShape DEF BridgeTypes
<1>2. \A i \in DOMAIN requests :
        /\ requests'[i].model = requests[i].model /\ requests'[i].skip = requests[i].skip
        /\ requests[i].done => requests'[i].done
  BY TellsShape
<1> QED
  BY <1>1, <1>2, PoliteAlike

LEMMA TellsRecorded ==
  ASSUME BridgeTypes, PoliteInv, RecordedInv, Waiting, NEW tokens \in Nat, TellsOf(tokens),
         Inspect(tokens), named' = named
  PROVE  RecordedInv' /\ Told' = Told \cup {Answering}
<1> DEFINE n == Answering
           r == requests[n]
<1>0. tokens \in Int /\ tokens # -1 /\ tokens >= -1 /\ tokens >= 0
  OBVIOUS
<1>1. /\ n = Len(requests) /\ n \in DOMAIN requests /\ n \in 1 .. MaxRequests
      /\ Len(requests') = n /\ DOMAIN requests' = DOMAIN requests
      /\ \A i \in DOMAIN requests \ {n} : requests'[i] = requests[i]
      /\ requests'[n].skip = r.skip /\ requests'[n].last = tokens
      /\ requests'[n].first = IF r.first = -1 THEN tokens ELSE r.first
      /\ requests'[n].events = r.events + 1
      /\ metadata.skip = r.skip
  BY <1>0, TellsShape
<1>2. r \in Responses /\ DOMAIN requests = 1 .. Len(requests) /\ Len(requests) \in Nat
  BY <1>1 DEF BridgeTypes
<1>3. recorded.responses \in [1 .. MaxRequests -> Int] /\ recorded \in [usage : BOOLEAN, responses : [1 .. MaxRequests -> Int]]
  BY DEF BridgeTypes
<1>4. recorded'.usage /\ recorded'.responses =
        IF ~metadata.skip /\ named THEN [recorded.responses EXCEPT ![n] = tokens] ELSE recorded.responses
  <2>1. CASE metadata.skip
    <3>1. recorded' = [recorded EXCEPT !.usage = TRUE]
      BY <2>1 DEF Inspect
    <3>2. recorded'.responses = recorded.responses
      BY <1>3, <3>1
    <3>3. recorded'.usage
      BY <1>3, <3>1, Zenon
    <3> QED
      BY <2>1, <3>2, <3>3
  <2>2. CASE ~metadata.skip
    <3> DEFINE noted == IF named THEN [recorded.responses EXCEPT ![n] = tokens] ELSE recorded.responses
    <3>1. recorded' = [usage |-> TRUE, responses |-> noted]
      BY <2>2 DEF Inspect
    <3> HIDE DEF noted
    <3>2. recorded'.responses = noted
      BY <3>1
    <3>3. recorded'.usage
      BY <3>1, Zenon
    <3> QED
      BY <2>2, <3>2, <3>3 DEF noted
  <2> QED
    BY <2>1, <2>2
<1>5. requests'[n].first # -1 /\ requests'[n].first >= -1
  BY <1>0, <1>1 DEF RecordedInv
<1>6. Told' = Told \cup {n}
  <2>1. n \in Told'
    BY <1>1, <1>5 DEF Told
  <2> HIDE DEF n, r
  <2> QED
    BY <1>1, <2>1 DEF Told
<1>7. ASSUME NEW i \in 1 .. MaxRequests
      PROVE  recorded'.responses[i] = Remembered(i)'
  <2>1. recorded.responses[i] = Remembered(i)
    BY DEF RecordedInv
  <2>2. CASE i # n
    <3>1. recorded'.responses[i] = recorded.responses[i]
      BY <1>3, <1>4, <2>2
    <3>2. ~(i > Len(requests)) => requests'[i] = requests[i]
      BY <1>1, <1>2, <2>2
    <3>3. Remembered(i)' = Remembered(i)
      <4> HIDE DEF n, r
      <4> QED
        BY <1>1, <3>2 DEF Remembered
    <3> QED
      BY <2>1, <3>1, <3>3
  <2>3. CASE i = n
    <3>1. ~(i > Len(requests)) /\ ~(i > Len(requests'))
      BY <1>1, <1>2, <2>3
    <3>2. CASE ~metadata.skip /\ named
      <4>1. recorded'.responses[i] = tokens
        BY <1>3, <1>4, <2>3, <3>2
      <4>2. Remembered(i)' = tokens
        BY <1>1, <1>5, <2>3, <3>1, <3>2 DEF Remembered
      <4> QED
        BY <4>1, <4>2
    <3>3. CASE metadata.skip \/ ~named
      <4>1. recorded'.responses[i] = Remembered(i)
        BY <1>4, <2>1, <3>3
      <4>2. Remembered(i) = -1 /\ Remembered(i)' = -1
        BY <1>1, <2>3, <3>1, <3>3 DEF Remembered
      <4> QED
        BY <4>1, <4>2
    <3> QED
      BY <3>2, <3>3
  <2> QED
    BY <2>2, <2>3
<1>8. ASSUME NEW i \in DOMAIN requests'
      PROVE  /\ requests'[i].first >= -1 /\ requests'[i].last >= 0 /\ requests'[i].events >= 0
             /\ (requests'[i].first = -1 <=> requests'[i].events = 0)
  <2>1. CASE i # n
    BY <1>1, <2>1 DEF RecordedInv
  <2>2. CASE i = n
    <3>1. r.events >= 0 /\ r.events \in Int
      BY <1>1, <1>2 DEF RecordedInv, Responses
    <3>2. r.events + 1 >= 0 /\ r.events + 1 # 0
      BY <3>1
    <3> QED
      BY <1>0, <1>1, <1>5, <2>2, <3>2
  <2> QED
    BY <2>1, <2>2
<1>9. Told' # {}
  BY <1>6
<1> QED
  BY <1>4, <1>6, <1>7, <1>8, <1>9 DEF RecordedInv

(* What an event adds to the dues of its request.                            *)
Addition(r, tokens) ==
  [requests |-> IF r.first = -1 /\ tokens # 0 THEN 1 ELSE 0, failed |-> 0,
   tokens |-> IF r.first = -1 THEN tokens ELSE tokens - r.last]

LEMMA TellsDue ==
  ASSUME NEW r \in Responses, NEW s \in Responses, NEW tokens \in Nat, s.last = tokens,
         s.first = IF r.first = -1 THEN tokens ELSE r.first
  PROVE  /\ Addition(r, tokens) \in Counts /\ Due(s) \in Counts /\ Due(r) \in Counts
         /\ r.first = -1 => Due(s) = Addition(r, tokens)
         /\ r.first # -1 => Due(s) = Add(Due(r), Addition(r, tokens))
<1>1. r.last \in Int /\ r.first \in Int /\ s.first \in Int /\ s.last \in Int
  BY DEF Responses
<1>2. Addition(r, tokens) \in Counts /\ Due(s) \in Counts /\ Due(r) \in Counts
  BY <1>1 DEF Addition, Due, Counts
<1>3. ASSUME r.first = -1
      PROVE  Due(s) = Addition(r, tokens)
  <2>1. s.first = tokens
    BY <1>3
  <2> QED
    BY <1>3, <2>1 DEF Due, Addition
<1>4. ASSUME r.first # -1
      PROVE  Due(s) = Add(Due(r), Addition(r, tokens))
  <2>1. s.first = r.first /\ r.last + (tokens - r.last) = tokens
    BY <1>1, <1>4
  <2>2. (IF r.first = 0 THEN 0 ELSE 1) + 0 = (IF r.first = 0 THEN 0 ELSE 1) /\ 0 + 0 = 0
    OBVIOUS
  <2> QED
    BY <1>4, <2>1, <2>2 DEF Due, Addition, Add
<1> QED
  BY <1>2, <1>3, <1>4

(* What is booked grows by as much.                                          *)
LEMMA RememberedIsLast ==
  ASSUME BridgeTypes, PoliteInv, RecordedInv, Waiting, ~metadata.skip,
         named \/ requests[Answering].events = 0
  PROVE  /\ Recorded = IF requests[Answering].first = -1 THEN -1 ELSE requests[Answering].last
         /\ Recorded # -1 <=> requests[Answering].first # -1
<1> DEFINE n == Answering
           r == requests[n]
<1>1. n = Len(requests) /\ n \in DOMAIN requests /\ n \in 1 .. MaxRequests /\ ~(n > Len(requests))
  BY LastIsAnswered DEF BridgeTypes
<1>2. r.last >= 0 /\ r.last \in Int /\ (r.first = -1 <=> r.events = 0)
  <2>1. r \in Responses
    BY <1>1 DEF BridgeTypes
  <2>2. r.last \in Int
    BY <2>1 DEF Responses
  <2> QED
    BY <1>1, <2>2 DEF RecordedInv
<1>3. ~r.skip
  BY <1>1 DEF PoliteInv
<1>4. recorded.responses[n] = Remembered(n)
  BY <1>1 DEF RecordedInv
<1>5. Recorded = IF r.first = -1 THEN -1 ELSE r.last
  <2>1. CASE named
    BY <1>1, <1>3, <1>4, <2>1 DEF Recorded, Remembered
  <2>2. CASE ~named
    BY <1>2, <2>2 DEF Recorded
  <2> QED
    BY <2>1, <2>2
<1>6. r.last # -1
  BY <1>2
<1> HIDE DEF n, r
<1> QED
  BY <1>5, <1>6 DEF n, r

LEMMA InspectBooks ==
  ASSUME UsageInv, PoliteInv, RecordedInv, Waiting, NEW tokens \in Nat,
         named \/ requests[Answering].events = 0, Inspect(tokens),
         booked' = booked, ~pending["bridge"].waits, "bridge" \notin excuse', NEW m \in Models
  PROVE  Booked("bridge", m)' =
           Add(Booked("bridge", m), IF m = metadata.model /\ ~metadata.skip
                                    THEN Addition(requests[Answering], tokens) ELSE Zero)
<1> DEFINE r == requests[Answering]
<1>1. m \in Dimensions /\ "bridge" \in Connections /\ metadata.model \in Dimensions /\ now \in Times
  BY DEF Dimensions, Connections, UsageInv, BridgeTypes, InForce, UsageTypes
<1>2. Booked("bridge", m) \in Counts
  <2>1. Sum(booked, m) \in Counts
    BY <1>1, SumCounts DEF UsageInv, UsageTypes
  <2>2. Awaited("bridge", m) \in Counts
    BY <1>1, AwaitedCounts DEF UsageInv
  <2> QED
    BY <2>1, <2>2, AddCounts DEF Booked
<1>3. r \in Responses /\ r.last \in Int
  <2>1. Answering \in DOMAIN requests
    BY LastIsAnswered DEF UsageInv
  <2>2. r \in Responses
    BY <2>1 DEF UsageInv, BridgeTypes
  <2> QED
    BY <2>2 DEF Responses
<1>4. CASE metadata.skip
  <2>1. pending' = pending
    BY <1>4 DEF Inspect, NothingToStamp
  <2>2. Booked("bridge", m)' = Booked("bridge", m)
    BY <2>1, BookedStays
  <2> QED
    BY <1>2, <1>4, <2>2, AddZero
<1>5. CASE ~metadata.skip
  <2>1. /\ Recorded = IF r.first = -1 THEN -1 ELSE r.last
        /\ Recorded # -1 <=> r.first # -1
    BY <1>5, RememberedIsLast DEF UsageInv
  <2>2. Delta(tokens) = IF r.first = -1 THEN tokens ELSE tokens - r.last
    <3> HIDE DEF r
    <3> QED
      BY <2>1 DEF Delta
  <2>3. Delta(tokens) \in Int
    BY <1>3, <2>2
  <2>4. CASE Delta(tokens) = 0
    <3>1. pending' = pending
      BY <1>5, <2>4 DEF Inspect, NothingToStamp
    <3>2. Booked("bridge", m)' = Booked("bridge", m)
      BY <3>1, BookedStays
    <3>3. Addition(r, tokens) = Zero
      <4>1. r.first = -1 => tokens = 0
        BY <2>2, <2>4
      <4>2. (IF r.first = -1 THEN tokens ELSE tokens - r.last) = 0
        BY <2>2, <2>4
      <4> HIDE DEF r
      <4> QED
        BY <4>1, <4>2 DEF Addition, Zero
    <3> QED
      BY <1>2, <3>2, <3>3, AddZero
  <2>5. CASE Delta(tokens) # 0
    <3> DEFINE again == Recorded # -1
               w == Record(metadata.model, Delta(tokens), again, FALSE)
    <3>1. Stamp("bridge", w)
      BY <1>5, <2>5 DEF Inspect
    <3>2. again \in BOOLEAN /\ FALSE \in BOOLEAN
      OBVIOUS
    <3>3. w \in Records /\ w.waits /\ w.dimension = metadata.model
      <4> HIDE DEF again, w
      <4>1. \A n \in Int : \A correction, failure :
              LET v == Record(metadata.model, n, correction, failure)
              IN  v \in Records /\ v.at = now /\ v.dimension = metadata.model /\ v.waits
        <5>1. now \in Times /\ metadata.model \in Dimensions
          BY <1>1
        <5> QED
          BY <5>1, RecordTyped, Zenon
      <4> QED
        BY <2>3, <4>1, Zenon DEF w
    <3>4. w.counters = Addition(r, tokens)
      <4>1. (again <=> r.first # -1) /\ (r.first = -1 => tokens # 0)
        BY <2>1, <2>2, <2>5
      <4>2. w.counters = [requests |-> IF again THEN 0 ELSE 1, failed |-> IF FALSE /\ ~again THEN 1 ELSE 0,
                          tokens |-> Delta(tokens)]
        BY DEF Record
      <4> HIDE DEF w, again, r
      <4>3. (IF again THEN 0 ELSE 1) = (IF r.first = -1 /\ tokens # 0 THEN 1 ELSE 0)
        BY <4>1
      <4> QED
        BY <2>2, <4>2, <4>3 DEF Addition
    <3> HIDE DEF w
    <3>5. Booked("bridge", m)' = Add(Booked("bridge", m), IF m = w.dimension THEN w.counters ELSE Zero)
      BY <1>1, <3>1, <3>3, BookedStamps
    <3> QED
      BY <1>5, <3>3, <3>4, <3>5
  <2> QED
    BY <2>4, <2>5
<1> QED
  BY <1>4, <1>5

LEMMA OwedGrows ==
  ASSUME UsageInv, UsageInv', PoliteInv, Waiting, NEW tokens \in Nat, TellsOf(tokens),
         Told' = Told \cup {Answering}, NEW m \in Models
  PROVE  AddAll(Dues', Owed(m)') =
           Add(AddAll(Dues, Owed(m)), IF m = metadata.model /\ ~metadata.skip
                                      THEN Addition(requests[Answering], tokens) ELSE Zero)
<1> DEFINE n == Answering
           r == requests[n]
           s == requests'[n]
<1>0. tokens \in Int
  OBVIOUS
<1>1. /\ n \in DOMAIN requests /\ DOMAIN requests' = DOMAIN requests
      /\ \A i \in DOMAIN requests \ {n} : requests'[i] = requests[i]
      /\ s.model = r.model /\ s.skip = r.skip /\ s.last = tokens
      /\ s.first = (IF r.first = -1 THEN tokens ELSE r.first)
      /\ metadata.model = r.model /\ metadata.skip = r.skip
  BY <1>0, TellsShape DEF UsageInv
<1>2. r \in Responses /\ s \in Responses
  BY <1>1 DEF UsageInv, BridgeTypes
<1> HIDE DEF n, r, s
<1>3. IsFiniteSet(Owed(m)) /\ Owed(m) \subseteq DOMAIN requests
      /\ \A i \in DOMAIN requests : Dues[i] = Due(requests[i]) /\ Dues[i] \in Counts
  BY OwedCounts DEF UsageInv
<1>4. IsFiniteSet(Owed(m)') /\ Owed(m)' \subseteq DOMAIN requests
      /\ \A i \in DOMAIN requests : Dues'[i] = Due(requests'[i]) /\ Dues'[i] \in Counts
  <2>1. IsFiniteSet(Owed(m))' /\ (Owed(m) \subseteq DOMAIN requests)'
        /\ (\A i \in DOMAIN requests : Dues[i] = Due(requests[i]) /\ Dues[i] \in Counts)'
    <3>1. BridgeTypes'
      BY DEF UsageInv
    <3> QED
      BY <3>1, OwedCounts, PTL
  <2>2. \A i \in DOMAIN requests' : Dues'[i] = Due(requests'[i]) /\ Dues'[i] \in Counts
    BY <2>1 DEF Due, Counts
  <2> QED
    BY <1>1, <2>1, <2>2
<1>5. \A i \in DOMAIN requests \ {n} : Dues'[i] = Dues[i]
  BY <1>1, <1>3, <1>4
<1>6. AddAll(Dues, Owed(m)) \in Counts
  BY <1>3, AddAllCounts
<1>7. \A i \in DOMAIN requests : i # n => (i \in Owed(m)' <=> i \in Owed(m))
  BY <1>1 DEF Owed, n
<1>8. CASE m = r.model /\ ~r.skip
  <2> DEFINE rest == Owed(m) \ {n}
             R == AddAll(Dues, rest)
  <2>1. n \in Owed(m)'
    <3>1. n \in Told' /\ requests'[n].model = m /\ ~requests'[n].skip
      BY <1>1, <1>8 DEF n, s
    <3> QED
      BY <3>1 DEF Owed
  <2>2. Owed(m)' \ {n} = rest
    BY <1>3, <1>4, <1>7
  <2>3. IsFiniteSet(rest) /\ rest \subseteq DOMAIN requests \ {n}
    BY <1>3, FS_Subset
  <2>4. R \in Counts
    BY <1>3, <2>3, AddAllCounts
  <2>5. AddAll(Dues', rest) = R
    BY <1>5, <2>3, AddAllSame
  <2>6. AddAll(Dues', Owed(m)') = Add(Dues'[n], AddAll(Dues', Owed(m)' \ {n}))
    BY <1>4, <2>1, AddAllTakes
  <2> HIDE DEF rest, R
  <2>7. AddAll(Dues', Owed(m)') = Add(Due(s), R)
    BY <1>1, <1>4, <2>2, <2>5, <2>6 DEF s
  <2>8. /\ Addition(r, tokens) \in Counts /\ Due(s) \in Counts /\ Due(r) \in Counts
        /\ r.first = -1 => Due(s) = Addition(r, tokens)
        /\ r.first # -1 => Due(s) = Add(Due(r), Addition(r, tokens))
    BY <1>1, <1>2, TellsDue
  <2>9. CASE r.first = -1
    <3>1. Owed(m) = rest
      BY <2>9 DEF Owed, Told, r, rest
    <3>2. AddAll(Dues, Owed(m)) = R
      BY <3>1 DEF R
    <3> QED
      BY <1>1, <1>8, <2>4, <2>7, <2>8, <2>9, <3>2, AddCommutes DEF n, r
  <2>10. CASE r.first # -1
    <3>1. n \in Owed(m)
      BY <1>1, <1>8, <2>10 DEF Owed, Told, r
    <3>2. AddAll(Dues, Owed(m)) = Add(Dues[n], AddAll(Dues, Owed(m) \ {n}))
      BY <1>3, <3>1, AddAllTakes
    <3>3. AddAll(Dues, Owed(m)) = Add(Due(r), R)
      BY <1>1, <1>3, <3>2 DEF r, R, rest
    <3>4. Add(Add(Due(r), Addition(r, tokens)), R) = Add(Add(Due(r), R), Addition(r, tokens))
      BY <2>4, <2>8, AddMoves
    <3> QED
      BY <1>1, <1>8, <2>7, <2>8, <2>10, <3>3, <3>4 DEF n, r
  <2> QED
    BY <2>9, <2>10
<1>9. CASE ~(m = r.model /\ ~r.skip)
  <2>1. n \notin Owed(m) /\ n \notin Owed(m)'
    BY <1>1, <1>9 DEF Owed, r, s
  <2>2. Owed(m)' = Owed(m)
    BY <1>3, <1>4, <1>7, <2>1
  <2>3. \A i \in Owed(m) : Dues'[i] = Dues[i]
    BY <1>3, <1>5, <2>1
  <2>4. AddAll(Dues', Owed(m)) = AddAll(Dues, Owed(m))
    BY <1>3, <2>3, AddAllSame
  <2> QED
    BY <1>1, <1>6, <1>9, <2>2, <2>4, AddZero
<1> QED
  BY <1>8, <1>9

LEMMA ReadEventBooks ==
  ASSUME UsageInv, UsageInv', PlacesInv, BridgeInv,
         NEW tokens \in Amounts, NEW tells \in BOOLEAN, NEW last \in BOOLEAN,
         ReadEvent(tells, tokens, last)
  PROVE  PlacesInv' /\ BridgeInv'
<1>0. tokens \in Nat
  BY UsageAssumption
<1>1. /\ bridge = "copy" /\ outbound.at = "read" /\ Waiting
      /\ UNCHANGED <<bridge, ends, metadata, settings, inbound, named, booked>>
  BY DEF ReadEvent, Elsewhere
<1>2. PlacesInv'
  <2>1. outbound'.at = "forward"
    BY DEF ReadEvent
  <2> QED
    BY <1>1, <2>1 DEF PlacesInv
<1>3. ~pending["bridge"].waits
  BY <1>1 DEF PlacesInv
<1>4. CASE ~tells
  <2>1. UNCHANGED <<requests, recorded, pending, excuse>>
    BY <1>4 DEF ReadEvent, NothingToStamp
  <2> QED
    BY <1>1, <1>2, <2>1, BridgeStays
<1>5. CASE tells
  <2>1. TellsOf(tokens) /\ Inspect(tokens) /\ (named \/ requests[Answering].events = 0)
    BY <1>5 DEF ReadEvent, TellsOf
  <2> SUFFICES ASSUME "bridge" \notin excuse' PROVE PoliteInv' /\ RecordedInv' /\ SumsInv'
    BY <1>2 DEF BridgeInv
  <2>2. "bridge" \notin excuse
    BY <2>1 DEF Inspect, Stamp, NothingToStamp
  <2>3. PoliteInv /\ RecordedInv /\ SumsInv /\ BridgeTypes
    BY <2>2 DEF BridgeInv, UsageInv
  <2>4. PoliteInv'
    <3>1. tokens \in Int
      BY <1>0
    <3> QED
      BY <1>1, <2>1, <2>3, <3>1, TellsPolite
  <2>5. RecordedInv' /\ Told' = Told \cup {Answering}
    BY <1>0, <1>1, <2>1, <2>3, TellsRecorded
  <2>6. ~Alone /\ ~Alone'
    BY <1>1 DEF Alone
  <2>7. ASSUME NEW m \in Models
        PROVE  Booked("bridge", m)' = AddAll(Dues', Owed(m)')
    <3>1. Booked("bridge", m) = AddAll(Dues, Owed(m))
      BY <2>3, <2>6 DEF SumsInv
    <3>2. Booked("bridge", m)' =
            Add(Booked("bridge", m), IF m = metadata.model /\ ~metadata.skip
                                     THEN Addition(requests[Answering], tokens) ELSE Zero)
      BY <1>0, <1>1, <1>3, <2>1, <2>3, InspectBooks
    <3>3. AddAll(Dues', Owed(m)') =
            Add(AddAll(Dues, Owed(m)), IF m = metadata.model /\ ~metadata.skip
                                       THEN Addition(requests[Answering], tokens) ELSE Zero)
      BY <1>0, <1>1, <2>1, <2>3, <2>5, OwedGrows
    <3> QED
      BY <3>1, <3>2, <3>3
  <2>8. SumsInv'
    BY <2>6, <2>7 DEF SumsInv
  <2> QED
    BY <2>4, <2>5, <2>8
<1> QED
  BY <1>4, <1>5

-----------------------------------------------------------------------------
LEMMA BookStarts ==
  ASSUME UsageInit, UsageInv
  PROVE  BookInv
<1>1. ASSUME NEW who, NEW d \in Dimensions, who \in Connections
      PROVE  Booked(who, d) = Zero /\ ~pending[who].waits
  <2> DEFINE v == [s \in Starts |-> booked[s][d]]
  <2>1. \A s \in Starts : v[s] = Zero
    BY DEF UsageInit
  <2>2. Sum(booked, d) = AddAll(v, Starts)
    BY DEF Sum
  <2> HIDE DEF v
  <2>3. Sum(booked, d) = Zero
    BY <2>1, <2>2, StartsFinite, AddAllZeros
  <2>4. ~pending[who].waits
    BY <1>1, NoRecordTyped DEF UsageInit
  <2> QED
    BY <2>3, <2>4, ZeroCounts, AddZero DEF Booked, Awaited
<1>2. BodiesInv
  <2> SUFFICES ASSUME NEW b \in Bodies PROVE BodyInv(b)
    BY DEF BodiesInv
  <2>1. Booked(b, b) = Zero /\ ~pending[b].waits
    BY <1>1, BodyConnections
  <2>2. bodies[b] \in [at : {"read", "none"}, tokens : {0}, inLine : {FALSE}, cut : {FALSE},
                       finished : {FALSE}, failed : BOOLEAN]
    BY DEF UsageInit
  <2>3. bodies[b].at \in {"read", "none"}
    BY <2>2
  <2>4. ~bodies[b].finished
    <3>1. bodies[b].finished \in {FALSE}
      BY <2>2, Zenon
    <3> QED
      BY <3>1
  <2> QED
    BY <2>1, <2>3, <2>4 DEF BodyInv
<1>3. "bridge" \in Connections
  BY DEF Connections
<1>4. /\ inbound.at = "read" /\ outbound.at = "read" /\ requests = <<>> /\ Len(requests) = 0
      /\ DOMAIN requests = {} /\ bridge \in {"dial", "none"}
      /\ metadata = [model |-> FirstModel, skip |-> FALSE] /\ settings = metadata
      /\ recorded = [usage |-> FALSE, responses |-> [r \in 1 .. MaxRequests |-> -1]]
  BY DEF UsageInit
<1>5. PlacesInv
  BY <1>1, <1>3, <1>4, UsageAssumption DEF PlacesInv, Dimensions
<1>6. Told = {}
  BY <1>4 DEF Told
<1>7. PoliteInv
  BY <1>4 DEF PoliteInv, Saying, Waiting
<1>8. RecordedInv
  <2>1. ~recorded.usage
    BY <1>4, Zenon
  <2>2. recorded.responses = [r \in 1 .. MaxRequests |-> -1]
    BY <1>4
  <2>3. \A i \in 1 .. MaxRequests : recorded.responses[i] = Remembered(i)
    BY <1>4, <2>2 DEF Remembered
  <2> QED
    BY <1>4, <1>6, <2>1, <2>3 DEF RecordedInv
<1>9. SumsInv
  <2>1. ~Alone
    BY <1>4 DEF Alone
  <2>2. ASSUME NEW m \in Models
        PROVE  Booked("bridge", m) = AddAll(Dues, Owed(m))
    BY <1>1, <1>3, <1>6, NothingOwed DEF Dimensions
  <2> QED
    BY <2>1, <2>2 DEF SumsInv
<1> QED
  BY <1>2, <1>5, <1>7, <1>8, <1>9 DEF BookInv, BridgeInv

LEMMA BookStays ==
  ASSUME UsageInv, BookInv, UNCHANGED <<bridgeVars, bodies, pending, booked, excuse>>
  PROVE  BookInv'
<1>1. BodiesInv'
  BY BodyAside DEF BookInv, BodiesInv
<1>2. PlacesInv' /\ BridgeInv'
  BY AsideBridge DEF BookInv
<1> QED
  BY <1>1, <1>2 DEF BookInv

LEMMA BookKeeps ==
  ASSUME UsageInv, UsageInv', BookInv, [UsageNext]_usageVars
  PROVE  BookInv'
<1>0. BodiesInv /\ PlacesInv /\ BridgeInv
  BY DEF BookInv
<1>1. CASE UNCHANGED usageVars
  BY <1>1, BookStays DEF usageVars
<1>2. CASE Shutdown \/ Tick
  BY <1>2, BookStays DEF Shutdown, Tick
<1>3. CASE Captured
  BY <1>0, <1>3, CapturesBodies, CapturesBridge DEF BookInv
<1>4. ASSUME NEW by \in Connections, Commit(by)
      PROVE  BookInv'
  BY <1>0, <1>4, CommitsBodies, CommitsBridge DEF BookInv
<1>5. CASE Dial
  <2>1. (\E r : Stamp("bridge", r)) \/ NothingToStamp
    BY <1>5 DEF Dial
  <2> QED
    BY <1>0, <1>5, <2>1, BridgeLeavesBodies, DialBooks DEF BookInv, Dial
<1>6. CASE EndBridge
  <2>1. (\E r : Stamp("bridge", r)) \/ NothingToStamp
    BY <1>6 DEF EndBridge
  <2> QED
    BY <1>0, <1>6, <2>1, BridgeLeavesBodies, EndBridgeBooks DEF BookInv, EndBridge
<1>7. CASE ForwardMessage
  BY <1>0, <1>7, BridgeLeavesBodies, ForwardMessageBooks DEF BookInv, ForwardMessage
<1>8. CASE ForwardEvent
  BY <1>0, <1>8, BridgeLeavesBodies, AlikeKeeps DEF BookInv, ForwardEvent
<1>9. CASE EndInbound
  <2>1. inbound'.at = "done"
    BY <1>9 DEF EndInbound
  <2> QED
    BY <1>0, <1>9, <2>1, BridgeLeavesBodies, QuietBooks DEF BookInv, EndInbound
<1>10. CASE EndOutbound
  <2>1. outbound'.at = "done" /\ (outbound.at # "forward" \/ Idle)
    BY <1>10 DEF EndOutbound
  <2> QED
    BY <1>0, <1>10, <2>1, BridgeLeavesBodies, QuietBooks DEF BookInv, EndOutbound
<1>11. CASE CloseOnShutdown
  BY <1>0, <1>11, BridgeLeavesBodies, QuietBooks DEF BookInv, CloseOnShutdown
<1>12. ASSUME NEW peer \in {"client", "upstream"}, Leave(peer)
       PROVE  BookInv'
  BY <1>0, <1>12, BridgeLeavesBodies, QuietBooks DEF BookInv, Leave
<1>13. ASSUME NEW m \in Messages, ReadMessage(m)
       PROVE  BookInv'
  <2>1. BodiesInv'
    <3> SUFFICES ASSUME NEW b \in Bodies PROVE BodyInv(b)'
      BY DEF BodiesInv
    <3>1. pending' = pending /\ bodies' = bodies /\ booked' = booked
      BY <1>13 DEF ReadMessage, Elsewhere
    <3>2. b \notin excuse' => b \notin excuse
      BY <1>13 DEF ReadMessage
    <3> QED
      BY <1>0, <3>1, <3>2, BodyAside DEF BodiesInv
  <2> QED
    BY <1>0, <1>13, <2>1, ReadMessageBooks DEF BookInv
<1>14. ASSUME NEW tokens \in Amounts, NEW tells \in BOOLEAN, NEW last \in BOOLEAN,
              ReadEvent(tells, tokens, last)
       PROVE  BookInv'
  <2>1. (\E r : Stamp("bridge", r)) \/ NothingToStamp
    BY <1>14 DEF ReadEvent, Inspect
  <2>2. Elsewhere
    BY <1>14 DEF ReadEvent
  <2>3. BodiesInv'
    BY <1>0, <2>1, <2>2, BridgeLeavesBodies
  <2> QED
    BY <1>0, <1>14, <2>3, ReadEventBooks DEF BookInv
<1>15. CASE Copying
  BY <1>4, <1>5, <1>6, <1>7, <1>8, <1>9, <1>10, <1>11, <1>15 DEF Copying
<1>16. CASE Peers
  BY <1>12, <1>13, <1>14, <1>16 DEF Peers
<1> QED
  BY <1>1, <1>2, <1>3, <1>15, <1>16 DEF UsageNext

LEMMA BookFollows ==
  ASSUME UsageInv, BookInv
  PROVE  UsageBooked
<1>1. ASSUME NEW who \in Connections, ~pending[who].waits, NEW d \in Dimensions
      PROVE  Booked(who, d) = Sum(booked, d)
  <2>1. Sum(booked, d) \in Counts
    BY SumCounts DEF UsageInv, UsageTypes
  <2> QED
    BY <1>1, <2>1, AddZero DEF Booked, Awaited
<1>2. BodyBooked
  <2> SUFFICES ASSUME NEW b \in Bodies, ~pending[b].waits, b \notin excuse,
                      bodies[b].at \in {"read to its end", "closed"}
               PROVE  Sum(booked, b) = IF b \in Proxied \/ bodies[b].finished THEN Use(b) ELSE Zero
    BY DEF BodyBooked, Resting, Use
  <2>1. Booked(b, b) = Sum(booked, b)
    BY <1>1, BodyConnections
  <2>2. BodyInv(b)
    BY DEF BookInv, BodiesInv
  <2>3. bodies[b].finished <=> b \in Proxied \/ bodies[b].finished
    BY <2>2 DEF BodyInv
  <2> QED
    BY <2>1, <2>2, <2>3 DEF BodyInv
<1>3. BridgeBooked
  <2> SUFFICES ASSUME bridge = "ended" \/ bridge = "refused", ~pending["bridge"].waits, "bridge" \notin excuse
               PROVE  IF Told = {}
                      THEN \E used \in Models : \A m \in Models :
                             Sum(booked, m) = IF m = used THEN One ELSE Zero
                      ELSE \A m \in Models : Sum(booked, m) = AddAll(Dues, Owed(m))
    BY DEF BridgeBooked, Idle, One, Dues
  <2>1. ASSUME NEW m \in Models
        PROVE  Booked("bridge", m) = Sum(booked, m)
    BY <1>1 DEF Connections, Dimensions
  <2>2. SumsInv
    BY DEF BookInv, BridgeInv
  <2>3. Alone <=> Told = {}
    BY DEF Alone
  <2>4. metadata.model \in Models
    BY DEF UsageInv, BridgeTypes, InForce
  <2> QED
    BY <2>1, <2>2, <2>3, <2>4 DEF SumsInv
<1> QED
  BY <1>2, <1>3 DEF UsageBooked

(* What upstream told of a request is booked once, under the settings in     *)
(* force when it was sent, whatever the goroutines of the bridge, the        *)
(* captured bodies and the commits of their records do in between            *)
(* (RecordUsage, recordWebSocketUsage, usageCaptureReadCloser).              *)
THEOREM UsageIsBooked == UsageSpec => []UsageBooked
<1>1. UsageInit => UsageInv /\ Kept /\ BookInv
  BY UsageStarts, BookStarts
<1>2. UsageInv /\ Kept /\ BookInv /\ [UsageNext]_usageVars => (UsageInv /\ Kept /\ BookInv)'
  BY UsageKeeps, BookKeeps
<1>3. UsageInv /\ BookInv => UsageBooked
  BY BookFollows
<1> QED
  BY <1>1, <1>2, <1>3, PTL DEF UsageSpec
=============================================================================
