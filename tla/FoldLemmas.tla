----------------------------- MODULE FoldLemmas -----------------------------
(***************************************************************************)
(* What a fold computes, for lists of any length and sums of any size.     *)
(*                                                                         *)
(* A fold is defined by a function on the subsets of a finite set: for a   *)
(* list, the sets of its places, of which it takes off the largest.  That  *)
(* such a function exists, and what it comes to, is shown by induction     *)
(* over these subsets.  It is first-order: no operator is a parameter, the *)
(* subsets for which the claim holds are a set, and one that is not in it  *)
(* would have a least cardinality.                                         *)
(***************************************************************************)
EXTENDS Integers, SequencesExt, SequenceTheorems, FiniteSetTheorems, TLAPS

\* A set of numbers has a least one.
LEMMA Least ==
  ASSUME NEW S, S \subseteq Nat, S # {} PROVE \E n \in S : \A m \in S : n <= m
<1>1. IsWellFoundedOn(OpToRel(<, Nat), Nat)
  BY NatLessThanWellFounded
<1>2. PICK n \in S : \A m \in S : ~(<<m, n>> \in OpToRel(<, Nat))
  BY <1>1, WFMin
<1>3. \A m \in S : ~(m < n)
  BY <1>2 DEF OpToRel
<1>4. QED
  BY <1>3

\* Induction up to n, over the set of the numbers that have a property.
LEMMA UpTo ==
  ASSUME NEW n \in Nat, NEW S, 0 \in S, \A k \in 1..n : k - 1 \in S => k \in S
  PROVE  0..n \subseteq S
<1> DEFINE Bad == {k \in 0..n : k \notin S}
<1>1. CASE Bad # {}
  <2>a. Bad \subseteq Nat /\ Bad # {}
    BY <1>1
  <2> HIDE DEF Bad
  <2>1. PICK k \in Bad : \A m \in Bad : k <= m
    BY <2>a, Least
  <2> USE DEF Bad
  <2>2. k \in 1..n /\ k - 1 \in 0..n /\ ~(k <= k - 1)
    BY <2>1
  <2>3. k - 1 \in S
    BY <2>1, <2>2
  <2>4. QED
    BY <2>1, <2>2, <2>3
<1>2. QED
  BY <1>1

\* it is what a fold over S computes that takes the elements of each set in the order c gives.
IteratesOver(it, S, c, h, base) ==
  \A s \in SUBSET S : it[s] = IF s = {} THEN base ELSE h[<<c[s], it[s \ {c[s]}]>>]

\* c takes an element of each set.
Chooses(c, S) == \A s \in SUBSET S : s # {} => c[s] \in s

\* h takes a value of T and an element of X to a value of T.
Steps(h, X, T) == \A x \in X, t \in T : h[<<x, t>>] \in T

\* it is what FoldLeft over s computes.
FoldsLeft(it, s, h, base) ==
  \A D \in SUBSET DOMAIN s : it[D] = IF D = {} THEN base ELSE h[<<s[Max(D)], it[D \ {Max(D)}]>>]

\* What a fold over a finite set computes, in whatever order it takes the elements, exists.
LEMMA Iterates ==
  ASSUME NEW S, IsFiniteSet(S),
         NEW c, Chooses(c, S), NEW T, NEW base \in T, NEW h, Steps(h, S, T)
  PROVE  \E it \in [SUBSET S -> T] : IteratesOver(it, S, c, h, base)
<1> USE DEF Chooses, Steps, IteratesOver
<1> DEFINE Small(k) == {s \in SUBSET S : Cardinality(s) <= k}
           Fold(g, D) == \A s \in D : g[s] = IF s = {} THEN base ELSE h[<<c[s], g[s \ {c[s]}]>>]
           n == Cardinality(S)
           Done == {k \in 0..n : \E g \in [Small(k) -> T] : Fold(g, Small(k))}
<1>1. /\ n \in Nat /\ \A s \in SUBSET S : IsFiniteSet(s) /\ Cardinality(s) \in 0..n
      /\ \A s \in SUBSET S : Cardinality(s) = 0 => s = {}
  BY FS_CardinalityType, FS_Subset, FS_EmptySet
<1>2. \A s \in SUBSET S : s # {} => /\ c[s] \in s /\ s \ {c[s]} \in SUBSET S
                                    /\ Cardinality(s \ {c[s]}) = Cardinality(s) - 1
  BY <1>1, FS_RemoveElement
<1>3. 0 \in Done
  <2> DEFINE g == [s \in Small(0) |-> base]
  <2>1. \A s \in Small(0) : s = {}
    BY <1>1
  <2>2. g \in [Small(0) -> T] /\ Fold(g, Small(0))
    BY <2>1
  <2> HIDE DEF g
  <2>3. \E w \in [Small(0) -> T] : Fold(w, Small(0))
    BY <2>2
  <2> HIDE DEF Small, Fold
  <2>4. QED
    BY <1>1, <2>3
<1>4. ASSUME NEW k \in 1..n, k - 1 \in Done PROVE k \in Done
  <2>1. PICK g \in [Small(k - 1) -> T] : Fold(g, Small(k - 1))
    BY <1>4
  <2> DEFINE more == [s \in Small(k) |-> IF s \in Small(k - 1) THEN g[s]
                                         ELSE h[<<c[s], g[s \ {c[s]}]>>]]
  <2>2. \A s \in Small(k) : s # {} => s \ {c[s]} \in Small(k - 1) /\ s \ {c[s]} \in Small(k)
    BY <1>1, <1>2
  <2>3. {} \in Small(k - 1) /\ Small(k - 1) \subseteq Small(k)
    BY <1>1, FS_EmptySet
  <2>4. ASSUME NEW s \in Small(k) PROVE more[s] \in T
    <3>1. CASE s \in Small(k - 1)
      BY <3>1
    <3>2. CASE s \notin Small(k - 1)
      <4>1. s # {} /\ s \ {c[s]} \in Small(k - 1) /\ c[s] \in S
        BY <1>2, <2>2, <2>3, <3>2
      <4>2. QED
        BY <3>2, <4>1
    <3>3. QED
      BY <3>1, <3>2
  <2>5. ASSUME NEW s \in Small(k)
        PROVE  more[s] = IF s = {} THEN base ELSE h[<<c[s], more[s \ {c[s]}]>>]
    <3>1. s # {} => more[s \ {c[s]}] = g[s \ {c[s]}]
      BY <2>2
    <3>2. CASE s \in Small(k - 1)
      BY <2>1, <3>1, <3>2
    <3>3. CASE s \notin Small(k - 1)
      BY <2>3, <3>1, <3>3
    <3>4. QED
      BY <3>2, <3>3
  <2>6. more \in [Small(k) -> T] /\ Fold(more, Small(k))
    BY <2>4, <2>5
  <2> HIDE DEF more
  <2>7. \E w \in [Small(k) -> T] : Fold(w, Small(k))
    BY <2>6
  <2> HIDE DEF Small, Fold
  <2>8. QED
    BY <1>1, <2>7
<1>5. n \in Done
  <2> HIDE DEF Done
  <2>1. QED
    BY <1>1, <1>3, <1>4, UpTo
<1>6. Small(n) = SUBSET S
  BY <1>1
<1>7. QED
  BY <1>5, <1>6

\* A nonempty set of places has a last one, and Max gives it.
LEMMA LastOf ==
  ASSUME NEW n \in Nat, NEW D \in SUBSET (1..n), D # {}
  PROVE  Max(D) \in D /\ \A k \in D : k <= Max(D)
<1> DEFINE Back == {n - k : k \in D}
<1>a. Back \subseteq Nat /\ Back # {}
  <2>1. PICK k \in D : TRUE
    OBVIOUS
  <2>2. n - k \in Back
    OBVIOUS
  <2>3. \A m \in D : n - m \in Nat
    OBVIOUS
  <2>4. QED
    BY <2>2, <2>3
<1>1. PICK b \in Back : \A m \in Back : b <= m
  <2> HIDE DEF Back
  <2>1. QED
    BY <1>a, Least
<1>2. PICK last \in D : b = n - last
  OBVIOUS
<1>3. \A k \in D : k <= last
  <2> SUFFICES ASSUME NEW k \in D PROVE k <= last
    OBVIOUS
  <2>1. b <= n - k
    BY <1>1
  <2>2. QED
    BY <1>2, <2>1
<1>4. QED
  BY <1>3 DEF Max

\* FoldLeft over s has a value: the function it is defined by exists.
LEMMA LeftIterates ==
  ASSUME NEW X, NEW s \in Seq(X), NEW T, NEW base \in T, NEW h, Steps(h, X, T)
  PROVE  \E it \in [SUBSET DOMAIN s -> T] : FoldsLeft(it, s, h, base)
<1> DEFINE n == Len(s)
           c == [D \in SUBSET (1..n) |-> Max(D)]
           g == [p \in (1..n) \X T |-> h[<<s[p[1]], p[2]>>]]
<1>1. n \in Nat /\ DOMAIN s = 1..n /\ \A i \in 1..n : s[i] \in X
  BY LenProperties, ElementOfSeq
<1>2. IsFiniteSet(1..n)
  BY <1>1, FS_Interval
<1>3. \A D \in SUBSET (1..n) : D # {} => c[D] \in D
  BY <1>1, LastOf
<1>4. \A i \in 1..n, t \in T : g[<<i, t>>] = h[<<s[i], t>>] /\ g[<<i, t>>] \in T
  BY <1>1 DEF Steps
<1>5. Chooses(c, 1..n) /\ Steps(g, 1..n, T)
  BY <1>3, <1>4 DEF Chooses, Steps
<1> HIDE DEF n, c, g
<1>6. PICK it \in [SUBSET (1..n) -> T] : IteratesOver(it, 1..n, c, g, base)
  BY <1>2, <1>5, Iterates
<1>7. ASSUME NEW D \in SUBSET (1..n)
      PROVE  it[D] = IF D = {} THEN base ELSE h[<<s[Max(D)], it[D \ {Max(D)}]>>]
  <2>1. CASE D = {}
    BY <1>6, <2>1 DEF IteratesOver
  <2>2. CASE D # {}
    <3>1. c[D] = Max(D) /\ Max(D) \in 1..n /\ D \ {Max(D)} \in SUBSET (1..n)
      BY <1>3, <2>2 DEF c
    <3>2. it[D \ {Max(D)}] \in T
      BY <3>1
    <3>3. it[D] = g[<<c[D], it[D \ {c[D]}]>>]
      BY <1>6, <2>2 DEF IteratesOver
    <3>4. g[<<Max(D), it[D \ {Max(D)}]>>] = h[<<s[Max(D)], it[D \ {Max(D)}]>>]
      BY <1>4, <3>1, <3>2
    <3>5. QED
      BY <2>2, <3>1, <3>3, <3>4
  <2>3. QED
    BY <2>1, <2>2
<1>8. QED
  BY <1>1, <1>6, <1>7 DEF FoldsLeft

\* Every part of a sequence has a last element, and a rest.
LEMMA Rests ==
  ASSUME NEW X, NEW s \in Seq(X), NEW D \in SUBSET DOMAIN s, D # {}
  PROVE  Max(D) \in D /\ s[Max(D)] \in X /\ D \ {Max(D)} \in SUBSET DOMAIN s
<1>1. Len(s) \in Nat /\ DOMAIN s = 1..Len(s) /\ \A i \in 1..Len(s) : s[i] \in X
  BY LenProperties, ElementOfSeq
<1>2. QED
  BY <1>1, LastOf

\* Induction over the parts of a sequence, by what they have before their last element.
LEMMA Parts ==
  ASSUME NEW X, NEW s \in Seq(X), NEW G, {} \in G,
         \A D \in SUBSET DOMAIN s : D # {} /\ D \ {Max(D)} \in G => D \in G
  PROVE  SUBSET DOMAIN s \subseteq G
<1> DEFINE n == Cardinality(DOMAIN s)
           Done == {k \in 0..n : \A D \in SUBSET DOMAIN s : Cardinality(D) <= k => D \in G}
<1>1. /\ n \in Nat
      /\ \A D \in SUBSET DOMAIN s : /\ IsFiniteSet(D) /\ Cardinality(D) \in 0..n
                                    /\ Cardinality(D) = 0 => D = {}
  <2>1. Len(s) \in Nat /\ DOMAIN s = 1..Len(s)
    BY LenProperties
  <2>2. IsFiniteSet(DOMAIN s)
    BY <2>1, FS_Interval
  <2>3. QED
    BY <2>2, FS_CardinalityType, FS_Subset, FS_EmptySet
<1>2. 0 \in Done
  <2>1. ASSUME NEW D \in SUBSET DOMAIN s, Cardinality(D) <= 0 PROVE D \in G
    <3>1. Cardinality(D) = 0
      BY <1>1, <2>1
    <3>2. QED
      BY <1>1, <3>1
  <2>2. 0 \in 0..n
    BY <1>1
  <2>3. QED
    BY <2>1, <2>2
<1>3. ASSUME NEW k \in 1..n, k - 1 \in Done PROVE k \in Done
  <2>1. ASSUME NEW D \in SUBSET DOMAIN s, Cardinality(D) <= k, D # {} PROVE D \in G
    <3>1. Max(D) \in D /\ D \ {Max(D)} \in SUBSET DOMAIN s
      BY <2>1, Rests
    <3>2. Cardinality(D \ {Max(D)}) = Cardinality(D) - 1 /\ Cardinality(D) \in Nat
      BY <1>1, <3>1, FS_RemoveElement
    <3>3. D \ {Max(D)} \in G
      BY <1>1, <1>3, <2>1, <3>1, <3>2
    <3>4. QED
      BY <2>1, <3>3
  <2>2. \A D \in SUBSET DOMAIN s : Cardinality(D) <= k => D \in G
    BY <2>1
  <2>3. QED
    BY <1>1, <2>2
<1>4. n \in Done
  <2> HIDE DEF Done, n
  <2>1. n \in Nat /\ \A k \in 1..n : k - 1 \in Done => k \in Done
    BY <1>1, <1>3
  <2>2. 0..n \subseteq Done
    BY <1>2, <2>1, UpTo
  <2>3. QED
    BY <2>1, <2>2
<1>5. QED
  BY <1>1, <1>4

-----------------------------------------------------------------------------
(* Sums                                                                    *)

\* it is what SumFunction adds up to over each part of the domain S of f.
Adds(it, f, S) ==
  \A D \in SUBSET S :
    it[D] = IF D = {} THEN 0 ELSE f[CHOOSE x \in D : TRUE] + it[D \ {CHOOSE x \in D : TRUE}]

\* Two sums agree on the sets on which what they add up agrees.
LEMMA AddsAgree ==
  ASSUME NEW S, IsFiniteSet(S), NEW P \in SUBSET S, NEW f, NEW g, \A x \in P : f[x] = g[x],
         NEW a, Adds(a, f, S), NEW b, Adds(b, g, P)
  PROVE  \A D \in SUBSET P : a[D] = b[D]
<1> DEFINE n == Cardinality(P)
           Same == {k \in 0..n : \A D \in SUBSET P : Cardinality(D) <= k => a[D] = b[D]}
<1>1. /\ n \in Nat /\ \A D \in SUBSET P : IsFiniteSet(D) /\ Cardinality(D) \in 0..n
      /\ \A D \in SUBSET P : Cardinality(D) = 0 => D = {}
  BY FS_CardinalityType, FS_Subset, FS_EmptySet
<1>2. 0 \in Same
  <2>1. ASSUME NEW D \in SUBSET P, Cardinality(D) <= 0 PROVE a[D] = b[D]
    <3>1. D = {} /\ D \in SUBSET S
      BY <1>1, <2>1
    <3>2. QED
      BY <3>1 DEF Adds
  <2>2. 0 \in 0..n
    BY <1>1
  <2>3. QED
    BY <2>1, <2>2
<1>3. ASSUME NEW k \in 1..n, k - 1 \in Same PROVE k \in Same
  <2>1. ASSUME NEW D \in SUBSET P, Cardinality(D) <= k, D # {} PROVE a[D] = b[D]
    <3> DEFINE x == CHOOSE x \in D : TRUE
    <3>1. x \in D /\ D \in SUBSET S /\ D \ {x} \in SUBSET P
      BY <2>1
    <3>2. /\ a[D] = f[x] + a[D \ {x}]
          /\ b[D] = g[x] + b[D \ {x}]
      BY <2>1, <3>1 DEF Adds
    <3> HIDE DEF x
    <3>3. Cardinality(D \ {x}) = Cardinality(D) - 1 /\ Cardinality(D) \in Nat
      BY <1>1, <3>1, FS_RemoveElement
    <3>4. a[D \ {x}] = b[D \ {x}]
      BY <1>1, <1>3, <2>1, <3>1, <3>3
    <3>5. QED
      BY <3>1, <3>2, <3>4
  <2>2. \A D \in SUBSET P : Cardinality(D) <= k => a[D] = b[D]
    BY <2>1, <1>3, <1>1, FS_EmptySet
  <2>3. QED
    BY <1>1, <2>2
<1>4. n \in Same
  <2> HIDE DEF Same, n
  <2>1. QED
    BY <1>1, <1>2, <1>3, UpTo
<1>5. QED
  BY <1>1, <1>4

\* A sum over a finite set has a value.
LEMMA SumIterates ==
  ASSUME NEW S, IsFiniteSet(S), NEW f \in [S -> Int]
  PROVE  \E it \in [SUBSET S -> Int] : Adds(it, f, S) /\ SumFunction(f) = it[S]
<1> DEFINE Fold(it) == it = [D \in SUBSET S |-> IF D = {} THEN 0
             ELSE f[CHOOSE x \in D : TRUE] + it[D \ {CHOOSE x \in D : TRUE}]]
           iter == CHOOSE it : Fold(it)
           c == [D \in SUBSET S |-> CHOOSE x \in D : TRUE]
           h == [p \in S \X Int |-> f[p[1]] + p[2]]
<1>1. SumFunction(f) = iter[S]
  BY DEF SumFunction, SumFunctionOnSet, FoldFunctionOnSet, MapThenFoldSet
<1>2. /\ \A x \in S, t \in Int : h[<<x, t>>] = f[x] + t
      /\ \A D \in SUBSET S : c[D] = CHOOSE x \in D : TRUE
  OBVIOUS
<1>3. Steps(h, S, Int) /\ Chooses(c, S) /\ 0 \in Int
  <2>1. \A x \in S, t \in Int : f[x] + t \in Int
    OBVIOUS
  <2>2. Steps(h, S, Int)
    BY <1>2, <2>1 DEF Steps
  <2>3. Chooses(c, S)
    BY <1>2 DEF Chooses
  <2>4. QED
    BY <2>2, <2>3
<1> HIDE DEF h, c
<1>4. PICK it \in [SUBSET S -> Int] : IteratesOver(it, S, c, h, 0)
  BY <1>3, Iterates
<1>5. ASSUME NEW D \in SUBSET S
      PROVE  it[D] = IF D = {} THEN 0
                     ELSE f[CHOOSE x \in D : TRUE] + it[D \ {CHOOSE x \in D : TRUE}]
  <2>1. CASE D # {}
    <3> DEFINE x == CHOOSE x \in D : TRUE
    <3>1. x \in S /\ D \ {x} \in SUBSET S /\ c[D] = x
      BY <1>2, <2>1
    <3> HIDE DEF x
    <3>2. it[D \ {x}] \in Int
      BY <3>1
    <3>3. it[D] = h[<<x, it[D \ {x}]>>]
      BY <1>4, <2>1, <3>1 DEF IteratesOver
    <3>4. it[D] = f[x] + it[D \ {x}]
      BY <1>2, <3>1, <3>2, <3>3
    <3>5. QED
      BY <2>1, <3>4 DEF x
  <2>2. QED
    BY <1>4, <2>1 DEF IteratesOver
<1>6. Fold(it)
  BY <1>5
<1>7. Fold(iter)
  BY <1>6
<1>8. Adds(iter, f, S) /\ Adds(it, f, S)
  <2> HIDE DEF iter
  <2>1. Adds(it, f, S)
    BY <1>5 DEF Adds
  <2>2. Adds(iter, f, S)
    BY <1>7 DEF Adds
  <2>3. QED
    BY <2>1, <2>2
<1>9. it[S] = iter[S]
  <2> HIDE DEF iter, Fold
  <2>1. S \in SUBSET S
    OBVIOUS
  <2>2. \A D \in SUBSET S : it[D] = iter[D]
    BY <1>8, <2>1, AddsAgree
  <2>3. QED
    BY <2>1, <2>2
<1>10. QED
  BY <1>1, <1>8, <1>9

\* it adds up in any order.
AnyOrder(it, f, S) == \A D \in SUBSET S : \A x \in D : it[D] = f[x] + it[D \ {x}]

\* It does not matter which element is added last.
LEMMA AddsAny ==
  ASSUME NEW S, IsFiniteSet(S), NEW f \in [S -> Int], NEW it \in [SUBSET S -> Int], Adds(it, f, S)
  PROVE  AnyOrder(it, f, S)
<1> DEFINE n == Cardinality(S)
           AddsLast(D) == \A x \in D : it[D] = f[x] + it[D \ {x}]
           Done == {k \in 0..n : \A D \in SUBSET S : Cardinality(D) <= k => AddsLast(D)}
<1>1. /\ n \in Nat /\ \A D \in SUBSET S : IsFiniteSet(D) /\ Cardinality(D) \in 0..n
      /\ \A D \in SUBSET S : Cardinality(D) = 0 => D = {}
  BY FS_CardinalityType, FS_Subset, FS_EmptySet
<1>2. 0 \in Done
  <2>1. \A D \in SUBSET S : Cardinality(D) <= 0 => AddsLast(D)
    BY <1>1
  <2>2. 0 \in 0..n
    BY <1>1
  <2>3. QED
    BY <2>1, <2>2
<1>3. ASSUME NEW k \in 1..n, k - 1 \in Done PROVE k \in Done
  <2>1. ASSUME NEW D \in SUBSET S, Cardinality(D) <= k, NEW x \in D
        PROVE  it[D] = f[x] + it[D \ {x}]
    <3> DEFINE y == CHOOSE y \in D : TRUE
    <3>1. y \in D /\ it[D] = f[y] + it[D \ {y}]
      BY DEF Adds
    <3> HIDE DEF y
    <3>2. CASE x = y
      BY <3>1, <3>2
    <3>3. CASE x # y
      <4> DEFINE Rest == D \ {y}
                 Other == D \ {x}
                 Both == (D \ {x}) \ {y}
      <4>1. /\ Rest \in SUBSET S /\ Other \in SUBSET S /\ Both \in SUBSET S
            /\ Rest \ {x} = Both /\ Other \ {y} = Both /\ x \in Rest /\ y \in Other
        BY <3>1, <3>3
      <4>2. Cardinality(Rest) = Cardinality(D) - 1 /\ Cardinality(Other) = Cardinality(D) - 1
        BY <1>1, <3>1, FS_RemoveElement
      <4>3. Cardinality(D) \in Nat
        BY <1>1
      <4> HIDE DEF Rest, Other, Both
      <4>4. it[Rest] = f[x] + it[Both] /\ it[Other] = f[y] + it[Both]
        BY <1>3, <2>1, <4>1, <4>2, <4>3
      <4>5. f[x] \in Int /\ f[y] \in Int /\ it[Both] \in Int
        BY <3>1, <4>1
      <4>6. it[D] = f[y] + it[Rest] /\ it[D \ {x}] = it[Other]
        BY <3>1 DEF Rest, Other
      <4>7. QED
        BY <4>4, <4>5, <4>6
    <3>4. QED
      BY <3>2, <3>3
  <2>2. QED
    BY <1>1, <2>1
<1>4. n \in Done
  <2> HIDE DEF Done, n
  <2>1. QED
    BY <1>1, <1>2, <1>3, UpTo
<1>5. ASSUME NEW D \in SUBSET S PROVE AddsLast(D)
  <2>1. Cardinality(D) <= n
    BY <1>1
  <2>2. \A C \in SUBSET S : Cardinality(C) <= n => AddsLast(C)
    BY <1>4
  <2> HIDE DEF n, AddsLast
  <2>3. QED
    BY <2>1, <2>2
<1>6. QED
  BY <1>5 DEF AnyOrder

\* A sum of numbers is a number, 0 if there are none.
LEMMA SumType ==
  ASSUME NEW S, IsFiniteSet(S), NEW f \in [S -> Int]
  PROVE  SumFunction(f) \in Int /\ (S = {} => SumFunction(f) = 0)
<1>1. PICK it \in [SUBSET S -> Int] : Adds(it, f, S) /\ SumFunction(f) = it[S]
  BY SumIterates
<1>2. SumFunction(f) \in Int /\ S \in SUBSET S
  BY <1>1
<1>3. QED
  BY <1>1, <1>2 DEF Adds

\* Any element may be taken out of a sum.
LEMMA SumTakes ==
  ASSUME NEW S, IsFiniteSet(S), NEW f \in [S -> Int], NEW x \in S,
         NEW P, P = S \ {x}, NEW g \in [P -> Int], \A y \in P : f[y] = g[y]
  PROVE  SumFunction(f) = SumFunction(g) + f[x]
<1>1. PICK it \in [SUBSET S -> Int] : Adds(it, f, S) /\ SumFunction(f) = it[S]
  BY SumIterates
<1>2. P \in SUBSET S /\ IsFiniteSet(P) /\ S \in SUBSET S /\ P \in SUBSET P
  BY FS_Subset
<1>3. PICK b \in [SUBSET P -> Int] : Adds(b, g, P) /\ SumFunction(g) = b[P]
  BY <1>2, SumIterates
<1>4. \A D \in SUBSET P : it[D] = b[D]
  BY <1>1, <1>2, <1>3, AddsAgree
<1>5. AnyOrder(it, f, S)
  BY <1>1, AddsAny
<1>6. it[S] = f[x] + it[P] /\ f[x] \in Int /\ it[P] \in Int
  BY <1>2, <1>5 DEF AnyOrder
<1>7. QED
  BY <1>1, <1>2, <1>3, <1>4, <1>6

\* One element more in what is added up.
LEMMA SumGrows ==
  ASSUME NEW S, IsFiniteSet(S), NEW x, x \notin S,
         NEW f, NEW P, S \cup {x} \subseteq P, f \in [P -> Int]
  PROVE  /\ SumFunction([y \in S \cup {x} |-> f[y]]) = SumFunction([y \in S |-> f[y]]) + f[x]
         /\ SumFunction([y \in S |-> f[y]]) \in Int
<1> DEFINE More == S \cup {x}
           g == [y \in More |-> f[y]]
           e == [y \in S |-> f[y]]
<1>1. g \in [More -> Int] /\ IsFiniteSet(More) /\ e \in [S -> Int] /\ g[x] = f[x]
  BY FS_AddElement
<1>2. x \in More /\ S = More \ {x} /\ \A y \in S : g[y] = e[y]
  OBVIOUS
<1> HIDE DEF More, g, e
<1>3. SumFunction(g) = SumFunction(e) + g[x] /\ SumFunction(e) \in Int
  BY <1>1, <1>2, SumTakes, SumType
<1>4. QED
  BY <1>1, <1>3 DEF More, g, e

\* A sum over nothing.
LEMMA SumNone == ASSUME NEW f PROVE SumFunction([y \in {} |-> f[y]]) = 0
<1>1. [y \in {} |-> f[y]] \in [{} -> Int] /\ IsFiniteSet({})
  BY FS_EmptySet
<1>2. QED
  BY <1>1, SumType
=============================================================================
