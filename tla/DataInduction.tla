--------------------------- MODULE DataInduction ---------------------------
(***************************************************************************)
(* Induction for the proofs about definitions that are folded or           *)
(* recursive.  The induction theorems of the library take a predicate as   *)
(* an operator, which the provers in use cannot instantiate; here the      *)
(* predicate is a set, so that the theorems are first-order.  All of it    *)
(* rests on the least-element principle for well-founded relations         *)
(* (WFMin), which the library states for sets.                             *)
(***************************************************************************)
EXTENDS FiniteSetTheorems, SequenceTheorems, WellFoundedInduction, TLAPS

\* Every set of naturals that is not empty has a least element.
LEMMA LeastNatural ==
    ASSUME NEW T, T \subseteq Nat, T # {}
    PROVE  \E n \in T : \A m \in T : n <= m
<1>1. \E n \in T : \A m \in T : <<m, n>> \notin OpToRel(<, Nat)
    BY WFMin, NatLessThanWellFounded, Zenon
<1>2. PICK n \in T : \A m \in T : <<m, n>> \notin OpToRel(<, Nat)
    BY <1>1
<1>3. ASSUME NEW m \in T PROVE n <= m
    <2>1. m \in Nat /\ n \in Nat OBVIOUS
    <2>2. <<m, n>> \notin {ss \in Nat \X Nat : ss[1] < ss[2]}
      BY <1>2, Zenon DEF OpToRel
    <2>3. QED BY <2>1, <2>2
<1>4. QED BY <1>2, <1>3

\* A set that holds 0 and the successor of each of its naturals holds them all.
LEMMA NaturalInduction ==
    ASSUME NEW S, 0 \in S, \A n \in Nat : n \in S => n + 1 \in S
    PROVE  \A n \in Nat : n \in S
<1> DEFINE T == Nat \ S
<1>1. SUFFICES ASSUME T # {} PROVE FALSE
    OBVIOUS
<1>2. PICK n \in T : \A m \in T : n <= m
    BY <1>1, LeastNatural, T \subseteq Nat
<1>3. n # 0 /\ n \in Nat OBVIOUS
<1>4. n - 1 \in Nat /\ n - 1 \notin T BY <1>2, <1>3
<1>5. QED BY <1>3, <1>4

\* The same over an interval.
LEMMA IntervalInduction ==
    ASSUME NEW lo \in Nat, NEW hi \in Nat, NEW S, lo \in S,
           \A n \in lo..hi : n \in S /\ n + 1 \in lo..hi => n + 1 \in S
    PROVE  \A n \in lo..hi : n \in S
<1> DEFINE T == {k \in Nat : lo + k \in lo..hi => lo + k \in S}
<1>1. 0 \in T OBVIOUS
<1>2. ASSUME NEW k \in Nat, k \in T PROVE k + 1 \in T
    <2>1. lo + (k + 1) = (lo + k) + 1 /\ (lo + (k + 1) \in lo..hi => lo + k \in lo..hi) OBVIOUS
    <2>2. QED BY <1>2, <2>1
<1>3. \A k \in Nat : k \in T
    <2> HIDE DEF T
    <2>1. QED BY <1>1, <1>2, NaturalInduction
<1>4. ASSUME NEW n \in lo..hi PROVE n \in S
    <2>1. n - lo \in Nat /\ lo + (n - lo) = n OBVIOUS
    <2>2. n - lo \in T BY <1>3, <2>1
    <2>3. QED BY <2>1, <2>2
<1>5. QED BY <1>4

\* A set of subsets of a finite set that holds the empty one, and each of which
\* it holds all that have one element less, holds all of them.
LEMMA SubsetInduction ==
    ASSUME NEW X, IsFiniteSet(X), NEW P, {} \in P,
           \A T \in SUBSET X : T # {} /\ (\A x \in T : T \ {x} \in P) => T \in P
    PROVE  \A T \in SUBSET X : T \in P
<1> DEFINE S == {n \in Nat : \A T \in SUBSET X : Cardinality(T) = n => T \in P}
<1>1. \A T \in SUBSET X : IsFiniteSet(T) /\ Cardinality(T) \in Nat
    BY FS_Subset, FS_CardinalityType
<1>2. 0 \in S
    <2>1. \A T \in SUBSET X : Cardinality(T) = 0 => T = {}
      BY <1>1, FS_EmptySet
    <2>2. QED BY <2>1
<1>3. ASSUME NEW n \in Nat, n \in S PROVE n + 1 \in S
    <2>1. SUFFICES ASSUME NEW T \in SUBSET X, Cardinality(T) = n + 1 PROVE T \in P
      OBVIOUS
    <2>2. IsFiniteSet(T) /\ T # {}
      BY <1>1, <2>1, FS_EmptySet
    <2>3. ASSUME NEW x \in T PROVE T \ {x} \in P
      <3>1. Cardinality(T \ {x}) = Cardinality(T) - 1 BY <2>2, FS_RemoveElement
      <3>2. T \ {x} \in SUBSET X /\ Cardinality(T \ {x}) = n BY <2>1, <3>1
      <3>3. QED BY <1>3, <3>2
    <2>4. QED BY <2>2, <2>3
<1>4. \A n \in Nat : n \in S
    <2> HIDE DEF S
    <2>1. QED BY <1>2, <1>3, NaturalInduction
<1>5. QED BY <1>1, <1>4

\* The values of a function on a finite set are finitely many.
LEMMA FiniteImage ==
    ASSUME NEW X, IsFiniteSet(X), NEW Y, NEW f \in [X -> Y]
    PROVE  /\ IsFiniteSet({f[x] : x \in X})
           /\ Cardinality({f[x] : x \in X}) <= Cardinality(X)
<1> DEFINE T == {f[x] : x \in X}
<1>1. f \in Surjection(X, T)
    BY DEF Surjection
<1> HIDE DEF T
<1>2. QED BY <1>1, FS_Surjection DEF T

\* A finite set of naturals that is not empty has a greatest element.
LEMMA GreatestNatural ==
    ASSUME NEW X, IsFiniteSet(X), X \subseteq Nat, X # {}
    PROVE  \E n \in X : \A m \in X : m <= n
<1> DEFINE P == {T \in SUBSET X : T # {} => \E n \in T : \A m \in T : m <= n}
<1>1. {} \in P OBVIOUS
<1>2. ASSUME NEW T \in SUBSET X, T # {}, \A x \in T : T \ {x} \in P PROVE T \in P
    <2> PICK x \in T : TRUE BY <1>2
    <2>1. CASE T \ {x} = {}
      <3>1. \A m \in T : m = x BY <2>1
      <3>2. QED BY <3>1
    <2>2. CASE T \ {x} # {}
      <3>1. PICK n \in T \ {x} : \A m \in T \ {x} : m <= n BY <1>2, <2>2
      <3>2. n \in Nat /\ x \in Nat OBVIOUS
      <3>3. CASE x <= n
        <4>1. \A m \in T : m <= n BY <3>1, <3>3
        <4>2. QED BY <4>1
      <3>4. CASE ~(x <= n)
        <4>1. \A m \in T : m \in Nat OBVIOUS
        <4>2. \A m \in T : m <= x BY <3>1, <3>2, <3>4, <4>1
        <4>3. QED BY <4>2
      <3>5. QED BY <3>3, <3>4
    <2>3. QED BY <2>1, <2>2
<1>3. \A T \in SUBSET X : T \in P
    <2> HIDE DEF P
    <2>1. QED BY <1>1, <1>2, SubsetInduction
<1>4. QED BY <1>3

\* What can be folded over a finite set: X with an order ch in which elements
\* are taken, and a combination G that keeps the set A the fold starts in.
Foldable(X, A, base, ch, G) ==
    /\ IsFiniteSet(X) /\ base \in A
    /\ \A T \in SUBSET X : T # {} => ch[T] \in T
    /\ \A x \in X, a \in A : G[<<x, a>>] \in A

\* f says what each part of X folds to.
FoldedBy(f, X, A, base, ch, G) ==
    /\ f \in [SUBSET X -> A]
    /\ \A T \in SUBSET X : f[T] = IF T = {} THEN base ELSE G[<<ch[T], f[T \ {ch[T]}]>>]

\* A fold over a finite set is defined, and stays in a set that holds the start
\* and is closed under the combination.
LEMMA FoldExists ==
    ASSUME NEW X, NEW A, NEW base, NEW ch, NEW G, Foldable(X, A, base, ch, G)
    PROVE  \E f : FoldedBy(f, X, A, base, ch, G)
<1> USE DEF Foldable
<1> DEFINE Small(n) == {T \in SUBSET X : Cardinality(T) <= n}
           Folds(f, n) == \A T \in Small(n) :
                             f[T] = IF T = {} THEN base ELSE G[<<ch[T], f[T \ {ch[T]}]>>]
           S == {n \in Nat : \E f \in [SUBSET X -> A] : Folds(f, n)}
<1>1. \A T \in SUBSET X : IsFiniteSet(T) /\ Cardinality(T) \in Nat
    BY FS_Subset, FS_CardinalityType
<1>2. 0 \in S
    <2> DEFINE f == [T \in SUBSET X |-> base]
    <2>1. f \in [SUBSET X -> A] OBVIOUS
    <2>2. \A T \in Small(0) : T = {} BY <1>1, FS_EmptySet
    <2>3. Folds(f, 0) BY <2>2
    <2>4. QED BY <2>1, <2>3
<1>3. ASSUME NEW n \in Nat, n \in S PROVE n + 1 \in S
    <2>1. PICK f \in [SUBSET X -> A] : Folds(f, n)
      BY <1>3
    <2> DEFINE next(T) == IF T = {} THEN base ELSE G[<<ch[T], f[T \ {ch[T]}]>>]
               g == [T \in SUBSET X |-> next(T)]
    <2>2. ASSUME NEW T \in SUBSET X PROVE next(T) \in A
      <3>1. CASE T = {} BY <3>1
      <3>2. CASE T # {}
        <4>1. ch[T] \in X /\ T \ {ch[T]} \in SUBSET X BY <3>2
        <4>2. f[T \ {ch[T]}] \in A BY <4>1
        <4>3. QED BY <3>2, <4>1, <4>2
      <3>3. QED BY <3>1, <3>2
    <2>3. g \in [SUBSET X -> A] BY <2>2
    <2>4. ASSUME NEW T \in Small(n) PROVE g[T] = f[T]
      BY <2>1
    <2>5. ASSUME NEW T \in Small(n + 1), T # {} PROVE T \ {ch[T]} \in Small(n)
      <3>1. T \in SUBSET X /\ ch[T] \in T BY <2>5
      <3>2. IsFiniteSet(T) BY <1>1, <3>1
      <3>3. Cardinality(T \ {ch[T]}) = Cardinality(T) - 1 BY ZenonT(30), <3>1, <3>2, FS_RemoveElement
      <3>4. Cardinality(T) \in Nat BY <1>1, <3>1
      <3>5. QED BY <3>1, <3>3, <3>4
    <2>6. Folds(g, n + 1)
      <3>1. SUFFICES ASSUME NEW T \in Small(n + 1)
                     PROVE  g[T] = IF T = {} THEN base ELSE G[<<ch[T], g[T \ {ch[T]}]>>]
        OBVIOUS
      <3>2. g[T] = next(T) OBVIOUS
      <3>3. T # {} => g[T \ {ch[T]}] = f[T \ {ch[T]}] BY <2>4, <2>5
      <3>4. QED BY <3>2, <3>3
    <2> HIDE DEF g, Folds
    <2>7. QED BY <2>3, <2>6
<1>4. \A n \in Nat : n \in S
    <2> HIDE DEF S
    <2>1. QED BY <1>2, <1>3, NaturalInduction
<1>5. PICK f \in [SUBSET X -> A] : Folds(f, Cardinality(X))
    <2>1. Cardinality(X) \in Nat BY FS_CardinalityType
    <2>2. QED BY <1>4, <2>1
<1>6. \A T \in SUBSET X : T \in Small(Cardinality(X))
    BY FS_Subset
<1>7. QED BY <1>5, <1>6 DEF FoldedBy

\* What can be computed over an interval, each value from the one before it.
Recursible(lo, hi, A, base, G) ==
    /\ lo \in Nat /\ hi \in Nat /\ lo <= hi
    /\ base \in A
    /\ \A i \in (lo + 1)..hi, a \in A : G[<<i, a>>] \in A

\* f says what each number of the interval gives.
RecursedBy(f, lo, hi, A, base, G) ==
    /\ f \in [lo..hi -> A]
    /\ \A i \in lo..hi : f[i] = IF i = lo THEN base ELSE G[<<i, f[i - 1]>>]

\* A recursion over an interval is defined, and stays in a set that holds the
\* start and is closed under each step.
LEMMA RecursionExists ==
    ASSUME NEW lo, NEW hi, NEW A, NEW base, NEW G, Recursible(lo, hi, A, base, G)
    PROVE  \E f : RecursedBy(f, lo, hi, A, base, G)
<1> USE DEF Recursible
<1> DEFINE n == hi - lo
           Recurs(f, k) == \A i \in lo..(lo + k) : f[i] = IF i = lo THEN base ELSE G[<<i, f[i - 1]>>]
           S == {k \in Nat : k <= n => \E f \in [lo..hi -> A] : Recurs(f, k)}
<1>0. n \in Nat OBVIOUS
<1>1. 0 \in S
    <2> DEFINE f == [i \in lo..hi |-> base]
    <2>1. f \in [lo..hi -> A] /\ Recurs(f, 0) OBVIOUS
    <2>2. QED BY <2>1
<1>2. ASSUME NEW k \in Nat, k \in S PROVE k + 1 \in S
    <2>1. SUFFICES ASSUME k + 1 <= n PROVE \E f \in [lo..hi -> A] : Recurs(f, k + 1)
      OBVIOUS
    <2>2. PICK f \in [lo..hi -> A] : Recurs(f, k)
      BY <1>2, <2>1
    <2> DEFINE j == lo + k + 1
               g == [f EXCEPT ![j] = G[<<j, f[j - 1]>>]]
    <2>3. j \in (lo + 1)..hi /\ j - 1 \in lo..hi /\ f[j - 1] \in A BY <2>1
    <2>4. G[<<j, f[j - 1]>>] \in A BY <2>3
    <2>5. g \in [lo..hi -> A] BY <2>4
    <2>6. \A i \in lo..(lo + k) : g[i] = f[i] BY <2>1
    <2>7. g[j] = G[<<j, g[j - 1]>>]
      <3>1. g[j] = G[<<j, f[j - 1]>>] BY <2>3
      <3>2. g[j - 1] = f[j - 1] BY <2>6
      <3>3. QED BY <3>1, <3>2
    <2>8. Recurs(g, k + 1)
      <3>1. SUFFICES ASSUME NEW i \in lo..(lo + (k + 1))
                     PROVE  g[i] = IF i = lo THEN base ELSE G[<<i, g[i - 1]>>]
        OBVIOUS
      <3>2. CASE i = j BY <2>7, <3>2
      <3>3. CASE i # j
        <4>1. i \in lo..(lo + k) BY <3>3
        <4>2. i # lo => i - 1 \in lo..(lo + k) BY <4>1
        <4> HIDE DEF g
        <4>3. QED BY <2>2, <2>6, <4>1, <4>2
      <3>4. QED BY <3>2, <3>3
    <2>9. QED BY <2>5, <2>8
<1>3. \A k \in Nat : k \in S
    <2> HIDE DEF S
    <2>1. QED BY <1>1, <1>2, NaturalInduction
<1>4. n \in S BY <1>0, <1>3
<1>5. PICK f \in [lo..hi -> A] : Recurs(f, n) BY <1>4
<1>6. lo + n = hi OBVIOUS
<1>7. QED BY <1>5, <1>6 DEF RecursedBy

=============================================================================
