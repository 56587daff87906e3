---------------------------- MODULE LeastNumber ----------------------------
(***************************************************************************)
(* Every set of naturals that is not empty has a least element: the form   *)
(* in which the proofs of this project reason by induction.  A recursive   *)
(* function over 0..n exists by the same argument.                         *)
(***************************************************************************)
EXTENDS Integers, FiniteSetTheorems, WellFoundedInduction, TLAPS

(***************************************************************************)
(* The least-number principle for a set of naturals, from the              *)
(* well-foundedness of strict inclusion on the finite sets 0..n.           *)
(***************************************************************************)
LEMMA LeastElement ==
  ASSUME NEW T \in SUBSET Nat, T # {}
  PROVE  \E n \in T : \A m \in T : n <= m
<1> DEFINE Prefixes == {0 .. n : n \in T}
<1>1. IsWellFoundedOn(StrictSubsetOrdering(Nat), FiniteSubsetsOf(Nat))
  BY FS_StrictSubsetOrderingWellFounded
<1>2. Prefixes \subseteq FiniteSubsetsOf(Nat)
  <2> SUFFICES ASSUME NEW n \in T PROVE 0 .. n \in FiniteSubsetsOf(Nat)
    OBVIOUS
  <2>1. IsFiniteSet(0 .. n)
    BY FS_Interval
  <2>2. 0 .. n \in SUBSET Nat
    OBVIOUS
  <2> QED
    BY <2>1, <2>2 DEF FiniteSubsetsOf
<1>3. Prefixes # {}
  OBVIOUS
<1>4. PICK x \in Prefixes :
        \A y \in Prefixes : <<y, x>> \notin StrictSubsetOrdering(Nat)
  BY <1>1, <1>2, <1>3, WFMin
<1>5. PICK n \in T : x = 0 .. n
  OBVIOUS
<1>6. ASSUME NEW m \in T, m < n PROVE FALSE
  <2>1. 0 .. m \in Prefixes /\ 0 .. m \subseteq 0 .. n
    BY <1>6
  <2>2. n \in 0 .. n /\ n \notin 0 .. m
    BY <1>6
  <2>3. <<0 .. m, 0 .. n>> \in StrictSubsetOrdering(Nat)
    BY <2>1, <2>2 DEF StrictSubsetOrdering
  <2> QED
    BY <1>4, <1>5, <2>1, <2>3
<1> QED
  BY <1>6

(***************************************************************************)
(* A function over 0..n that starts with a and goes on from k - 1 to k by  *)
(* step[k] exists.                                                         *)
(***************************************************************************)
StepsWithin(n, S, step) == step \in [1 .. n -> [S -> S]]

Recurs(f, n, S, a, step) ==
  /\ f \in [0 .. n -> S]
  /\ f[0] = a
  /\ \A k \in 1 .. n : f[k] = step[k][f[k - 1]]

LEMMA RecursionExists ==
  ASSUME NEW n \in Nat, NEW S, NEW a \in S, NEW step, StepsWithin(n, S, step)
  PROVE  \E f : Recurs(f, n, S, a, step)
<1>0. step \in [1 .. n -> [S -> S]]
  BY DEF StepsWithin
<1> DEFINE Follows(f, m) == /\ f[0] = a
                           /\ \A k \in 1 .. m : f[k] = step[k][f[k - 1]]
           T == {m \in 0 .. n : ~ \E f \in [0 .. m -> S] : Follows(f, m)}
<1> SUFFICES ASSUME T # {} PROVE FALSE
  <2>1. n \in 0 .. n
    OBVIOUS
  <2> QED
    BY <2>1 DEF Recurs
<1>1. PICK m \in T : \A l \in T : m <= l
  <2>1. T \in SUBSET Nat
    OBVIOUS
  <2> HIDE DEF T
  <2> QED
    BY <2>1, LeastElement
<1>2. m # 0
  <2> DEFINE f == [k \in 0 .. 0 |-> a]
  <2>1. f \in [0 .. 0 -> S] /\ f[0] = a
    OBVIOUS
  <2>2. Follows(f, 0)
    BY <2>1
  <2> HIDE DEF f, Follows
  <2>3. \E g \in [0 .. 0 -> S] : Follows(g, 0)
    BY <2>1, <2>2
  <2> QED
    BY <2>3
<1>3. m \in 1 .. n /\ m - 1 \in 0 .. n /\ m - 1 \notin T
  <2>1. m \in 0 .. n
    OBVIOUS
  <2>2. m \in 1 .. n /\ m - 1 \in 0 .. n /\ ~ (m <= m - 1)
    BY <1>2, <2>1
  <2> HIDE DEF T
  <2> QED
    BY <1>1, <2>2
<1>4. PICK f \in [0 .. m - 1 -> S] : Follows(f, m - 1)
  BY <1>3
<1> DEFINE g == [k \in 0 .. m |-> IF k = m THEN step[m][f[m - 1]] ELSE f[k]]
<1>5. step[m][f[m - 1]] \in S
  <2>1. step[m] \in [S -> S] /\ m - 1 \in 0 .. m - 1
    BY <1>0, <1>3
  <2>2. f[m - 1] \in S
    BY <2>1
  <2> QED
    BY <2>1, <2>2
<1>6. g \in [0 .. m -> S]
  <2> SUFFICES ASSUME NEW k \in 0 .. m, k # m PROVE f[k] \in S
    BY <1>5
  <2>1. k \in 0 .. m - 1
    BY <1>3
  <2> QED
    BY <2>1
<1>7. g[0] = a
  BY <1>3, <1>4
<1>8. ASSUME NEW k \in 1 .. m PROVE g[k] = step[k][g[k - 1]]
  <2>1. k - 1 \in 0 .. m - 1 /\ k - 1 # m /\ k \in 0 .. m /\ k - 1 \in 0 .. m
    BY <1>3
  <2>2. g[k - 1] = f[k - 1]
    BY <2>1
  <2>3. CASE k = m
    BY <2>1, <2>2, <2>3
  <2>4. CASE k # m
    <3>1. k \in 1 .. m - 1
      BY <1>3, <2>4
    <3>2. g[k] = f[k]
      BY <2>1, <2>4
    <3> QED
      BY <1>4, <2>2, <3>1, <3>2
  <2> QED
    BY <2>3, <2>4
<1> HIDE DEF g
<1>9. \E h \in [0 .. m -> S] : Follows(h, m)
  BY <1>6, <1>7, <1>8
<1> QED
  BY <1>9

(***************************************************************************)
(* A set that has 0, and k with k - 1, has every number up to n.           *)
(***************************************************************************)
LEMMA InductionUpTo ==
  ASSUME NEW n \in Nat, NEW T, 0 \in T, \A k \in 1 .. n : k - 1 \in T => k \in T
  PROVE  \A k \in 0 .. n : k \in T
<1> DEFINE Missing == {k \in 0 .. n : k \notin T}
<1> SUFFICES ASSUME Missing # {} PROVE FALSE
  OBVIOUS
<1>1. PICK m \in Missing : \A l \in Missing : m <= l
  <2>1. Missing \in SUBSET Nat
    OBVIOUS
  <2> HIDE DEF Missing
  <2> QED
    BY <2>1, LeastElement
<1>2. m \in 1 .. n /\ m - 1 \in 0 .. n /\ ~ (m <= m - 1)
  OBVIOUS
<1>3. m - 1 \notin Missing
  BY <1>1, <1>2
<1> QED
  BY <1>2, <1>3

(***************************************************************************)
(* A function that goes on by step from values in S has its values in S.   *)
(***************************************************************************)
LEMMA RecursionTyped ==
  ASSUME NEW n \in Nat, NEW S, NEW a \in S, NEW step, StepsWithin(n, S, step),
         NEW f, f = [k \in 0 .. n |-> f[k]], f[0] = a,
         \A k \in 1 .. n : f[k - 1] \in S => f[k] = step[k][f[k - 1]]
  PROVE  Recurs(f, n, S, a, step)
<1> DEFINE T == {k \in 0 .. n : f[k] \in S}
<1>1. ASSUME NEW k \in 1 .. n, k - 1 \in T PROVE k \in T
  <2>1. f[k - 1] \in S /\ step[k] \in [S -> S] /\ k \in 0 .. n
    BY <1>1 DEF StepsWithin
  <2> QED
    BY <2>1
<1>2. 0 \in T
  OBVIOUS
<1> HIDE DEF T
<1>3. \A k \in 0 .. n : k \in T
  BY <1>1, <1>2, InductionUpTo
<1>4. \A k \in 0 .. n : f[k] \in S
  BY <1>3 DEF T
<1>5. f \in [0 .. n -> S]
  BY <1>4
<1>6. \A k \in 1 .. n : k - 1 \in 0 .. n
  OBVIOUS
<1> QED
  BY <1>4, <1>5, <1>6 DEF Recurs

(***************************************************************************)
(* The running totals of n natural numbers exist.                          *)
(***************************************************************************)
LEMMA TotalsExist ==
  ASSUME NEW n \in Nat, NEW w \in [1 .. n -> Nat]
  PROVE  \E f \in [0 .. n -> Nat] :
           f[0] = 0 /\ \A k \in 1 .. n : f[k] = f[k - 1] + w[k]
<1> DEFINE step == [k \in 1 .. n |-> [x \in Nat |-> x + w[k]]]
<1>1. step \in [1 .. n -> [Nat -> Nat]] /\ 0 \in Nat
  OBVIOUS
<1>2. PICK f \in [0 .. n -> Nat] :
        f[0] = 0 /\ \A k \in 1 .. n : f[k] = step[k][f[k - 1]]
  <2>1. StepsWithin(n, Nat, step)
    BY <1>1 DEF StepsWithin
  <2> HIDE DEF step
  <2>2. \E f : Recurs(f, n, Nat, 0, step)
    BY <1>1, <2>1, RecursionExists
  <2> QED
    BY <2>2 DEF Recurs
<1>3. ASSUME NEW k \in 1 .. n PROVE f[k] = f[k - 1] + w[k]
  <2>1. k - 1 \in 0 .. n
    OBVIOUS
  <2>2. f[k - 1] \in Nat
    BY <2>1
  <2> QED
    BY <1>2, <2>2
<1> QED
  BY <1>2, <1>3
=============================================================================
