----------------------------- MODULE Recursion ------------------------------
(***************************************************************************)
(* Lemmas about functions defined by recursion on an interval of integers, *)
(* for the proofs about the loops of the code that are modelled by such    *)
(* functions.  Induction is stated for a set of integers, not for a        *)
(* predicate: a proof by induction names the set of the numbers its claim  *)
(* holds for and shows that the set is all of the interval.                *)
(***************************************************************************)
EXTENDS Integers, WellFoundedInduction, TLAPS

(***************************************************************************)
(* A non-empty set of natural numbers has a least element.                 *)
(***************************************************************************)
LEMMA LeastElement ==
  ASSUME NEW S \in SUBSET Nat, S # {}
  PROVE  \E n \in S : \A m \in S : n <= m
<1> DEFINE R == OpToRel(<, Nat)
<1>1. IsWellFoundedOn(R, Nat)
  BY NatLessThanWellFounded, Zenon
<1>2. \A a, b \in Nat : <<a, b>> \in R <=> a < b
  BY DEF OpToRel
<1> HIDE DEF R
<1>3. PICK n \in S : \A m \in S : ~(<<m, n>> \in R)
  BY <1>1, WFMin
<1>4. ASSUME NEW m \in S PROVE n <= m
  <2>1. ~(m < n)
    BY <1>2, <1>3
  <2> QED BY <2>1
<1> QED BY <1>4

(***************************************************************************)
(* So has a non-empty bounded one a greatest.                              *)
(***************************************************************************)
LEMMA GreatestElement ==
  ASSUME NEW n \in Nat, NEW S \in SUBSET (0..n), S # {}
  PROVE  \E m \in S : \A k \in S : k <= m
<1> DEFINE Rest == {n - k : k \in S}
<1>1. Rest \in SUBSET Nat /\ Rest # {}
  <2>1. \A k \in S : n - k \in Nat
    OBVIOUS
  <2> QED BY <2>1
<1>2. PICK r \in Rest : \A k \in Rest : r <= k
  <2> HIDE DEF Rest
  <2> QED BY <1>1, LeastElement
<1>3. PICK m \in S : r = n - m
  BY <1>2
<1>4. ASSUME NEW k \in S PROVE k <= m
  <2>1. n - k \in Rest
    OBVIOUS
  <2>2. n - m <= n - k
    BY <1>2, <1>3, <2>1
  <2>3. k \in Int /\ m \in Int
    OBVIOUS
  <2> QED BY <2>2, <2>3
<1> QED BY <1>4

(***************************************************************************)
(* A set of integers that holds the first of an interval, and with each    *)
(* but the last its successor, holds all of the interval.                  *)
(***************************************************************************)
LEMMA IntervalInduction ==
  ASSUME NEW a \in Int, NEW b \in Int, NEW S, a \in S,
         \A k \in a..b : k \in S /\ k < b => k + 1 \in S
  PROVE  \A k \in a..b : k \in S
<1> DEFINE Missing == {m \in Nat : a + m <= b /\ a + m \notin S}
<1> SUFFICES ASSUME NEW k \in a..b, k \notin S PROVE FALSE
  OBVIOUS
<1>1. k - a \in Missing
  OBVIOUS
<1>2. PICK n \in Missing : \A m \in Missing : n <= m
  BY <1>1, LeastElement
<1>3. n # 0 /\ n - 1 \in Nat /\ n - 1 \notin Missing
  BY <1>2
<1>4. a + (n - 1) \in S /\ a + (n - 1) \in a..b /\ a + (n - 1) < b
  BY <1>2, <1>3
<1> QED BY <1>2, <1>4

\* A step for each place but the first, and what is computed with them from a first value.
Steps(a, b, V) == [(a + 1)..b -> [V -> V]]

Computes(f, a, b, first, step) ==
  f[a] = first /\ \A k \in (a + 1)..b : f[k] = step[k][f[k - 1]]

(***************************************************************************)
(* What is computed step by step from a first value exists: a function on  *)
(* the interval with that value first and each other one the step's from   *)
(* the value before.                                                       *)
(***************************************************************************)
LEMMA StepsExist ==
  ASSUME NEW a \in Int, NEW b \in Int, a <= b, NEW V, NEW first \in V,
         NEW step \in Steps(a, b, V)
  PROVE  \E f \in [a..b -> V] : Computes(f, a, b, first, step)
<1> DEFINE Good(n) == {f \in [a..n -> V] :
                         f[a] = first /\ \A k \in (a + 1)..n : f[k] = step[k][f[k - 1]]}
           S == {n \in a..b : Good(n) # {}}
<1>1. a \in S
  <2>1. [k \in a..a |-> first] \in Good(a)
    OBVIOUS
  <2>2. a \in a..b
    OBVIOUS
  <2> HIDE DEF Good
  <2> QED BY <2>1, <2>2
<1>2. ASSUME NEW n \in a..b, n \in S, n < b PROVE n + 1 \in S
  <2>1. PICK f \in [a..n -> V] : f[a] = first /\ \A k \in (a + 1)..n : f[k] = step[k][f[k - 1]]
    BY <1>2
  <2> DEFINE g == [k \in a..(n + 1) |-> IF k = n + 1 THEN step[n + 1][f[n]] ELSE f[k]]
  <2>2. n + 1 \in (a + 1)..b /\ f[n] \in V /\ step[n + 1][f[n]] \in V
    BY <1>2, <2>1 DEF Steps
  <2>3. g \in [a..(n + 1) -> V] /\ g[a] = first
    BY <2>1, <2>2
  <2>4. ASSUME NEW k \in (a + 1)..(n + 1) PROVE g[k] = step[k][g[k - 1]]
    <3>1. CASE k = n + 1
      <4>1. g[k] = step[n + 1][f[n]] /\ k - 1 = n /\ n \in a..(n + 1) /\ n # n + 1
        BY <3>1
      <4> QED BY <3>1, <4>1
    <3>2. CASE k # n + 1
      <4>1. k \in (a + 1)..n /\ k \in a..(n + 1) /\ k - 1 \in a..(n + 1) /\ k - 1 # n + 1
        BY <3>2
      <4>2. g[k] = f[k] /\ g[k - 1] = f[k - 1]
        BY <3>2, <4>1
      <4> QED BY <2>1, <4>1, <4>2
    <3> QED BY <3>1, <3>2
  <2>5. g \in Good(n + 1)
    BY <2>3, <2>4
  <2> QED BY <2>2, <2>5
<1>3. b \in S
  <2>1. b \in a..b
    OBVIOUS
  <2> HIDE DEF S
  <2> QED BY <1>1, <1>2, <2>1, IntervalInduction
<1> QED BY <1>3 DEF Computes
=============================================================================
