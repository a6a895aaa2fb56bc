------------------------------ MODULE Minimum ------------------------------
(* Induction by the least counterexample: a property that fails for some    *)
(* natural number fails for a least one.  The induction theorems of the     *)
(* library take the property as a parameter; this one takes the set of the  *)
(* numbers for which it fails.                                              *)
EXTENDS Naturals, TLAPS
LOCAL INSTANCE WellFoundedInduction

\* A set of natural numbers has a least element.
LEMMA LeastElement ==
  ASSUME NEW S, S \subseteq Nat, S # {}
  PROVE  \E m \in S : \A k \in S : m <= k
  <1>1. IsWellFoundedOn(OpToRel(<, Nat), Nat)
    BY NatLessThanWellFounded
  <1>2. PICK m \in S : \A k \in S : <<k, m>> \notin OpToRel(<, Nat)
    BY <1>1, WFMin
  <1>3. m \in Nat /\ \A k \in S : k \in Nat /\ ~(k < m)
    BY <1>2 DEF OpToRel
  <1> QED
    BY <1>3

\* What holds for zero and for the next number with every number up to a bound
\* holds up to the bound.
LEMMA Upward ==
  ASSUME NEW n \in Nat, NEW S, 0 \in S, \A k \in 1 .. n : k - 1 \in S => k \in S
  PROVE  \A k \in 0 .. n : k \in S
  <1> DEFINE Bad == (0 .. n) \ S
  <1> SUFFICES ASSUME Bad # {} PROVE FALSE
    OBVIOUS
  <1>1. Bad \subseteq Nat
    OBVIOUS
  <1>2. PICK m \in Bad : \A k \in Bad : m <= k
    BY <1>1, LeastElement
  <1>3. m \in 0 .. n /\ m \notin S /\ m # 0
    OBVIOUS
  <1>4. m \in 1 .. n /\ m - 1 \in 0 .. n /\ ~(m <= m - 1)
    BY <1>3
  <1>5. m - 1 \notin Bad
    BY <1>2, <1>4
  <1> QED
    BY <1>3, <1>4, <1>5
============================================================================
