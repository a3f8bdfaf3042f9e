----------------------------- MODULE LeastNumber -----------------------------
(***************************************************************************)
(* Induction over the natural numbers in the form of facts about sets: the *)
(* library's induction theorems have an operator as a parameter, which the *)
(* provers cannot instantiate; a set they can.                             *)
(***************************************************************************)
EXTENDS Naturals, WellFoundedInduction, TLAPS

\* A set of numbers has a least element.
LEMMA LeastNat ==
  ASSUME NEW T \in SUBSET Nat, T # {}
  PROVE  \E n \in T : \A m \in T : n <= m
  <1>1. IsWellFoundedOn({p \in Nat \X Nat : p[1] < p[2]}, Nat)
    BY NatLessThanWellFounded DEF OpToRel
  <1>2. PICK R : R = {p \in Nat \X Nat : p[1] < p[2]} /\ IsWellFoundedOn(R, Nat)
    BY <1>1
  <1>3. PICK x \in T : \A y \in T : ~ (<<y, x>> \in R)
    BY <1>2, WFMin, Zenon
  <1>4. \A a, b \in Nat : <<b, a>> \in R <=> b < a
    BY <1>2
  <1>5. \A y \in T : ~ (y < x)
    BY <1>3, <1>4
  <1>6. \A y \in T : x <= y
    BY <1>5
  <1> QED BY <1>6

\* A set that has 0 and with each number the next one has all of them.
LEMMA SetInduction ==
  ASSUME NEW S \in SUBSET Nat, 0 \in S, \A n \in S : n + 1 \in S
  PROVE  S = Nat
  <1> SUFFICES ASSUME S # Nat PROVE FALSE
    OBVIOUS
  <1>1. PICK n \in Nat \ S : \A m \in Nat \ S : n <= m
    BY LeastNat
  <1>2. n # 0 /\ n - 1 \in Nat /\ n - 1 \notin Nat \ S
    BY <1>1
  <1>3. n = (n - 1) + 1
    BY <1>1
  <1> QED BY <1>1, <1>2, <1>3

=============================================================================
