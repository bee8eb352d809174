----------------------------- MODULE NatLemmas ------------------------------
(***************************************************************************)
(* Two facts about the naturals that the proofs of this directory cite:    *)
(* a nonempty set of naturals has a least element (WFMin on the            *)
(* well-founded < of Nat), and, from it, induction over Nat for a         *)
(* property given as the set of the naturals where it holds.               *)
(***************************************************************************)
EXTENDS Naturals, WellFoundedInduction, TLAPS

\* Every nonempty set of naturals has a least element.
LEMMA NatMin ==
    ASSUME NEW T \in SUBSET Nat, T # {}
    PROVE  \E i \in T : \A j \in T : i <= j
<1>1. PICK x \in T : \A y \in T : ~(<<y, x>> \in OpToRel(<, Nat))
  BY NatLessThanWellFounded, WFMin
<1>2. \A u, v \in Nat : <<v, u>> \in OpToRel(<, Nat) <=> v < u
  BY Zenon DEF OpToRel
<1>3. \A y \in T : ~(y < x)
  BY <1>1, <1>2, Zenon
<1>4. QED BY <1>3, SMT

\* Induction over Nat, for a property written as the set where it holds.
LEMMA SetInduction ==
    ASSUME NEW S \in SUBSET Nat, 0 \in S, \A n \in S : n + 1 \in S
    PROVE  Nat \subseteq S
<1>1. SUFFICES ASSUME Nat \ S # {} PROVE FALSE
  OBVIOUS
<1>2. PICK m \in Nat \ S : \A j \in Nat \ S : m <= j
  BY <1>1, NatMin
<1>3. m # 0 /\ m - 1 \in Nat
  BY <1>2
<1>4. m - 1 \in S
  BY <1>2, <1>3
<1>5. QED BY <1>3, <1>4

=============================================================================
