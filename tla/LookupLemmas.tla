---------------------------- MODULE LookupLemmas ----------------------------
(* What a search loop over an array returns, used by the other proofs.      *)
EXTENDS Integers, FiniteSetsExt, WellFoundedInduction, TLAPS

\* Min of the community modules returns the least element.
LEMMA MinNat ==
  ASSUME NEW S, S \subseteq Nat, S # {}
  PROVE  Min(S) \in S /\ \A y \in S : Min(S) <= y
<1>1. PICK x \in S : \A y \in S : ~(<<y, x>> \in OpToRel(<, Nat))
  BY NatLessThanWellFounded, WFMin
<1>2. ASSUME NEW y \in S PROVE x <= y
  <2>1. SUFFICES ASSUME y < x PROVE FALSE
    OBVIOUS
  <2>2. <<y, x>> \in Nat \X Nat /\ <<y, x>>[1] < <<y, x>>[2]
    BY <2>1
  <2>3. <<y, x>> \in OpToRel(<, Nat)
    BY <2>2, Zenon DEF OpToRel
  <2>4. QED
    BY <1>1, <2>3, Zenon
<1>3. QED
  BY <1>2 DEF Min

\* What every search loop over an array of n elements returns.
LEMMA MinOrZero ==
  ASSUME NEW n \in Nat, NEW I, I \subseteq 1 .. n, NEW k,
         k = IF I # {} THEN Min(I) ELSE 0
  PROVE  k \in 0 .. n /\ (k > 0 <=> k \in I) /\ (k = 0 => I = {})
<1>1. CASE I = {}
  BY <1>1
<1>2. CASE I # {}
  <2>1. I \subseteq Nat
    OBVIOUS
  <2>2. Min(I) \in I
    BY <1>2, <2>1, MinNat, Zenon
  <2>3. k \in I
    BY <1>2, <2>2
  <2>4. QED
    BY <2>3
<1>3. QED
  BY <1>1, <1>2
=============================================================================
