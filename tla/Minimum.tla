-------------------------------- MODULE Minimum --------------------------------
(***************************************************************************)
(* The least element of a set of natural numbers, which the models use to  *)
(* say that the entries of a listing are visited in order.  That one       *)
(* exists is the well-foundedness of < stated with sets: what induction    *)
(* gives elsewhere.                                                        *)
(***************************************************************************)
EXTENDS FiniteSetsExt, WellFoundedInduction, TLAPS

LEMMA LeastNat ==
  ASSUME NEW T \in SUBSET Nat, T # {}
  PROVE  \E n \in T : \A m \in T : n <= m
<1> DEFINE R == OpToRel(<, Nat)
<1>1. IsWellFoundedOn(R, Nat)
  BY NatLessThanWellFounded
<1>2. \A m, n \in Nat : m < n => <<m, n>> \in R
  BY DEF OpToRel
<1> HIDE DEF R
<1>3. PICK n \in T : \A m \in T : <<m, n>> \notin R
  BY <1>1, WFMin
<1>4. \A m \in T : ~(m < n)
  BY <1>2, <1>3
<1>5. n \in Nat /\ \A m \in T : m \in Nat /\ n <= m
  BY <1>4
<1>6. QED
  BY <1>5

\* Min of a set that is not empty is one of its members, and the least.
LEMMA MinNat ==
  ASSUME NEW T \in SUBSET Nat, T # {}
  PROVE  Min(T) \in T /\ \A m \in T : Min(T) <= m
BY LeastNat DEF Min
===============================================================================
