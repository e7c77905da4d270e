------------------------------ MODULE Counting ------------------------------
(***************************************************************************)
(* Lemmas on numbers and finite sets that the proofs about Accounts,       *)
(* Social and Catalogue share.                                             *)
(***************************************************************************)
EXTENDS FiniteSetTheorems, WellFoundedInduction, TLAPS

\* A set of natural numbers has a least element: what induction rests on
\* here, the least of the counterexamples leading to a contradiction.
LEMMA LeastElement ==
  ASSUME NEW T, T \subseteq Nat, T # {}
  PROVE  \E x \in T : \A y \in T : x <= y
<1>1. PICK x \in T : \A y \in T : ~(<<y, x>> \in OpToRel(<, Nat))
  BY WFMin, NatLessThanWellFounded
<1>2. ASSUME NEW y \in T PROVE x <= y
  <2>1. ~(y < x)
    BY <1>1 DEF OpToRel
  <2> QED BY <2>1
<1> QED BY <1>2

\* Sets that differ in one element at most: one step of one client changes a
\* set of clients that way.
LEMMA ButOne ==
  ASSUME NEW A, NEW B, NEW c, IsFiniteSet(A), A \ {c} = B \ {c}
  PROVE  /\ IsFiniteSet(B) /\ Cardinality(A) \in Nat
         /\ (c \in A /\ c \in B) \/ (c \notin A /\ c \notin B) => Cardinality(B) = Cardinality(A)
         /\ c \in A /\ c \notin B => Cardinality(B) = Cardinality(A) - 1
         /\ c \notin A /\ c \in B => Cardinality(B) = Cardinality(A) + 1
<1>1. Cardinality(A) \in Nat
  BY FS_CardinalityType
<1>2. CASE (c \in A /\ c \in B) \/ (c \notin A /\ c \notin B)
  <2>1. B = A
    BY <1>2
  <2> QED BY <1>1, <1>2, <2>1
<1>3. CASE c \in A /\ c \notin B
  <2>1. B = A \ {c}
    BY <1>3
  <2> QED BY <1>1, <1>3, <2>1, FS_RemoveElement
<1>4. CASE c \notin A /\ c \in B
  <2>1. B = A \cup {c}
    BY <1>4
  <2> QED BY <1>1, <1>4, <2>1, FS_AddElement
<1> QED BY <1>2, <1>3, <1>4

=============================================================================
