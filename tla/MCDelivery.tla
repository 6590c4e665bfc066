----------------------------- MODULE MCDelivery -----------------------------
(* Small instances of Delivery for TLC. *)
EXTENDS Delivery, TLC

CONSTANTS p1, p2, a1, a2

OneKind == [c \in Criteria |-> {"checks"}]
\* The primary fix is checked, and anything else is looked at by hand.
SplitKinds == [c \in Criteria |-> IF c \in Primary THEN {"checks"} ELSE {"manual"}]

Symmetry == Permutations(Actors) \cup Permutations(Runners)
=============================================================================
