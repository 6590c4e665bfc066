------------------------ MODULE MCReleaseTransaction ------------------------
(* Small instances of ReleaseTransaction for TLC. *)
EXTENDS ReleaseTransaction, TLC

CONSTANTS built, rebuilt, other, r1, r2

\* Two wheels of the planned version, and one of another version.
Version == [p \in Plans |-> IF p = other THEN "next" ELSE "first"]

Symmetry == Permutations(Runners)
=============================================================================
