------------------------------ MODULE MCPilot -------------------------------
(* Pilot, on small instances.                                                *)
EXTENDS Pilot

MCRole == [s \in {"r1", "r2"} |-> "reviewer"]
S(primary, automated, tests, item) ==
    [primary |-> primary, automated |-> automated, tests |-> tests, item |-> item]
MCSpecs == {S(TRUE, TRUE, {1, 2}, 1), S(TRUE, TRUE, {3}, 1),
            S(FALSE, TRUE, {2}, 2), S(FALSE, FALSE, {}, 2)}
MCFirst == [i \in {1, 2} |-> IF i = 1 THEN S(TRUE, TRUE, {1, 2}, 1) ELSE S(FALSE, TRUE, {2}, 2)]
MCProposed == <<1>>
=============================================================================
