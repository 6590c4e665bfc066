----------------------------- MODULE MCWorkers ------------------------------
(* Workers, on small instances.  Of the two roots, which are alike, the one  *)
(* trouble may as well come to the first.                                    *)
EXTENDS Workers

\* The first criterion's test is also the second's.
MCTests == [k \in {"k1", "k2"} |-> IF k = "k1" THEN {1} ELSE {1, 2}]
MCDate == [c \in {1} |-> 0]
=============================================================================
