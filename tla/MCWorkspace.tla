----------------------------- MODULE MCWorkspace -----------------------------
(* Two implementers that own a path together, and an operator.               *)
EXTENDS Workspace
MCOwns == [s \in {"s1", "s2"} |-> IF s = "s1" THEN {"p"} ELSE {"p", "q"}]
=============================================================================
