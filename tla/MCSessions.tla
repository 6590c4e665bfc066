----------------------------- MODULE MCSessions -----------------------------
(* Processes, on small instances.                                            *)
EXTENDS Processes

\* Two vendors with two models each.
MCProfiles == {"x1", "x2", "c1", "c2"}
MCAdapter == [p \in MCProfiles |-> IF p \in {"x1", "x2"} THEN "codex" ELSE "claude"]
MCConfigured == [implementer |-> "x1", reviewer |-> "c1"]
MCFallbacks == [implementer |-> <<"c1", "x2">>, reviewer |-> <<"x1", "c2", "x2">>]

\* Two implementers that own a path together, and one with two operators.
MCImplementers == [Workspaces |-> {"s1", "s2"}, Workspace |-> {"s1"}]
MCOperators    == [Workspaces |-> {"o1"}, Workspace |-> {"o1", "o2"}]
MCOwns         == [p \in {"Workspaces", "Workspace"} |-> [s \in MCImplementers[p] |-> {"p", "q"}]]
MCTreeTroubles == [Workspaces |-> 0, Workspace |-> 1]

\* Two processes that release the dashboard of three servers, or judge that of two.
MCServers   == [Release |-> {"s1", "s2", "s3"}, Judge |-> {"s1", "s2"}]
MCReleasers == [Release |-> {"c1", "c2"}, Judge |-> {}]
MCObservers == [Release |-> {}, Judge |-> {"o1", "o2"}]
MCMaxEvents == [Release |-> 0, Judge |-> 2]
=============================================================================
