------------------------------ MODULE Processes ------------------------------
(* The processes of a run: recovery of a lost implementer, the run's clock,  *)
(* a reviewer's verdict, an implementer's workspace, the choice of a         *)
(* fallback profile and the dashboard servers.  The six modules have no      *)
(* state in common; the first state chooses which of them this behaviour is  *)
(* about, and the five that are instantiated take turns in using the shared  *)
(* variables.  Two of them come twice, with sets of their own for each part: *)
(* Workspace for implementers that may own a path together, and for one with *)
(* operators at its workspace; DashboardOwner for processes that release the *)
(* dashboard, and for those that judge it.                                   *)
EXTENDS Recovery, FiniteSets

CONSTANTS Nothing,
          Gates, Watch, Pilot, NoActor, Budget, MaxTime, ClockTroubles,     \* Performance
          Reviewers, Pilots, Specs, First, ReviewCap, MaxOverrides, MaxEdits, MaxPauses,   \* ReviewVerdict
          Implementers, Operators, Paths, Owns, Committed, People,
          MaxWrites, MaxLosses, TreeTroubles,                               \* Workspace, some of them by part
          Profiles, Adapter, Local, Available, Configured, Fallbacks, FailoverCap, Substitution, Rounds,
          MaxSessions, MaxFindings,                                         \* Fallback
          Servers, Mine, Registered, Viewing, Ports, Releasers, Observers,
          MaxSlow, MaxEvents                                                \* DashboardOwner, some of them by part

VARIABLES part, v1, v2, v3, v4, v5, v6, v7, v8, v9, v10, v11

Shared == <<v1, v2, v3, v4, v5, v6, v7, v8, v9, v10, v11>>
All    == <<vars, part, Shared>>

Clock == INSTANCE Performance WITH
    MaxTroubles <- ClockTroubles,
    now <- v1, pauses <- v2, standing <- v3, decided <- v4, record <- v5, journal <- v6, torn <- v7, lock <- v8, call <- v9,
    troubles <- v10

Verdict == INSTANCE ReviewVerdict WITH
    Sessions <- Reviewers, Cap <- ReviewCap,
    spec <- v1, phase <- v2, paused <- v3, attempts <- v4, overrides <- v5, review <- v6, session <- v7, adopter <- v8,
    edits <- v9, pauses <- v10, counted <- v11

Trees(p) == INSTANCE Workspace WITH
    Sessions <- Implementers[p], Operators <- Operators[p], Owns <- Owns[p],
    MaxTroubles <- TreeTroubles[p],
    host <- v1, session <- v2, tree <- v3, caller <- v4, applying <- v5, brought <- v6, clock <- v7, closed <- v8,
    writes <- v9, kills <- v10, losses <- v11

Planner == INSTANCE Fallback WITH
    Cap <- FailoverCap, sessions <- v1, findings <- v2, round <- v3

Boards(p) == INSTANCE DashboardOwner WITH
    Servers <- Servers[p], Callers <- Releasers[p], Observers <- Observers[p], MaxEvents <- MaxEvents[p],
    server <- v1, port <- v2, ticks <- v3, file <- v4, present <- v5, open <- v6, reported <- v7, ledger <- v8, caller <- v9,
    observer <- v10, slow <- v11

\* The bounds are numbers, Nothing and NoActor are nobody and nothing else, the
\* processes are told apart, and the Pilot is one person at a time.
ASSUME ProcessesAssumption ==
    /\ MaxTime \in Nat /\ ClockTroubles \in Nat /\ Budget \in Nat \ {0}
    /\ NoActor \notin Gates \cup {Watch, Pilot} /\ Watch # Pilot /\ Pilot \notin Gates
    /\ First \in Specs /\ ReviewCap \in Nat /\ MaxOverrides \in Nat /\ MaxEdits \in Nat /\ MaxPauses \in Nat
    /\ \A p, q \in Pilots : p = q
    /\ Nothing \notin [session : Reviewers, spec : Specs]
    /\ Nothing \notin [session : Reviewers, step : {"replay", "readopt", "mark"}]
    /\ MaxWrites \in Nat
    /\ \A p \in {"Workspaces", "Workspace"} :
          /\ Nothing \notin Implementers[p] \cup Operators[p] /\ Implementers[p] \cap Operators[p] = {}
          /\ People \notin Implementers[p] /\ Owns[p] \in [Implementers[p] -> SUBSET Paths]
          /\ Nothing \notin Trees(p)!Content
          /\ Nothing \notin [by : Trees(p)!Callers, todo : SUBSET Paths, staged : Trees(p)!Trees,
                             aside : Trees(p)!Trees, from : Trees(p)!Trees, amid : BOOLEAN]
    /\ Configured \in [{"implementer", "reviewer"} -> Profiles]
    /\ Fallbacks \in [{"implementer", "reviewer"} -> Seq(Profiles)]
    /\ FailoverCap \in Nat /\ Rounds \in Nat /\ MaxSessions \in Nat /\ MaxFindings \in Nat
    /\ Nothing \notin Profiles /\ Nothing \notin {"runtime_environment", "rate_limit", "non_zero_exit", "cancelled"}
    /\ \A p \in {"Release", "Judge"} :
          Nothing \notin Servers[p] /\ Nothing \notin [pid : Servers[p], port : Ports]
    /\ Nothing \notin {"down", "restored"} /\ MaxSlow \in Nat

-----------------------------------------------------------------------------
\* The part that runs, and the variables it has no use for.
FirstState ==
    \/ /\ part = "Recovery" /\ Init
       /\ v1 = Nothing /\ v2 = Nothing /\ v3 = Nothing /\ v4 = Nothing /\ v5 = Nothing /\ v6 = Nothing /\ v7 = Nothing /\ v8 = Nothing /\ v9 = Nothing /\ v10 = Nothing /\ v11 = Nothing
    \/ /\ part = "Performance" /\ Init /\ Clock!Init
       /\ v11 = Nothing
    \/ /\ part = "ReviewVerdict" /\ Init /\ Verdict!Init
    \/ /\ part = "Workspaces" /\ Init /\ Trees("Workspaces")!Init
    \/ /\ part = "Workspace" /\ Init /\ Trees("Workspace")!Init
    \/ /\ part = "Fallback" /\ Init /\ Planner!Init
       /\ v4 = Nothing /\ v5 = Nothing /\ v6 = Nothing /\ v7 = Nothing /\ v8 = Nothing /\ v9 = Nothing /\ v10 = Nothing /\ v11 = Nothing
    \/ /\ part = "Release" /\ Init /\ Boards("Release")!Init
    \/ /\ part = "Judge" /\ Init /\ Boards("Judge")!Init

Step ==
    \/ part = "Recovery" /\ Next /\ UNCHANGED <<part, Shared>>
    \/ part = "Performance" /\ Clock!Next /\ UNCHANGED <<vars, part, v11>>
    \/ part = "ReviewVerdict" /\ Verdict!Next /\ UNCHANGED <<vars, part>>
    \/ part = "Workspaces" /\ Trees("Workspaces")!Next /\ UNCHANGED <<vars, part>>
    \/ part = "Workspace" /\ Trees("Workspace")!Next /\ UNCHANGED <<vars, part>>
    \/ part = "Fallback" /\ Planner!Next /\ UNCHANGED <<vars, part, v4, v5, v6, v7, v8, v9, v10, v11>>
    \/ part = "Release" /\ Boards("Release")!Next /\ UNCHANGED <<vars, part>>
    \/ part = "Judge" /\ Boards("Judge")!Next /\ UNCHANGED <<vars, part>>

ClockVars   == Clock!vars
VerdictVars == Verdict!vars

\* Each part under the fairness of its own module.
FairParts ==
    /\ FirstState /\ [][Step]_All
    /\ \A h \in Hosts : WF_vars(part = "Recovery" /\ HostStep(h))
    /\ WF_vars(part = "Recovery" /\ Watchdog)
    /\ WF_vars(part = "Recovery" /\ LeaseExpires)
    /\ WF_vars(part = "Recovery" /\ ExpireLease)
    /\ WF_ClockVars(part = "Performance" /\ Clock!Read(Watch))
    /\ \A a \in Clock!Actors : WF_ClockVars(part = "Performance" /\ Clock!Continue(a))
    /\ \A s \in Reviewers : WF_VerdictVars(part = "ReviewVerdict" /\ Verdict!Launcher(s))

-----------------------------------------------------------------------------
\* The type invariants of the six modules.
TypesOK ==
    CASE part = "Recovery"      -> TypeOK
      [] part = "Performance"   -> Clock!TypeOK
      [] part = "ReviewVerdict" -> Verdict!TypeOK
      [] part = "Workspaces"    -> Trees("Workspaces")!TypeOK
      [] part = "Workspace"     -> Trees("Workspace")!TypeOK
      [] part = "Fallback"      -> Planner!TypeOK
      [] part = "Release"       -> Boards("Release")!TypeOK
      [] part = "Judge"         -> Boards("Judge")!TypeOK

\* What a session leaves behind counts once and for what it is: the clock a
\* refresh judged by (refresh_performance_state), a verdict replayed or adopted
\* (adopt_session_result), the changes of a workspace (_apply_changes), a chain
\* of replacements (plan_agent_fallback), the death and the return of the run's
\* dashboard (record_dashboard_down_transition).
SessionsCountOnce ==
    CASE part = "Performance"   -> Clock!ClockNeverLooksYounger
      [] part = "ReviewVerdict" -> Verdict!VerdictsCountOnce
      [] part = "Workspace"     -> Trees("Workspace")!AllOrNothing
      [] part = "Fallback"      -> Planner!FallbacksAreSound
      [] part = "Judge"         -> Boards("Judge")!ReportedOnce
      [] OTHER                  -> TRUE

\* Nothing that is settled is undone by who comes later: an ended session stays
\* as it ended (Recovery's EndedStays), and a change that comes back from a
\* worktree never replaces what another session brought in after it was seeded
\* (apply_implementer_workspace, implementer_admission); a release of the run's
\* dashboard stops that server and no other (release_run_dashboard).
NothingIsUndone ==
    /\ EndedStays
    /\ [][/\ part = "Workspaces" => Trees("Workspaces")!OthersWorkKept
          /\ part = "Release" => Boards("Release")!StopsItsOwn]_All

\* What a session or its host began ends: a lost implementer is replaced or
\* handed to the Pilot, a run over its budget is paused or continued by a
\* decision, a printed verdict is recorded or kept.
Settled ==
    CASE part = "Recovery"      -> Resolved \/ Orphaned
      [] part = "Performance"   -> Clock!Settled
      [] part = "ReviewVerdict" -> Verdict!NonePrinted
      [] OTHER                  -> TRUE
SessionsEnd == []<>Settled
=============================================================================
