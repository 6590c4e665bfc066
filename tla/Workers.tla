------------------------------- MODULE Workers -------------------------------
(* Work that outlives the call that asked for it: leased jobs, checks that   *)
(* several verifies share, regression runners, Fleet's collector and the     *)
(* tickets that runs claim.  The five modules have no state in common; the   *)
(* first state chooses which of them this behaviour is about, and the four   *)
(* that are instantiated take turns in using the shared variables.           *)
(* TicketLock comes twice: with troubles, and after runs whose end is still  *)
(* to be noted.                                                              *)
EXTENDS JobLease, FiniteSets

CONSTANTS Nothing,
          Verifies, Pool, NoCache, Criteria, CheckTests, Long, CheckEdits, CheckKills,   \* VerifyReuse
          Runners, AdHoc, RegressionTests, Shards, Versions, History, MaxRequests, RunEdits, RunTroubles,   \* Regression
          Issues, Commits, Date, PageSize, MaxTime, FleetEdits, FleetTroubles, MaxRegistry,   \* FleetCollector
          Roots, Finished, Troubled, MaxInits, MaxTroubles   \* TicketLock

VARIABLES part, v1, v2, v3, v4, v5, v6, v7, v8, v9, v10, v11, v12, v13

Shared == <<v1, v2, v3, v4, v5, v6, v7, v8, v9, v10, v11, v12, v13>>
All    == <<jobs, part, Shared>>

Checks == INSTANCE VerifyReuse WITH
    Tests <- CheckTests, MaxEdits <- CheckEdits, MaxKills <- CheckKills,
    tree <- v1, spec <- v2, lock <- v3, at <- v4, named <- v5, bound <- v6, reused <- v7, result <- v8, written <- v9,
    ledger <- v10, edits <- v11, kills <- v12, heard <- v13

Battery == INSTANCE Regression WITH
    Tests <- RegressionTests, MaxEdits <- RunEdits, MaxTroubles <- RunTroubles,
    tree <- v1, requests <- v2, asked <- v3, runner <- v4, progress <- v5, troubles <- v6, edits <- v7

Fleet == INSTANCE FleetCollector WITH
    MaxEdits <- FleetEdits, MaxTroubles <- FleetTroubles,
    now <- v1, github <- v2, history <- v3, edits <- v4, memory <- v5, disk <- v6, pass <- v7, registry <- v8, seen <- v9,
    collected <- v10, thread <- v11, troubles <- v12

Tickets(finished, troubled, most) == INSTANCE TicketLock WITH
    Finished <- finished, Troubled <- troubled, MaxTroubles <- most,
    there <- v1, run <- v2, entry <- v3, starting <- v4, notes <- v5, build <- v6, how <- v7, inits <- v8, troubles <- v9

\* A finite configuration, at least one shard and one request of history
\* (MAX_REGRESSION_REQUESTS), issues with numbers, bounds that are numbers, and
\* Nothing no entry of the register or of the cache.
ASSUME WorkersAssumption ==
    /\ IsFiniteSet(Criteria) /\ CheckEdits \in Nat /\ CheckKills \in Nat
    /\ RegressionTests \in Nat /\ Shards \in Nat \ {0} /\ History \in Nat \ {0}
    /\ MaxRequests \in Nat /\ Versions \in Nat /\ RunEdits \in Nat
    /\ Issues \subseteq Nat /\ Issues # {} /\ PageSize \in Nat \ {0}
    /\ MaxTime \in Nat /\ FleetEdits \in Nat /\ FleetTroubles \in Nat /\ MaxRegistry \in Nat
    /\ Nothing \notin Fleet!Entry \cup Fleet!Reading
    /\ Nothing \notin Tickets({}, {}, 0)!Entries /\ MaxInits \in Nat /\ MaxTroubles \in Nat

-----------------------------------------------------------------------------
\* The part that runs, and the variables it has no use for.
FirstState ==
    \/ /\ part = "JobLease" /\ Init
       /\ v1 = Nothing /\ v2 = Nothing /\ v3 = Nothing /\ v4 = Nothing /\ v5 = Nothing /\ v6 = Nothing /\ v7 = Nothing /\ v8 = Nothing /\ v9 = Nothing /\ v10 = Nothing /\ v11 = Nothing /\ v12 = Nothing /\ v13 = Nothing
    \/ /\ part = "VerifyReuse" /\ Init /\ Checks!Init
    \/ /\ part = "Regression" /\ Init /\ Battery!Init
       /\ v8 = Nothing /\ v9 = Nothing /\ v10 = Nothing /\ v11 = Nothing /\ v12 = Nothing /\ v13 = Nothing
    \/ /\ part = "FleetCollector" /\ Init /\ Fleet!Init /\ v13 = Nothing
    \/ /\ part = "TicketLock" /\ Init /\ Tickets({}, Troubled, MaxTroubles)!Init
       /\ v10 = Nothing /\ v11 = Nothing /\ v12 = Nothing /\ v13 = Nothing
    \/ /\ part = "Renewals" /\ Init /\ Tickets(Finished, {}, 0)!Init
       /\ v10 = Nothing /\ v11 = Nothing /\ v12 = Nothing /\ v13 = Nothing

Step ==
    \/ part = "JobLease" /\ Next /\ UNCHANGED <<part, Shared>>
    \/ part = "VerifyReuse" /\ Checks!Next /\ UNCHANGED <<jobs, part>>
    \/ part = "Regression" /\ Battery!Next /\ UNCHANGED <<jobs, part, v8, v9, v10, v11, v12, v13>>
    \/ part = "FleetCollector" /\ Fleet!Next /\ UNCHANGED <<jobs, part, v13>>
    \/ part = "TicketLock" /\ Tickets({}, Troubled, MaxTroubles)!Next /\ UNCHANGED <<jobs, part, v10, v11, v12, v13>>
    \/ part = "Renewals" /\ Tickets(Finished, {}, 0)!Next /\ UNCHANGED <<jobs, part, v10, v11, v12, v13>>

CheckVars   == Checks!vars
BatteryVars == Battery!vars
FleetVars   == Fleet!vars
TicketVars  == Tickets(Finished, Troubled, MaxTroubles)!vars

\* Each part under the fairness of its own module.
FairParts ==
    /\ FirstState /\ [][Step]_All
    /\ WF_jobs(part = "JobLease" /\ \E w \in Workers : Claim(w))
    /\ WF_jobs(part = "JobLease" /\ Tick)
    /\ \A v \in Verifies : WF_CheckVars(part = "VerifyReuse" /\ Checks!Step(v))
    /\ \A r \in Runners : WF_BatteryVars(part = "Regression" /\ Battery!Ending(r))
    /\ WF_FleetVars(part = "FleetCollector" /\ Fleet!Pass)
    /\ WF_TicketVars(part \in {"TicketLock", "Renewals"} /\ Tickets(Finished, Troubled, MaxTroubles)!Builds)

-----------------------------------------------------------------------------
\* The type invariants of the five modules.
TypesOK ==
    CASE part = "JobLease"       -> TypeOK
      [] part = "VerifyReuse"    -> Checks!TypeOK
      [] part = "Regression"     -> Battery!TypeOK
      [] part = "FleetCollector" -> Fleet!TypeOK
      [] part = "TicketLock"     -> Tickets({}, Troubled, MaxTroubles)!TypeOK
      [] part = "Renewals"       -> Tickets(Finished, {}, 0)!TypeOK

\* However workers overlap, expire and are killed: a key names one job, granted
\* no more often than it allows (Queue.claim); a binding's command is paid for
\* once (run_criterion_evidence, #43); a regression counts as completed only if
\* it ran whole, and on no tree but the one it was approved for unless that was
\* changed and changed back meanwhile (cmd_regression_run); a ticket is not given
\* to two runs that both hold their claims (claim_tickets, #166).
WorkIsDoneOnce ==
    CASE part = "JobLease"    -> GrantsBounded /\ KeysUnique
      [] part = "VerifyReuse" -> Checks!EachBindingRunsOnce
      [] part = "Regression"  -> Battery!CompletedIsWhole
      [] part = "TicketLock"  -> Tickets({}, Troubled, MaxTroubles)!OneOwner
      [] part = "Renewals"    -> Tickets(Finished, {}, 0)!OneOwner
      [] OTHER                -> TRUE

\* A pass of the collector that ends without an error holds every issue that
\* was not touched while it ran (collect_project).
CollectorSeesUpdates == [][part = "FleetCollector" => Fleet!UpdatesSeen]_All

\* What was begun ends: a job while somebody claims (JobLease's EveryJobEnds), a
\* verify that waits for another's checks, a regression runner, the collector's
\* neglect of a registry that changed, and the register's errors about runs.
NoneWaits ==
    CASE part = "JobLease"       -> AllEnded
      [] part = "VerifyReuse"    -> Checks!NoneWaits
      [] part = "Regression"     -> Battery!NoneRuns
      [] part = "FleetCollector" -> Fleet!Collected
      [] part = "TicketLock"     -> Tickets({}, Troubled, MaxTroubles)!Agrees
      [] part = "Renewals"       -> Tickets(Finished, {}, 0)!Agrees
      [] OTHER                   -> TRUE
WorkersEnd == []<>NoneWaits \/ []<><<SomeHeartbeat>>_jobs
=============================================================================
