-------------------------------- MODULE Pilot --------------------------------
(* What people decide and what is shown to them: closing a run, design       *)
(* reviews and questions, amendments, work items, mutation proofs, Mission   *)
(* Control and the dashboard's launches.  The seven modules have no state in *)
(* common; the first state chooses which of them this behaviour is about,    *)
(* and the six that are instantiated take turns in using the shared          *)
(* variables.  DesignReview comes twice: for the launches of reviewers, and  *)
(* for questions.  So does MissionControl: with changes of the design, and   *)
(* with one more change of the run while a click is late.                    *)
EXTENDS CloseTransaction

CONSTANTS Nothing,
          Sessions, Asking, Role, ReviewLimit, Allowance, Rounds, AskingRounds, Findings,
          MaxAttempts, MaxQuestions, AskingQuestions,     \* DesignReview
          Ids, Specs, First, Actors, Architect, AmendEdits,             \* Amendment
          Works, WorkIssues, Title, Criteria, Untagged, Absent, Proposed, WorkEdits,    \* WorkItems
          Confirmations, Noticing, Flaky, Loading, MaxVersion, MaxSpecs, MaxProofs,     \* MutationProof
          Threads, Commands, PageLimit, MaxStamp, LateStamp, MaxDesigns, LateDesigns,
          MaxRequests, MaxMarks, LateMarks,                             \* MissionControl
          Loop, Others, Hosted, Stretches, Stops, MaxSessions, MaxByHand, MaxNews, MaxStops   \* Handoff

VARIABLES part, v1, v2, v3, v4, v5, v6, v7, v8, v9, v10, v11, v12, v13, v14, v15

Shared == <<v1, v2, v3, v4, v5, v6, v7, v8, v9, v10, v11, v12, v13, v14, v15>>
All    == <<vars, part, Shared>>

Design(sessions, rounds, most) == INSTANCE DesignReview WITH
    Sessions <- sessions, Limit <- ReviewLimit, Rounds <- rounds, MaxQuestions <- most,
    proposal <- v1, review <- v2, approved <- v3, attempts <- v4, found <- v5, grant <- v6, auto <- v7, status <- v8,
    hold <- v9, questions <- v10, session <- v11, granted <- v12, launched <- v13

Amend == INSTANCE Amendment WITH
    MaxEdits <- AmendEdits,
    registry <- v1, tested <- v2, phase <- v3, reviewed <- v4, approved <- v5, amendment <- v6, edits <- v7, seen <- v8,
    agreed <- v9

Work == INSTANCE WorkItems WITH
    Items <- Works, Issues <- WorkIssues, MaxEdits <- WorkEdits,
    items <- v1, removed <- v2, explicit <- v3, tag <- v4, passing <- v5, optional <- v6, active <- v7, tranche <- v8,
    phase <- v9, review <- v10, approval <- v11, deployed <- v12, edits <- v13

Proof == INSTANCE MutationProof WITH
    source <- v1, tests <- v2, spec <- v3, proof <- v4, begun <- v5, ledger <- v6

Mission(stamps, designs, marks) == INSTANCE MissionControl WITH
    Limit <- PageLimit, MaxStamp <- stamps, MaxDesigns <- designs, MaxMarks <- marks,
    stamp <- v1, phase <- v2, design <- v3, budget <- v4, escalated <- v5, overrides <- v6, deployed <- v7, pause <- v8,
    closed <- v9, requests <- v10, page <- v11, thread <- v12

Handing == INSTANCE Handoff WITH
    hosted <- v1, stretch <- v2, phase <- v3, open <- v4, design <- v5, evidence <- v6, review <- v7, stops <- v8,
    stopped <- v9, question <- v10, news <- v11, live <- v12, ended <- v13, first <- v14, loop <- v15

\* Bounds that are numbers, at least one confirming run, version and command,
\* the first registry, title and proposal made of what there is, stretches that
\* are told from the code's tables, and Nothing none of what may be there.
ASSUME PilotAssumption ==
    /\ {ReviewLimit, Allowance, MaxAttempts, MaxQuestions, AskingQuestions} \subseteq Nat
    /\ Rounds \subseteq 1 .. 5 /\ AskingRounds \subseteq 1 .. 5
    /\ Nothing \notin Sessions \cup Asking /\ Nothing \notin Design(Sessions, Rounds, MaxQuestions)!Grant
    /\ Nothing \notin Design(Asking, AskingRounds, AskingQuestions)!Grant
    /\ First \in Amend!Registries /\ Nothing \notin Specs
    /\ Nothing \notin Amend!Registries /\ Nothing \notin [design : Amend!Registries, ok : BOOLEAN]
    /\ Nothing \notin Amend!Reviews /\ Nothing \notin Amend!Amendments
    /\ Works \subseteq Nat /\ IsFiniteSet(Works) /\ Title \subseteq Works /\ Title # {}
    /\ Proposed \in Seq(Works) /\ Absent \notin Works /\ Absent # Untagged
    /\ \A s \in SUBSET Works : s # Nothing
    /\ Nothing \notin [scope : SUBSET Works, approved : BOOLEAN]
    /\ {Confirmations, MaxVersion, MaxSpecs} \subseteq Nat \ {0}
    /\ {MaxDesigns, LateDesigns} \subseteq Nat \ {0} /\ Commands # {}
    /\ {PageLimit, MaxStamp, LateStamp, MaxMarks, LateMarks} \subseteq Nat
    /\ Loop # Others /\ Nothing \notin Handing!Session
    /\ \A s \in Stretches : s \subseteq 1 .. 5 /\ (5 \in s => 4 \in s)
    /\ {AmendEdits, WorkEdits, MaxProofs, MaxSessions, MaxNews, MaxStops} \subseteq Nat

-----------------------------------------------------------------------------
\* Where another part runs, of the first states of a close one is enough.
FirstOfMany == Init /\ run.delivered /\ \A i \in Issues : issue[i].parent = "nobox"

\* The part that runs, and the variables it has no use for.
FirstState ==
    \/ /\ part = "CloseTransaction" /\ Init
       /\ v1 = Nothing /\ v2 = Nothing /\ v3 = Nothing /\ v4 = Nothing /\ v5 = Nothing /\ v6 = Nothing /\ v7 = Nothing /\ v8 = Nothing /\ v9 = Nothing /\ v10 = Nothing /\ v11 = Nothing /\ v12 = Nothing /\ v13 = Nothing /\ v14 = Nothing /\ v15 = Nothing
    \/ /\ part = "DesignReview" /\ FirstOfMany /\ Design(Sessions, Rounds, MaxQuestions)!Init
       /\ v14 = Nothing /\ v15 = Nothing
    \/ /\ part = "Questions" /\ FirstOfMany /\ Design(Asking, AskingRounds, AskingQuestions)!Init
       /\ v14 = Nothing /\ v15 = Nothing
    \/ /\ part = "Amendment" /\ FirstOfMany /\ Amend!Init
       /\ v10 = Nothing /\ v11 = Nothing /\ v12 = Nothing /\ v13 = Nothing /\ v14 = Nothing /\ v15 = Nothing
    \/ /\ part = "WorkItems" /\ FirstOfMany /\ Work!Init
       /\ v14 = Nothing /\ v15 = Nothing
    \/ /\ part = "MutationProof" /\ FirstOfMany /\ Proof!Init
       /\ v7 = Nothing /\ v8 = Nothing /\ v9 = Nothing /\ v10 = Nothing /\ v11 = Nothing /\ v12 = Nothing /\ v13 = Nothing /\ v14 = Nothing /\ v15 = Nothing
    \/ /\ part = "MissionControl" /\ FirstOfMany /\ Mission(MaxStamp, MaxDesigns, MaxMarks)!Init
       /\ v13 = Nothing /\ v14 = Nothing /\ v15 = Nothing
    \/ /\ part = "LateClicks" /\ FirstOfMany /\ Mission(LateStamp, LateDesigns, LateMarks)!Init
       /\ v13 = Nothing /\ v14 = Nothing /\ v15 = Nothing
    \/ /\ part = "Handoff" /\ FirstOfMany /\ Handing!Init

Step ==
    \/ part = "CloseTransaction" /\ Next /\ UNCHANGED <<part, Shared>>
    \/ part = "DesignReview" /\ Design(Sessions, Rounds, MaxQuestions)!Next /\ UNCHANGED <<vars, part, v14, v15>>
    \/ part = "Questions" /\ Design(Asking, AskingRounds, AskingQuestions)!Next /\ UNCHANGED <<vars, part, v14, v15>>
    \/ part = "Amendment" /\ Amend!Next /\ UNCHANGED <<vars, part, v10, v11, v12, v13, v14, v15>>
    \/ part = "WorkItems" /\ Work!Next /\ UNCHANGED <<vars, part, v14, v15>>
    \/ part = "MutationProof" /\ Proof!Next /\ UNCHANGED <<vars, part, v7, v8, v9, v10, v11, v12, v13, v14, v15>>
    \/ part = "MissionControl" /\ Mission(MaxStamp, MaxDesigns, MaxMarks)!Next /\ UNCHANGED <<vars, part, v13, v14, v15>>
    \/ part = "LateClicks" /\ Mission(LateStamp, LateDesigns, LateMarks)!Next /\ UNCHANGED <<vars, part, v13, v14, v15>>
    \/ part = "Handoff" /\ Handing!Next /\ UNCHANGED <<vars, part>>

\* The close under its fairness; the other parts are about safety alone.
FairParts ==
    /\ FirstState /\ [][Step]_All
    /\ \A c \in Callers : /\ WF_vars(part = "CloseTransaction" /\ Continue(c))
                          /\ WF_vars(part = "CloseTransaction" /\ Start(c, TRUE))

-----------------------------------------------------------------------------
\* The type invariants of the seven modules.
TypesOK ==
    CASE part = "CloseTransaction" -> TypeOK
      [] part = "DesignReview"     -> Design(Sessions, Rounds, MaxQuestions)!TypeOK
      [] part = "Questions"        -> Design(Asking, AskingRounds, AskingQuestions)!TypeOK
      [] part = "Amendment"        -> Amend!TypeOK
      [] part = "WorkItems"        -> Work!TypeOK
      [] part = "MutationProof"    -> Proof!TypeOK
      [] part = "MissionControl"   -> Mission(MaxStamp, MaxDesigns, MaxMarks)!TypeOK
      [] part = "LateClicks"       -> Mission(LateStamp, LateDesigns, LateMarks)!TypeOK
      [] part = "Handoff"          -> Handing!TypeOK

\* What stands was decided about what is there: design review rounds that were
\* granted (create_agent_session), an amended registry that was reviewed and
\* approved as a whole (cmd_amendment_approve), a scope the design decisions are
\* about (work_item_scope), a proof whose runs all copied the source on disk,
\* unless it was changed and changed back meanwhile (cmd_mutation_proof).
DecidedOnWhatIsThere ==
    CASE part = "DesignReview"   -> Design(Sessions, Rounds, MaxQuestions)!RoundsAreGranted
      [] part = "Questions"      -> Design(Asking, AskingRounds, AskingQuestions)!RoundsAreGranted
      [] part = "Amendment"      -> Amend!AmendedIsReviewed
      [] part = "WorkItems"      -> Work!ScopeIsDecided
      [] part = "MutationProof"  -> Proof!ProofsAreOfTheirSource
      [] OTHER                   -> TRUE

\* No step does more than somebody asked for: a close adds no report to an
\* issue it saw closed by a person (PersonsClosureStands), a removed work item does not come
\* back by itself, a late click does what its page showed or nothing, the
\* dashboard launches a role again only after news, and no answer or decision
\* leaves a run blocked for a reason that has gone (record_question_answer).
OnlyAsAsked ==
    /\ PersonsClosureStands
    /\ [][CASE part = "WorkItems"      -> Work!RemovedStays
            [] part = "DesignReview"   -> Design(Sessions, Rounds, MaxQuestions)!BlocksStayExplained
            [] part = "Questions"      -> Design(Asking, AskingRounds, AskingQuestions)!BlocksStayExplained
            [] part = "MissionControl" -> Mission(MaxStamp, MaxDesigns, MaxMarks)!LateClickDoesNoMore
            [] part = "LateClicks"     -> Mission(LateStamp, LateDesigns, LateMarks)!LateClickDoesNoMore
            [] part = "Handoff"        -> Handing!LaunchFollowsNews
            [] OTHER                   -> TRUE]_All

\* CloseEnds, where the close is what this behaviour is about.
ClosesEnd == <>[](part = "CloseTransaction" => Done \/ NoBox \/ archive.state = "partial")
=============================================================================
