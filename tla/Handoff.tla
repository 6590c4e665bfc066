------------------------------- MODULE Handoff -------------------------------
(* The orchestration loop of an owned Mission Control dashboard: once a      *)
(* second it reads the status under the project lock, and outside the lock   *)
(* it advances an approved design or launches the role the run waits for     *)
(* (DashboardServer._orchestrate_once, lib.managed_handoff_role).  Sessions  *)
(* end, the host and the Pilot record, ask, answer, pause and close at any   *)
(* moment in between, so what the loop decided may be stale when it acts.    *)
(*                                                                           *)
(* A stretch of phases begins with a run a host drove that far by hand.      *)
(* Left out: reviewer budgets (DesignReview), lost sessions (Recovery), the  *)
(* performance pause (Performance), phases 6 to 8, the concurrent            *)
(* implementers, commands on a closed run, run-reopen and --cancel-active.   *)
EXTENDS Naturals, Sequences, FiniteSets

CONSTANTS
    Loop, Others,   \* who launches: the loop, or the host and the Pilot
    Nothing,        \* no role, no decision
    Hosted,         \* the sets of host-driven roles a run may be configured with
    Stretches,      \* the stretches of phases an instance looks at
    Stops,          \* the reasons to wait that come and go in this instance
    MaxSessions, MaxByHand, MaxNews, MaxStops     \* bounds

Roles == {"architect", "supervisor", "implementer", "reviewer"}
EndStates == {"completed", "failed"}
EarlyStops == {"blocked", "human_pause", "background_wait"}
LateStops == {"regression", "recovery"}

VARIABLES
    hosted,     \* the configuration
    stretch,    \* the phases this instance looks at
    phase,      \* phase_number
    open,       \* neither complete nor closed
    design,     \* the Phase-2 record
    evidence,   \* implementation_evidence_complete
    review,     \* a review is recorded
    stops,      \* the reasons to wait that hold now
    stopped,    \* how many reasons came up; bounds the model
    question,   \* the last blocking question
    news,       \* how often a question was answered or the phase changed
    live,       \* per role, its live session or Nothing
    ended,      \* ended sessions in the order of ended_at
    first,      \* the objective of request_first_launch is waiting
    loop        \* what the loop is doing

config == <<hosted, stretch>>
run == <<phase, open, design, evidence, review>>
waits == <<stops, stopped>>
vars == <<config, run, waits, question, news, live, ended, first, loop>>

Session == [role : Roles, phase : 1..5, by : {Loop, Others}, news : 0..MaxNews]
Ended == [role : Roles, phase : 1..5, by : {Loop, Others}, news : 0..MaxNews,
          state : EndStates]

TypeOK ==
    /\ hosted \in Hosted /\ stretch \in Stretches
    /\ phase \in stretch /\ open \in BOOLEAN
    /\ design \in [proposed : BOOLEAN, verdict : {Nothing, "approved", "changes"},
                   approved : BOOLEAN]
    /\ evidence \in BOOLEAN /\ review \in BOOLEAN
    /\ stops \subseteq Stops /\ stopped \in 0..MaxStops
    /\ question \in [role : Roles \cup {Nothing}, state : {"none", "open", "answered"}]
    /\ news \in 0..MaxNews
    /\ \A r \in Roles : live[r] = Nothing \/ (live[r] \in Session /\ live[r].role = r)
    /\ ended \in Seq(Ended) /\ Len(ended) <= MaxSessions
    /\ first \in BOOLEAN
    /\ loop \in [role : Roles \cup {Nothing}, at : {"idle", "deciding", "running"}]

NoQuestion == [role |-> Nothing, state |-> "none"]
Idle == [role |-> Nothing, at |-> "idle"]

Init ==
    /\ hosted \in Hosted
    /\ stretch \in Stretches
    /\ phase \in stretch
    /\ open = TRUE
    /\ design = IF phase = 1 THEN [proposed |-> FALSE, verdict |-> Nothing, approved |-> FALSE]
                ELSE [proposed |-> TRUE, verdict |-> "approved", approved |-> TRUE]
    /\ evidence = (phase = 5) /\ review = FALSE
    /\ stops = {} /\ stopped = 0
    /\ question = NoQuestion /\ news = 0
    /\ live = [r \in Roles |-> Nothing] /\ ended = <<>>
    /\ first = (phase = 1)
    /\ loop = Idle

-----------------------------------------------------------------------------
\* The role the run waits for.

AssignedRole ==
    CASE phase = 1 -> "architect"
      [] phase = 2 /\ design.approved -> Nothing
      [] phase = 2 /\ ~design.approved /\ design.verdict = "changes" /\ ~design.proposed -> "architect"
      [] phase = 2 /\ ~design.approved /\ ~(design.verdict = "changes" /\ ~design.proposed) -> "reviewer"
      [] phase = 3 -> "supervisor"
      [] phase = 4 -> IF evidence THEN "supervisor" ELSE "implementer"
      [] OTHER -> IF review THEN "supervisor" ELSE "reviewer"

NobodyLive == \A r \in Roles : live[r] = Nothing
Indices(P(_)) == {i \in DOMAIN ended : P(ended[i])}
Last(S) == CHOOSE i \in S : \A j \in S : j <= i

\* The newest completed session of this phase or the one before, if any.
Relevant ==
    LET recent(s) == s.state = "completed" /\ s.phase \in {phase, phase - 1} IN Indices(recent)

\* Mutant: only a completed session counts.
OfTargetCompleted(role) ==
    LET own(s) == s.role = role /\ s.phase = phase /\ s.state = "completed" IN Indices(own)

\* The target's own ended sessions of this phase, however they ended.
OfTarget(role) ==
    LET own(s) == s.role = role /\ s.phase = phase IN Indices(own)

\* A completed session of another role is newer than the target's latest.
Due(role) ==
    /\ Relevant # {}
    /\ ended[Last(Relevant)].role # role
    /\ \A i \in OfTarget(role) : i < Last(Relevant)

Handed(role) ==
    /\ role # Nothing
    /\ ~(role = "reviewer" /\ review)
    /\ role \notin hosted
    /\ "supervisor" \in hosted => role = "reviewer"
    /\ NobodyLive
    /\ Due(role)

\* An answer not handed over yet brings back the role that asked.
AskerReturns(role) ==
    /\ question.state = "answered" /\ question.role = role
    /\ live[role] = Nothing /\ role \notin hosted
    /\ ~(role = "implementer" /\ "supervisor" \in hosted)

Waiting == ~open \/ stops \cap EarlyStops # {} \/ question.state = "open"

HandoffRole ==
    IF Waiting THEN Nothing
    ELSE IF \E r \in Roles : AskerReturns(r) THEN question.role
    ELSE IF stops \cap LateStops # {} THEN Nothing
    ELSE IF Handed(AssignedRole) THEN AssignedRole ELSE Nothing

-----------------------------------------------------------------------------
\* The loop.

\* The first launch after init: the waiting objective is taken whether or
\* not the Architect can be launched with it.
FirstLaunch ==
    /\ loop = Idle /\ first
    /\ first' = FALSE
    /\ loop' = IF AssignedRole = "architect" /\ "architect" \notin hosted /\ NobodyLive
               THEN [role |-> "architect", at |-> "deciding"] ELSE Idle
    /\ UNCHANGED <<config, run, waits, question, news, live, ended>>

\* advance_approved_design, which decides anew under the lock.
AdvanceApprovedDesign ==
    /\ loop = Idle /\ ~first
    /\ phase = 2 /\ design.approved /\ open /\ news < MaxNews
    /\ phase' = 3 /\ phase' \in stretch /\ news' = news + 1
    /\ UNCHANGED <<config, open, design, evidence, review, waits, question, live, ended,
                   first, loop>>

Decide ==
    /\ loop = Idle /\ ~first
    /\ HandoffRole # Nothing
    /\ HandoffRole = "implementer" => "supervisor" \notin hosted
    /\ loop' = [role |-> HandoffRole, at |-> "deciding"]
    /\ UNCHANGED <<config, run, waits, question, news, live, ended, first>>

\* create_agent_session looks at the role's own session and at a running
\* regression; it does not look at the pause, the closing or the phase the
\* loop decided in.  Building the input hands the answer over.
Started(role, by) ==
    /\ live[role] = Nothing /\ "regression" \notin stops
    /\ Cardinality({r \in Roles : live[r] # Nothing}) + Len(ended) < MaxSessions
    /\ live' = [live EXCEPT ![role] = [role |-> role, phase |-> phase, by |-> by, news |-> news]]
    /\ question' = IF question = [role |-> role, state |-> "answered"] THEN NoQuestion ELSE question

Launch ==
    /\ loop.at = "deciding"
    /\ Started(loop.role, Loop)
    /\ loop' = [loop EXCEPT !.at = "running"]
    /\ UNCHANGED <<config, run, waits, news, ended, first>>

\* A launch that is refused, before or after its input was built.
Refused ==
    /\ loop.at = "deciding"
    /\ loop' = Idle
    /\ question' \in {question} \cup
          (IF question = [role |-> loop.role, state |-> "answered"] THEN {NoQuestion} ELSE {})
    /\ UNCHANGED <<config, run, waits, news, live, ended, first>>

\* The loop waits for the child it launched.
SessionEnds(role) ==
    /\ live[role] # Nothing
    /\ \E s \in EndStates :
          ended' = Append(ended, [role |-> role, phase |-> live[role].phase, by |-> live[role].by,
                                  news |-> live[role].news, state |-> s])
    /\ live' = [live EXCEPT ![role] = Nothing]
    /\ loop' = IF loop = [role |-> role, at |-> "running"] /\ live[role].by = Loop THEN Idle ELSE loop
    /\ UNCHANGED <<config, run, waits, question, news, first>>

-----------------------------------------------------------------------------
\* Everybody else: each is one command under the lock.

\* `handsoff agent launch` or the Pilot's launch button.
OthersLaunch(role) ==
    /\ role \notin hosted
    /\ Started(role, Others)
    /\ Cardinality({r \in Roles : live'[r] # Nothing /\ live'[r].by = Others})
         + Cardinality({i \in DOMAIN ended : ended[i].by = Others}) <= MaxByHand
    /\ UNCHANGED <<config, run, waits, news, ended, first, loop>>

Propose ==
    /\ phase = 2 /\ ~design.proposed
    /\ design' = [proposed |-> TRUE, verdict |-> design.verdict, approved |-> FALSE]
    /\ UNCHANGED <<phase, evidence, review>>

\* A verdict spends the proposal: the next must be based on this attempt.
DesignVerdict ==
    /\ phase = 2 /\ design.proposed
    /\ \E v \in {"approved", "changes"} :
          design' = [proposed |-> v = "approved", verdict |-> v, approved |-> FALSE]
    /\ UNCHANGED <<phase, evidence, review>>

DesignApproved ==
    /\ phase = 2 /\ design.proposed /\ design.verdict = "approved"
    /\ design' = [design EXCEPT !.approved = TRUE]
    /\ UNCHANGED <<phase, evidence, review>>

EvidenceComplete ==
    /\ phase = 4 /\ evidence' = TRUE
    /\ UNCHANGED <<phase, design, review>>

\* A review that asks for changes takes the run back to Phase 4; the states
\* of the criteria stay as they are.
RecordReview ==
    /\ phase = 5
    /\ \/ review' = TRUE /\ UNCHANGED <<phase, evidence>>
       \/ phase' = 4 /\ review' = FALSE /\ UNCHANGED evidence
    /\ UNCHANGED design

Advance ==
    /\ \/ phase \in {1, 3}
       \/ phase = 2 /\ design.approved
       \/ phase = 4 /\ evidence
    /\ phase' = phase + 1 /\ phase' \in stretch
    /\ UNCHANGED <<design, evidence, review>>

Command ==
    /\ open
    /\ Propose \/ DesignVerdict \/ DesignApproved \/ EvidenceComplete \/ RecordReview \/ Advance
    /\ news' = IF phase' = phase THEN news ELSE news + 1
    /\ news' <= MaxNews
    /\ UNCHANGED <<config, open, waits, question, live, ended, first, loop>>

Ask(role) ==
    /\ open /\ live[role] # Nothing
    /\ question.state = "none"
    /\ question' = [role |-> role, state |-> "open"]
    /\ UNCHANGED <<config, run, waits, news, live, ended, first, loop>>

Answer ==
    /\ question.state = "open" /\ news < MaxNews
    /\ question' = [question EXCEPT !.state = "answered"]
    /\ news' = news + 1
    /\ UNCHANGED <<config, run, waits, live, ended, first, loop>>

\* human-pause-start and -end, background-wait-start and -end, and the other
\* reasons to wait as they come and go.
Stop(k) ==
    /\ open /\ k \notin stops /\ stopped < MaxStops
    /\ stops' = stops \cup {k} /\ stopped' = stopped + 1
    /\ UNCHANGED <<config, run, question, news, live, ended, first, loop>>

Resume(k) ==
    /\ k \in stops
    /\ stops' = stops \ {k}
    /\ UNCHANGED <<config, run, stopped, question, news, live, ended, first, loop>>

\* close_run without --cancel-active: refused while a session lives.
Close ==
    /\ open /\ NobodyLive
    /\ open' = FALSE
    /\ stops' = stops \ {"human_pause", "background_wait"}
    /\ UNCHANGED <<config, phase, design, evidence, review, stopped, question, news, live,
                   ended, first, loop>>

Next ==
    \/ FirstLaunch \/ AdvanceApprovedDesign \/ Decide \/ Launch \/ Refused
    \/ Command \/ Answer \/ Close
    \/ \E r \in Roles : SessionEnds(r) \/ OthersLaunch(r) \/ Ask(r)
    \/ \E k \in Stops : Stop(k) \/ Resume(k)

Spec == Init /\ [][Next]_vars

-----------------------------------------------------------------------------
\* Properties.

ByLoop(role) ==
    LET own(s) == s.role = role /\ s.by = Loop IN Indices(own)

\* What a step of LaunchesFollowNews is.
LaunchFollowsNews ==
    \A r \in Roles :
       live[r] = Nothing /\ live'[r] # Nothing /\ live'[r].by = Loop /\ ByLoop(r) # {}
       => LET last == Last(ByLoop(r)) IN
          \/ \E i \in DOMAIN ended : i > last /\ ended[i].role # r
          \/ ended[last].news < news

\* Whatever the others do and however stale the decision: the loop launches
\* a role again only after a session of another role ended, a question was
\* answered or the phase changed, since it launched that role last.  Nothing
\* it launches can keep it launching.
LaunchesFollowNews == [][LaunchFollowsNews]_vars

\* VIOLATED: the decision is taken under the lock and carried out after it,
\* and a launch never looks whether the run was closed or paused meanwhile.
ClosedRunsStayQuiet == ~open => NobodyLive
==============================================================================
