---------------------------- MODULE MissionControl ----------------------------
(* The Pilot's buttons on Mission Control.  A page shows a snapshot; a click *)
(* is checked against a fresh snapshot by a handler thread, which then, not  *)
(* holding the lock, runs the Supervisor command the CLI would run.  The run *)
(* moves at any moment: between the display and the click, and between the   *)
(* check and the command.                                                    *)
(*                                                                           *)
(* One project that requires both approvals.  Left out: amendments,          *)
(* questions and their panels, recovery, the performance pause, verification *)
(* runs (VerifyReuse), stale evidence, Phases 1, 6 and 8, and settings.      *)
EXTENDS Naturals, Sequences, FiniteSets

CONSTANTS
    Threads,        \* handler threads
    Commands,       \* what a full regression may be asked to run
    Nothing,        \* an idle thread, no input kind, the CLI
    Limit,          \* the design-review budget
    MaxStamp, MaxDesigns, MaxRequests, MaxMarks   \* bounds

VARIABLES
    stamp,      \* updated_at, every write of it a later one
    phase,      \* 2, 5 or 7
    design,     \* the criteria's version, and the versions reviewed and approved
    budget,     \* design reviews made (no more than the limit are counted), an unconsumed grant, an unconsumed tier
    escalated,  \* escalation.kind = "review_cap_exhausted"
    overrides,  \* review_cap_overrides
    deployed,   \* deployment_approved
    pause,      \* human_pause, and what the ledger's last pause event says
    closed,     \* run_closed
    requests,   \* regression_requests
    page,       \* the snapshot the Pilot is looking at
    thread      \* per handler thread, the click it has checked

core == <<phase, design, budget, escalated, overrides, deployed, pause, closed, requests>>
vars == <<stamp, core, page, thread>>

Versions == 0..MaxDesigns
Kinds == {"design_approve", "design_reject", "design_review_authorize", "design_review_escalate",
          "review_cap_override", "deployment_approve", "deployment_hold", "pause", "resume",
          "regression_accept", "regression_decline", "regression_cancel", "run_close",
          "run_reopen"}
Legacy == {"design_approve", "design_review_authorize", "deployment_approve"}

TypeOK ==
    /\ stamp \in 0..MaxStamp /\ phase \in {2, 5, 7}
    /\ design \in [version : 1..MaxDesigns, reviewed : Versions, approved : Versions]
    /\ budget \in [used : 0..Limit, granted : BOOLEAN, tier : BOOLEAN]
    /\ escalated \in BOOLEAN /\ overrides \in 0..MaxMarks /\ deployed \in BOOLEAN
    /\ deployed => phase = 7
    /\ pause \in [on : BOOLEAN, logged : BOOLEAN] /\ closed \in BOOLEAN
    /\ requests \in Seq([command : Commands, version : Versions,
                         state : {"awaiting_approval", "accepted", "declined",
                                  "cancelled", "invalidated"}])
    /\ Cardinality({r \in DOMAIN requests :
                     requests[r].state \in {"awaiting_approval", "accepted"}}) <= 1

-----------------------------------------------------------------------------
\* What a snapshot shows.

Live == {r \in DOMAIN requests : requests[r].state \in {"awaiting_approval", "accepted"}}
Awaiting == {r \in DOMAIN requests : requests[r].state = "awaiting_approval"}
Shown(r) == IF r = {} THEN Nothing ELSE requests[CHOOSE x \in r : TRUE].command

OverLimit == budget.used >= Limit
Exhausted == OverLimit /\ ~budget.granted

\* _input_request: the first reason the run waits for the Pilot.
InputKind ==
    CASE closed -> Nothing
      [] ~closed /\ Awaiting # {} -> "regression_approval"
      [] ~closed /\ Awaiting = {} /\ escalated -> "escalation"
      [] ~closed /\ Awaiting = {} /\ ~escalated ->
           IF phase = 2 /\ Exhausted /\ ~(design.reviewed > 0 /\ design.approved = 0)
           THEN "design_review_budget"
           ELSE IF phase = 7 /\ ~deployed
           THEN IF pause.on THEN "approval_blocked_by_pause" ELSE "deployment_approval"
           ELSE IF phase = 2 /\ design.reviewed > 0 /\ design.approved = 0
           THEN "design_approval" ELSE Nothing

\* _operator_actions.
Decisions ==
    CASE InputKind = "design_approval" -> {"design_approve", "design_reject"}
      [] InputKind = "deployment_approval" -> {"deployment_approve", "deployment_hold"}
      [] InputKind = "design_review_budget" ->
            {"design_review_authorize", "design_review_escalate", "pause"}
      [] InputKind = "regression_approval" -> {"regression_accept", "regression_decline"}
      [] OTHER -> {}

Holds == (IF escalated THEN {"review_cap_override"} ELSE {})
         \cup (IF Live # {} THEN {"regression_cancel"} ELSE {})

Offered ==
    IF closed THEN {"run_reopen"}
    ELSE Decisions \cup Holds \cup {"run_close"}
         \cup (IF pause.on THEN {"resume"} ELSE IF Decisions \cup Holds = {} THEN {"pause"} ELSE {})

\* _operation_binding: two snapshots with one binding have one set of ids.
Binding == [stamp |-> stamp, kind |-> InputKind, escalated |-> escalated, command |-> Shown(Live)]

Snapshot == [binding |-> Binding, offered |-> Offered, version |-> design.version]
LiveRequest == IF Live = {} THEN 0 ELSE CHOOSE r \in Live : TRUE

Init ==
    /\ stamp = 0 /\ phase \in {2, 5, 7}
    /\ \E reviewed \in IF phase = 2 THEN {0, 1} ELSE {1} :
          /\ design = [version |-> 1, reviewed |-> reviewed, approved |-> IF phase = 2 THEN 0 ELSE 1]
          /\ budget = [used |-> IF reviewed > Limit THEN Limit ELSE reviewed, granted |-> FALSE, tier |-> FALSE]
    /\ escalated = FALSE /\ overrides = 0 /\ deployed = FALSE
    /\ pause = [on |-> FALSE, logged |-> FALSE]
    /\ closed \in {FALSE, phase = 5}
    /\ requests = IF phase # 7 THEN <<>>
                  ELSE <<[command |-> CHOOSE c \in Commands : TRUE, version |-> 1,
                          state |-> "awaiting_approval"]>>
    /\ page = Snapshot
    /\ thread = [t \in Threads |-> Nothing]

-----------------------------------------------------------------------------
\* The page, and the check of a click.

Refresh == page' = Snapshot /\ UNCHANGED <<stamp, core, thread>>

Idle == {t \in Threads : thread[t] = Nothing}

\* What a thread keeps: the page's part of it, and its fresh snapshot's.
Checked(kind) == [kind |-> kind, saw |-> page.version, command |-> page.binding.command,
                  page |-> page.binding.stamp, stamp |-> stamp, request |-> LiveRequest]

\* A click carries the id the page showed; the fresh snapshot must offer it.
Click(t, kind) ==
    /\ t \in Idle /\ kind \in page.offered
    /\ kind \in Offered /\ page.binding = Binding
    /\ thread' = [thread EXCEPT ![t] = Checked(kind)]
    /\ UNCHANGED <<stamp, core, page>>

\* The banner's button posts nothing: the run only has to await that decision.
ClickBanner(t, kind) ==
    /\ t \in Idle /\ kind \in page.offered \cap Legacy
    /\ kind \in Decisions
    /\ thread' = [thread EXCEPT ![t] = Checked(kind)]
    /\ UNCHANGED <<stamp, core, page>>

-----------------------------------------------------------------------------
\* The Supervisor commands, each under its own lock; `t` is a thread or the CLI.

Stamped  == stamp < MaxStamp /\ stamp' = stamp + 1
Runs(t, kind) ==
    IF t = Nothing THEN UNCHANGED thread
    ELSE /\ thread[t] # Nothing /\ thread[t].kind = kind
         /\ thread' = [thread EXCEPT ![t] = Nothing]

DesignApprove(t) ==
    /\ Runs(t, "design_approve")
    /\ design' = [design EXCEPT !.approved = design.version]
    /\ IF phase = 2 /\ design.reviewed = design.version THEN Stamped ELSE UNCHANGED stamp
    /\ UNCHANGED <<phase, budget, escalated, overrides, deployed, pause, closed, requests, page>>

Rejectable == phase = 2 /\ design.reviewed > 0 /\ design.approved = 0

DesignReject(t) ==
    /\ Runs(t, "design_reject") /\ Rejectable /\ Stamped
    /\ design' = [design EXCEPT !.reviewed = 0, !.approved = 0]
    /\ UNCHANGED <<phase, budget, escalated, overrides, deployed, pause, closed, requests, page>>

DesignReviewAuthorize(t) ==
    /\ Runs(t, "design_review_authorize") /\ ~closed /\ Exhausted /\ Stamped
    /\ budget' = [budget EXCEPT !.granted = TRUE]
    /\ UNCHANGED <<phase, design, escalated, overrides, deployed, pause, closed, requests, page>>

DesignReviewEscalate(t) ==
    /\ Runs(t, "design_review_escalate") /\ phase = 2 /\ ~budget.tier /\ Stamped
    /\ budget' = [budget EXCEPT !.tier = TRUE]
    /\ UNCHANGED <<phase, design, escalated, overrides, deployed, pause, closed, requests, page>>

ReviewCapOverride(t) ==
    /\ Runs(t, "review_cap_override") /\ overrides < MaxMarks
    /\ overrides' = overrides + 1 /\ escalated' = FALSE
    /\ UNCHANGED <<stamp, phase, design, budget, deployed, pause, closed, requests, page>>

DeploymentGate(t) ==
    /\ Runs(t, "deployment_approve") /\ phase = 7 /\ ~deployed /\ Stamped
    /\ deployed' = TRUE
    /\ UNCHANGED <<phase, design, budget, escalated, overrides, pause, closed, requests, page>>

DeploymentRevoke ==
    /\ deployed /\ phase = 7 /\ Stamped
    /\ deployed' = FALSE
    /\ UNCHANGED <<phase, design, budget, escalated, overrides, pause, closed, requests, page, thread>>

HumanPauseStart(t) ==
    /\ \E kind \in {"pause", "deployment_hold"} : Runs(t, kind)
    /\ ~pause.logged
    /\ pause' = [on |-> TRUE, logged |-> TRUE]
    /\ UNCHANGED <<stamp, phase, design, budget, escalated, overrides, deployed, closed, requests, page>>

HumanPauseEnd(t) ==
    /\ Runs(t, "resume") /\ pause.logged
    /\ pause' = [on |-> FALSE, logged |-> FALSE]
    /\ UNCHANGED <<stamp, phase, design, budget, escalated, overrides, deployed, closed, requests, page>>

\* Mutant: whichever request is live when the command runs.
NamedWhenRun(t, kind) == Live
\* The request a thread names is the one of its fresh snapshot.
Named(t, kind) == IF kind = "" THEN Live ELSE {thread[t].request}

SetRequest(r, state) == requests' = [requests EXCEPT ![r].state = state]

RegressionDecide(t, decision) ==
    /\ LET kind == IF decision = "accepted" THEN "regression_accept" ELSE "regression_decline"
       IN  /\ Runs(t, kind)
           /\ \E r \in Named(t, IF t = Nothing THEN "" ELSE kind) \cap Awaiting :
                  SetRequest(r, IF requests[r].version # design.version THEN "invalidated" ELSE decision)
    /\ Stamped
    /\ UNCHANGED <<phase, design, budget, escalated, overrides, deployed, pause, closed, page>>

RegressionCancel(t) ==
    /\ Runs(t, "regression_cancel")
    /\ \E r \in Named(t, IF t = Nothing THEN "" ELSE "regression_cancel") \cap Live : SetRequest(r, "cancelled")
    /\ Stamped
    /\ UNCHANGED <<phase, design, budget, escalated, overrides, deployed, pause, closed, page>>

\* The page's close lacks arguments cmd_run_close reads: the thread dies of it.
RunCloseFromPage(t) ==
    /\ t # Nothing /\ Runs(t, "run_close")
    /\ UNCHANGED <<stamp, core, page>>

RunClose ==
    /\ ~closed /\ closed' = TRUE /\ Stamped
    /\ pause' = [pause EXCEPT !.on = FALSE]
    /\ UNCHANGED <<phase, design, budget, escalated, overrides, deployed, requests, page, thread>>

\* expected_updated_at is the fresh snapshot's; the CLI gives none.
Expected(t) == IF t = Nothing THEN TRUE ELSE thread[t].stamp = stamp

RunReopen(t) ==
    /\ Runs(t, "run_reopen") /\ closed /\ Expected(t) /\ Stamped
    /\ closed' = FALSE
    /\ UNCHANGED <<phase, design, budget, escalated, overrides, deployed, pause, requests, page>>

\* The command refuses, and the page is told so.
CanRun(t, kind) ==
    CASE kind = "design_reject" -> Rejectable
      [] kind = "design_review_authorize" -> ~closed /\ Exhausted
      [] kind = "design_review_escalate" -> phase = 2 /\ ~budget.tier
      [] kind = "deployment_approve" -> phase = 7 /\ ~deployed
      [] kind \in {"pause", "deployment_hold"} -> ~pause.logged
      [] kind = "resume" -> pause.logged
      [] kind \in {"regression_accept", "regression_decline"} -> thread[t].request \in Awaiting
      [] kind = "regression_cancel" -> thread[t].request \in Live
      [] kind = "run_reopen" -> closed /\ Expected(t)
      [] OTHER -> TRUE

Refused(t) ==
    /\ thread[t] # Nothing /\ ~CanRun(t, thread[t].kind)
    /\ thread' = [thread EXCEPT ![t] = Nothing]
    /\ UNCHANGED <<stamp, core, page>>

-----------------------------------------------------------------------------
\* The rest of the crew.

RecordDesignReview(approves) ==
    /\ phase = 2 /\ ~Exhausted /\ Stamped
    /\ design' = [design EXCEPT !.reviewed = IF approves THEN design.version ELSE 0,
                                !.approved = IF approves THEN @ ELSE 0]
    /\ budget' = [used |-> IF OverLimit THEN Limit ELSE budget.used + 1, granted |-> FALSE, tier |-> FALSE]
    /\ UNCHANGED <<phase, escalated, overrides, deployed, pause, closed, requests, page, thread>>

\* criterion-update with its _invalidate_decisions.
Revise ==
    /\ design.version < MaxDesigns /\ Stamped
    /\ design' = [version |-> design.version + 1, reviewed |-> 0, approved |-> 0]
    /\ phase' = 2 /\ deployed' = FALSE
    /\ UNCHANGED <<budget, escalated, overrides, pause, closed, requests, page, thread>>

Advance ==
    /\ ~escalated /\ Stamped
    /\ \/ phase = 2 /\ design.reviewed = design.version /\ design.approved = design.version /\ phase' = 5
       \/ phase = 5 /\ phase' = 7
    /\ UNCHANGED <<design, budget, escalated, overrides, deployed, pause, closed, requests, page, thread>>

ReviewCapReached ==
    /\ phase = 5 /\ ~escalated /\ escalated' = TRUE
    /\ UNCHANGED <<stamp, phase, design, budget, overrides, deployed, pause, closed, requests, page, thread>>

RegressionRequest(command) ==
    /\ Len(requests) < MaxRequests /\ Live = {} /\ Stamped
    /\ requests' = Append(requests, [command |-> command, version |-> design.version,
                                     state |-> "awaiting_approval"])
    /\ UNCHANGED <<phase, design, budget, escalated, overrides, deployed, pause, closed, page, thread>>

Next ==
    \/ Refresh
    \/ \E t \in Threads, kind \in Kinds : Click(t, kind) \/ ClickBanner(t, kind)
    \/ \E t \in Threads \cup {Nothing} :
        \/ DesignApprove(t) \/ DesignReject(t)
        \/ DesignReviewAuthorize(t) \/ DesignReviewEscalate(t) \/ ReviewCapOverride(t)
        \/ DeploymentGate(t) \/ HumanPauseStart(t) \/ HumanPauseEnd(t)
        \/ RegressionDecide(t, "accepted") \/ RegressionDecide(t, "declined") \/ RegressionCancel(t)
        \/ RunCloseFromPage(t) \/ RunReopen(t)
    \/ \E t \in Threads : Refused(t)
    \/ DeploymentRevoke \/ RunClose
    \/ \E approves \in BOOLEAN : RecordDesignReview(approves)
    \/ Revise \/ Advance \/ ReviewCapReached
    \/ \E command \in Commands : RegressionRequest(command)

Spec == Init /\ [][Next]_vars

-----------------------------------------------------------------------------
(* Properties.                                                               *)

\* The click a thread finishes with this step, if it does something.
Finishes(t, kind) ==
    /\ thread[t] # Nothing /\ thread'[t] = Nothing
    /\ thread[t].kind = kind /\ core' # core

\* What a step of LateClicksDoNoMore is.
LateClickDoesNoMore ==
    \A t \in Threads :
     /\ Finishes(t, "run_reopen") => thread[t].page = stamp
     /\ Finishes(t, "regression_accept") =>
           \A r \in DOMAIN requests :
               (requests'[r].state = "accepted" /\ requests[r].state # "accepted")
                  => requests[r].command = thread[t].command
     /\ Finishes(t, "design_reject") => design.approved = 0

\* A late click does what its page showed or nothing: a closure is reopened
\* only if it is the one on the page, a regression is accepted only if its
\* commands were, and a rejection never voids a design already authorized.
LateClicksDoNoMore == [][LateClickDoesNoMore]_vars

\* Every control is bound to the displayed state: what the Pilot authorizes
\* is the design the page showed.
ApprovesWhatWasShown ==
    [][\A t \in Threads : Finishes(t, "design_approve") =>
            thread[t].saw = design'.approved]_vars

\* A close accepted from the page on a state that still stands closes the run.
CloseButtonCloses ==
    [][\A t \in Threads :
        (thread[t] # Nothing /\ thread'[t] = Nothing /\ thread[t].kind = "run_close"
           /\ thread[t].stamp = stamp) => closed']_vars

\* The status and the ledger agree whether the run is paused.
PauseAsRecorded == pause.on = pause.logged

\* A held deployment is not approved before the Pilot resumes it.
HeldStaysHeld == [][(pause.on /\ ~deployed) => (~pause'.on \/ ~deployed')]_vars
=============================================================================
