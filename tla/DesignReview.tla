---------------------------- MODULE DesignReview ----------------------------
(***************************************************************************)
(* Phase 2 until a design may advance: proposals, the budget of independent*)
(* design reviews and the rounds granted beyond it, the Pilot's decision,  *)
(* and the questions the roles ask.  All of them hold the run through one  *)
(* `status` field, and each lifts what it finds there.                     *)
(*                                                                         *)
(* A managed launch is two steps: its input is built, which hands over the *)
(* answers due to its role, and the session is created under the lock,     *)
(* which reserves an authorized round.  A verdict recorded by a person or  *)
(* by adoption has no session.                                             *)
(*                                                                         *)
(* Left out: declines, reviewer tiers and packets, the wording of the next *)
(* action, the pruning of questions beyond the 64 kept, holds that other   *)
(* parts put on the run (an escalated recovery, a lane), and a status that *)
(* advance is given besides the two.  Of an edit of the criteria there is  *)
(* only what it takes back; the advance to Phase 3 is in Delivery.         *)
(***************************************************************************)
EXTENDS Naturals, Sequences

CONSTANTS Sessions, Role,  \* managed launches and the role of each
          Nothing,
          Limit,           \* max_autonomous_design_reviews
          Allowance,       \* design_rounds_on_convergence
          Rounds,          \* rounds a Pilot may grant at once
          Findings,        \* how many findings a review may have
          MaxAttempts, MaxQuestions   \* bounds

VARIABLES proposal,   \* there is a design_proposal
          review, approved,
          attempts,   \* design_review_attempts
          found,      \* findings of the last attempt
          grant,      \* the unconsumed design_review_authorization
          auto,       \* design_rounds_auto_used
          status, hold,
          questions, session,
          granted, launched   \* rounds ever granted, launches made on one

vars == <<proposal, review, approved, attempts, found, grant, auto, status, hold,
          questions, session, granted, launched>>
budget == <<attempts, found, grant, auto, granted>>

Roles    == {"architect", "reviewer"}
Question == [role : Roles, blocking : BOOLEAN, answered : BOOLEAN, delivered : BOOLEAN]
Session  == [state : {"none", "prepared", "live", "ended", "refused"}, input : SUBSET (1 .. MaxQuestions)]
Grant    == [rounds : 1 .. 5, by : Sessions \cup {Nothing}]

Init ==
    /\ proposal = FALSE /\ review = "none" /\ approved = FALSE
    /\ attempts = 0 /\ found = Nothing /\ grant = Nothing /\ auto = 0
    /\ status = "in_progress" /\ hold = FALSE /\ questions = <<>>
    /\ session = [s \in Sessions |-> [state |-> "none", input |-> {}]]
    /\ granted = 0 /\ launched = 0

-----------------------------------------------------------------------------
\* design_review_budget and design_review_launch_refusal.
Authorized  == grant # Nothing
OverLimit   == attempts >= Limit
Exhausted   == OverLimit /\ ~Authorized
ReservedToo == Authorized
Unreserved  == Authorized /\ grant.by = Nothing
MayLaunch   == ~OverLimit \/ Unreserved

\* spend_design_review_authorization.
Spend == IF ~Authorized \/ grant.rounds = 1 THEN Nothing
         ELSE [rounds |-> grant.rounds - 1, by |-> Nothing]

Converges(n) == auto < Allowance /\ found # Nothing /\ n < found

\* Who holds the run: `blocked` unless every reason is gone.
Held(on) == status' = "blocked" /\ hold' = on
Free     == status' = "in_progress" /\ hold' = FALSE

-----------------------------------------------------------------------------
\* record_design_proposal, from the live Architect or the host.
RecordProposal ==
    /\ proposal' = TRUE /\ review' = "none" /\ approved' = FALSE
    /\ IF MayLaunch THEN Free ELSE Held(TRUE)
    /\ UNCHANGED <<budget, questions, session, launched>>

\* cmd_record_design_review: the verdict of a live reviewer, or of no session.
Approves(n) ==
    /\ review' = "approved" /\ UNCHANGED <<approved, auto, granted>>
    /\ grant' = Spend
    /\ IF approved THEN Free ELSE Held(FALSE)

RequestsChanges(n) ==
    /\ review' = "changes" /\ approved' = FALSE
    /\ LET exhausted == attempts' >= Limit /\ Spend = Nothing
       IN  \/ /\ exhausted /\ Converges(n)
              /\ grant' = [rounds |-> 1, by |-> Nothing]
              /\ auto' = auto + 1 /\ granted' = granted + 1 /\ Free
           \/ /\ exhausted /\ ~Converges(n) /\ Held(TRUE)
              /\ grant' = Nothing /\ UNCHANGED <<auto, granted>>
           \/ ~exhausted /\ grant' = Spend /\ Free /\ UNCHANGED <<auto, granted>>

RecordDesignReview(n) ==
    /\ ~Exhausted /\ attempts < MaxAttempts
    /\ attempts' = attempts + 1 /\ found' = n
    /\ Approves(n) \/ RequestsChanges(n)
    /\ UNCHANGED <<proposal, questions, session, launched>>

\* cmd_design_review_authorize: the Pilot grants rounds, one grant at a time.
Authorize(rounds) ==
    /\ OverLimit /\ ~Authorized
    /\ grant' = [rounds |-> rounds, by |-> Nothing] /\ granted' = granted + rounds
    /\ Free
    /\ UNCHANGED <<proposal, review, approved, attempts, found, auto, questions, session, launched>>

\* cmd_design_approve and cmd_design_reject.
DesignApprove ==
    /\ approved' = TRUE
    /\ status' = IF review = "approved" THEN "in_progress" ELSE status
    /\ UNCHANGED <<proposal, review, budget, hold, questions, session, launched>>

DesignReject ==
    /\ review = "approved" /\ ~approved
    /\ review' = "none" /\ status' = "in_progress"
    /\ UNCHANGED <<proposal, approved, budget, hold, questions, session, launched>>

\* advance to Phase 2 from Phase 2: it may set the status, and keeps no hold that
\* it is not given anew.
AdvanceInPlace(to) ==
    /\ status' = to /\ hold' = FALSE
    /\ UNCHANGED <<proposal, review, approved, budget, questions, session, launched>>

\* criterion-add, -update and -remove: _invalidate_decisions takes the design
\* back and leaves the status of a run in Phase 2 alone.
CriteriaEdit ==
    /\ proposal' = FALSE /\ review' = "none" /\ approved' = FALSE
    /\ UNCHANGED <<budget, status, hold, questions, session, launched>>

\* advance --status blocked --authorization-hold, and the wait that ends it.
AdvanceHold ==
    /\ Held(TRUE)
    /\ UNCHANGED <<proposal, review, approved, budget, questions, session, launched>>

ResumeAfterAuthorization ==
    /\ status = "blocked" /\ hold /\ review = "none" /\ Free
    /\ UNCHANGED <<proposal, review, approved, budget, questions, session, launched>>

-----------------------------------------------------------------------------
Open(qs)    == {q \in DOMAIN qs : ~qs[q].answered}
Holding(qs) == {q \in Open(qs) : qs[q].blocking}

\* raise_question: only a live session, or a person, may hold the run.
RaiseQuestion(role, mayHold) ==
    /\ Len(questions) < MaxQuestions
    /\ LET blocking == mayHold /\ (status = "in_progress" \/ Holding(questions) # {})
       IN  /\ questions' = Append(questions, [role |-> role, blocking |-> blocking,
                                              answered |-> FALSE, delivered |-> FALSE])
           /\ status' = IF blocking THEN "blocked" ELSE status
    /\ UNCHANGED <<proposal, review, approved, budget, hold, session, launched>>

\* One answer, or a batch of them recorded all or none.
LiftsHold(ids) ==
    Holding(questions') = {} /\ status = "blocked" /\ \E q \in ids : questions[q].blocking

Answer(ids) ==
    /\ ids \subseteq Open(questions)
    /\ questions' = [q \in DOMAIN questions |->
                        [questions[q] EXCEPT !.answered = @ \/ q \in ids]]
    /\ status' = IF LiftsHold(ids) THEN "in_progress" ELSE status
    /\ UNCHANGED <<proposal, review, approved, budget, hold, session, launched>>

AnswerQuestion(q) == Answer({q})
AnswerBatch(ids)  == ids # {} /\ Answer(ids)

\* questions_prompt_section; of the rest of an input nothing is kept here.
Due(role) == {q \in DOMAIN questions : /\ questions[q].role = role
                                       /\ questions[q].answered /\ ~questions[q].delivered}
Input(role) == Due(role)

\* build_launch_spec, for a launch and for an inspection alike.
Prepare(s) ==
    /\ session[s].state = "none"
    /\ Role[s] = "reviewer" => proposal /\ MayLaunch
    /\ session' = [session EXCEPT ![s] = [state |-> "prepared", input |-> Input(Role[s])]]
    /\ questions' = [q \in DOMAIN questions |->
                        [questions[q] EXCEPT !.delivered = @ \/ q \in Due(Role[s])]]
    /\ UNCHANGED <<proposal, review, approved, budget, status, hold, launched>>

\* create_agent_session takes the round it launches on.
Live(role) == \E s \in Sessions : Role[s] = role /\ session[s].state = "live"

Launch(s) ==
    /\ session[s].state = "prepared" /\ ~Live(Role[s])
    /\ session' = [session EXCEPT ![s].state = "live"]
    /\ IF Role[s] = "reviewer" /\ OverLimit
       THEN Unreserved /\ grant' = [grant EXCEPT !.by = s] /\ launched' = launched + 1
       ELSE UNCHANGED <<grant, launched>>
    /\ UNCHANGED <<proposal, review, approved, attempts, found, auto, granted, status, hold, questions>>

\* Refused after its input was built, or only inspected; and the end of a session.
NotLaunched(s) ==
    /\ session[s].state = "prepared"
    /\ session' = [session EXCEPT ![s].state = "refused"]
    /\ UNCHANGED <<proposal, review, approved, budget, status, hold, questions, launched>>

End(s) ==
    /\ session[s].state = "live"
    /\ session' = [session EXCEPT ![s].state = "ended"]
    /\ UNCHANGED <<proposal, review, approved, budget, status, hold, questions, launched>>

Next ==
    \/ RecordProposal
    \/ \E n \in Findings : RecordDesignReview(n)
    \/ \E n \in Rounds : Authorize(n)
    \/ DesignApprove \/ DesignReject \/ AdvanceHold \/ ResumeAfterAuthorization
    \/ CriteriaEdit
    \/ \E to \in {"in_progress", "blocked"} : AdvanceInPlace(to)
    \/ \E role \in Roles, mayHold \in BOOLEAN : RaiseQuestion(role, mayHold)
    \/ \E q \in Open(questions) : AnswerQuestion(q)
    \/ \E ids \in SUBSET Open(questions) : AnswerBatch(ids)
    \/ \E s \in Sessions : Prepare(s) \/ Launch(s) \/ NotLaunched(s) \/ End(s)

Spec == Init /\ [][Next]_vars

-----------------------------------------------------------------------------
TypeOK ==
    /\ proposal \in BOOLEAN /\ review \in {"none", "approved", "changes"}
    /\ approved \in BOOLEAN /\ hold \in BOOLEAN /\ status \in {"in_progress", "blocked"}
    /\ attempts \in 0 .. MaxAttempts /\ found \in Findings \cup {Nothing}
    /\ grant \in Grant \cup {Nothing} /\ auto \in 0 .. Allowance
    /\ questions \in Seq(Question) /\ session \in [Sessions -> Session]
    /\ granted \in Nat /\ launched \in Nat

\* Beyond the autonomous budget every recorded attempt spends a round somebody
\* granted, and every managed launch takes a round of its own, however grants
\* of several rounds, automatic rounds and verdicts without a session interleave.
RoundsAreGranted == attempts <= Limit + granted /\ launched <= granted

\* The reason for which a run is blocked is still open: a question that holds it,
\* an authorization it waits for, or a reviewed design awaiting the Pilot.
BlocksAreExplained ==
    status = "blocked" =>
        \/ \E q \in DOMAIN questions : questions[q].blocking /\ ~questions[q].answered
        \/ hold
        \/ review = "approved" /\ ~approved

\* A run does not stay blocked when its last reason goes, whatever is answered,
\* granted, decided or proposed in any order (_lift_question_hold and the
\* decisions).  Two commands may leave it so: an edit of the criteria, and an
\* advance in place.
BlocksStayExplained ==
    BlocksAreExplained /\ ~BlocksAreExplained' =>
        CriteriaEdit \/ \E to \in {"in_progress", "blocked"} : AdvanceInPlace(to)

\* An answer marked as handed over is in the input of a session that was
\* launched, or that still may be.
AnswersReachTheRole ==
    \A q \in DOMAIN questions : questions[q].delivered =>
        \E s \in Sessions : q \in session[s].input /\ session[s].state # "refused"
=============================================================================
