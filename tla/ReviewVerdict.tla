--------------------------- MODULE ReviewVerdict ---------------------------
(***************************************************************************)
(* How the verdict of a managed reviewer becomes a review on record.  A    *)
(* launch opens or joins a review attempt; the verdict is persisted on its *)
(* session the moment it is printed, then delivered by the launcher: held  *)
(* while its performance episode is paused, else dispatched, else adopted. *)
(* What both refuse is kept.  A Pilot may adopt any persisted verdict, at  *)
(* any time; only an adoption marks it, not a dispatch.  A verdict is      *)
(* carried by a command of its own process, so an adoption is three steps: *)
(* read under the lock, replay, mark under the lock again.                 *)
(*                                                                         *)
(* Left out: the amendment and design lanes, rule-refused packets, and the *)
(* rules set; the gates of Delivery may refuse an approval at any time.    *)
(***************************************************************************)
EXTENDS Naturals, Sequences

CONSTANTS Sessions, Pilots, Nothing,
          Specs, First,  \* what the acceptance criteria may say, and say at first
          Cap,           \* max_review_rounds
          MaxOverrides, MaxEdits, MaxPauses   \* bounds

VARIABLES spec, phase, paused,
          attempts,      \* review_attempts
          overrides,     \* review_cap_overrides
          review,        \* the review on record: whose verdict, on which spec
          session,
          adopter,       \* what each Pilot is replaying
          edits, pauses,
          counted        \* per session: the attempts closed with its verdict, by its launcher and by Pilots

vars == <<spec, phase, paused, attempts, overrides, review, session, adopter,
          edits, pauses, counted>>
run == <<spec, phase, paused, overrides, edits, pauses>>

Verdicts == {"approved", "findings"}
Live     == {"reviewing", "printed", "dispatching", "adopting", "replaying", "reaffirming", "marking"}
Session  == [state : Live \cup {"none", "completed", "failed"}, judged : Specs \cup {Nothing},
             verdict : Verdicts \cup {Nothing}, adopted : BOOLEAN, held : {"no", "held", "adopted"}]
Attempt  == [spec : Specs, disposition : {"open", "approved", "changes_requested", "abandoned"}]

Init ==
    /\ spec = First /\ phase = 4 /\ paused = FALSE /\ attempts = <<>> /\ overrides = 0
    /\ review = Nothing /\ edits = 0 /\ pauses = 0
    /\ session = [s \in Sessions |-> [state |-> "none", judged |-> Nothing, verdict |-> Nothing,
                                      adopted |-> FALSE, held |-> "no"]]
    /\ adopter = [p \in Pilots |-> Nothing]
    /\ counted = [s \in Sessions |-> [launcher |-> 0, pilots |-> 0]]

-----------------------------------------------------------------------------
\* The attempts.  Opening one spends a round of the budget.
Latest          == attempts[Len(attempts)]
HasOpen         == attempts # <<>> /\ Latest.disposition = "open"
EffectiveCap    == Cap + overrides
MayOpenAnyway   == TRUE
MayOpen         == HasOpen \/ Len(attempts) < EffectiveCap
Opened          == IF HasOpen THEN attempts
                   ELSE Append(attempts, [spec |-> spec, disposition |-> "open"])
Closed(as, how) == [as EXCEPT ![Len(as)].disposition = how]
AbandonStale    == IF HasOpen THEN Closed(attempts, "abandoned") ELSE attempts

Moved(s, to) == session' = [session EXCEPT ![s].state = to]

LaunchReviewer(s) ==
    /\ ~paused /\ phase >= 4 /\ MayOpen
    /\ session[s].state = "none" /\ \A o \in Sessions : session[o].state \notin Live
    /\ attempts' = Opened
    /\ session' = [session EXCEPT ![s].state = "reviewing", ![s].judged = spec]
    /\ UNCHANGED <<run, review, adopter, counted>>

\* Evidence may change below an open attempt; a criterion may not.
CriterionUpdate(to) ==
    /\ edits < MaxEdits /\ ~paused /\ to # spec
    /\ spec' = to /\ edits' = edits + 1 /\ attempts' = AbandonStale
    /\ phase' = 2 /\ review' = Nothing
    /\ UNCHANGED <<paused, overrides, session, adopter, pauses, counted>>

Advance(to) ==
    /\ to \in 2 .. 6 /\ to # phase /\ to <= phase + 1
    /\ to = 6 => review # Nothing
    /\ phase' = to
    /\ UNCHANGED <<spec, paused, attempts, overrides, review, session, adopter, edits, pauses, counted>>

CapOverride ==
    /\ ~paused /\ overrides < MaxOverrides /\ overrides' = overrides + 1
    /\ UNCHANGED <<spec, phase, paused, attempts, review, session, adopter, edits, pauses, counted>>

Pause ==
    /\ ~paused /\ pauses < MaxPauses /\ paused' = TRUE /\ pauses' = pauses + 1
    /\ UNCHANGED <<spec, phase, attempts, overrides, review, session, adopter, edits, counted>>

Resume ==
    /\ paused /\ paused' = FALSE
    /\ UNCHANGED <<spec, phase, attempts, overrides, review, session, adopter, edits, pauses, counted>>

-----------------------------------------------------------------------------
\* The record commands, each one locked transaction behind the pause gate.
MayApprove  == ~paused /\ phase >= 5 /\ MayOpen /\ (HasOpen => Latest.spec = spec)
MayRequest  == ~paused /\ phase >= 4 /\ MayOpen
MayReaffirm == /\ ~paused /\ phase >= 5 /\ review = Nothing
               /\ attempts # <<>> /\ Latest.disposition = "approved" /\ Latest.spec = spec

RecordReview(s) ==
    /\ MayApprove
    /\ attempts' = Closed(Opened, "approved")
    /\ review' = [session |-> s, spec |-> spec]
    /\ phase' = phase

RecordReviewFindings ==
    /\ MayRequest
    /\ attempts' = Closed(Opened, "changes_requested")
    /\ review' = Nothing
    /\ phase' = IF Len(Opened) >= EffectiveCap THEN phase ELSE 4

Record(s, by) ==
    /\ IF session[s].verdict = "approved" THEN RecordReview(s) ELSE RecordReviewFindings
    /\ counted' = [counted EXCEPT ![s][by] = @ + 1]

Reaffirm(s) ==
    /\ MayReaffirm
    /\ review' = [session |-> s, spec |-> spec]
    /\ UNCHANGED <<attempts, phase, counted>>

\* An approval also needs every gate of the delivery, which may refuse it.
Refusable(s) ==
    \/ session[s].verdict = "approved"
    \/ ~MayRequest

-----------------------------------------------------------------------------
\* The child prints a verdict, or ends without one.
PrintVerdict(s, verdict) ==
    /\ session[s].state = "reviewing"
    /\ session' = [session EXCEPT ![s].state = "printed", ![s].verdict = verdict]
    /\ UNCHANGED <<run, attempts, review, adopter, counted>>

EndWithoutVerdict(s) ==
    /\ session[s].state = "reviewing" /\ Moved(s, "failed")
    /\ UNCHANGED <<run, attempts, review, adopter, counted>>

\* A changed tree, another model, a second verdict, a cancel: kept, not delivered.
RefuseDelivery(s) ==
    /\ session[s].state = "printed" /\ Moved(s, "failed")
    /\ UNCHANGED <<run, attempts, review, adopter, counted>>

QuarantineLateResult(s) ==
    /\ session[s].state = "printed" /\ paused
    /\ session' = [session EXCEPT ![s].state = "completed", ![s].held = "held"]
    /\ UNCHANGED <<run, attempts, review, adopter, counted>>

\* Dispatch binds the verdict to the live session and to Phase 5.
DeliverReviewerResult(s) ==
    /\ session[s].state = "printed" /\ ~paused
    /\ Moved(s, IF phase = 5 THEN "dispatching" ELSE "adopting")
    /\ UNCHANGED <<run, attempts, review, adopter, counted>>

Dispatched(s) ==
    /\ session[s].state = "dispatching" /\ Record(s, "launcher") /\ Moved(s, "completed")
    /\ UNCHANGED <<spec, paused, overrides, adopter, edits, pauses>>

DispatchFails(s) ==
    /\ session[s].state = "dispatching" /\ Refusable(s) /\ Moved(s, "adopting")
    /\ UNCHANGED <<run, attempts, review, adopter, counted>>

\* adopt_session_result, first locked part: refuse, re-bind, or replay.
Rebinds(s) == session[s].verdict = "approved" /\ review # Nothing
Readopts(s) == session[s].adopted /\ session[s].verdict = "approved" /\ review = Nothing
AdoptionRefusedUnread(s) == session[s].verdict = Nothing \/ (session[s].held = "held" /\ paused)
AdoptionRefused(s) ==
    \/ session[s].verdict = Nothing
    \/ session[s].held = "adopted" \/ (session[s].held = "held" /\ paused)
    \/ Rebinds(s) /\ (session[s].adopted \/ review.spec # spec)
    \/ session[s].adopted /\ ~Rebinds(s) /\ ~Readopts(s)

AutoAdopt(s) ==
    /\ session[s].state = "adopting"
    /\ session' = [session EXCEPT
          ![s].adopted = @ \/ (~AdoptionRefused(s) /\ Rebinds(s)),
          ![s].state = IF AdoptionRefused(s) THEN "failed"
                       ELSE IF Rebinds(s) THEN "completed" ELSE IF Readopts(s) THEN "reaffirming" ELSE "replaying"]
    /\ UNCHANGED <<run, attempts, review, adopter, counted>>

AutoReplay(s) ==
    /\ session[s].state = "replaying" /\ Record(s, "launcher") /\ Moved(s, "marking")
    /\ UNCHANGED <<spec, paused, overrides, adopter, edits, pauses>>

AutoReaffirm(s) ==
    /\ session[s].state = "reaffirming" /\ Reaffirm(s) /\ Moved(s, "marking")
    /\ UNCHANGED <<spec, paused, overrides, adopter, edits, pauses>>

AutoReplayFails(s) ==
    /\ session[s].state = "reaffirming" \/ (session[s].state = "replaying" /\ Refusable(s))
    /\ Moved(s, "failed")
    /\ UNCHANGED <<run, attempts, review, adopter, counted>>

AutoMark(s) ==
    /\ session[s].state = "marking"
    /\ session' = [session EXCEPT ![s].state = "completed", ![s].adopted = TRUE]
    /\ UNCHANGED <<run, attempts, review, adopter, counted>>

-----------------------------------------------------------------------------
\* session-result-adopt.  It does not ask whether the session has ended, nor
\* whether its verdict was dispatched.
Adopt(p, s) ==
    /\ adopter[p] = Nothing /\ ~paused /\ ~AdoptionRefused(s)
    /\ IF Rebinds(s)
       THEN /\ session' = [session EXCEPT ![s].adopted = TRUE]
            /\ UNCHANGED adopter
       ELSE /\ adopter' = [adopter EXCEPT ![p] = [session |-> s,
                                 step |-> IF Readopts(s) THEN "readopt" ELSE "replay"]]
            /\ UNCHANGED session
    /\ UNCHANGED <<run, attempts, review, counted>>

Replay(p) ==
    /\ adopter[p] # Nothing
    /\ \/ adopter[p].step = "replay" /\ Record(adopter[p].session, "pilots")
          /\ adopter' = [adopter EXCEPT ![p].step = "mark"]
       \/ adopter[p].step = "readopt" /\ Reaffirm(adopter[p].session)
          /\ adopter' = [adopter EXCEPT ![p] = Nothing]
    /\ UNCHANGED <<spec, paused, overrides, session, edits, pauses>>

ReplayFails(p) ==
    /\ adopter[p] # Nothing /\ adopter[p].step # "mark"
    /\ adopter[p].step = "readopt" \/ Refusable(adopter[p].session)
    /\ adopter' = [adopter EXCEPT ![p] = Nothing]
    /\ UNCHANGED <<run, attempts, review, session, counted>>

Mark(p) ==
    /\ adopter[p] # Nothing /\ adopter[p].step = "mark"
    /\ session' = [session EXCEPT ![adopter[p].session].adopted = TRUE,
                                  ![adopter[p].session].held = IF @ = "no" THEN @ ELSE "adopted"]
    /\ adopter' = [adopter EXCEPT ![p] = Nothing]
    /\ UNCHANGED <<run, attempts, review, counted>>

-----------------------------------------------------------------------------
Launcher(s) ==
    \/ (\E v \in Verdicts : PrintVerdict(s, v)) \/ EndWithoutVerdict(s) \/ RefuseDelivery(s)
    \/ QuarantineLateResult(s) \/ DeliverReviewerResult(s) \/ Dispatched(s) \/ DispatchFails(s)
    \/ AutoAdopt(s) \/ AutoReplay(s) \/ AutoReaffirm(s) \/ AutoReplayFails(s) \/ AutoMark(s)

Adoption(p) == (\E s \in Sessions : Adopt(p, s)) \/ Replay(p) \/ ReplayFails(p) \/ Mark(p)

Next ==
    \/ \E s \in Sessions : LaunchReviewer(s) \/ Launcher(s)
    \/ \E p \in Pilots : Adoption(p)
    \/ \E to \in Specs : CriterionUpdate(to)
    \/ \E to \in 2 .. 6 : Advance(to)
    \/ CapOverride \/ Pause \/ Resume

Spec     == Init /\ [][Next]_vars
FairSpec == Spec /\ \A s \in Sessions : WF_vars(Launcher(s))

-----------------------------------------------------------------------------
\* The variables hold what the status file may hold.
TypeOK ==
    /\ spec \in Specs /\ phase \in 2 .. 6 /\ paused \in BOOLEAN
    /\ attempts \in Seq(Attempt) /\ Len(attempts) <= EffectiveCap
    /\ overrides \in 0 .. MaxOverrides /\ edits \in 0 .. MaxEdits /\ pauses \in 0 .. MaxPauses
    /\ review = Nothing \/ review \in [session : Sessions, spec : Specs]
    /\ session \in [Sessions -> Session]
    /\ \A p \in Pilots : adopter[p] = Nothing
          \/ adopter[p] \in [session : Sessions, step : {"replay", "readopt", "mark"}]
    /\ counted \in [Sessions -> [launcher : Nat, pilots : Nat]]

\* However often a verdict is dispatched, replayed and adopted, while its
\* session lives or later, its launcher closes one attempt with it at most and
\* the Pilots close one more at most; and the review on record is of the
\* criteria as they are (adopt_session_result with record-review and
\* record-review-findings).
VerdictsCountOnce ==
    /\ \A s \in Sessions : counted[s].launcher <= 1 /\ counted[s].pilots <= 1
    /\ review # Nothing => review.spec = spec

\* REFERENCE.md: a second adoption of the same result changes nothing.  A
\* verdict closes one attempt, whoever delivers it.
OneAttemptEach == \A s \in Sessions : counted[s].launcher + counted[s].pilots <= 1

\* A review on record was given by somebody who saw these criteria
\* (record-review after the attempt of the verdict was abandoned).
ReviewedWhatItApproves == review # Nothing => session[review.session].judged = review.spec

\* A printed verdict ends recorded or kept, whatever refuses it
\* (_deliver_reviewer_result).
NonePrinted    == \A s \in Sessions : session[s].state # "printed"
VerdictsArrive == []<>NonePrinted
=============================================================================
