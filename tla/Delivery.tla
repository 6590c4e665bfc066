------------------------------ MODULE Delivery ------------------------------
(***************************************************************************)
(* One run of the delivery workflow, from the empty acceptance registry to *)
(* Phase 8: the registry of criteria, the verification ledger, the status  *)
(* with its recorded decisions, and the commands that move them.  Every    *)
(* command is one read-validate-write under the project lock (module       *)
(* Ledger), so it is one action; the commands that run checks hold the     *)
(* lock twice and nothing in between, so they are a start and a finish.    *)
(*                                                                         *)
(* Hashes are the values they are taken of: the acceptance hash is the     *)
(* registry, the design hash its specifications, the repository digest the *)
(* version of the tree, the configuration hash the version of the policy.  *)
(* Times are compared only between a deployment approval and a live        *)
(* verification, so an instant is the number of approvals given by then.   *)
(*                                                                         *)
(* The lane is "full", Pilot design approval, deployment approval and live *)
(* verification are required, and failing_first is off, as by default.     *)
(***************************************************************************)
EXTENDS Integers, SequencesExt

CONSTANTS
  Criteria,
  Primary,       \* the criteria of type primary_fix
  Kinds,         \* the kinds of evidence each criterion's policy requires
  Specs,         \* the claims a criterion may make
  Actors,        \* who may implement or review
  Runners,       \* who may run checks
  None,
  Concurrent,    \* [checks].concurrency is more than one
  Baselines,     \* verify --expect-fail is used
  Trees,         \* versions of the working tree
  Policies,      \* versions of handsoff.toml's governance
  MaxRecords, MaxApprovals, MaxEdits   \* bounds

States == {"not_tested", "passing", "failing", "blocked"}

ASSUME DeliveryAssumption ==
  /\ Primary \subseteq Criteria
  /\ Kinds \in [Criteria -> (SUBSET {"checks", "manual"}) \ {{}}]
  /\ Concurrent \in BOOLEAN /\ Baselines \in BOOLEAN
  /\ 0 \in Trees /\ 0 \in Policies
  /\ MaxRecords \in Nat /\ MaxApprovals \in Nat /\ MaxEdits \in Nat

\* What a registry may claim, whichever criteria it has.
Claims == UNION {[criteria -> Specs] : criteria \in SUBSET Criteria}

(* What the files hold. *)
Criterion == [spec: Specs, state: States, evidence: SUBSET (1..MaxRecords)]
Registries == UNION {[criteria -> Criterion] : criteria \in SUBSET Criteria}
Record == [kind: {"checks", "manual", "baseline", "live"}, ok: BOOLEAN, specs: Claims,
           tree: Trees \cup {None}, policy: Policies, begun: Nat, at: Nat]
Stats == {"in_progress", "blocked", "awaiting_approval", "ready_to_deploy", "complete"}
DesignDecision == [decision: {"approved", "changes"}, design: Claims, policy: Policies]
DesignApproval == [design: Claims, policy: Policies]
Review == [by: Actors, hash: Registries, policy: Policies, tree: Trees, specs: Claims,
           design: Claims \cup {None}]
Deployment == [hash: Registries, policy: Policies, at: Nat]
Status == [phase: 1..8, stat: Stats, implementer: Actors \cup {None}, proposal: Claims \cup {None},
           designReview: DesignDecision \cup {None}, designApproved: DesignApproval \cup {None},
           review: Review \cup {None}, deployment: Deployment \cup {None},
           live: Nat, symptom: Nat]

ASSUME NoneAssumption ==
  /\ None \notin Actors /\ None \notin Specs /\ None \notin Claims
  /\ None \notin DesignDecision \cup DesignApproval \cup Review \cup Deployment
  /\ None \notin States /\ None \notin Stats

VARIABLES
  registry,      \* handsoff-acceptance.json: the criteria there are, by id
  ledger,        \* the verification records
  status,        \* handsoff-status.json
  running,       \* what each runner is checking, outside the lock
  tree, policy,  \* the repository and handsoff.toml, as they are now
  approvals,     \* deployment approvals given so far
  edits          \* changes to the registry's claims, the tree and the policy

vars == <<registry, ledger, status, running, tree, policy, approvals, edits>>
world == <<tree, policy>>

-----------------------------------------------------------------------------
(* Hashes, evidence and drift *)

Design(reg) == [c \in DOMAIN reg |-> reg[c].spec]

\* The instants and the policy are read of live records only.
Evidence(kind, ok, specs, ran) ==
  [kind |-> kind, ok |-> ok, specs |-> specs, tree |-> ran, policy |-> 0, begun |-> 0, at |-> 0]
LiveRecord(ok, begun) ==
  [kind |-> "live", ok |-> ok, specs |-> Design(registry), tree |-> tree, policy |-> policy,
   begun |-> begun, at |-> approvals]

\* A successful record that names the criterion as it is worded now.
Vouches(record, reg, c) ==
  record.ok /\ c \in DOMAIN record.specs /\ record.specs[c] = reg[c].spec

ValidKinds(led, reg, c) == {led[n].kind : n \in {k \in DOMAIN led : Vouches(led[k], reg, c)}}
FullyEvidenced(led, reg, c) == Kinds[c] \subseteq ValidKinds(led, reg, c)

\* Variants with a plausible bug stand before the definition they alter and
\* are used nowhere.
AttachedOffByOne(led, reg, c, n) ==
  [reg[c] EXCEPT !.evidence = @ \cup {n + 1},
                 !.state = IF ~led[n].ok THEN "failing"
                           ELSE IF FullyEvidenced(led, reg, c) THEN "passing" ELSE "not_tested"]

\* The criterion after record n of the ledger was attached to it.
Attached(led, reg, c, n) ==
  [reg[c] EXCEPT !.evidence = @ \cup {n},
                 !.state = IF ~led[n].ok THEN "failing"
                           ELSE IF FullyEvidenced(led, reg, c) THEN "passing" ELSE "not_tested"]

\* The newest valid checks of a criterion, if there are any.
Newest(c) ==
  LET valid == {n \in DOMAIN ledger : ledger[n].kind = "checks" /\ Vouches(ledger[n], registry, c)}
  IN {n \in valid : \A k \in valid : k <= n}

\* evidence_drift: they ran on another tree.
Drifted(c) == \E n \in Newest(c) : ledger[n].tree # tree

SymptomProved(s, led, reg) ==
  /\ s.symptom \in DOMAIN led
  /\ \E c \in Primary \cap DOMAIN reg : Vouches(led[s.symptom], reg, c)

-----------------------------------------------------------------------------
(* compute_errors: what must hold of a status before it is written *)

DesignApproved(s) ==
  s.designApproved # None /\ s.designApproved = [design |-> Design(registry), policy |-> policy]
DesignReviewed(s) ==
  /\ s.designReview # None
  /\ s.designReview = [decision |-> "approved", design |-> Design(registry), policy |-> policy]

Evidenced(s) ==
  /\ registry # <<>>
  /\ \A c \in DOMAIN registry : registry[c].state = "passing" /\ FullyEvidenced(ledger, registry, c)
  /\ SymptomProved(s, ledger, registry)

ReviewedByAnyone(s) ==
  /\ s.implementer # None /\ s.review # None
  /\ s.review.hash = registry /\ s.review.policy = policy

Reviewed(s) ==
  /\ s.implementer # None /\ s.review # None
  /\ s.review.hash = registry /\ s.review.policy = policy
  /\ s.review.by # s.implementer

Deployable(s) ==
  s.deployment # None /\ s.deployment.hash = registry /\ s.deployment.policy = policy

LiveVerifiedAtAnyTime(s) ==
  /\ s.live \in DOMAIN ledger
  /\ ledger[s.live].specs = Design(registry) /\ ledger[s.live].policy = policy

LiveVerified(s) ==
  /\ s.live \in DOMAIN ledger
  /\ ledger[s.live].specs = Design(registry) /\ ledger[s.live].policy = policy
  /\ ledger[s.live].at >= s.deployment.at

GatesHold(s) ==
  /\ s.phase >= 3 => DesignReviewed(s) /\ DesignApproved(s)
  /\ s.phase >= 5 => \A c \in DOMAIN registry : ~Drifted(c)
  /\ (s.phase >= 6 \/ s.stat \in {"awaiting_approval", "ready_to_deploy", "complete"}) => Evidenced(s)
  /\ s.phase >= 6 => Reviewed(s)
  /\ s.phase = 7 => s.stat \in {"awaiting_approval", "ready_to_deploy"}
  /\ s.phase = 8 => Deployable(s) /\ s.stat = "complete" /\ LiveVerified(s)

-----------------------------------------------------------------------------
(* What a change to the registry or to its evidence does to the decisions *)

InvalidatedButDeployable(s, back) ==
  LET cleared == [s EXCEPT !.review = None, !.live = 0]
  IN IF s.phase >= 6 THEN [cleared EXCEPT !.phase = back, !.stat = "in_progress"] ELSE cleared

\* _invalidate_decisions
Invalidated(s, back) ==
  LET cleared == [s EXCEPT !.review = None, !.deployment = None, !.live = 0]
  IN IF s.phase >= 6 THEN [cleared EXCEPT !.phase = back, !.stat = "in_progress"] ELSE cleared

RedesignedInPlace(s) ==
  [Invalidated(s, 4) EXCEPT !.designApproved = None, !.designReview = None, !.proposal = None]

Redesigned(s) ==
  LET rolled == Invalidated(s, 4)
      cleared == [rolled EXCEPT !.designApproved = None, !.designReview = None, !.proposal = None]
  IN IF rolled.phase >= 3 THEN [cleared EXCEPT !.phase = 2, !.stat = "in_progress"] ELSE cleared

\* _reviewed_design_hash
ReviewedDesign(s) ==
  IF s.proposal # None THEN s.proposal
  ELSE IF s.designApproved # None THEN s.designApproved.design ELSE None

ReviewHoldsOnAnyTree(s, reg, before, after, checked) ==
  /\ s.review # None
  /\ before = after
  /\ s.review.specs = Design(reg)
  /\ s.review.design = ReviewedDesign(s)
  /\ \A c \in checked : reg[c].state = "passing"

\* _review_retention_refusal finds nothing.
ReviewHolds(s, reg, before, after, checked) ==
  /\ s.review # None
  /\ before = after /\ after = s.review.tree
  /\ s.review.specs = Design(reg)
  /\ s.review.design = ReviewedDesign(s)
  /\ \A c \in checked : reg[c].state = "passing"

LiveBindingHolds(s, led, reg, after, cfg) ==
  led[s.live].tree = after /\ led[s.live].specs = Design(reg) /\ led[s.live].policy = cfg

\* _retain_or_invalidate
AfterEvidence(s, led, reg, before, after, checked, cfg) ==
  LET bound == [s EXCEPT !.review.hash = reg]
      kept == IF s.deployment = None THEN bound ELSE [bound EXCEPT !.deployment.hash = reg]
      stale == s.live # 0 /\ ~LiveBindingHolds(s, led, reg, after, cfg)
  IN CASE ~ReviewHolds(s, reg, before, after, checked) -> Invalidated(s, 5)
       [] ReviewHolds(s, reg, before, after, checked) /\ ~stale -> kept
       [] ReviewHolds(s, reg, before, after, checked) /\ stale ->
            IF s.phase >= 8 THEN [kept EXCEPT !.live = 0, !.phase = 7, !.stat = "in_progress"]
            ELSE [kept EXCEPT !.live = 0]

-----------------------------------------------------------------------------
(* A runner checks nothing, or what it read before it let the lock go. *)
Idle == [what |-> "nothing"]
Checking == [what: {"verify", "baseline"}, specs: Claims, tree: Trees, policy: Policies,
             written: UNION {[criteria -> 1..MaxRecords] : criteria \in SUBSET Criteria}]
Probing == [what: {"live"}, hash: Registries, policy: Policies, begun: Nat]
Run == {Idle} \cup Checking \cup Probing
\* The numbers of the records a run has written already.
NumbersOf(run) == IF run \in Checking THEN Range(run.written) ELSE {}

Init ==
  /\ registry = <<>> /\ ledger = <<>>
  /\ status = [phase |-> 1, stat |-> "in_progress", implementer |-> None, proposal |-> None,
               designReview |-> None, designApproved |-> None, review |-> None,
               deployment |-> None, live |-> 0, symptom |-> 0]
  /\ running = [p \in Runners |-> Idle]
  /\ tree = 0 /\ policy = 0 /\ approvals = 0 /\ edits = 0

StatusOnly == UNCHANGED <<registry, ledger, running, approvals, edits, world>>

\* One more change of the registry, the tree or the policy.
Edited == edits < MaxEdits /\ edits' = edits + 1

(* The registry *)

\* _approval_edit_guard: an approved design is edited only with --revoke-approval.
MayEdit(revoke) == status.designApproved = None \/ revoke

NewCriterion(spec) == [spec |-> spec, state |-> "not_tested", evidence |-> {}]

CriterionAdd(c, spec, revoke) ==
  /\ c \notin DOMAIN registry /\ MayEdit(revoke)
  /\ Edited
  /\ registry' = [d \in DOMAIN registry \cup {c} |-> IF d = c THEN NewCriterion(spec) ELSE registry[d]]
  /\ status' = Redesigned([status EXCEPT !.symptom = IF c \in Primary THEN 0 ELSE @])
  /\ UNCHANGED <<ledger, running, approvals, world>>

RestatedAsItWas(c, spec, state) ==
  [spec |-> IF spec = None THEN registry[c].spec ELSE spec,
   state |-> IF state \in {None, "passing"} THEN registry[c].state ELSE state,
   evidence |-> {}]

\* A new wording, a new state, or both; either way the evidence is dropped,
\* and a state of "passing" is taken for "not_tested".
Restated(c, spec, state) ==
  [spec |-> IF spec = None THEN registry[c].spec ELSE spec,
   state |-> IF state \in {None, "passing"} THEN "not_tested" ELSE state,
   evidence |-> {}]

CriterionUpdate(c, spec, state, revoke) ==
  /\ c \in DOMAIN registry /\ MayEdit(revoke)
  /\ spec # None \/ state # None
  /\ Edited
  /\ registry' = [registry EXCEPT ![c] = Restated(c, spec, state)]
  /\ status' = Redesigned([status EXCEPT !.symptom = IF c \in Primary /\ spec # None THEN 0 ELSE @])
  /\ UNCHANGED <<ledger, running, approvals, world>>

CriterionRemove(c) ==
  /\ c \in DOMAIN registry /\ DOMAIN registry # {c}
  /\ Edited
  /\ registry' = [d \in DOMAIN registry \ {c} |-> registry[d]]
  /\ status' = Redesigned(status)
  /\ UNCHANGED <<ledger, running, approvals, world>>

(* The design *)

\* The review budget may be spent, which blocks the run for the Pilot.
DesignPropose(stat) ==
  /\ status.phase \in {1, 2} /\ registry # <<>>
  /\ status' = [status EXCEPT !.proposal = Design(registry), !.designReview = None,
                              !.designApproved = None, !.stat = stat]
  /\ StatusOnly

DesignReviewApproved ==
  /\ status.phase = 2
  /\ status' = [status EXCEPT
       !.designReview = [decision |-> "approved", design |-> Design(registry), policy |-> policy],
       !.stat = IF DesignApproved(status) THEN "in_progress" ELSE "blocked"]
  /\ StatusOnly

DesignReviewChanges(stat) ==
  /\ status.phase = 2
  /\ status' = [status EXCEPT
       !.designReview = [decision |-> "changes", design |-> Design(registry), policy |-> policy],
       !.designApproved = None, !.stat = stat]
  /\ StatusOnly

DesignApprove ==
  /\ registry # <<>>
  /\ status' = [status EXCEPT
       !.designApproved = [design |-> Design(registry), policy |-> policy],
       !.stat = IF status.phase = 2 /\ DesignReviewed(status) THEN "in_progress" ELSE @]
  /\ StatusOnly

DesignReject ==
  /\ status.phase = 2 /\ status.designApproved = None
  /\ status.designReview # None /\ status.designReview.decision = "approved"
  /\ status' = [status EXCEPT !.designReview = None, !.stat = "in_progress"]
  /\ StatusOnly

(* Phases *)

\* advance: one step up or the same phase, and only into a status that passes.
Advance(target, stat, by) ==
  LET default == CASE target = 7 -> "awaiting_approval" [] target = 8 -> "complete" [] OTHER -> status.stat
      proposed == [status EXCEPT !.phase = target,
                                 !.stat = IF stat = None THEN default ELSE stat,
                                 !.implementer = IF by = None THEN @ ELSE by]
  IN /\ target \in {status.phase, status.phase + 1}
     /\ target >= 2 => registry # <<>>
     /\ GatesHold(proposed)
     /\ status' = proposed
     /\ StatusOnly

(* Evidence *)

\* verify: the specs, the tree and the configuration are read, and then the
\* lock is let go.
VerifyStart(p, cs, what) ==
  /\ running[p] = Idle
  /\ cs # {} /\ cs \subseteq DOMAIN registry
  /\ \A c \in cs : "checks" \in Kinds[c]
  /\ running' = [running EXCEPT ![p] =
       [what |-> what, specs |-> [c \in cs |-> registry[c].spec], tree |-> tree,
        policy |-> policy, written |-> [c \in {} |-> 0]]]
  /\ UNCHANGED <<registry, ledger, status, approvals, edits, world>>

Verifying(p, what) ==
  /\ running[p].what = what
  /\ \A c \in DOMAIN running[p].specs :
       c \in DOMAIN registry /\ registry[c].spec = running[p].specs[c]

\* The numbers that the records of cs get, written in one order.
Numbered(cs) == [c \in cs |-> Len(ledger) + CHOOSE i \in 1..Cardinality(cs) : SetToSeq(cs)[i] = c]

Appended(p, kind, cs, passed) ==
  ledger \o [i \in 1..Cardinality(cs) |->
    LET c == SetToSeq(cs)[i] IN
    Evidence(kind, c \in passed, [d \in {c} |-> running[p].specs[c]], running[p].tree)]

Judged(led, numbers) ==
  [c \in DOMAIN registry |->
     IF c \in DOMAIN numbers THEN Attached(led, registry, c, numbers[c]) ELSE registry[c]]

\* The numbers a run has so far and the new ones.
WithNumbers(written, numbers) ==
  [c \in DOMAIN written \cup DOMAIN numbers |-> IF c \in DOMAIN written THEN written[c] ELSE numbers[c]]

\* record_completed: what has finished is written while the rest still runs.
ChecksRecorded(p, ready, passed) ==
  /\ Concurrent /\ Verifying(p, "verify")
  /\ ready # {} /\ ready \subseteq DOMAIN running[p].specs \ DOMAIN running[p].written
  /\ Len(ledger) + Cardinality(ready) <= MaxRecords
  /\ LET led == Appended(p, "checks", ready, passed)
     IN /\ ledger' = led
        /\ registry' = Judged(led, Numbered(ready))
        /\ running' = [running EXCEPT ![p].written = WithNumbers(@, Numbered(ready))]
  /\ UNCHANGED <<status, approvals, edits, world>>

\* _automatic_symptom_run: the records of this run that may prove the symptom.
SymptomRuns(led, reg, numbers) ==
  LET primary == Primary \cap DOMAIN reg
  IN IF \A c \in primary : Kinds[c] = {"checks"} /\ reg[c].state = "passing"
     THEN {numbers[c] : c \in {d \in primary \cap DOMAIN numbers : led[numbers[d]].ok}}
     ELSE {}

VerifyFinish(p, passed) ==
  /\ Verifying(p, "verify")
  /\ LET checked == DOMAIN running[p].specs
         rest == checked \ DOMAIN running[p].written
         led == Appended(p, "checks", rest, passed)
         reg == Judged(led, Numbered(rest))
         runs == SymptomRuns(led, reg, WithNumbers(running[p].written, Numbered(rest)))
     IN /\ Len(led) <= MaxRecords
        /\ ledger' = led /\ registry' = reg
        /\ \E symptom \in IF runs = {} \/ SymptomProved(status, ledger, registry)
                          THEN {status.symptom} ELSE runs :
             status' = AfterEvidence([status EXCEPT !.symptom = symptom], led, reg,
                                     running[p].tree, tree, checked, running[p].policy)
  /\ running' = [running EXCEPT ![p] = Idle]
  /\ UNCHANGED <<approvals, edits, world>>

\* verify --expect-fail: ok when the commands failed; no state is touched.
BaselineFinish(p, failed) ==
  /\ Verifying(p, "baseline")
  /\ LET checked == DOMAIN running[p].specs
         led == Appended(p, "baseline", checked, failed)
     IN /\ Len(led) <= MaxRecords
        /\ ledger' = led
        /\ registry' = [c \in DOMAIN registry |->
             IF c \in checked THEN [registry[c] EXCEPT !.evidence = @ \cup {Numbered(checked)[c]}]
             ELSE registry[c]]
  /\ running' = [running EXCEPT ![p] = Idle]
  /\ UNCHANGED <<status, approvals, edits, world>>

\* The process is killed while its checks run, or its second half refuses.
RunEnds(p) ==
  /\ running[p] # Idle
  /\ running' = [running EXCEPT ![p] = Idle]
  /\ UNCHANGED <<registry, ledger, status, approvals, edits, world>>

RecordEvidence(c) ==
  /\ c \in DOMAIN registry /\ "manual" \in Kinds[c]
  /\ Len(ledger) < MaxRecords
  /\ LET led == Append(ledger, Evidence("manual", TRUE, [d \in {c} |-> registry[c].spec], None))
         reg == [registry EXCEPT ![c] = Attached(led, registry, c, Len(led))]
     IN /\ ledger' = led /\ registry' = reg
        /\ status' = AfterEvidence(status, led, reg, tree, tree, {c}, policy)
  /\ UNCHANGED <<running, approvals, edits, world>>

\* Any successful record that names a primary criterion.
RecordSymptom(n) ==
  /\ n \in DOMAIN ledger
  /\ \E c \in Primary \cap DOMAIN registry : Vouches(ledger[n], registry, c)
  /\ status' = Invalidated([status EXCEPT !.symptom = n], 5)
  /\ StatusOnly

(* Review, deployment and live verification *)

RecordReview(by) ==
  LET preflight == [status EXCEPT
        !.phase = 6,
        !.review = [by |-> by, hash |-> registry, policy |-> policy, tree |-> tree,
                    specs |-> Design(registry), design |-> ReviewedDesign(status)]]
  IN /\ status.phase >= 5
     /\ status.stat # "complete"   \* the attempt it opens is refused on a complete run
     /\ by # status.implementer
     /\ GatesHold(preflight)
     /\ status' = [status EXCEPT !.review = preflight.review]
     /\ StatusOnly

DeploymentApprove ==
  LET proposed == [status EXCEPT
        !.deployment = [hash |-> registry, policy |-> policy, at |-> approvals + 1],
        !.stat = "ready_to_deploy"]
  IN /\ status.phase = 7 /\ status.deployment = None
     /\ GatesHold(status) /\ GatesHold(proposed)
     /\ approvals < MaxApprovals
     /\ status' = proposed /\ approvals' = approvals + 1
     /\ UNCHANGED <<registry, ledger, running, edits, world>>

DeploymentRevoke ==
  /\ status.deployment # None /\ status.phase \in {7, 8} /\ status.live = 0
  /\ status' = [status EXCEPT !.deployment = None, !.phase = 7, !.stat = "awaiting_approval"]
  /\ StatusOnly

VerifyLiveStart(p) ==
  /\ running[p] = Idle
  /\ status.phase = 7 /\ Deployable(status)
  /\ running' = [running EXCEPT ![p] =
       [what |-> "live", hash |-> registry, policy |-> policy, begun |-> approvals]]
  /\ UNCHANGED <<registry, ledger, status, approvals, edits, world>>

\* The registry and the policy are read again; the phase and the approval are not.
VerifyLiveFinish(p, ok) ==
  /\ running[p].what = "live"
  /\ running[p].hash = registry /\ running[p].policy = policy
  /\ Len(ledger) < MaxRecords
  /\ ledger' = Append(ledger, LiveRecord(ok, running[p].begun))
  /\ status' = [status EXCEPT !.live = IF ok THEN Len(ledger) + 1 ELSE @]
  /\ running' = [running EXCEPT ![p] = Idle]
  /\ UNCHANGED <<registry, approvals, edits, world>>

(* The world *)

EditTree ==
  /\ Edited
  /\ tree' \in Trees \ {tree}
  /\ UNCHANGED <<registry, ledger, status, running, approvals, policy>>

EditPolicy ==
  /\ Edited
  /\ policy' \in Policies \ {policy}
  /\ UNCHANGED <<registry, ledger, status, running, approvals, tree>>

-----------------------------------------------------------------------------
Registers ==
  \/ \E c \in Criteria, spec \in Specs, revoke \in BOOLEAN : CriterionAdd(c, spec, revoke)
  \/ \E c \in Criteria, spec \in Specs \cup {None}, state \in States \cup {None}, revoke \in BOOLEAN :
       CriterionUpdate(c, spec, state, revoke)
  \/ \E c \in Criteria : CriterionRemove(c)

Designs ==
  \/ \E stat \in {"in_progress", "blocked"} : DesignPropose(stat) \/ DesignReviewChanges(stat)
  \/ DesignReviewApproved \/ DesignApprove \/ DesignReject
  \/ \E target \in 1..8, stat \in {None, "in_progress", "blocked"}, by \in Actors \cup {None} :
       Advance(target, stat, by)

Runs(p) ==
  \/ \E cs \in SUBSET Criteria : VerifyStart(p, cs, "verify")
  \/ Baselines /\ \E cs \in SUBSET Criteria : VerifyStart(p, cs, "baseline")
  \/ \E ready, passed \in SUBSET Criteria : ChecksRecorded(p, ready, passed)
  \/ \E passed \in SUBSET Criteria : VerifyFinish(p, passed) \/ BaselineFinish(p, passed)
  \/ VerifyLiveStart(p)
  \/ \E ok \in BOOLEAN : VerifyLiveFinish(p, ok)
  \/ RunEnds(p)

Decides ==
  \/ \E c \in Criteria : RecordEvidence(c)
  \/ \E n \in 1..MaxRecords : RecordSymptom(n)
  \/ \E by \in Actors : RecordReview(by)
  \/ DeploymentApprove \/ DeploymentRevoke

Next == Registers \/ Designs \/ Decides \/ EditTree \/ EditPolicy \/ \E p \in Runners : Runs(p)

Spec == Init /\ [][Next]_vars

-----------------------------------------------------------------------------
(* Correctness *)

TypeOK ==
  /\ registry \in Registries
  /\ \A c \in DOMAIN registry : registry[c].evidence \subseteq DOMAIN ledger
  /\ ledger \in Seq(Record) /\ Len(ledger) <= MaxRecords
  /\ status \in Status
  /\ status.live \in 0..Len(ledger) /\ status.symptom \in 0..Len(ledger)
  /\ status.deployment # None => status.deployment.at <= approvals
  /\ running \in [Runners -> Run]
  /\ \A p \in Runners : NumbersOf(running[p]) \subseteq DOMAIN ledger
  /\ tree \in Trees /\ policy \in Policies /\ approvals \in 0..MaxApprovals /\ edits \in 0..MaxEdits

\* From Phase 3 on, what is being built is what was reviewed and what the
\* Pilot approved: not one criterion differs from the design either decision
\* was taken of (advance, and the registry commands that take both back).
BuildsApprovedDesign ==
  status.phase >= 3 =>
    /\ status.designApproved # None /\ status.designApproved.design = Design(registry)
    /\ status.designReview # None /\ status.designReview.decision = "approved"
    /\ status.designReview.design = Design(registry)

\* No criterion ever reads passing without, for each kind of evidence its
\* policy asks for, a successful record of the claim as it is worded now
\* (verify, record-evidence, criterion-update; a wording that comes back
\* finds its own records only).
PassingIsEvidenced ==
  \A c \in DOMAIN registry :
    registry[c].state = "passing" => FullyEvidenced(ledger, registry, c)

\* A review, a deployment approval and a live verification on record are of
\* the claims the registry makes now, at every phase and with any number of
\* verifies and live verifications half done.
DecisionsMatchClaims ==
  /\ status.review # None => status.review.specs = Design(registry)
  /\ status.deployment # None => Design(status.deployment.hash) = Design(registry)
  /\ status.live # 0 => ledger[status.live].ok /\ ledger[status.live].specs = Design(registry)

\* From Phase 6 on the run has been reviewed by someone who did not implement
\* it, and its original symptom is proved by a record that still counts.
ReviewedByAnother ==
  status.phase >= 6 =>
    /\ status.implementer # None /\ status.review # None
    /\ status.review.by # status.implementer
    /\ SymptomProved(status, ledger, registry)

\* A run that reads complete was approved for deployment and then verified
\* live, in that order, whatever was verified, revoked or retained since.
CompletionStands ==
  status.phase = 8 =>
    /\ status.stat = "complete"
    /\ status.deployment # None /\ status.live # 0
    /\ ledger[status.live].at >= status.deployment.at

Quiet == \A p \in Runners : running[p] = Idle

\* Between commands, a review on record is of the registry exactly as it is,
\* evidence included, with every criterion passing and every newest check run
\* on the tree the reviewer read: what REFERENCE.md promises of verify, and
\* _invalidate_decisions of "any acceptance mutation".
ReviewStands ==
  Quiet /\ status.review # None =>
    /\ status.review.hash = registry
    /\ \A c \in DOMAIN registry :
         /\ registry[c].state = "passing"
         /\ \A n \in Newest(c) : ledger[n].tree = status.review.tree

\* "live verification requires Phase 7 and deployment approval": the live run
\* a complete run stands on began under the approval it stands on.
LiveUnderApproval ==
  status.phase = 8 => ledger[status.live].begun >= status.deployment.at
=============================================================================
