--------------------------- MODULE DeliveryProofs ---------------------------
(* Proofs about Delivery, for every value of its constants: what is built   *)
(* is what was reviewed and approved; then its gates and evidence: the type *)
(* invariant, what "passing" is worth, and what the recorded decisions are   *)
(* of.                                                                      *)
EXTENDS Delivery, TLAPS, FiniteSetTheorems

\* Which fields the status has, and the phases there are.
Fields == {"phase", "stat", "implementer", "proposal", "designReview", "designApproved",
           "review", "deployment", "live", "symptom"}
Shaped(s) == s = [f \in Fields |-> s[f]] /\ s.phase \in 1..8

\* The design decisions of t are those of s, and t is not further than Phase 2
\* unless s is.
SameDesign(t, s) ==
  /\ t.designApproved = s.designApproved /\ t.designReview = s.designReview
  /\ t.phase >= 3 => s.phase >= 3

\* A status rolled to a phase keeps its fields and its design decisions.
Rolled(s, n) == [s EXCEPT !.phase = n, !.stat = "in_progress"]
LEMMA RolledTo ==
  ASSUME NEW s, Shaped(s), NEW n \in 1..8
  PROVE  /\ Shaped(Rolled(s, n)) /\ Rolled(s, n).phase = n
         /\ Rolled(s, n).designApproved = s.designApproved
         /\ Rolled(s, n).designReview = s.designReview
<1> DEFINE t == [s EXCEPT !.phase = n, !.stat = "in_progress"]
<1>1. s = [f \in Fields |-> s[f]]
  BY DEF Shaped
<1>2. t = [f \in Fields |-> t[f]]
  BY <1>1
<1>3. t.phase = n
  BY <1>1 DEF Fields
<1>4. t.designApproved = s.designApproved
  BY <1>1 DEF Fields
<1>5. t.designReview = s.designReview
  BY <1>1 DEF Fields
<1> QED
  BY <1>2, <1>3, <1>4, <1>5 DEF Shaped, Rolled

LEMMA InvalidatedDesign ==
  ASSUME NEW s, Shaped(s), NEW back \in {4, 5}
  PROVE  Shaped(Invalidated(s, back)) /\ SameDesign(Invalidated(s, back), s)
<1> DEFINE cleared == [s EXCEPT !.review = None, !.deployment = None, !.live = 0]
           rolled == Rolled(cleared, back)
<1>1. Shaped(cleared) /\ SameDesign(cleared, s) /\ cleared.phase = s.phase
  BY DEF Shaped, Fields, SameDesign
<1>2. /\ Shaped(rolled)
      /\ rolled.designApproved = cleared.designApproved
      /\ rolled.designReview = cleared.designReview
  <2> HIDE DEF cleared
  <2> QED
    BY <1>1, RolledTo, back \in 1..8
<1>3. Invalidated(s, back) = IF s.phase >= 6 THEN rolled ELSE cleared
  BY DEF Invalidated, Rolled
<1> HIDE DEF cleared, rolled
<1>4. s.phase >= 6 => s.phase >= 3
  BY DEF Shaped
<1> QED
  BY <1>1, <1>2, <1>3, <1>4 DEF SameDesign

LEMMA RedesignedDesign ==
  ASSUME NEW s, Shaped(s)
  PROVE  Shaped(Redesigned(s)) /\ Redesigned(s).phase < 3
<1> DEFINE r == Invalidated(s, 4)
           cleared == [r EXCEPT !.designApproved = None, !.designReview = None, !.proposal = None]
           rolled == Rolled(cleared, 2)
<1>1. Redesigned(s) = IF r.phase >= 3 THEN rolled ELSE cleared
  BY DEF Redesigned, Rolled
<1>2. Shaped(r)
  BY InvalidatedDesign
<1>3. Shaped(cleared) /\ cleared.phase = r.phase
  <2> HIDE DEF r
  <2> QED
    BY <1>2 DEF Shaped, Fields
<1>4. Shaped(rolled) /\ rolled.phase = 2
  <2> HIDE DEF cleared
  <2> QED
    BY <1>3, RolledTo, 2 \in 1..8, 7 \in 1..8
<1> HIDE DEF r, cleared, rolled
<1> QED
  BY <1>1, <1>2, <1>3, <1>4 DEF Shaped

LEMMA AfterEvidenceDesign ==
  ASSUME NEW s, Shaped(s), NEW led, NEW reg, NEW before, NEW after, NEW checked, NEW cfg
  PROVE  /\ Shaped(AfterEvidence(s, led, reg, before, after, checked, cfg))
         /\ SameDesign(AfterEvidence(s, led, reg, before, after, checked, cfg), s)
<1> DEFINE bound == [s EXCEPT !.review.hash = reg]
           kept == IF s.deployment = None THEN bound ELSE [bound EXCEPT !.deployment.hash = reg]
           unlive == [kept EXCEPT !.live = 0]
           waiting == Rolled(unlive, 7)
           holds == ReviewHolds(s, reg, before, after, checked)
           stale == s.live # 0 /\ ~LiveBindingHolds(s, led, reg, after, cfg)
<1>1. Shaped(bound) /\ SameDesign(bound, s) /\ bound.phase = s.phase
  BY DEF Shaped, Fields, SameDesign
<1>2. Shaped(kept) /\ SameDesign(kept, s) /\ kept.phase = s.phase
  <2> HIDE DEF bound
  <2> QED
    BY <1>1 DEF Shaped, Fields, SameDesign
<1>3. Shaped(unlive) /\ SameDesign(unlive, s) /\ unlive.phase = s.phase
  <2> HIDE DEF kept
  <2> QED
    BY <1>2 DEF Shaped, Fields, SameDesign
<1>4. /\ Shaped(waiting) /\ waiting.phase = 7
      /\ waiting.designApproved = unlive.designApproved
      /\ waiting.designReview = unlive.designReview
  <2> HIDE DEF unlive
  <2> QED
    BY <1>3, RolledTo, 2 \in 1..8, 7 \in 1..8
<1>5. AfterEvidence(s, led, reg, before, after, checked, cfg) =
        CASE ~holds -> Invalidated(s, 5)
          [] holds /\ ~stale -> kept
          [] holds /\ stale -> IF s.phase >= 8 THEN waiting ELSE unlive
  <2>1. [kept EXCEPT !.live = 0, !.phase = 7, !.stat = "in_progress"] = waiting
    BY DEF Rolled
  <2> QED
    BY <2>1 DEF AfterEvidence
<1> HIDE DEF kept, unlive, waiting, stale, holds
<1>6. CASE ~holds
  BY <1>5, <1>6, InvalidatedDesign
<1>7. CASE holds /\ ~stale
  BY <1>2, <1>5, <1>7
<1>8. CASE holds /\ stale /\ s.phase >= 8
  <2>1. AfterEvidence(s, led, reg, before, after, checked, cfg) = waiting
    BY <1>5, <1>8
  <2>2. s.phase >= 3
    BY <1>8 DEF Shaped
  <2> QED
    BY <1>3, <1>4, <2>1, <2>2 DEF SameDesign
<1>9. CASE holds /\ stale /\ ~(s.phase >= 8)
  BY <1>3, <1>5, <1>9
<1> QED
  BY <1>6, <1>7, <1>8, <1>9

-----------------------------------------------------------------------------
(* The registry: evidence never touches what a criterion claims. *)

ShapedCriterion(r) == r = [f \in {"spec", "state", "evidence"} |-> r[f]]
ShapedRegistry(reg) == \A c \in DOMAIN reg : ShapedCriterion(reg[c])

LEMMA AttachedClaim ==
  ASSUME NEW led, NEW reg, NEW c \in DOMAIN reg, NEW n, ShapedRegistry(reg)
  PROVE  ShapedCriterion(Attached(led, reg, c, n)) /\ Attached(led, reg, c, n).spec = reg[c].spec
BY DEF ShapedRegistry, ShapedCriterion, Attached

LEMMA JudgedClaims ==
  ASSUME NEW led, NEW numbers, ShapedRegistry(registry)
  PROVE  /\ ShapedRegistry(Judged(led, numbers))
         /\ Design(Judged(led, numbers)) = Design(registry)
<1> DEFINE reg == Judged(led, numbers)
<1>1. DOMAIN reg = DOMAIN registry
  BY DEF Judged
<1>2. ASSUME NEW c \in DOMAIN registry
      PROVE  ShapedCriterion(reg[c]) /\ reg[c].spec = registry[c].spec
  <2>1. CASE c \in DOMAIN numbers
    <3>1. reg[c] = Attached(led, registry, c, numbers[c])
      BY <2>1 DEF Judged
    <3> QED
      BY <3>1, AttachedClaim
  <2>2. CASE c \notin DOMAIN numbers
    <3>1. reg[c] = registry[c]
      BY <2>2 DEF Judged
    <3> QED
      BY <3>1 DEF ShapedRegistry
  <2> QED
    BY <2>1, <2>2
<1> HIDE DEF reg
<1>3. ShapedRegistry(reg)
  BY <1>1, <1>2 DEF ShapedRegistry
<1>4. Design(reg) = Design(registry)
  BY <1>1, <1>2 DEF Design
<1> QED
  BY <1>3, <1>4 DEF reg

-----------------------------------------------------------------------------
(* Every step keeps the design that was decided on. *)

Inv ==
  /\ Shaped(status) /\ ShapedRegistry(registry)
  /\ Design(registry) \in Claims
  /\ BuildsApprovedDesign

LEMMA ClaimsOf ==
  ASSUME NEW reg
  PROVE  Design(reg) \in Claims <=>
           DOMAIN reg \subseteq Criteria /\ \A c \in DOMAIN reg : reg[c].spec \in Specs
<1>1. DOMAIN Design(reg) = DOMAIN reg /\ \A c \in DOMAIN reg : Design(reg)[c] = reg[c].spec
  BY DEF Design
<1>2. ASSUME Design(reg) \in Claims
      PROVE  DOMAIN reg \subseteq Criteria /\ \A c \in DOMAIN reg : reg[c].spec \in Specs
  <2>1. PICK criteria \in SUBSET Criteria : Design(reg) \in [criteria -> Specs]
    BY <1>2 DEF Claims
  <2> QED
    BY <1>1, <2>1
<1>3. ASSUME DOMAIN reg \subseteq Criteria, \A c \in DOMAIN reg : reg[c].spec \in Specs
      PROVE  Design(reg) \in Claims
  <2>1. Design(reg) \in [DOMAIN reg -> Specs]
    BY <1>3 DEF Design
  <2> QED
    BY <1>3, <2>1 DEF Claims
<1> QED
  BY <1>2, <1>3

\* A step that rewords nothing and takes no design decision.
LEMMA DesignKept ==
  ASSUME Inv, Shaped(status'), SameDesign(status', status),
         ShapedRegistry(registry'), Design(registry') = Design(registry)
  PROVE  Inv'
<1>0. Design(registry') \in Claims
  BY DEF Inv
<1>1. CASE status'.phase >= 3
  <2>1. status.phase >= 3
    BY <1>1 DEF SameDesign
  <2> QED
    BY <1>0, <2>1 DEF Inv, BuildsApprovedDesign, SameDesign
<1>2. CASE ~(status'.phase >= 3)
  BY <1>0, <1>2 DEF Inv, BuildsApprovedDesign
<1> QED
  BY <1>1, <1>2

\* A step into Phase 1 or 2 owes nothing to any decision.
LEMMA DesignOpen ==
  ASSUME Shaped(status'), status'.phase < 3, ShapedRegistry(registry'), Design(registry') \in Claims
  PROVE  Inv'
<1>1. ~(status'.phase >= 3)
  BY DEF Shaped
<1> QED
  BY <1>1 DEF Inv, BuildsApprovedDesign

LEMMA RegistersStep ==
  ASSUME Inv, Registers
  PROVE  Inv'
<1>0. DOMAIN registry \subseteq Criteria /\ \A c \in DOMAIN registry : registry[c].spec \in Specs
  BY ClaimsOf DEF Inv
<1>1. ASSUME NEW n PROVE Shaped([status EXCEPT !.symptom = n])
  BY DEF Inv, Shaped, Fields
<1>2. ASSUME NEW c \in Criteria, NEW spec \in Specs, NEW revoke \in BOOLEAN, CriterionAdd(c, spec, revoke)
      PROVE  Inv'
  <2>1. ShapedRegistry(registry')
    BY <1>2 DEF CriterionAdd, NewCriterion, Inv, ShapedRegistry, ShapedCriterion
  <2>9. Design(registry') \in Claims
    BY <1>2, <1>0, ClaimsOf DEF CriterionAdd, NewCriterion
  <2>2. status' = Redesigned([status EXCEPT !.symptom = IF c \in Primary THEN 0 ELSE @])
    BY <1>2 DEF CriterionAdd
  <2>3. Shaped([status EXCEPT !.symptom = IF c \in Primary THEN 0 ELSE @])
    BY <1>1
  <2>4. Shaped(status') /\ status'.phase < 3
    BY <2>2, <2>3, RedesignedDesign
  <2> QED
    BY <2>1, <2>9, <2>4, DesignOpen
<1>3. ASSUME NEW c \in Criteria, NEW spec \in Specs \cup {None}, NEW state \in States \cup {None},
             NEW revoke \in BOOLEAN, CriterionUpdate(c, spec, state, revoke)
      PROVE  Inv'
  <2>1. ShapedRegistry(registry')
    BY <1>3 DEF CriterionUpdate, Restated, Inv, ShapedRegistry, ShapedCriterion
  <2>9. Design(registry') \in Claims
    BY <1>3, <1>0, ClaimsOf DEF CriterionUpdate, Restated
  <2>2. status' = Redesigned([status EXCEPT !.symptom = IF c \in Primary /\ spec # None THEN 0 ELSE @])
    BY <1>3 DEF CriterionUpdate
  <2>3. Shaped([status EXCEPT !.symptom = IF c \in Primary /\ spec # None THEN 0 ELSE @])
    BY <1>1
  <2>4. Shaped(status') /\ status'.phase < 3
    BY <2>2, <2>3, RedesignedDesign
  <2> QED
    BY <2>1, <2>9, <2>4, DesignOpen
<1>4. ASSUME NEW c \in Criteria, CriterionRemove(c)
      PROVE  Inv'
  <2>1. ShapedRegistry(registry')
    BY <1>4 DEF CriterionRemove, Inv, ShapedRegistry
  <2>9. Design(registry') \in Claims
    BY <1>4, <1>0, ClaimsOf DEF CriterionRemove
  <2>2. Shaped(status') /\ status'.phase < 3
    BY <1>4, RedesignedDesign DEF CriterionRemove, Inv
  <2> QED
    BY <2>1, <2>9, <2>2, DesignOpen
<1> QED
  BY <1>2, <1>3, <1>4 DEF Registers

\* A status advanced to a phase has that phase.
Advanced(s, n, reads, who) == [s EXCEPT !.phase = n, !.stat = reads, !.implementer = who]
LEMMA AdvancedTo ==
  ASSUME NEW s, Shaped(s), NEW n \in 1..8, NEW reads, NEW who
  PROVE  Shaped(Advanced(s, n, reads, who))
<1> DEFINE t == [s EXCEPT !.phase = n, !.stat = reads, !.implementer = who]
<1>1. s = [f \in Fields |-> s[f]]
  BY DEF Shaped
<1>2. t = [f \in Fields |-> t[f]]
  BY <1>1
<1>3. t.phase = n
  BY <1>1 DEF Fields
<1> QED
  BY <1>2, <1>3 DEF Shaped, Advanced

LEMMA DesignsStep ==
  ASSUME Inv, policy \in Policies, Designs
  PROVE  Inv'
<1>1. registry' = registry /\ ShapedRegistry(registry') /\ Design(registry') \in Claims
  BY DEF Designs, DesignPropose, DesignReviewChanges, DesignReviewApproved, DesignApprove,
         DesignReject, Advance, StatusOnly, Inv
<1>2. ASSUME NEW stat, DesignPropose(stat)
      PROVE  Inv'
  <2>1. Shaped(status') /\ status'.phase = status.phase
    BY <1>2 DEF DesignPropose, Inv, Shaped, Fields
  <2> QED
    BY <1>1, <1>2, <2>1, DesignOpen DEF DesignPropose
<1>3. ASSUME NEW stat, DesignReviewChanges(stat)
      PROVE  Inv'
  <2>1. Shaped(status') /\ status'.phase = status.phase
    BY <1>3 DEF DesignReviewChanges, Inv, Shaped, Fields
  <2> QED
    BY <1>1, <1>3, <2>1, DesignOpen DEF DesignReviewChanges
<1>4. CASE DesignReviewApproved
  <2>1. Shaped(status') /\ status'.phase = status.phase
    BY <1>4 DEF DesignReviewApproved, Inv, Shaped, Fields
  <2> QED
    BY <1>1, <1>4, <2>1, DesignOpen DEF DesignReviewApproved
<1>5. CASE DesignReject
  <2>1. Shaped(status') /\ status'.phase = status.phase
    BY <1>5 DEF DesignReject, Inv, Shaped, Fields
  <2> QED
    BY <1>1, <1>5, <2>1, DesignOpen DEF DesignReject
<1>6. CASE DesignApprove
  <2>1. Shaped(status') /\ status'.phase = status.phase /\ status'.designReview = status.designReview
    BY <1>6 DEF DesignApprove, Inv, Shaped, Fields
  <2>2. status'.designApproved = [design |-> Design(registry), policy |-> policy]
    BY <1>6 DEF DesignApprove, Inv, Shaped, Fields
  <2>3. Design(registry') = Design(registry)
    BY <1>1
  <2>4. status'.designApproved # None
    BY <2>2, NoneAssumption DEF Inv, DesignApproval
  <2>5. CASE status'.phase >= 3
    <3>1. status.phase >= 3
      BY <2>1, <2>5
    <3>2. status'.designReview # None /\ status'.designReview.decision = "approved"
          /\ status'.designReview.design = Design(registry')
      BY <2>1, <2>3, <3>1 DEF Inv, BuildsApprovedDesign
    <3>3. status'.designApproved.design = Design(registry')
      BY <2>2, <2>3
    <3> QED
      BY <1>1, <2>1, <2>4, <3>2, <3>3 DEF Inv, BuildsApprovedDesign
  <2>6. CASE ~(status'.phase >= 3)
    BY <1>1, <2>1, <2>6 DEF Inv, BuildsApprovedDesign
  <2> QED
    BY <2>5, <2>6
<1>7. ASSUME NEW target \in 1..8, NEW stat, NEW by, Advance(target, stat, by)
      PROVE  Inv'
  <2>1. PICK reads, who : status' = Advanced(status, target, reads, who) /\ GatesHold(status')
    BY <1>7 DEF Advance, Advanced
  <2>2. Shaped(status')
    BY <2>1, AdvancedTo DEF Inv
  <2>3. status'.phase >= 3 => DesignReviewed(status') /\ DesignApproved(status')
    BY <2>1 DEF GatesHold
  <2>4. policy' = policy
    BY <1>7 DEF Advance, StatusOnly, world
  <2> QED
    BY <1>1, <2>2, <2>3, <2>4 DEF Inv, BuildsApprovedDesign, DesignReviewed, DesignApproved
<1> QED
  BY <1>2, <1>3, <1>4, <1>5, <1>6, <1>7 DEF Designs

\* A step that leaves the status and the registry alone.
LEMMA NothingDecided ==
  ASSUME Inv, status' = status, registry' = registry
  PROVE  Inv'
<1>1. Shaped(status') /\ SameDesign(status', status)
  BY DEF Inv, SameDesign
<1>2. ShapedRegistry(registry') /\ Design(registry') = Design(registry)
  BY DEF Inv
<1> QED
  BY <1>1, <1>2, DesignKept

LEMMA RunsStep ==
  ASSUME Inv, NEW p \in Runners, Runs(p)
  PROVE  Inv'
<1>1. ASSUME NEW cs, NEW what, VerifyStart(p, cs, what)
      PROVE  Inv'
  BY <1>1, NothingDecided DEF VerifyStart
<1>2. ASSUME NEW ready, NEW passed, ChecksRecorded(p, ready, passed)
      PROVE  Inv'
  <2>1. PICK led, numbers : registry' = Judged(led, numbers)
    BY <1>2 DEF ChecksRecorded
  <2>2. status' = status /\ SameDesign(status', status)
    BY <1>2 DEF ChecksRecorded, SameDesign
  <2> QED
    BY <2>1, <2>2, JudgedClaims, DesignKept DEF Inv
<1>3. ASSUME NEW passed, VerifyFinish(p, passed)
      PROVE  Inv'
  <2>1. PICK led, numbers, n :
          /\ registry' = Judged(led, numbers)
          /\ status' = AfterEvidence([status EXCEPT !.symptom = n], led, registry',
                                     running[p].tree, tree, DOMAIN running[p].specs,
                                     running[p].policy)
    BY <1>3 DEF VerifyFinish
  <2> DEFINE s == [status EXCEPT !.symptom = n]
  <2>2. Shaped(s) /\ SameDesign(s, status)
    BY DEF Inv, Shaped, Fields, SameDesign
  <2> HIDE DEF s
  <2>3. Shaped(status') /\ SameDesign(status', s)
    BY <2>1, <2>2, AfterEvidenceDesign DEF s
  <2>4. SameDesign(status', status)
    BY <2>2, <2>3 DEF SameDesign
  <2> QED
    BY <2>1, <2>3, <2>4, JudgedClaims, DesignKept DEF Inv
<1>4. ASSUME NEW failed, BaselineFinish(p, failed)
      PROVE  Inv'
  <2>1. PICK numbers, checked : registry' = [c \in DOMAIN registry |->
          IF c \in checked THEN [registry[c] EXCEPT !.evidence = @ \cup {numbers[c]}] ELSE registry[c]]
    BY <1>4 DEF BaselineFinish
  <2>2. ShapedRegistry(registry')
    BY <2>1 DEF Inv, ShapedRegistry, ShapedCriterion
  <2>3. \A c \in DOMAIN registry : registry'[c].spec = registry[c].spec
    BY <2>1 DEF Inv, ShapedRegistry, ShapedCriterion
  <2>4. Design(registry') = Design(registry)
    BY <2>1, <2>3 DEF Design
  <2>5. status' = status /\ SameDesign(status', status)
    BY <1>4 DEF BaselineFinish, SameDesign
  <2> QED
    BY <2>2, <2>4, <2>5, DesignKept DEF Inv
<1>5. ASSUME VerifyLiveStart(p)
      PROVE  Inv'
  BY <1>5, NothingDecided DEF VerifyLiveStart
<1>6. ASSUME NEW ok, VerifyLiveFinish(p, ok)
      PROVE  Inv'
  <2>1. PICK n : status' = [status EXCEPT !.live = n]
    BY <1>6 DEF VerifyLiveFinish
  <2>2. Shaped(status') /\ SameDesign(status', status)
    BY <2>1 DEF Inv, Shaped, Fields, SameDesign
  <2>3. registry' = registry
    BY <1>6 DEF VerifyLiveFinish
  <2> QED
    BY <2>2, <2>3, DesignKept DEF Inv
<1>7. ASSUME RunEnds(p)
      PROVE  Inv'
  BY <1>7, NothingDecided DEF RunEnds
<1> QED
  BY <1>1, <1>2, <1>3, <1>4, <1>5, <1>6, <1>7 DEF Runs

LEMMA DecidesStep ==
  ASSUME Inv, Decides
  PROVE  Inv'
<1>1. ASSUME NEW c \in Criteria, RecordEvidence(c)
      PROVE  Inv'
  <2>1. PICK led, n : registry' = [registry EXCEPT ![c] = Attached(led, registry, c, n)]
    BY <1>1 DEF RecordEvidence
  <2>2. PICK later : status' = AfterEvidence(status, later, registry', tree, tree, {c}, policy)
    BY <1>1 DEF RecordEvidence
  <2>3. c \in DOMAIN registry
    BY <1>1 DEF RecordEvidence
  <2>4. ShapedRegistry(registry') /\ Design(registry') = Design(registry)
    <3>1. \A d \in DOMAIN registry :
            ShapedCriterion(registry'[d]) /\ registry'[d].spec = registry[d].spec
      BY <2>1, <2>3, AttachedClaim DEF Inv, ShapedRegistry
    <3>2. DOMAIN registry' = DOMAIN registry
      BY <2>1
    <3> QED
      BY <3>1, <3>2 DEF Design, ShapedRegistry
  <2>5. Shaped(status') /\ SameDesign(status', status)
    BY <2>2, AfterEvidenceDesign DEF Inv
  <2> QED
    BY <2>4, <2>5, DesignKept
<1>2. ASSUME NEW n, RecordSymptom(n)
      PROVE  Inv'
  <2> DEFINE s == [status EXCEPT !.symptom = n]
  <2>1. Shaped(s) /\ SameDesign(s, status)
    BY DEF Inv, Shaped, Fields, SameDesign
  <2>2. status' = Invalidated(s, 5)
    BY <1>2 DEF RecordSymptom
  <2> HIDE DEF s
  <2>3. Shaped(status') /\ SameDesign(status', s)
    BY <2>1, <2>2, InvalidatedDesign
  <2>4. SameDesign(status', status)
    BY <2>1, <2>3 DEF SameDesign
  <2>5. registry' = registry
    BY <1>2 DEF RecordSymptom, StatusOnly
  <2> QED
    BY <2>3, <2>4, <2>5, DesignKept DEF Inv
<1>3. ASSUME NEW by, RecordReview(by)
      PROVE  Inv'
  <2>1. PICK review : status' = [status EXCEPT !.review = review]
    BY <1>3 DEF RecordReview
  <2>2. Shaped(status') /\ SameDesign(status', status)
    BY <2>1 DEF Inv, Shaped, Fields, SameDesign
  <2>3. registry' = registry
    BY <1>3 DEF RecordReview, StatusOnly
  <2> QED
    BY <2>2, <2>3, DesignKept DEF Inv
<1>4. ASSUME DeploymentApprove
      PROVE  Inv'
  <2>1. PICK approval : status' = [status EXCEPT !.deployment = approval, !.stat = "ready_to_deploy"]
    BY <1>4 DEF DeploymentApprove
  <2>2. Shaped(status') /\ SameDesign(status', status)
    BY <2>1 DEF Inv, Shaped, Fields, SameDesign
  <2>3. registry' = registry
    BY <1>4 DEF DeploymentApprove
  <2> QED
    BY <2>2, <2>3, DesignKept DEF Inv
<1>5. ASSUME DeploymentRevoke
      PROVE  Inv'
  <2>1. status' = Advanced([status EXCEPT !.deployment = None], 7, "awaiting_approval", status.implementer)
    BY <1>5 DEF DeploymentRevoke, Advanced, Inv, Shaped, Fields
  <2>2. Shaped([status EXCEPT !.deployment = None])
    BY DEF Inv, Shaped, Fields
  <2>3. Shaped(status')
    BY <2>1, <2>2, AdvancedTo, 7 \in 1..8
  <2>4. status.phase >= 3
    BY <1>5 DEF DeploymentRevoke
  <2>5. /\ status'.designApproved = status.designApproved
        /\ status'.designReview = status.designReview
    BY <1>5 DEF DeploymentRevoke, Inv, Shaped, Fields
  <2>6. registry' = registry
    BY <1>5 DEF DeploymentRevoke, StatusOnly
  <2> QED
    BY <2>3, <2>4, <2>5, <2>6, DesignKept DEF Inv, SameDesign
<1> QED
  BY <1>1, <1>2, <1>3, <1>4, <1>5 DEF Decides

LEMMA PolicyStep ==
  ASSUME policy \in Policies, [Next]_vars
  PROVE  policy' \in Policies
BY DEF Next, vars, world, StatusOnly, Registers, CriterionAdd, CriterionUpdate, CriterionRemove,
       Designs, DesignPropose, DesignReviewApproved, DesignReviewChanges, DesignApprove, DesignReject,
       Advance, Runs, VerifyStart, ChecksRecorded, VerifyFinish, BaselineFinish, RunEnds,
       VerifyLiveStart, VerifyLiveFinish, Decides, RecordEvidence, RecordSymptom, RecordReview,
       DeploymentApprove, DeploymentRevoke, EditTree, EditPolicy

LEMMA InvInit ==
  ASSUME Init
  PROVE  Inv /\ policy \in Policies
<1>1. status = [f \in Fields |-> status[f]] /\ status.phase = 1
  BY DEF Init, Fields
<1>2. Shaped(status) /\ ~(status.phase >= 3)
  BY <1>1 DEF Shaped
<1>3. DOMAIN registry = {}
  BY DEF Init
<1>4. Design(registry) \in Claims
  BY <1>3, ClaimsOf
<1>5. policy \in Policies
  BY DeliveryAssumption DEF Init
<1> QED
  BY <1>2, <1>3, <1>4, <1>5 DEF Inv, ShapedRegistry, BuildsApprovedDesign

LEMMA InvStep ==
  ASSUME Inv, policy \in Policies, [Next]_vars
  PROVE  Inv'
<1>1. CASE EditTree
  BY <1>1, NothingDecided DEF EditTree
<1>2. CASE EditPolicy
  BY <1>2, NothingDecided DEF EditPolicy
<1>3. CASE UNCHANGED vars
  BY <1>3, NothingDecided DEF vars
<1> QED
  BY <1>1, <1>2, <1>3, RegistersStep, DesignsStep, RunsStep, DecidesStep DEF Next

\* Whatever the criteria, the evidence they ask for and the number of runners,
\* and however verifies, edits, reviews and approvals interleave: past Phase 2
\* what is built is exactly what was reviewed and what the Pilot approved.
\* (cmd_advance with compute_errors, and _invalidate_decisions)
THEOREM AlwaysBuildsApprovedDesign == Spec => []BuildsApprovedDesign
<1> DEFINE IInv == Inv /\ policy \in Policies
<1>1. Init => IInv
  BY InvInit
<1>2. IInv /\ [Next]_vars => IInv'
  BY InvStep, PolicyStep
<1>3. IInv => BuildsApprovedDesign
  BY DEF Inv
<1> QED
  BY <1>1, <1>2, <1>3, PTL DEF Spec

-----------------------------------------------------------------------------
(* What a command may do to the decisions on record. *)

\* The step takes back the review, the approval and the live verification.
TakesBack(t) == t.review = None /\ t.deployment = None /\ t.live = 0 /\ t.phase < 6

\* The step from s to t leaves them as they are, but for the hashes, which
\* may be bound to the registry reg.
Keeps(t, s, reg) ==
  /\ t.implementer = s.implementer
  /\ (t.review = None) <=> (s.review = None)
  /\ s.review # None => t.review.by = s.review.by /\ t.review.specs = s.review.specs
  /\ (t.deployment = None) <=> (s.deployment = None)
  /\ s.deployment # None =>
       t.deployment.at = s.deployment.at /\ t.deployment.hash \in {s.deployment.hash, reg}
  /\ t.live \in {s.live, 0}
  /\ t.phase >= 6 => s.phase >= 6
  /\ t.phase = 8 => s.phase = 8 /\ t.live = s.live /\ t.stat = s.stat

\* What a rolled status keeps.
LEMMA RolledIs ==
  ASSUME NEW s \in Status, NEW n \in 1..8
  PROVE  /\ Rolled(s, n) \in Status /\ Rolled(s, n).phase = n
         /\ Rolled(s, n).review = s.review /\ Rolled(s, n).deployment = s.deployment
         /\ Rolled(s, n).live = s.live /\ Rolled(s, n).symptom = s.symptom
         /\ Rolled(s, n).implementer = s.implementer
<1>1. "in_progress" \in Stats
  BY DEF Stats
<1> QED
  BY <1>1 DEF Rolled, Status

LEMMA InvalidatedIs ==
  ASSUME NEW s \in Status, NEW back \in {4, 5}
  PROVE  /\ Invalidated(s, back) \in Status /\ TakesBack(Invalidated(s, back))
         /\ Invalidated(s, back).symptom = s.symptom
<1> DEFINE cleared == [s EXCEPT !.review = None, !.deployment = None, !.live = 0]
           rolled == Rolled(cleared, back)
<1>1. /\ cleared \in Status /\ cleared.review = None /\ cleared.deployment = None /\ cleared.live = 0
      /\ cleared.phase = s.phase /\ cleared.symptom = s.symptom
  BY DEF Status
<1>2. /\ rolled \in Status /\ rolled.review = None /\ rolled.deployment = None /\ rolled.live = 0
      /\ rolled.phase = back /\ rolled.symptom = s.symptom
  <2> HIDE DEF cleared
  <2> QED
    BY <1>1, RolledIs, back \in 1..8
<1>3. Invalidated(s, back) = IF s.phase >= 6 THEN rolled ELSE cleared
  BY DEF Invalidated, Rolled
<1> HIDE DEF cleared, rolled
<1> QED
  BY <1>1, <1>2, <1>3 DEF TakesBack, Status

LEMMA RedesignedIs ==
  ASSUME NEW s \in Status
  PROVE  /\ Redesigned(s) \in Status /\ TakesBack(Redesigned(s))
         /\ Redesigned(s).symptom = s.symptom
<1> DEFINE r == Invalidated(s, 4)
           cleared == [r EXCEPT !.designApproved = None, !.designReview = None, !.proposal = None]
           rolled == Rolled(cleared, 2)
<1>1. Redesigned(s) = IF r.phase >= 3 THEN rolled ELSE cleared
  BY DEF Redesigned, Rolled
<1>2. r \in Status /\ TakesBack(r) /\ r.symptom = s.symptom
  BY InvalidatedIs
<1>3. cleared \in Status /\ TakesBack(cleared) /\ cleared.symptom = s.symptom
  <2> HIDE DEF r
  <2> QED
    BY <1>2 DEF Status, TakesBack
<1>4. rolled \in Status /\ TakesBack(rolled) /\ rolled.symptom = s.symptom
  <2> HIDE DEF cleared
  <2> QED
    BY <1>3, RolledIs, 2 \in 1..8 DEF TakesBack
<1> HIDE DEF r, cleared, rolled
<1> QED
  BY <1>1, <1>3, <1>4

\* A review, and a deployment approval, bound to another registry.
LEMMA Bound ==
  ASSUME NEW reg \in Registries
  PROVE  /\ \A r \in Review : LET b == [r EXCEPT !.hash = reg]
                              IN  /\ b \in Review /\ b.by = r.by /\ b.specs = r.specs
                                  /\ b.tree = r.tree /\ b.hash = reg
         /\ \A d \in Deployment : LET b == [d EXCEPT !.hash = reg]
                                  IN  b \in Deployment /\ b.at = d.at /\ b.hash = reg
<1>1. ASSUME NEW r \in Review
      PROVE  /\ [r EXCEPT !.hash = reg] \in Review
             /\ [r EXCEPT !.hash = reg].by = r.by
             /\ [r EXCEPT !.hash = reg].specs = r.specs
             /\ [r EXCEPT !.hash = reg].tree = r.tree
             /\ [r EXCEPT !.hash = reg].hash = reg
  BY DEF Review
<1>2. ASSUME NEW d \in Deployment
      PROVE  /\ [d EXCEPT !.hash = reg] \in Deployment
             /\ [d EXCEPT !.hash = reg].at = d.at
             /\ [d EXCEPT !.hash = reg].hash = reg
  BY DEF Deployment
<1> QED
  BY <1>1, <1>2

\* After evidence the decisions are taken back, or kept and bound to the
\* registry as it is now; they are kept only when the review still holds.
LEMMA AfterEvidenceIs ==
  ASSUME NEW s \in Status, NEW led, NEW reg \in Registries, NEW before, NEW after, NEW checked, NEW cfg
  PROVE  LET t == AfterEvidence(s, led, reg, before, after, checked, cfg)
         IN  /\ t \in Status /\ t.symptom = s.symptom
             /\ \/ TakesBack(t)
                \/ /\ Keeps(t, s, reg)
                   /\ ReviewHolds(s, reg, before, after, checked)
                   /\ t.review.hash = reg /\ t.review.tree = s.review.tree
<1> DEFINE t == AfterEvidence(s, led, reg, before, after, checked, cfg)
           bound == [s EXCEPT !.review.hash = reg]
           kept == IF s.deployment = None THEN bound ELSE [bound EXCEPT !.deployment.hash = reg]
           unlive == [kept EXCEPT !.live = 0]
           waiting == Rolled(unlive, 7)
           holds == ReviewHolds(s, reg, before, after, checked)
           stale == s.live # 0 /\ ~LiveBindingHolds(s, led, reg, after, cfg)
           OK(u) == /\ u \in Status /\ Keeps(u, s, reg) /\ u.symptom = s.symptom
                    /\ u.review.hash = reg /\ u.review.tree = s.review.tree
<1>1. CASE ~holds
  <2>1. t = Invalidated(s, 5)
    BY <1>1 DEF AfterEvidence
  <2> QED
    BY <2>1, InvalidatedIs
<1>2. CASE holds
  <2>1. s.review # None /\ s.review \in Review
    BY <1>2 DEF ReviewHolds, Status
  <2>2. /\ [s.review EXCEPT !.hash = reg] \in Review
        /\ [s.review EXCEPT !.hash = reg].by = s.review.by
        /\ [s.review EXCEPT !.hash = reg].specs = s.review.specs
        /\ [s.review EXCEPT !.hash = reg].tree = s.review.tree
        /\ [s.review EXCEPT !.hash = reg].hash = reg
    BY <2>1, Bound
  <2>3. /\ bound \in Status /\ bound.review = [s.review EXCEPT !.hash = reg]
        /\ bound.deployment = s.deployment /\ bound.live = s.live /\ bound.phase = s.phase
        /\ bound.stat = s.stat /\ bound.implementer = s.implementer /\ bound.symptom = s.symptom
    BY <2>2 DEF Status
  <2>4. /\ kept.review = bound.review /\ kept.live = s.live /\ kept.phase = s.phase /\ kept.stat = s.stat
        /\ kept.implementer = s.implementer /\ kept.symptom = s.symptom
        /\ (kept.deployment = None) <=> (s.deployment = None)
        /\ kept \in Status
        /\ s.deployment # None => kept.deployment.at = s.deployment.at /\ kept.deployment.hash = reg
    <3>1. CASE s.deployment = None
      BY <2>3, <3>1
    <3>2. CASE s.deployment # None
      <4> DEFINE d == [s.deployment EXCEPT !.hash = reg]
      <4>1. s.deployment \in Deployment
        BY <3>2 DEF Status
      <4>2. d \in Deployment /\ d.at = s.deployment.at /\ d.hash = reg /\ d # None
        BY <4>1, Bound, NoneAssumption
      <4>3. kept = [bound EXCEPT !.deployment = d]
        BY <2>3, <3>2
      <4> HIDE DEF bound, d, kept
      <4> QED
        BY <2>3, <3>2, <4>2, <4>3 DEF Status
    <3> QED
      BY <3>1, <3>2
  <2> DEFINE r == [s.review EXCEPT !.hash = reg]
  <2>5. /\ r # None /\ kept.review = r /\ r.by = s.review.by /\ r.specs = s.review.specs
        /\ r.tree = s.review.tree /\ r.hash = reg
    BY <2>2, <2>3, <2>4, NoneAssumption
  <2>10. t = IF ~stale THEN kept ELSE IF s.phase >= 8 THEN waiting ELSE unlive
    <3>1. [kept EXCEPT !.live = 0, !.phase = 7, !.stat = "in_progress"] = waiting
      BY DEF Rolled
    <3> QED
      BY <1>2, <3>1 DEF AfterEvidence
  <2> HIDE DEF kept, bound, r
  <2>6. OK(kept)
    BY <2>1, <2>4, <2>5 DEF Keeps, Status
  <2>7. OK(unlive) \/ s.phase = 8
    BY <2>6 DEF Keeps, Status
  <2>8. /\ unlive \in Status /\ unlive.review = kept.review /\ unlive.deployment = kept.deployment
        /\ unlive.live = 0 /\ unlive.symptom = s.symptom /\ unlive.implementer = s.implementer
    BY <2>6 DEF Keeps, Status
  <2>9. OK(waiting) \/ ~(s.phase >= 8)
    <3> HIDE DEF unlive
    <3>1. /\ waiting \in Status /\ waiting.phase = 7 /\ waiting.review = unlive.review
          /\ waiting.deployment = unlive.deployment /\ waiting.live = 0
          /\ waiting.symptom = s.symptom /\ waiting.implementer = s.implementer
      BY <2>8, RolledIs, 7 \in 1..8
    <3> HIDE DEF waiting
    <3> QED
      BY <2>6, <2>8, <3>1 DEF Keeps, Status
  <2> HIDE DEF unlive, waiting, stale, t
  <2>11. OK(t)
    BY <2>6, <2>7, <2>9, <2>10 DEF Status
  <2> HIDE DEF holds
  <2> QED
    BY <1>2, <2>11 DEF holds, t
<1> QED
  BY <1>1, <1>2

-----------------------------------------------------------------------------
(* Writing records: the ledger only grows, and each criterion's number is *)
(* that of its own record.                                                *)

Grows(led) ==
  /\ led \in Seq(Record) /\ Len(ledger) <= Len(led)
  /\ \A k \in DOMAIN ledger : led[k] = ledger[k]

LEMMA SetToSeqIs ==
  ASSUME NEW cs, IsFiniteSet(cs)
  PROVE  /\ Cardinality(cs) \in Nat
         /\ SetToSeq(cs) \in [1..Cardinality(cs) -> cs]
         /\ \A c \in cs : \E i \in 1..Cardinality(cs) : SetToSeq(cs)[i] = c
<1>1. Cardinality(cs) \in Nat /\ ExistsBijection(1..Cardinality(cs), cs)
  BY FS_CardinalityType
<1>2. PICK f : f \in Bijection(1..Cardinality(cs), cs)
  BY <1>1 DEF ExistsBijection
<1>3. f \in [1..Cardinality(cs) -> cs] /\ IsInjective(f)
  BY <1>2 DEF Bijection, Injection
<1>4. SetToSeq(cs) \in [1..Cardinality(cs) -> cs] /\ IsInjective(SetToSeq(cs))
  BY <1>3 DEF SetToSeq
<1>5. SetToSeq(cs) \in Injection(1..Cardinality(cs), cs)
  BY <1>4 DEF Injection
<1>6. Cardinality(1..Cardinality(cs)) = Cardinality(cs)
  BY <1>1, FS_Interval
<1>7. SetToSeq(cs) \in Surjection(1..Cardinality(cs), cs)
  BY <1>5, <1>6, FS_Injection
<1> QED
  BY <1>1, <1>4, <1>7 DEF Surjection

LEMMA NumberedIs ==
  ASSUME NEW cs, IsFiniteSet(cs), ledger \in Seq(Record)
  PROVE  /\ DOMAIN Numbered(cs) = cs
         /\ \A c \in cs : \E i \in 1..Cardinality(cs) :
              Numbered(cs)[c] = Len(ledger) + i /\ SetToSeq(cs)[i] = c
<1>1. \A c \in cs : \E i \in 1..Cardinality(cs) : SetToSeq(cs)[i] = c
  BY SetToSeqIs
<1> QED
  BY <1>1 DEF Numbered

\* The record that a run's result on one criterion makes.
Result(p, kind, c, passed) ==
  Evidence(kind, c \in passed, [d \in {c} |-> running[p].specs[c]], running[p].tree)

LEMMA ResultIs ==
  ASSUME NEW p, running[p] \in Checking, NEW kind \in {"checks", "baseline"},
         NEW c \in DOMAIN running[p].specs, NEW passed
  PROVE  Result(p, kind, c, passed) \in Record
<1>1. PICK criteria \in SUBSET Criteria : running[p].specs \in [criteria -> Specs]
  BY DEF Checking, Claims
<1>2. [d \in {c} |-> running[p].specs[c]] \in [{c} -> Specs] /\ {c} \in SUBSET Criteria
  BY <1>1
<1>3. [d \in {c} |-> running[p].specs[c]] \in Claims
  BY <1>2 DEF Claims
<1>4. running[p].tree \in Trees
  BY DEF Checking
<1>5. 0 \in Policies
  BY DeliveryAssumption
<1> QED
  BY <1>3, <1>4, <1>5 DEF Result, Evidence, Record

LEMMA AppendedIs ==
  ASSUME ledger \in Seq(Record), NEW p, running[p] \in Checking,
         NEW kind \in {"checks", "baseline"}, NEW passed,
         NEW cs, IsFiniteSet(cs), cs \subseteq DOMAIN running[p].specs
  PROVE  LET led == Appended(p, kind, cs, passed)
         IN  /\ Grows(led) /\ Len(led) = Len(ledger) + Cardinality(cs)
             /\ \A c \in cs : /\ Numbered(cs)[c] \in DOMAIN led
                              /\ led[Numbered(cs)[c]] = Result(p, kind, c, passed)
             /\ \A k \in DOMAIN led \ DOMAIN ledger : \E c \in cs : led[k] = Result(p, kind, c, passed)
<1> DEFINE new == [i \in 1..Cardinality(cs) |-> Result(p, kind, SetToSeq(cs)[i], passed)]
           led == ledger \o new
<1>1. Appended(p, kind, cs, passed) = led
  BY DEF Appended, Result
<1>2. /\ Cardinality(cs) \in Nat /\ SetToSeq(cs) \in [1..Cardinality(cs) -> cs]
  BY SetToSeqIs
<1>3. \A c \in cs : Result(p, kind, c, passed) \in Record
  BY ResultIs
<1>4. new \in Seq(Record) /\ Len(new) = Cardinality(cs)
  BY <1>2, <1>3
<1>5. \A i \in 1..Cardinality(cs) : new[i] = Result(p, kind, SetToSeq(cs)[i], passed)
  OBVIOUS
<1> HIDE DEF new
<1>6. Grows(led) /\ Len(led) = Len(ledger) + Cardinality(cs)
  BY <1>2, <1>4 DEF Grows
<1>7. \A i \in 1..Cardinality(cs) : Len(ledger) + i \in DOMAIN led /\ led[Len(ledger) + i] = new[i]
  BY <1>2, <1>4
<1>8. ASSUME NEW c \in cs
      PROVE  Numbered(cs)[c] \in DOMAIN led /\ led[Numbered(cs)[c]] = Result(p, kind, c, passed)
  BY <1>5, <1>7, NumberedIs
<1>9. ASSUME NEW k \in DOMAIN led \ DOMAIN ledger
      PROVE  \E c \in cs : led[k] = Result(p, kind, c, passed)
  <2>1. k - Len(ledger) \in 1..Cardinality(cs) /\ led[k] = new[k - Len(ledger)]
    BY <1>2, <1>4
  <2> QED
    BY <1>2, <1>5, <2>1
<1> QED
  BY <1>1, <1>6, <1>8, <1>9

-----------------------------------------------------------------------------
(* The registry *)

LEMMA RegistryIs ==
  ASSUME NEW reg \in Registries
  PROVE  /\ DOMAIN reg \in SUBSET Criteria /\ reg \in [DOMAIN reg -> Criterion]
         /\ Design(reg) \in Claims
         /\ DOMAIN Design(reg) = DOMAIN reg /\ \A c \in DOMAIN reg : Design(reg)[c] = reg[c].spec
<1>1. PICK criteria \in SUBSET Criteria : reg \in [criteria -> Criterion]
  BY DEF Registries
<1>2. Design(reg) \in [criteria -> Specs]
  BY <1>1 DEF Design, Criterion
<1> QED
  BY <1>1, <1>2 DEF Claims, Design

LEMMA InRegistries ==
  ASSUME NEW criteria \in SUBSET Criteria, NEW reg \in [criteria -> Criterion]
  PROVE  reg \in Registries
BY DEF Registries

LEMMA SameClaims ==
  ASSUME NEW reg \in Registries, NEW other \in Registries, Design(other) = Design(reg)
  PROVE  DOMAIN other = DOMAIN reg /\ \A c \in DOMAIN reg : other[c].spec = reg[c].spec
<1>1. DOMAIN Design(reg) = DOMAIN reg /\ \A c \in DOMAIN reg : Design(reg)[c] = reg[c].spec
  BY RegistryIs
<1>2. DOMAIN Design(other) = DOMAIN other /\ \A c \in DOMAIN other : Design(other)[c] = other[c].spec
  BY RegistryIs
<1> QED
  BY <1>1, <1>2

LEMMA AttachedIs ==
  ASSUME NEW led, NEW reg \in Registries, NEW c \in DOMAIN reg, NEW n \in 1..MaxRecords
  PROVE  /\ Attached(led, reg, c, n) \in Criterion
         /\ Attached(led, reg, c, n).spec = reg[c].spec
         /\ Attached(led, reg, c, n).evidence = reg[c].evidence \cup {n}
         /\ Attached(led, reg, c, n).state = "passing" => led[n].ok /\ FullyEvidenced(led, reg, c)
<1>1. reg[c] \in Criterion
  BY RegistryIs
<1> QED
  BY <1>1 DEF Attached, Criterion, States

\* A record goes on vouching for a wording that stays.
LEMMA EvidenceKept ==
  ASSUME NEW led, Grows(led), NEW reg, NEW other, NEW c, other[c].spec = reg[c].spec,
         FullyEvidenced(ledger, reg, c)
  PROVE  FullyEvidenced(led, other, c)
<1>1. DOMAIN ledger \subseteq DOMAIN led
  BY DEF Grows
<1>2. \A n \in DOMAIN ledger : Vouches(ledger[n], reg, c) => Vouches(led[n], other, c)
  BY DEF Grows, Vouches
<1>3. ValidKinds(ledger, reg, c) \subseteq ValidKinds(led, other, c)
  BY <1>1, <1>2 DEF ValidKinds, Grows
<1> QED
  BY <1>3 DEF FullyEvidenced

\* The registry after records were attached: nothing is worded anew, and what
\* is passing was so or is evidenced now.
LEMMA JudgedIs ==
  ASSUME registry \in Registries, NEW led, Grows(led), Len(led) <= MaxRecords,
         \A c \in DOMAIN registry : registry[c].evidence \subseteq DOMAIN ledger,
         NEW numbers, \A c \in DOMAIN numbers : numbers[c] \in DOMAIN led,
         NEW reg, reg = Judged(led, numbers)
  PROVE  /\ reg \in Registries /\ DOMAIN reg = DOMAIN registry /\ Design(reg) = Design(registry)
         /\ \A c \in DOMAIN reg : reg[c].evidence \subseteq DOMAIN led
         /\ \A c \in DOMAIN reg : reg[c].state = "passing" =>
              registry[c].state = "passing" \/ FullyEvidenced(led, reg, c)
         /\ \A c \in DOMAIN reg : c \notin DOMAIN numbers => reg[c] = registry[c]
         /\ \A c \in DOMAIN reg : c \in DOMAIN numbers /\ reg[c].state = "passing" => led[numbers[c]].ok
<1>1. DOMAIN registry \in SUBSET Criteria /\ registry \in [DOMAIN registry -> Criterion]
  BY RegistryIs
<1>2. DOMAIN led = 1..Len(led) /\ DOMAIN ledger \subseteq DOMAIN led /\ Len(led) \in Nat
  BY DEF Grows
<1>3. ASSUME NEW c \in DOMAIN registry
      PROVE  /\ reg[c] \in Criterion /\ reg[c].spec = registry[c].spec
             /\ reg[c].evidence \subseteq DOMAIN led
             /\ reg[c].state = "passing" => registry[c].state = "passing" \/ FullyEvidenced(led, reg, c)
             /\ c \notin DOMAIN numbers => reg[c] = registry[c]
             /\ c \in DOMAIN numbers /\ reg[c].state = "passing" => led[numbers[c]].ok
  <2>1. CASE c \in DOMAIN numbers
    <3>1. reg[c] = Attached(led, registry, c, numbers[c])
      BY <2>1 DEF Judged
    <3>2. numbers[c] \in 1..MaxRecords /\ numbers[c] \in DOMAIN led
      BY <1>2, <2>1, DeliveryAssumption
    <3>3. /\ reg[c] \in Criterion /\ reg[c].spec = registry[c].spec
          /\ reg[c].evidence = registry[c].evidence \cup {numbers[c]}
          /\ reg[c].state = "passing" => led[numbers[c]].ok /\ FullyEvidenced(led, registry, c)
      BY <3>1, <3>2, AttachedIs
    <3>4. FullyEvidenced(led, registry, c) => FullyEvidenced(led, reg, c)
      BY <3>3 DEF FullyEvidenced, ValidKinds, Vouches
    <3> QED
      BY <1>2, <2>1, <3>2, <3>3, <3>4
  <2>2. CASE c \notin DOMAIN numbers
    <3>1. reg[c] = registry[c]
      BY <2>2 DEF Judged
    <3> QED
      BY <1>1, <1>2, <2>2, <3>1
  <2> QED
    BY <2>1, <2>2
<1>4. DOMAIN reg = DOMAIN registry /\ reg = [c \in DOMAIN registry |-> reg[c]]
  BY DEF Judged
<1>5. reg \in [DOMAIN registry -> Criterion]
  BY <1>3, <1>4
<1>6. reg \in Registries
  BY <1>1, <1>5, InRegistries
<1>7. Design(reg) = Design(registry)
  BY <1>3, <1>4 DEF Design
<1> QED
  BY <1>3, <1>4, <1>6, <1>7

-----------------------------------------------------------------------------
(* The inductive invariant, and what a step owes it. *)

Typed == TypeOK /\ IsFiniteSet(DOMAIN registry)

Safe ==
  Typed /\ PassingIsEvidenced /\ DecisionsMatchClaims /\ ReviewedByAnother /\ CompletionStands

\* The decisions on record survive a step that takes them back, or that keeps
\* them and rewords nothing.
DecisionsFollow ==
  \/ TakesBack(status')
  \/ /\ Keeps(status', status, registry') /\ Design(registry') = Design(registry)
     /\ status.phase >= 6 => status'.symptom = status.symptom

LEMMA DecisionsStand ==
  ASSUME Safe, Grows(ledger'), registry' \in Registries, status' \in Status, DecisionsFollow
  PROVE  DecisionsMatchClaims' /\ ReviewedByAnother' /\ CompletionStands'
<1>1. CASE TakesBack(status')
  <2>1. status'.phase \in 1..8
    BY DEF Status
  <2> QED
    BY <1>1, <2>1 DEF TakesBack, DecisionsMatchClaims, ReviewedByAnother, CompletionStands
<1>2. CASE ~TakesBack(status')
  <2>1. /\ Keeps(status', status, registry') /\ Design(registry') = Design(registry)
        /\ status.phase >= 6 => status'.symptom = status.symptom
    BY <1>2 DEF DecisionsFollow
  <2>2. /\ registry \in Registries /\ status \in Status /\ ledger \in Seq(Record)
        /\ status.live \in 0..Len(ledger) /\ status.symptom \in 0..Len(ledger)
    BY DEF Safe, Typed, TypeOK
  <2>3. /\ DOMAIN registry' = DOMAIN registry
        /\ \A c \in DOMAIN registry : registry'[c].spec = registry[c].spec
    BY <2>1, <2>2, SameClaims
  <2>4. status'.live # 0 =>
          status'.live = status.live /\ status.live # 0 /\ ledger'[status.live] = ledger[status.live]
    BY <2>1, <2>2 DEF Keeps, Grows
  <2>5. DecisionsMatchClaims'
    BY <2>1, <2>4 DEF Safe, DecisionsMatchClaims, Keeps
  <2>6. ReviewedByAnother'
    <3>1. SUFFICES ASSUME status'.phase >= 6
                   PROVE  /\ status'.implementer # None /\ status'.review # None
                          /\ status'.review.by # status'.implementer
                          /\ SymptomProved(status', ledger', registry')
      BY DEF ReviewedByAnother
    <3>2. status.phase >= 6 /\ status'.symptom = status.symptom
      BY <2>1, <3>1 DEF Keeps
    <3>3. /\ status.implementer # None /\ status.review # None
          /\ status.review.by # status.implementer
          /\ SymptomProved(status, ledger, registry)
      BY <3>2 DEF Safe, ReviewedByAnother
    <3>4. SymptomProved(status', ledger', registry')
      BY <2>2, <2>3, <3>2, <3>3 DEF SymptomProved, Vouches, Grows
    <3> QED
      BY <2>1, <3>3, <3>4 DEF Keeps
  <2>7. CompletionStands'
    BY <2>1, <2>4 DEF Safe, CompletionStands, Keeps
  <2> QED
    BY <2>5, <2>6, <2>7
<1> QED
  BY <1>1, <1>2

LEMMA SafeStep ==
  ASSUME Safe, Grows(ledger'), Len(ledger') <= MaxRecords,
         registry' \in Registries, IsFiniteSet(DOMAIN registry'),
         \A c \in DOMAIN registry' : registry'[c].evidence \subseteq DOMAIN ledger',
         PassingIsEvidenced',
         status' \in Status, status'.symptom \in 0..Len(ledger'), DecisionsFollow,
         running' \in [Runners -> Run],
         \A p \in Runners : NumbersOf(running'[p]) \subseteq DOMAIN ledger',
         tree' \in Trees, policy' \in Policies, approvals' = approvals, edits' \in 0..MaxEdits
  PROVE  Safe'
<1>1. DecisionsMatchClaims' /\ ReviewedByAnother' /\ CompletionStands'
  BY DecisionsStand
<1>2. /\ status \in Status /\ status.live \in 0..Len(ledger) /\ Len(ledger) <= Len(ledger')
      /\ Len(ledger) \in Nat /\ Len(ledger') \in Nat
      /\ status.deployment # None => status.deployment.at <= approvals
      /\ approvals \in 0..MaxApprovals
  BY DEF Safe, Typed, TypeOK, Grows
<1>3. status'.live \in 0..Len(ledger')
  BY <1>2 DEF DecisionsFollow, TakesBack, Keeps
<1>4. status'.deployment # None => status'.deployment.at <= approvals'
  BY <1>2 DEF DecisionsFollow, TakesBack, Keeps
<1>5. ledger' \in Seq(Record)
  BY DEF Grows
<1>6. TypeOK'
  BY <1>2, <1>3, <1>4, <1>5 DEF TypeOK
<1> QED
  BY <1>1, <1>6 DEF Safe, Typed

LEMMA GrowsNot ==
  ASSUME Safe
  PROVE  Grows(ledger)
BY DEF Safe, Typed, TypeOK, Grows

\* A command that writes the status only.
LEMMA StatusStep ==
  ASSUME Safe, StatusOnly, status' \in Status, status'.symptom \in 0..Len(ledger), DecisionsFollow
  PROVE  Safe'
<1>1. /\ registry' = registry /\ ledger' = ledger /\ running' = running /\ approvals' = approvals
      /\ edits' = edits /\ tree' = tree /\ policy' = policy
  BY DEF StatusOnly, world
<1>2. PassingIsEvidenced'
  BY <1>1 DEF Safe, PassingIsEvidenced
<1> QED
  BY <1>1, <1>2, SafeStep, GrowsNot DEF Safe, Typed, TypeOK

\* A step that leaves the status, the registry and the ledger alone.
LEMMA NothingWritten ==
  ASSUME Safe, status' = status, registry' = registry, ledger' = ledger,
         running' \in [Runners -> Run],
         \A p \in Runners : NumbersOf(running'[p]) \subseteq DOMAIN ledger,
         tree' \in Trees, policy' \in Policies, approvals' = approvals, edits' \in 0..MaxEdits
  PROVE  Safe'
<1>1. PassingIsEvidenced'
  BY DEF Safe, PassingIsEvidenced
<1>2. DecisionsFollow
  BY DEF DecisionsFollow, Keeps
<1> QED
  BY <1>1, <1>2, SafeStep, GrowsNot DEF Safe, Typed, TypeOK

-----------------------------------------------------------------------------
(* Commands on the registry take every decision back. *)

LEMMA RegisteredStep ==
  ASSUME Safe, registry' \in Registries, IsFiniteSet(DOMAIN registry'),
         \A c \in DOMAIN registry' :
           \/ registry'[c].state # "passing" /\ registry'[c].evidence = {}
           \/ c \in DOMAIN registry /\ registry'[c] = registry[c],
         NEW n \in 0..Len(ledger), status' = Redesigned([status EXCEPT !.symptom = n]),
         UNCHANGED <<ledger, running, approvals, world>>, edits' \in 0..MaxEdits
  PROVE  Safe'
<1> DEFINE s == [status EXCEPT !.symptom = n]
<1>1. status \in Status /\ ledger \in Seq(Record)
  BY DEF Safe, Typed, TypeOK
<1>2. s \in Status /\ s.symptom = n
  BY <1>1 DEF Status
<1> HIDE DEF s
<1>3. status' \in Status /\ TakesBack(status') /\ status'.symptom = n
  BY <1>2, RedesignedIs DEF s
<1>4. ASSUME NEW c \in DOMAIN registry'
      PROVE  /\ registry'[c].evidence \subseteq DOMAIN ledger'
             /\ registry'[c].state = "passing" => FullyEvidenced(ledger', registry', c)
  <2>1. CASE registry'[c].state # "passing" /\ registry'[c].evidence = {}
    BY <2>1
  <2>2. CASE c \in DOMAIN registry /\ registry'[c] = registry[c]
    <3>1. registry'[c].evidence \subseteq DOMAIN ledger
      BY <2>2 DEF Safe, Typed, TypeOK
    <3>2. registry[c].state = "passing" => FullyEvidenced(ledger, registry, c)
      BY <2>2 DEF Safe, PassingIsEvidenced
    <3> QED
      BY <2>2, <3>1, <3>2, GrowsNot, EvidenceKept
  <2> QED
    BY <2>1, <2>2
<1>5. PassingIsEvidenced'
  BY <1>4 DEF PassingIsEvidenced
<1> QED
  BY <1>3, <1>4, <1>5, SafeStep, GrowsNot DEF Safe, Typed, TypeOK, DecisionsFollow, world

LEMMA RegistersSafe ==
  ASSUME Safe, Registers
  PROVE  Safe'
<1>0. /\ DOMAIN registry \in SUBSET Criteria /\ registry \in [DOMAIN registry -> Criterion]
      /\ IsFiniteSet(DOMAIN registry) /\ edits \in 0..MaxEdits
      /\ status \in Status /\ status.symptom \in 0..Len(ledger) /\ ledger \in Seq(Record)
  BY RegistryIs DEF Safe, Typed, TypeOK
<1>1. Edited => edits' \in 0..MaxEdits
  BY <1>0, DeliveryAssumption DEF Edited
<1>2. ASSUME NEW c \in Criteria, NEW spec \in Specs, NEW revoke \in BOOLEAN, CriterionAdd(c, spec, revoke)
      PROVE  Safe'
  <2>1. NewCriterion(spec) \in Criterion /\ NewCriterion(spec).state # "passing"
        /\ NewCriterion(spec).evidence = {}
    BY DEF NewCriterion, Criterion, States
  <2>2. registry' = [d \in DOMAIN registry \cup {c} |-> IF d = c THEN NewCriterion(spec) ELSE registry[d]]
    BY <1>2 DEF CriterionAdd
  <2>3. registry' \in [DOMAIN registry \cup {c} -> Criterion] /\ DOMAIN registry' = DOMAIN registry \cup {c}
    BY <1>0, <2>1, <2>2
  <2>4. registry' \in Registries
    BY <1>0, <2>3, InRegistries, DOMAIN registry \cup {c} \in SUBSET Criteria
  <2>5. IsFiniteSet(DOMAIN registry')
    BY <1>0, <2>3, FS_AddElement
  <2>6. \A d \in DOMAIN registry' :
           \/ registry'[d].state # "passing" /\ registry'[d].evidence = {}
           \/ d \in DOMAIN registry /\ registry'[d] = registry[d]
    BY <2>1, <2>2, <2>3
  <2>7. PICK n \in 0..Len(ledger) : status' = Redesigned([status EXCEPT !.symptom = n])
    <3>1. (IF c \in Primary THEN 0 ELSE status.symptom) \in 0..Len(ledger)
      BY <1>0
    <3>2. status' = Redesigned([status EXCEPT !.symptom = IF c \in Primary THEN 0 ELSE status.symptom])
      BY <1>2 DEF CriterionAdd
    <3> QED
      BY <3>1, <3>2
  <2>8. UNCHANGED <<ledger, running, approvals, world>> /\ edits' \in 0..MaxEdits
    BY <1>1, <1>2 DEF CriterionAdd
  <2> QED
    BY <2>4, <2>5, <2>6, <2>7, <2>8, RegisteredStep
<1>3. ASSUME NEW c \in Criteria, NEW spec \in Specs \cup {None}, NEW state \in States \cup {None},
             NEW revoke \in BOOLEAN, CriterionUpdate(c, spec, state, revoke)
      PROVE  Safe'
  <2>1. c \in DOMAIN registry /\ registry[c] \in Criterion
    BY <1>0, <1>3 DEF CriterionUpdate
  <2>2. /\ Restated(c, spec, state) \in Criterion /\ Restated(c, spec, state).state # "passing"
        /\ Restated(c, spec, state).evidence = {}
    BY <2>1 DEF Restated, Criterion, States
  <2>3. registry' = [registry EXCEPT ![c] = Restated(c, spec, state)]
    BY <1>3 DEF CriterionUpdate
  <2>4. registry' \in [DOMAIN registry -> Criterion] /\ DOMAIN registry' = DOMAIN registry
    BY <1>0, <2>2, <2>3
  <2>5. registry' \in Registries
    BY <1>0, <2>4, InRegistries
  <2>6. \A d \in DOMAIN registry' :
           \/ registry'[d].state # "passing" /\ registry'[d].evidence = {}
           \/ d \in DOMAIN registry /\ registry'[d] = registry[d]
    BY <2>1, <2>2, <2>3, <2>4
  <2>7. PICK n \in 0..Len(ledger) : status' = Redesigned([status EXCEPT !.symptom = n])
    <3>1. (IF c \in Primary /\ spec # None THEN 0 ELSE status.symptom) \in 0..Len(ledger)
      BY <1>0
    <3>2. status' = Redesigned([status EXCEPT !.symptom =
                                  IF c \in Primary /\ spec # None THEN 0 ELSE status.symptom])
      BY <1>3 DEF CriterionUpdate
    <3> QED
      BY <3>1, <3>2
  <2>8. UNCHANGED <<ledger, running, approvals, world>> /\ edits' \in 0..MaxEdits
    BY <1>1, <1>3 DEF CriterionUpdate
  <2> QED
    BY <1>0, <2>4, <2>5, <2>6, <2>7, <2>8, RegisteredStep
<1>4. ASSUME NEW c \in Criteria, CriterionRemove(c)
      PROVE  Safe'
  <2>1. registry' = [d \in DOMAIN registry \ {c} |-> registry[d]]
    BY <1>4 DEF CriterionRemove
  <2>2. registry' \in [DOMAIN registry \ {c} -> Criterion] /\ DOMAIN registry' = DOMAIN registry \ {c}
    BY <1>0, <2>1
  <2>3. registry' \in Registries
    BY <1>0, <2>2, InRegistries, DOMAIN registry \ {c} \in SUBSET Criteria
  <2>4. IsFiniteSet(DOMAIN registry')
    BY <1>0, <2>2, FS_RemoveElement
  <2>5. \A d \in DOMAIN registry' : d \in DOMAIN registry /\ registry'[d] = registry[d]
    BY <2>1, <2>2
  <2>6. status' = Redesigned([status EXCEPT !.symptom = status.symptom])
    <3>1. [status EXCEPT !.symptom = status.symptom] = status
      BY <1>0 DEF Status
    <3> QED
      BY <1>4, <3>1 DEF CriterionRemove
  <2>7. UNCHANGED <<ledger, running, approvals, world>> /\ edits' \in 0..MaxEdits
    BY <1>1, <1>4 DEF CriterionRemove
  <2> QED
    BY <1>0, <2>3, <2>4, <2>5, <2>6, <2>7, RegisteredStep
<1> QED
  BY <1>2, <1>3, <1>4 DEF Registers

-----------------------------------------------------------------------------
(* Design decisions and phases *)

\* A command that moves a design decision or the run's state below Phase 8 and
\* nothing that a review, an approval or a live verification is of.
LEMMA DesignDecided ==
  ASSUME Safe, StatusOnly, status' \in Status, status'.phase = status.phase,
         status'.implementer = status.implementer, status'.review = status.review,
         status'.deployment = status.deployment, status'.live = status.live,
         status'.symptom = status.symptom, status.phase = 8 => status'.stat = status.stat
  PROVE  Safe'
<1>1. status.symptom \in 0..Len(ledger)
  BY DEF Safe, Typed, TypeOK
<1>2. Design(registry') = Design(registry)
  BY DEF StatusOnly
<1>3. DecisionsFollow
  BY <1>2 DEF DecisionsFollow, Keeps
<1> QED
  BY <1>1, <1>3, StatusStep

\* advance writes a status that passes every gate of its phase.
LEMMA AdvanceSafe ==
  ASSUME Safe, NEW target \in 1..8, NEW stat \in {None, "in_progress", "blocked"},
         NEW by \in Actors \cup {None}, Advance(target, stat, by)
  PROVE  Safe'
<1>1. /\ status \in Status /\ status.symptom \in 0..Len(ledger) /\ ledger \in Seq(Record)
      /\ approvals \in 0..MaxApprovals
  BY DEF Safe, Typed, TypeOK
<1>2. PICK reads \in Stats, who \in Actors \cup {None} :
        status' = Advanced(status, target, reads, who) /\ GatesHold(status')
  <2> DEFINE reads == IF stat = None
                      THEN CASE target = 7 -> "awaiting_approval" [] target = 8 -> "complete"
                             [] OTHER -> status.stat
                      ELSE stat
             who == IF by = None THEN status.implementer ELSE by
  <2>1. reads \in Stats /\ who \in Actors \cup {None}
    BY <1>1 DEF Stats, Status
  <2>2. status' = Advanced(status, target, reads, who) /\ GatesHold(status')
    BY DEF Advance, Advanced
  <2> QED
    BY <2>1, <2>2
<1>3. /\ status' \in Status /\ status'.phase = target /\ status'.stat = reads /\ status'.implementer = who
      /\ status'.review = status.review /\ status'.deployment = status.deployment
      /\ status'.live = status.live /\ status'.symptom = status.symptom
  BY <1>1, <1>2 DEF Advanced, Status
<1>4. /\ registry' = registry /\ ledger' = ledger /\ running' = running /\ approvals' = approvals
      /\ edits' = edits /\ tree' = tree /\ policy' = policy
  BY DEF Advance, StatusOnly, world
<1>5. Typed'
  BY <1>3, <1>4 DEF Safe, Typed, TypeOK
<1>6. PassingIsEvidenced'
  BY <1>4 DEF Safe, PassingIsEvidenced
<1>7. DecisionsMatchClaims'
  BY <1>3, <1>4 DEF Safe, DecisionsMatchClaims
<1>8. target >= 6 => Evidenced(status') /\ Reviewed(status')
  BY <1>2, <1>3 DEF GatesHold
<1>9. ReviewedByAnother'
  BY <1>3, <1>4, <1>8 DEF ReviewedByAnother, Evidenced, Reviewed
<1>10. target = 8 => Deployable(status') /\ reads = "complete" /\ LiveVerified(status')
  BY <1>2, <1>3 DEF GatesHold
<1>11. CompletionStands'
  <2>1. 0 \notin DOMAIN ledger
    BY <1>1
  <2> QED
    BY <1>3, <1>4, <1>10, <2>1 DEF CompletionStands, Deployable, LiveVerified
<1> QED
  BY <1>5, <1>6, <1>7, <1>9, <1>11 DEF Safe

LEMMA DesignsSafe ==
  ASSUME Safe, Designs
  PROVE  Safe'
<1>1. /\ status \in Status /\ status.phase \in 1..8 /\ policy \in Policies /\ Design(registry) \in Claims
      /\ status.stat \in Stats /\ {"in_progress", "blocked"} \subseteq Stats
      /\ status.proposal \in Claims \cup {None} /\ status.designReview \in DesignDecision \cup {None}
      /\ status.designApproved \in DesignApproval \cup {None}
  BY RegistryIs DEF Safe, Typed, TypeOK, Status, Stats
<1>2. /\ [decision |-> "approved", design |-> Design(registry), policy |-> policy] \in DesignDecision
      /\ [decision |-> "changes", design |-> Design(registry), policy |-> policy] \in DesignDecision
      /\ [design |-> Design(registry), policy |-> policy] \in DesignApproval
  BY <1>1 DEF DesignDecision, DesignApproval
<1>3. ASSUME NEW stat \in {"in_progress", "blocked"}, DesignPropose(stat)
      PROVE  Safe'
  <2>1. stat \in Stats /\ status' = [status EXCEPT !.proposal = Design(registry), !.designReview = None,
                                                   !.designApproved = None, !.stat = stat]
    BY <1>1, <1>2, <1>3 DEF DesignPropose
  <2>2. /\ status' \in Status /\ status'.phase = status.phase
        /\ status'.implementer = status.implementer /\ status'.review = status.review
        /\ status'.deployment = status.deployment /\ status'.live = status.live
        /\ status'.symptom = status.symptom
    BY <1>1, <2>1 DEF Status
  <2>3. status.phase # 8
    BY <1>3 DEF DesignPropose
  <2> QED
    BY <1>3, <2>2, <2>3, DesignDecided DEF DesignPropose
<1>4. ASSUME NEW stat \in {"in_progress", "blocked"}, DesignReviewChanges(stat)
      PROVE  Safe'
  <2>1. PICK reviewed \in DesignDecision :
          stat \in Stats /\ status' = [status EXCEPT !.designReview = reviewed,
                                                     !.designApproved = None, !.stat = stat]
    BY <1>1, <1>2, <1>4 DEF DesignReviewChanges
  <2>2. /\ status' \in Status /\ status'.phase = status.phase
        /\ status'.implementer = status.implementer /\ status'.review = status.review
        /\ status'.deployment = status.deployment /\ status'.live = status.live
        /\ status'.symptom = status.symptom
    BY <1>1, <2>1 DEF Status
  <2>3. status.phase # 8
    BY <1>4 DEF DesignReviewChanges
  <2> QED
    BY <1>4, <2>2, <2>3, DesignDecided DEF DesignReviewChanges
<1>5. CASE DesignReviewApproved
  <2>1. PICK reviewed \in DesignDecision, stat \in Stats :
          status' = [status EXCEPT !.designReview = reviewed, !.stat = stat]
    BY <1>1, <1>2, <1>5 DEF DesignReviewApproved
  <2>2. /\ status' \in Status /\ status'.phase = status.phase
        /\ status'.implementer = status.implementer /\ status'.review = status.review
        /\ status'.deployment = status.deployment /\ status'.live = status.live
        /\ status'.symptom = status.symptom
    BY <1>1, <2>1 DEF Status
  <2>3. status.phase # 8
    BY <1>5 DEF DesignReviewApproved
  <2> QED
    BY <1>5, <2>2, <2>3, DesignDecided DEF DesignReviewApproved
<1>6. CASE DesignReject
  <2>1. "in_progress" \in Stats
        /\ status' = [status EXCEPT !.designReview = None, !.stat = "in_progress"]
    BY <1>1, <1>2, <1>6 DEF DesignReject
  <2>2. /\ status' \in Status /\ status'.phase = status.phase
        /\ status'.implementer = status.implementer /\ status'.review = status.review
        /\ status'.deployment = status.deployment /\ status'.live = status.live
        /\ status'.symptom = status.symptom
    BY <1>1, <2>1 DEF Status
  <2>3. status.phase # 8
    BY <1>6 DEF DesignReject
  <2> QED
    BY <1>6, <2>2, <2>3, DesignDecided DEF DesignReject
<1>7. CASE DesignApprove
  <2> DEFINE approved == [design |-> Design(registry), policy |-> policy]
             stat == IF status.phase = 2 /\ DesignReviewed(status) THEN "in_progress" ELSE status.stat
  <2>0. stat \in Stats /\ (status.phase = 8 => stat = status.stat)
    BY <1>1
  <2>1. status' = [status EXCEPT !.designApproved = approved, !.stat = stat] /\ approved \in DesignApproval
    BY <1>1, <1>2, <1>7 DEF DesignApprove
  <2> HIDE DEF approved, stat
  <2>2. /\ status' \in Status /\ status'.phase = status.phase
        /\ status'.implementer = status.implementer /\ status'.review = status.review
        /\ status'.deployment = status.deployment /\ status'.live = status.live
        /\ status'.symptom = status.symptom
    BY <1>1, <2>0, <2>1 DEF Status
  <2>3. status.phase = 8 => status'.stat = status.stat
    BY <1>1, <2>0, <2>1 DEF Status
  <2> QED
    BY <1>7, <2>2, <2>3, DesignDecided DEF DesignApprove
<1> QED
  BY <1>3, <1>4, <1>5, <1>6, <1>7, AdvanceSafe DEF Designs

-----------------------------------------------------------------------------
(* Runs of checks *)

\* What a run that is under way holds.
LEMMA RunIs ==
  ASSUME Typed, NEW p \in Runners
  PROVE  /\ running[p].what \in {"verify", "baseline"} => running[p] \in Checking
         /\ running[p].what = "live" => running[p] \in Probing
         /\ running[p] \in Checking =>
              /\ Range(running[p].written) \subseteq DOMAIN ledger
              /\ \E criteria \in SUBSET Criteria : running[p].written \in [criteria -> 1..MaxRecords]
<1>1. running[p] \in Run /\ NumbersOf(running[p]) \subseteq DOMAIN ledger
  BY DEF Typed, TypeOK
<1>2. Idle.what = "nothing"
  BY DEF Idle
<1>3. \A r \in Checking : r.what \in {"verify", "baseline"}
  BY DEF Checking
<1>4. \A r \in Probing : r.what = "live"
  BY DEF Probing
<1>5. ASSUME running[p] \in Checking
      PROVE  \E criteria \in SUBSET Criteria : running[p].written \in [criteria -> 1..MaxRecords]
  BY <1>5 DEF Checking
<1> QED
  BY <1>1, <1>2, <1>3, <1>4, <1>5 DEF Run, NumbersOf

\* A run whose process is gone, or that has begun to check.
LEMMA RunReplaced ==
  ASSUME Typed, NEW p \in Runners, NEW run \in Run, NEW led, Grows(led), NumbersOf(run) \subseteq DOMAIN led,
         NEW r, r = [running EXCEPT ![p] = run]
  PROVE  r \in [Runners -> Run] /\ \A q \in Runners : NumbersOf(r[q]) \subseteq DOMAIN led
<1>1. running \in [Runners -> Run] /\ \A q \in Runners : NumbersOf(running[q]) \subseteq DOMAIN ledger
  BY DEF Typed, TypeOK
<1>2. DOMAIN ledger \subseteq DOMAIN led
  BY DEF Grows, Typed, TypeOK
<1> QED
  BY <1>1, <1>2

LEMMA IdleRun == Idle \in Run /\ NumbersOf(Idle) = {}
BY DEF Idle, Run, NumbersOf, Checking

\* After records were attached, what reads passing is evidenced.
LEMMA JudgedPassing ==
  ASSUME Safe, Grows(ledger'), NEW reg, reg = registry',
         DOMAIN reg = DOMAIN registry, Design(reg) = Design(registry), reg \in Registries,
         \A c \in DOMAIN reg : reg[c].state = "passing" =>
              registry[c].state = "passing" \/ FullyEvidenced(ledger', reg, c)
  PROVE  PassingIsEvidenced'
<1>1. SUFFICES ASSUME NEW c \in DOMAIN reg, reg[c].state = "passing"
               PROVE  FullyEvidenced(ledger', reg, c)
  BY DEF PassingIsEvidenced
<1>2. CASE FullyEvidenced(ledger', reg, c)
  BY <1>2
<1>3. CASE registry[c].state = "passing"
  <2>1. FullyEvidenced(ledger, registry, c)
    BY <1>3 DEF Safe, PassingIsEvidenced
  <2>2. reg[c].spec = registry[c].spec
    BY SameClaims DEF Safe, Typed, TypeOK
  <2> QED
    BY <2>1, <2>2, EvidenceKept
<1> QED
  BY <1>1, <1>2, <1>3

LEMMA VerifyStartSafe ==
  ASSUME Safe, NEW p \in Runners, NEW cs, NEW what \in {"verify", "baseline"}, VerifyStart(p, cs, what)
  PROVE  Safe'
<1> DEFINE specs == [c \in cs |-> registry[c].spec]
           written == [c \in {} |-> 0]
           run == [what |-> what, specs |-> specs, tree |-> tree, policy |-> policy, written |-> written]
<1>1. cs \in SUBSET Criteria /\ cs \subseteq DOMAIN registry /\ registry \in [DOMAIN registry -> Criterion]
  BY RegistryIs DEF VerifyStart, Safe, Typed, TypeOK
<1>2. specs \in Claims
  <2>1. specs \in [cs -> Specs]
    BY <1>1 DEF Criterion
  <2> QED
    BY <1>1, <2>1 DEF Claims
<1>3. written \in UNION {[criteria -> 1..MaxRecords] : criteria \in SUBSET Criteria} /\ Range(written) = {}
  <2>1. written \in [{} -> 1..MaxRecords] /\ {} \in SUBSET Criteria
    OBVIOUS
  <2> QED
    BY <2>1 DEF Range
<1>4. run \in Checking /\ NumbersOf(run) = {}
  <2> HIDE DEF specs, written
  <2> QED
    BY <1>2, <1>3 DEF Checking, NumbersOf, Safe, Typed, TypeOK
<1>5. running' = [running EXCEPT ![p] = run]
  BY DEF VerifyStart
<1> HIDE DEF run
<1>6. running' \in [Runners -> Run] /\ \A q \in Runners : NumbersOf(running'[q]) \subseteq DOMAIN ledger
  BY <1>4, <1>5, RunReplaced, GrowsNot DEF Run, Safe
<1> QED
  BY <1>6, NothingWritten DEF VerifyStart, Safe, Typed, TypeOK, world

LEMMA ChecksRecordedSafe ==
  ASSUME Safe, NEW p \in Runners, NEW ready, NEW passed, ChecksRecorded(p, ready, passed)
  PROVE  Safe'
<1> DEFINE led == Appended(p, "checks", ready, passed)
           run == [running[p] EXCEPT !.written = WithNumbers(running[p].written, Numbered(ready))]
<1>1. /\ running[p] \in Checking /\ Range(running[p].written) \subseteq DOMAIN ledger
      /\ \E criteria \in SUBSET Criteria : running[p].written \in [criteria -> 1..MaxRecords]
  BY RunIs DEF ChecksRecorded, Verifying, Safe
<1>2. /\ ready \subseteq DOMAIN running[p].specs /\ DOMAIN running[p].specs \subseteq DOMAIN registry
  BY DEF ChecksRecorded, Verifying
<1>3. IsFiniteSet(ready) /\ ready \in SUBSET Criteria /\ ledger \in Seq(Record) /\ registry \in Registries
      /\ \A c \in DOMAIN registry : registry[c].evidence \subseteq DOMAIN ledger
  BY <1>2, FS_Subset, RegistryIs DEF Safe, Typed, TypeOK
<1>4. /\ ledger' = led /\ registry' = Judged(led, Numbered(ready))
      /\ running' = [running EXCEPT ![p] = run] /\ Len(ledger) + Cardinality(ready) <= MaxRecords
      /\ UNCHANGED <<status, approvals, edits, world>>
  BY DEF ChecksRecorded
<1>5. /\ Grows(led) /\ Len(led) = Len(ledger) + Cardinality(ready) /\ DOMAIN Numbered(ready) = ready
      /\ \A c \in ready : Numbered(ready)[c] \in DOMAIN led
  BY <1>1, <1>2, <1>3, AppendedIs, NumberedIs
<1> HIDE DEF led
<1>6. Len(led) <= MaxRecords /\ DOMAIN led \subseteq 1..MaxRecords
  BY <1>4, <1>5, DeliveryAssumption DEF Grows
<1>7. /\ registry' \in Registries /\ DOMAIN registry' = DOMAIN registry /\ Design(registry') = Design(registry)
      /\ \A c \in DOMAIN registry' : registry'[c].evidence \subseteq DOMAIN led
      /\ \A c \in DOMAIN registry' : registry'[c].state = "passing" =>
              registry[c].state = "passing" \/ FullyEvidenced(led, registry', c)
  BY <1>3, <1>4, <1>5, <1>6, JudgedIs
<1>8. PassingIsEvidenced'
  BY <1>4, <1>5, <1>7, JudgedPassing
<1>9. run \in Run /\ NumbersOf(run) \subseteq DOMAIN led
  <2> DEFINE written == WithNumbers(running[p].written, Numbered(ready))
  <2>1. PICK criteria \in SUBSET Criteria : running[p].written \in [criteria -> 1..MaxRecords]
    BY <1>1
  <2>2. DOMAIN ledger \subseteq DOMAIN led
    BY <1>3, <1>5 DEF Grows
  <2>3. \A c \in DOMAIN running[p].written : running[p].written[c] \in DOMAIN led
    BY <1>1, <2>2 DEF Range
  <2>4. /\ written \in [criteria \cup ready -> 1..MaxRecords] /\ criteria \cup ready \in SUBSET Criteria
        /\ \A c \in criteria \cup ready : written[c] \in DOMAIN led
    BY <1>3, <1>5, <1>6, <2>1, <2>3 DEF WithNumbers
  <2>5. Range(written) \subseteq DOMAIN led
    BY <2>4 DEF Range
  <2> HIDE DEF written
  <2>6. run \in Checking /\ run.written = written
    BY <1>1, <2>4 DEF Checking, written
  <2> QED
    BY <2>5, <2>6 DEF Run, NumbersOf
<1> HIDE DEF run
<1>10. running' \in [Runners -> Run] /\ \A q \in Runners : NumbersOf(running'[q]) \subseteq DOMAIN led
  BY <1>4, <1>5, <1>9, RunReplaced DEF Safe
<1>11. DecisionsFollow
  BY <1>4, <1>7 DEF DecisionsFollow, Keeps
<1>12. status' \in Status /\ status'.symptom \in 0..Len(ledger')
  BY <1>3, <1>4, <1>5 DEF Safe, Typed, TypeOK, Grows
<1>13. /\ IsFiniteSet(DOMAIN registry') /\ tree' \in Trees /\ policy' \in Policies /\ approvals' = approvals
       /\ edits' \in 0..MaxEdits
  BY <1>4, <1>7 DEF Safe, Typed, TypeOK, world
<1> QED
  BY <1>4, <1>5, <1>6, <1>7, <1>8, <1>10, <1>11, <1>12, <1>13, SafeStep

\* The records that may prove the symptom have been written.
LEMMA SymptomRunsWritten ==
  ASSUME Safe, NEW p \in Runners, running[p] \in Checking, NEW passed,
         NEW rest, rest \subseteq DOMAIN running[p].specs, IsFiniteSet(rest),
         NEW led, led = Appended(p, "checks", rest, passed), NEW reg
  PROVE  SymptomRuns(led, reg, WithNumbers(running[p].written, Numbered(rest))) \subseteq DOMAIN led
<1> DEFINE numbers == WithNumbers(running[p].written, Numbered(rest))
<1>1. Range(running[p].written) \subseteq DOMAIN ledger /\ ledger \in Seq(Record)
  BY RunIs DEF Safe, Typed, TypeOK
<1>2. /\ Grows(led) /\ DOMAIN Numbered(rest) = rest
      /\ \A c \in rest : Numbered(rest)[c] \in DOMAIN led
  BY <1>1, AppendedIs, NumberedIs
<1>3. DOMAIN ledger \subseteq DOMAIN led
  BY <1>1, <1>2 DEF Grows
<1>4. \A c \in DOMAIN running[p].written : running[p].written[c] \in DOMAIN led
  BY <1>1, <1>3 DEF Range
<1>5. \A c \in DOMAIN numbers : numbers[c] \in DOMAIN led
  BY <1>2, <1>4 DEF WithNumbers
<1> HIDE DEF numbers
<1>6. SymptomRuns(led, reg, numbers) \subseteq DOMAIN led
  BY <1>5 DEF SymptomRuns
<1> QED
  BY <1>6 DEF numbers

LEMMA VerifyFinishSafe ==
  ASSUME Safe, NEW p \in Runners, NEW passed, VerifyFinish(p, passed)
  PROVE  Safe'
<1> DEFINE checked == DOMAIN running[p].specs
           rest == checked \ DOMAIN running[p].written
           led == Appended(p, "checks", rest, passed)
           reg == Judged(led, Numbered(rest))
           numbers == WithNumbers(running[p].written, Numbered(rest))
           runs == SymptomRuns(led, reg, numbers)
           s(n) == [status EXCEPT !.symptom = n]
<1>1. /\ running[p] \in Checking /\ Range(running[p].written) \subseteq DOMAIN ledger
      /\ checked \subseteq DOMAIN registry
  BY RunIs DEF VerifyFinish, Verifying, Safe
<1>2. /\ IsFiniteSet(rest) /\ ledger \in Seq(Record) /\ registry \in Registries
      /\ \A c \in DOMAIN registry : registry[c].evidence \subseteq DOMAIN ledger
      /\ status \in Status /\ status.symptom \in 0..Len(ledger)
  BY <1>1, FS_Subset DEF Safe, Typed, TypeOK
<1>3. /\ ledger' = led /\ registry' = reg /\ Len(led) <= MaxRecords
      /\ running' = [running EXCEPT ![p] = Idle]
      /\ UNCHANGED <<approvals, edits, world>>
      /\ \E n \in IF runs = {} \/ SymptomProved(status, ledger, registry) THEN {status.symptom} ELSE runs :
           status' = AfterEvidence(s(n), led, reg, running[p].tree, tree, checked, running[p].policy)
  BY DEF VerifyFinish
<1>4. /\ Grows(led) /\ Len(led) = Len(ledger) + Cardinality(rest) /\ DOMAIN Numbered(rest) = rest
      /\ \A c \in rest : Numbered(rest)[c] \in DOMAIN led
  <2>1. rest \subseteq DOMAIN running[p].specs
    OBVIOUS
  <2> HIDE DEF rest
  <2> QED
    BY <1>1, <1>2, <2>1, AppendedIs, NumberedIs
<1>6. runs \subseteq DOMAIN led
  BY <1>1, <1>2, SymptomRunsWritten
<1> HIDE DEF led, runs
<1>0. ledger' = led /\ registry' = reg
  BY <1>3
<1>7. /\ registry' \in Registries /\ DOMAIN registry' = DOMAIN registry /\ Design(registry') = Design(registry)
      /\ \A c \in DOMAIN registry' : registry'[c].evidence \subseteq DOMAIN ledger'
      /\ \A c \in DOMAIN registry' : registry'[c].state = "passing" =>
              registry[c].state = "passing" \/ FullyEvidenced(ledger', registry', c)
  <2>1. /\ reg \in Registries /\ DOMAIN reg = DOMAIN registry /\ Design(reg) = Design(registry)
        /\ \A c \in DOMAIN reg : reg[c].evidence \subseteq DOMAIN led
        /\ \A c \in DOMAIN reg : reg[c].state = "passing" =>
              registry[c].state = "passing" \/ FullyEvidenced(led, reg, c)
    <3>1. Len(led) <= MaxRecords /\ \A c \in DOMAIN Numbered(rest) : Numbered(rest)[c] \in DOMAIN led
      BY <1>3, <1>4
    <3> HIDE DEF rest
    <3> QED
      BY <1>2, <1>4, <3>1, JudgedIs
  <2> HIDE DEF reg
  <2> QED
    BY <1>0, <2>1
<1> HIDE DEF reg
<1>8. PassingIsEvidenced'
  <2>1. Grows(ledger')
    BY <1>0, <1>4
  <2> QED
    BY <1>2, <1>7, <2>1, JudgedPassing
<1>9. PICK n : /\ n \in 0..Len(led) /\ (status.phase >= 6 => n = status.symptom)
               /\ status' = AfterEvidence(s(n), led, registry', running[p].tree, tree, checked, running[p].policy)
  <2>1. PICK n \in IF runs = {} \/ SymptomProved(status, ledger, registry) THEN {status.symptom} ELSE runs :
           status' = AfterEvidence(s(n), led, reg, running[p].tree, tree, checked, running[p].policy)
    BY <1>3
  <2>2. n \in 0..Len(led)
    <3>1. DOMAIN led = 1..Len(led) /\ Len(led) \in Nat /\ Len(ledger) <= Len(led) /\ Len(ledger) \in Nat
      BY <1>2, <1>4 DEF Grows
    <3> QED
      BY <1>2, <1>6, <2>1, <3>1
  <2>3. status.phase >= 6 => SymptomProved(status, ledger, registry)
    BY DEF Safe, ReviewedByAnother
  <2> QED
    BY <1>0, <2>1, <2>2, <2>3
<1>10. /\ s(n) \in Status /\ s(n).symptom = n /\ s(n).implementer = status.implementer
       /\ s(n).review = status.review /\ s(n).deployment = status.deployment /\ s(n).live = status.live
       /\ s(n).phase = status.phase /\ s(n).stat = status.stat
  BY <1>2, <1>9 DEF Status
<1> HIDE DEF s
<1>11. /\ status' \in Status /\ status'.symptom = n
       /\ TakesBack(status') \/ Keeps(status', s(n), registry')
  BY <1>0, <1>7, <1>9, <1>10, AfterEvidenceIs
<1>12. DecisionsFollow
  BY <1>3, <1>7, <1>9, <1>10, <1>11 DEF DecisionsFollow, Keeps
<1>13. running' \in [Runners -> Run] /\ \A q \in Runners : NumbersOf(running'[q]) \subseteq DOMAIN led
  BY <1>3, <1>4, IdleRun, RunReplaced DEF Safe
<1>14. /\ IsFiniteSet(DOMAIN registry') /\ tree' \in Trees /\ policy' \in Policies /\ approvals' = approvals
       /\ edits' \in 0..MaxEdits
  BY <1>3, <1>7 DEF Safe, Typed, TypeOK, world
<1> QED
  BY <1>3, <1>4, <1>7, <1>8, <1>9, <1>11, <1>12, <1>13, <1>14, SafeStep

LEMMA BaselineFinishSafe ==
  ASSUME Safe, NEW p \in Runners, NEW failed, BaselineFinish(p, failed)
  PROVE  Safe'
<1> DEFINE checked == DOMAIN running[p].specs
           led == Appended(p, "baseline", checked, failed)
           reg == registry'
<1>1. running[p] \in Checking /\ checked \subseteq DOMAIN registry
  BY RunIs DEF BaselineFinish, Verifying, Safe
<1>2. /\ IsFiniteSet(checked) /\ ledger \in Seq(Record) /\ registry \in Registries
      /\ \A c \in DOMAIN registry : registry[c].evidence \subseteq DOMAIN ledger
      /\ DOMAIN registry \in SUBSET Criteria /\ registry \in [DOMAIN registry -> Criterion]
  BY <1>1, FS_Subset, RegistryIs DEF Safe, Typed, TypeOK
<1>3. /\ ledger' = led /\ Len(led) <= MaxRecords
      /\ reg = [c \in DOMAIN registry |->
             IF c \in checked THEN [registry[c] EXCEPT !.evidence = @ \cup {Numbered(checked)[c]}]
             ELSE registry[c]]
      /\ running' = [running EXCEPT ![p] = Idle]
      /\ UNCHANGED <<status, approvals, edits, world>>
  BY DEF BaselineFinish
<1>4. /\ Grows(led) /\ \A c \in checked : Numbered(checked)[c] \in DOMAIN led
  BY <1>1, <1>2, AppendedIs
<1> HIDE DEF led
<1>5. DOMAIN led = 1..Len(led) /\ DOMAIN ledger \subseteq DOMAIN led /\ DOMAIN led \subseteq 1..MaxRecords
  BY <1>2, <1>3, <1>4, DeliveryAssumption DEF Grows
<1>6. ASSUME NEW c \in DOMAIN registry
      PROVE  /\ reg[c] \in Criterion /\ reg[c].spec = registry[c].spec /\ reg[c].state = registry[c].state
             /\ reg[c].evidence \subseteq DOMAIN led
  <2>1. registry[c] \in Criterion /\ registry[c].evidence \subseteq DOMAIN led
    BY <1>2, <1>5
  <2>2. CASE c \in checked
    <3>1. reg[c] = [registry[c] EXCEPT !.evidence = @ \cup {Numbered(checked)[c]}]
      BY <1>3, <2>2
    <3>2. Numbered(checked)[c] \in DOMAIN led /\ Numbered(checked)[c] \in 1..MaxRecords
      BY <1>4, <1>5, <2>2
    <3> QED
      BY <2>1, <3>1, <3>2 DEF Criterion
  <2>3. CASE c \notin checked
    BY <1>3, <2>1, <2>3
  <2> QED
    BY <2>2, <2>3
<1>7. DOMAIN reg = DOMAIN registry /\ reg \in [DOMAIN registry -> Criterion]
  BY <1>3, <1>6
<1>8. reg \in Registries /\ Design(reg) = Design(registry)
  BY <1>2, <1>6, <1>7, InRegistries DEF Design
<1>9. PassingIsEvidenced'
  BY <1>3, <1>4, <1>6, <1>7, <1>8, JudgedPassing
<1>10. running' \in [Runners -> Run] /\ \A q \in Runners : NumbersOf(running'[q]) \subseteq DOMAIN led
  BY <1>3, <1>4, IdleRun, RunReplaced DEF Safe
<1>11. DecisionsFollow
  BY <1>3, <1>8 DEF DecisionsFollow, Keeps
<1>12. status' \in Status /\ status'.symptom \in 0..Len(ledger')
  BY <1>3, <1>4 DEF Safe, Typed, TypeOK, Grows
<1>13. /\ IsFiniteSet(DOMAIN registry') /\ tree' \in Trees /\ policy' \in Policies /\ approvals' = approvals
       /\ edits' \in 0..MaxEdits
  BY <1>3, <1>7 DEF Safe, Typed, TypeOK, world
<1> QED
  BY <1>3, <1>4, <1>6, <1>7, <1>8, <1>9, <1>10, <1>11, <1>12, <1>13, SafeStep

LEMMA RunEndsSafe ==
  ASSUME Safe, NEW p \in Runners, RunEnds(p)
  PROVE  Safe'
<1>1. running' \in [Runners -> Run] /\ \A q \in Runners : NumbersOf(running'[q]) \subseteq DOMAIN ledger
  BY IdleRun, RunReplaced, GrowsNot DEF RunEnds, Safe
<1> QED
  BY <1>1, NothingWritten DEF RunEnds, Safe, Typed, TypeOK, world

LEMMA VerifyLiveStartSafe ==
  ASSUME Safe, NEW p \in Runners, VerifyLiveStart(p)
  PROVE  Safe'
<1> DEFINE run == [what |-> "live", hash |-> registry, policy |-> policy, begun |-> approvals]
<1>1. run \in Probing
  BY DEF Probing, Safe, Typed, TypeOK
<1>2. run \in Run /\ NumbersOf(run) = {}
  <2>1. \A r \in Checking : r.what \in {"verify", "baseline"}
    BY DEF Checking
  <2> QED
    BY <1>1, <2>1 DEF Run, NumbersOf
<1>3. running' = [running EXCEPT ![p] = run]
  BY DEF VerifyLiveStart
<1> HIDE DEF run
<1>4. running' \in [Runners -> Run] /\ \A q \in Runners : NumbersOf(running'[q]) \subseteq DOMAIN ledger
  BY <1>2, <1>3, RunReplaced, GrowsNot DEF Safe
<1> QED
  BY <1>4, NothingWritten DEF VerifyLiveStart, Safe, Typed, TypeOK, world

LEMMA AppendGrows ==
  ASSUME Safe, NEW record \in Record
  PROVE  /\ Grows(Append(ledger, record)) /\ Len(Append(ledger, record)) = Len(ledger) + 1
         /\ Append(ledger, record)[Len(ledger) + 1] = record
         /\ Len(ledger) + 1 \in DOMAIN Append(ledger, record)
BY DEF Safe, Typed, TypeOK, Grows

\* A live verification is of the claims, and later than the approval.
LEMMA VerifyLiveFinishSafe ==
  ASSUME Safe, NEW p \in Runners, NEW ok \in BOOLEAN, VerifyLiveFinish(p, ok)
  PROVE  Safe'
<1> DEFINE record == LiveRecord(ok, running[p].begun)
           n == IF ok THEN Len(ledger) + 1 ELSE status.live
<1>1. /\ running[p] \in Probing /\ registry \in Registries /\ policy \in Policies /\ tree \in Trees
      /\ approvals \in 0..MaxApprovals /\ status \in Status /\ ledger \in Seq(Record)
      /\ status.live \in 0..Len(ledger) /\ status.symptom \in 0..Len(ledger)
      /\ status.deployment # None => status.deployment.at <= approvals
  BY RunIs DEF VerifyLiveFinish, Safe, Typed, TypeOK
<1>2. /\ record \in Record /\ record.specs = Design(registry) /\ record.at = approvals /\ record.ok = ok
  BY <1>1, RegistryIs DEF Record, LiveRecord, Probing
<1>3. /\ ledger' = Append(ledger, record) /\ Len(ledger) < MaxRecords
      /\ running' = [running EXCEPT ![p] = Idle]
      /\ UNCHANGED <<registry, approvals, edits, world>>
  BY DEF VerifyLiveFinish
<1>4. status' = [status EXCEPT !.live = n]
  BY DEF VerifyLiveFinish
<1>5. /\ Grows(ledger') /\ Len(ledger') = Len(ledger) + 1 /\ ledger'[Len(ledger) + 1] = record
      /\ Len(ledger) + 1 \in DOMAIN ledger'
  BY <1>2, <1>3, AppendGrows
<1> HIDE DEF record
<1>6. n \in 0..Len(ledger')
  BY <1>1, <1>5
<1>7. /\ status' \in Status /\ status'.live = n /\ status'.phase = status.phase /\ status'.stat = status.stat
      /\ status'.implementer = status.implementer /\ status'.review = status.review
      /\ status'.deployment = status.deployment /\ status'.symptom = status.symptom
  BY <1>1, <1>4, <1>6 DEF Status
<1>8. n # 0 => \/ ledger'[n] = record /\ ok
               \/ n = status.live /\ status.live # 0 /\ ledger'[n] = ledger[n]
  BY <1>1, <1>5 DEF Grows
<1> HIDE DEF n
<1>9. running' \in [Runners -> Run] /\ \A q \in Runners : NumbersOf(running'[q]) \subseteq DOMAIN ledger'
  BY <1>3, <1>5, IdleRun, RunReplaced DEF Safe
<1>10. DOMAIN ledger \subseteq DOMAIN ledger' /\ ledger' \in Seq(Record) /\ Len(ledger') <= MaxRecords
  BY <1>1, <1>3, <1>5, DeliveryAssumption DEF Grows
<1>11. Typed'
  <2>1. status'.symptom \in 0..Len(ledger')
    BY <1>1, <1>5, <1>7
  <2> QED
    BY <1>3, <1>6, <1>7, <1>9, <1>10, <2>1 DEF Safe, Typed, TypeOK, world
<1>12. PassingIsEvidenced'
  BY <1>3, <1>5, EvidenceKept DEF Safe, PassingIsEvidenced
<1>13. DecisionsMatchClaims'
  BY <1>2, <1>3, <1>7, <1>8 DEF Safe, DecisionsMatchClaims
<1>14. ReviewedByAnother'
  <2>1. SymptomProved(status, ledger, registry) => SymptomProved(status', ledger', registry')
    BY <1>1, <1>3, <1>5, <1>7, <1>10 DEF SymptomProved, Grows
  <2> QED
    BY <1>7, <2>1 DEF Safe, ReviewedByAnother
<1>15. CompletionStands'
  <2>1. status.phase = 8 => n # 0
    BY <1>1, <1>5 DEF Safe, CompletionStands, n
  <2> QED
    BY <1>1, <1>2, <1>3, <1>7, <1>8, <2>1 DEF Safe, CompletionStands
<1> QED
  BY <1>11, <1>12, <1>13, <1>14, <1>15 DEF Safe

LEMMA RunsSafe ==
  ASSUME Safe, NEW p \in Runners, Runs(p)
  PROVE  Safe'
BY VerifyStartSafe, ChecksRecordedSafe, VerifyFinishSafe, BaselineFinishSafe, RunEndsSafe,
   VerifyLiveStartSafe, VerifyLiveFinishSafe DEF Runs

-----------------------------------------------------------------------------
(* Decisions *)

LEMMA RecordEvidenceSafe ==
  ASSUME Safe, NEW c \in Criteria, RecordEvidence(c)
  PROVE  Safe'
<1> DEFINE record == Evidence("manual", TRUE, [d \in {c} |-> registry[c].spec], None)
           led == Append(ledger, record)
           reg == [registry EXCEPT ![c] = Attached(led, registry, c, Len(led))]
<1>1. /\ c \in DOMAIN registry /\ registry \in Registries /\ registry \in [DOMAIN registry -> Criterion]
      /\ DOMAIN registry \in SUBSET Criteria /\ ledger \in Seq(Record) /\ status \in Status
      /\ status.symptom \in 0..Len(ledger)
      /\ \A d \in DOMAIN registry : registry[d].evidence \subseteq DOMAIN ledger
  BY RegistryIs DEF RecordEvidence, Safe, Typed, TypeOK
<1>2. record \in Record
  <2>1. [d \in {c} |-> registry[c].spec] \in [{c} -> Specs]
    BY <1>1 DEF Criterion
  <2>2. [d \in {c} |-> registry[c].spec] \in Claims
    BY <2>1 DEF Claims
  <2> QED
    BY <2>2, DeliveryAssumption DEF Evidence, Record
<1>3. /\ ledger' = led /\ registry' = reg /\ Len(ledger) < MaxRecords
      /\ status' = AfterEvidence(status, led, reg, tree, tree, {c}, policy)
      /\ UNCHANGED <<running, approvals, edits, world>>
  BY DEF RecordEvidence
<1> HIDE DEF record
<1>4. Grows(led) /\ Len(led) = Len(ledger) + 1 /\ Len(led) \in DOMAIN led
  BY <1>2, AppendGrows
<1> HIDE DEF led
<1>5. /\ Len(led) <= MaxRecords /\ Len(led) \in 1..MaxRecords /\ DOMAIN ledger \subseteq DOMAIN led
  BY <1>1, <1>3, <1>4, DeliveryAssumption DEF Grows
<1>6. ASSUME NEW d \in DOMAIN registry
      PROVE  /\ reg[d] \in Criterion /\ reg[d].spec = registry[d].spec
             /\ reg[d].evidence \subseteq DOMAIN led
             /\ reg[d].state = "passing" => registry[d].state = "passing" \/ FullyEvidenced(led, reg, d)
  <2>1. CASE d = c
    <3>1. reg[d] = Attached(led, registry, c, Len(led))
      BY <1>1, <2>1
    <3>2. /\ reg[d] \in Criterion /\ reg[d].spec = registry[d].spec
          /\ reg[d].evidence = registry[d].evidence \cup {Len(led)}
          /\ reg[d].state = "passing" => FullyEvidenced(led, registry, d)
      BY <1>1, <1>5, <2>1, <3>1, AttachedIs
    <3>3. FullyEvidenced(led, registry, d) => FullyEvidenced(led, reg, d)
      BY <3>2 DEF FullyEvidenced, ValidKinds, Vouches
    <3> QED
      BY <1>1, <1>4, <1>5, <3>2, <3>3
  <2>2. CASE d # c
    BY <1>1, <1>5, <2>2
  <2> QED
    BY <2>1, <2>2
<1>7. DOMAIN reg = DOMAIN registry /\ reg \in [DOMAIN registry -> Criterion]
  BY <1>1, <1>6
<1> HIDE DEF reg
<1>8. reg \in Registries /\ Design(reg) = Design(registry)
  BY <1>1, <1>6, <1>7, InRegistries DEF Design
<1>9. PassingIsEvidenced'
  BY <1>3, <1>4, <1>6, <1>7, <1>8, JudgedPassing
<1>10. /\ status' \in Status /\ status'.symptom = status.symptom
       /\ TakesBack(status') \/ Keeps(status', status, reg)
  BY <1>1, <1>3, <1>8, AfterEvidenceIs
<1>11. DecisionsFollow
  BY <1>3, <1>8, <1>10 DEF DecisionsFollow
<1>12. status'.symptom \in 0..Len(ledger') /\ Len(ledger') <= MaxRecords
  BY <1>1, <1>3, <1>4, <1>5, <1>10
<1>13. /\ running' \in [Runners -> Run] /\ \A q \in Runners : NumbersOf(running'[q]) \subseteq DOMAIN ledger'
       /\ IsFiniteSet(DOMAIN registry') /\ tree' \in Trees /\ policy' \in Policies /\ approvals' = approvals
       /\ edits' \in 0..MaxEdits
  BY <1>3, <1>5, <1>7 DEF Safe, Typed, TypeOK, world
<1> QED
  BY <1>3, <1>4, <1>6, <1>7, <1>8, <1>9, <1>10, <1>11, <1>12, <1>13, SafeStep

LEMMA RecordSymptomSafe ==
  ASSUME Safe, NEW n, RecordSymptom(n)
  PROVE  Safe'
<1> DEFINE s == [status EXCEPT !.symptom = n]
<1>1. status \in Status /\ n \in DOMAIN ledger /\ ledger \in Seq(Record)
  BY DEF RecordSymptom, Safe, Typed, TypeOK
<1>2. s \in Status /\ s.symptom = n /\ n \in 0..Len(ledger)
  BY <1>1 DEF Status
<1>3. status' = Invalidated(s, 5)
  BY DEF RecordSymptom
<1> HIDE DEF s
<1>4. status' \in Status /\ TakesBack(status') /\ status'.symptom = n
  BY <1>2, <1>3, InvalidatedIs
<1> QED
  BY <1>2, <1>4, StatusStep DEF RecordSymptom, DecisionsFollow

LEMMA RecordReviewSafe ==
  ASSUME Safe, NEW by \in Actors, RecordReview(by)
  PROVE  Safe'
<1> DEFINE review == [by |-> by, hash |-> registry, policy |-> policy, tree |-> tree,
                      specs |-> Design(registry), design |-> ReviewedDesign(status)]
           preflight == [status EXCEPT !.phase = 6, !.review = review]
<1>1. /\ registry \in Registries /\ policy \in Policies /\ tree \in Trees /\ Design(registry) \in Claims
      /\ status \in Status
  BY RegistryIs DEF Safe, Typed, TypeOK
<1>2. ReviewedDesign(status) \in Claims \cup {None}
  BY <1>1 DEF ReviewedDesign, Status, DesignApproval
<1>3. review \in Review /\ review.by = by /\ review.specs = Design(registry)
  BY <1>1, <1>2 DEF Review
<1>4. /\ by # status.implementer /\ GatesHold(preflight) /\ StatusOnly
      /\ status' = [status EXCEPT !.review = preflight.review]
  BY DEF RecordReview
<1> HIDE DEF review
<1>5. /\ preflight.phase = 6 /\ preflight.review = review /\ preflight.implementer = status.implementer
      /\ preflight.symptom = status.symptom
  BY <1>1, <1>3 DEF Status
<1>6. /\ status' \in Status /\ status'.review = review /\ status'.phase = status.phase
      /\ status'.stat = status.stat /\ status'.implementer = status.implementer
      /\ status'.deployment = status.deployment /\ status'.live = status.live
      /\ status'.symptom = status.symptom
  BY <1>1, <1>3, <1>4, <1>5 DEF Status
<1> HIDE DEF preflight
<1>7. Reviewed(preflight)
  BY <1>4, <1>5 DEF GatesHold
<1>8. status.implementer # None /\ review # None
  BY <1>5, <1>7 DEF Reviewed
<1>9. /\ registry' = registry /\ ledger' = ledger /\ running' = running /\ approvals' = approvals
      /\ edits' = edits /\ tree' = tree /\ policy' = policy
  BY <1>4 DEF StatusOnly, world
<1>10. Typed'
  BY <1>6, <1>9 DEF Safe, Typed, TypeOK
<1>11. PassingIsEvidenced' /\ DecisionsMatchClaims' /\ CompletionStands'
  BY <1>3, <1>6, <1>9 DEF Safe, PassingIsEvidenced, DecisionsMatchClaims, CompletionStands
<1>12. ReviewedByAnother'
  BY <1>3, <1>4, <1>6, <1>8, <1>9 DEF Safe, ReviewedByAnother, SymptomProved
<1> QED
  BY <1>10, <1>11, <1>12 DEF Safe

LEMMA DeploymentApproveSafe ==
  ASSUME Safe, DeploymentApprove
  PROVE  Safe'
<1> DEFINE approval == [hash |-> registry, policy |-> policy, at |-> approvals + 1]
<1>1. /\ registry \in Registries /\ policy \in Policies /\ approvals \in 0..MaxApprovals
      /\ status \in Status /\ MaxApprovals \in Nat
  BY DeliveryAssumption DEF Safe, Typed, TypeOK
<1>2. approval \in Deployment /\ approval.hash = registry /\ approval.at = approvals + 1
  BY <1>1 DEF Deployment
<1>3. /\ status.phase = 7 /\ approvals < MaxApprovals /\ approvals' = approvals + 1
      /\ status' = [status EXCEPT !.deployment = approval, !.stat = "ready_to_deploy"]
      /\ UNCHANGED <<registry, ledger, running, edits, world>>
  BY DEF DeploymentApprove
<1> HIDE DEF approval
<1>4. /\ status' \in Status /\ status'.deployment = approval /\ status'.phase = status.phase
      /\ status'.implementer = status.implementer /\ status'.review = status.review
      /\ status'.live = status.live /\ status'.symptom = status.symptom
  BY <1>1, <1>2, <1>3 DEF Status, Stats
<1>5. Typed'
  <2>1. approvals' \in 0..MaxApprovals /\ status'.deployment.at <= approvals'
    BY <1>1, <1>2, <1>3, <1>4
  <2> QED
    BY <1>3, <1>4, <2>1 DEF Safe, Typed, TypeOK, world
<1>6. PassingIsEvidenced' /\ DecisionsMatchClaims' /\ CompletionStands'
  BY <1>2, <1>3, <1>4 DEF Safe, PassingIsEvidenced, DecisionsMatchClaims, CompletionStands
<1>7. ReviewedByAnother'
  BY <1>3, <1>4 DEF Safe, ReviewedByAnother, SymptomProved
<1> QED
  BY <1>5, <1>6, <1>7 DEF Safe

LEMMA DeploymentRevokeSafe ==
  ASSUME Safe, DeploymentRevoke
  PROVE  Safe'
<1>1. status \in Status
  BY DEF Safe, Typed, TypeOK
<1>2. /\ status.phase >= 6
      /\ status' = [status EXCEPT !.deployment = None, !.phase = 7, !.stat = "awaiting_approval"]
  BY DEF DeploymentRevoke
<1>3. /\ status' \in Status /\ status'.phase = 7 /\ status'.deployment = None
      /\ status'.implementer = status.implementer /\ status'.review = status.review
      /\ status'.live = status.live /\ status'.symptom = status.symptom
  <2>1. 7 \in 1..8 /\ "awaiting_approval" \in Stats
    BY DEF Stats
  <2> QED
    BY <1>1, <1>2, <2>1 DEF Status
<1>4. /\ registry' = registry /\ ledger' = ledger /\ running' = running /\ approvals' = approvals
      /\ edits' = edits /\ tree' = tree /\ policy' = policy
  BY DEF DeploymentRevoke, StatusOnly, world
<1>5. Typed'
  BY <1>3, <1>4 DEF Safe, Typed, TypeOK
<1>6. PassingIsEvidenced' /\ DecisionsMatchClaims' /\ CompletionStands'
  BY <1>3, <1>4 DEF Safe, PassingIsEvidenced, DecisionsMatchClaims, CompletionStands
<1>7. ReviewedByAnother'
  BY <1>2, <1>3, <1>4 DEF Safe, ReviewedByAnother, SymptomProved
<1> QED
  BY <1>5, <1>6, <1>7 DEF Safe

LEMMA DecidesSafe ==
  ASSUME Safe, Decides
  PROVE  Safe'
BY RecordEvidenceSafe, RecordSymptomSafe, RecordReviewSafe, DeploymentApproveSafe,
   DeploymentRevokeSafe DEF Decides

-----------------------------------------------------------------------------
LEMMA SafeInit ==
  ASSUME Init
  PROVE  Safe
<1>1. registry = <<>> /\ DOMAIN registry = {} /\ registry \in [{} -> Criterion]
  BY DEF Init
<1>2. registry \in Registries /\ IsFiniteSet(DOMAIN registry)
  BY <1>1, InRegistries, FS_EmptySet, {} \in SUBSET Criteria
<1>3. ledger \in Seq(Record) /\ Len(ledger) = 0 /\ DOMAIN ledger = {}
  BY DEF Init
<1>4. /\ status \in Status /\ status.phase = 1 /\ status.review = None /\ status.deployment = None
      /\ status.live = 0 /\ status.symptom = 0
  BY DEF Init, Status, Stats
<1>5. running \in [Runners -> Run] /\ \A p \in Runners : NumbersOf(running[p]) = {}
  BY IdleRun DEF Init
<1>6. Typed
  BY <1>1, <1>2, <1>3, <1>4, <1>5, DeliveryAssumption DEF Init, Typed, TypeOK
<1> QED
  BY <1>1, <1>4, <1>6 DEF Safe, PassingIsEvidenced, DecisionsMatchClaims, ReviewedByAnother,
                          CompletionStands

LEMMA SafeNext ==
  ASSUME Safe, [Next]_vars
  PROVE  Safe'
<1>1. edits \in 0..MaxEdits /\ running \in [Runners -> Run]
      /\ \A p \in Runners : NumbersOf(running[p]) \subseteq DOMAIN ledger
  BY DEF Safe, Typed, TypeOK
<1>2. Edited => edits' \in 0..MaxEdits
  BY <1>1, DeliveryAssumption DEF Edited
<1>3. CASE EditTree
  BY <1>1, <1>2, <1>3, NothingWritten DEF EditTree, Safe, Typed, TypeOK
<1>4. CASE EditPolicy
  BY <1>1, <1>2, <1>4, NothingWritten DEF EditPolicy, Safe, Typed, TypeOK
<1>5. CASE UNCHANGED vars
  BY <1>1, <1>5, NothingWritten DEF vars, Safe, Typed, TypeOK
<1> QED
  BY <1>3, <1>4, <1>5, RegistersSafe, DesignsSafe, DecidesSafe, RunsSafe DEF Next

LEMMA AlwaysSafe == Spec => []Safe
<1>1. Init => Safe
  BY SafeInit
<1>2. Safe /\ [Next]_vars => Safe'
  BY SafeNext
<1> QED
  BY <1>1, <1>2, PTL DEF Spec

\* The files hold what they are read as, and no criterion, run or status ever
\* names a verification record that was not written.
\* (append_verification, and everything that keeps its numbers)
THEOREM TypesAreRight == Spec => []TypeOK
BY AlwaysSafe, PTL DEF Safe, Typed

\* However verifies, edits of the wording and restated criteria interleave, no
\* criterion reads passing without a successful record of each kind its policy
\* asks for, of the wording it has now. (cmd_verify, cmd_criterion_update)
THEOREM PassingNeedsEvidence == Spec => []PassingIsEvidenced
BY AlwaysSafe, PTL DEF Safe

\* A review, a deployment approval and a live verification on record are always
\* of the claims the registry makes. (_invalidate_decisions, _retain_or_invalidate)
THEOREM DecisionsAreOfTheClaims == Spec => []DecisionsMatchClaims
BY AlwaysSafe, PTL DEF Safe

\* From Phase 6 on the reviewer on record is not the implementer on record, and
\* the symptom's proof still counts. (cmd_advance, cmd_record_review, compute_errors)
THEOREM AnotherReviewed == Spec => []ReviewedByAnother
BY AlwaysSafe, PTL DEF Safe

\* A complete run was approved for deployment before the live verification it
\* stands on was recorded. (cmd_verify_live, cmd_deployment_revoke)
THEOREM CompletionAlwaysStands == Spec => []CompletionStands
BY AlwaysSafe, PTL DEF Safe

-----------------------------------------------------------------------------
(* With one check at a time and no baselines, a review on record is always *)
(* of the registry as it is, whoever else is verifying.                    *)

ReviewFits ==
  status.review # None =>
    /\ status.review.hash = registry
    /\ \A c \in DOMAIN registry :
         registry[c].state = "passing" /\ \A n \in Newest(c) : ledger[n].tree = status.review.tree

OneAtATime ==
  \A p \in Runners : running[p].what # "baseline" /\ (running[p] \in Checking => DOMAIN running[p].written = {})

Standing == Safe /\ ReviewFits /\ OneAtATime

\* The newest checks of a criterion are new ones, or they were the newest before.
LEMMA NewestWas ==
  ASSUME Typed, Grows(ledger'), NEW c, registry'[c].spec = registry[c].spec,
         NEW n \in Newest(c)', n \in DOMAIN ledger
  PROVE  n \in Newest(c) /\ ledger'[n] = ledger[n]
<1>1. \A k \in DOMAIN ledger : ledger'[k] = ledger[k] /\ k \in DOMAIN ledger'
  BY DEF Typed, TypeOK, Grows
<1>2. \A k \in DOMAIN ledger : Vouches(ledger[k], registry, c) => Vouches(ledger'[k], registry', c)
  BY <1>1 DEF Vouches
<1>3. \A k \in DOMAIN ledger : Vouches(ledger'[k], registry', c) => Vouches(ledger[k], registry, c)
  BY <1>1 DEF Vouches
<1> QED
  BY <1>1, <1>2, <1>3 DEF Newest

\* A step that leaves the review and the registry alone and records no checks.
LEMMA ReviewUntouched ==
  ASSUME Safe, ReviewFits, Grows(ledger'), registry' = registry, status'.review = status.review,
         \A n \in DOMAIN ledger' \ DOMAIN ledger : ledger'[n].kind # "checks"
  PROVE  ReviewFits'
<1>1. SUFFICES ASSUME status.review # None, NEW c \in DOMAIN registry, NEW n \in Newest(c)'
               PROVE  ledger'[n].tree = status.review.tree
  BY DEF ReviewFits
<1>2. n \in DOMAIN ledger
  BY DEF Newest
<1>3. n \in Newest(c) /\ ledger'[n] = ledger[n]
  BY <1>2, NewestWas DEF Safe
<1> QED
  BY <1>1, <1>3 DEF ReviewFits

LEMMA ReviewGone ==
  ASSUME TakesBack(status')
  PROVE  ReviewFits'
BY DEF TakesBack, ReviewFits

\* A step that appends nothing.
LEMMA LedgerSame ==
  ASSUME Safe, ledger' = ledger
  PROVE  Grows(ledger') /\ \A n \in DOMAIN ledger' \ DOMAIN ledger : ledger'[n].kind # "checks"
BY GrowsNot

LEMMA VerifyFinishFits ==
  ASSUME Standing, NEW p \in Runners, NEW passed, VerifyFinish(p, passed)
  PROVE  ReviewFits'
<1> DEFINE checked == DOMAIN running[p].specs
           rest == checked \ DOMAIN running[p].written
           led == Appended(p, "checks", checked, passed)
           reg == Judged(led, Numbered(checked))
           s(n) == [status EXCEPT !.symptom = n]
<1>1. running[p] \in Checking /\ checked \subseteq DOMAIN registry
  BY RunIs DEF VerifyFinish, Verifying, Standing, Safe
<1>2. /\ IsFiniteSet(checked) /\ ledger \in Seq(Record) /\ registry \in Registries
      /\ \A c \in DOMAIN registry : registry[c].evidence \subseteq DOMAIN ledger
      /\ status \in Status
  BY <1>1, FS_Subset DEF Standing, Safe, Typed, TypeOK
<1>3. rest = checked
  <2>1. DOMAIN running[p].written = {}
    BY <1>1 DEF Standing, OneAtATime
  <2> QED
    BY <2>1
<1>4. /\ ledger' = led /\ registry' = reg /\ Len(ledger') <= MaxRecords
      /\ \E n : /\ n = status.symptom \/ n \in SymptomRuns(led, reg, WithNumbers(running[p].written, Numbered(rest)))
                /\ status' = AfterEvidence(s(n), led, reg, running[p].tree, tree, checked, running[p].policy)
  BY <1>3 DEF VerifyFinish
<1>5. PICK n \in Nat :
        status' = AfterEvidence(s(n), led, reg, running[p].tree, tree, checked, running[p].policy)
  <2>1. SymptomRuns(led, reg, WithNumbers(running[p].written, Numbered(rest))) \subseteq DOMAIN led
    <3> HIDE DEF checked, rest, reg
    <3>1. checked \subseteq DOMAIN running[p].specs
      BY DEF checked
    <3> QED
      BY <1>1, <1>2, <1>3, <3>1, SymptomRunsWritten DEF Standing
  <2>2. DOMAIN led \subseteq Nat
    <3>1. Safe'
      BY VerifyFinishSafe DEF Standing
    <3> QED
      BY <1>4, <3>1 DEF Safe, Typed, TypeOK
  <2>3. status.symptom \in Nat
    BY <1>2 DEF Status
  <2> QED
    BY <1>4, <2>1, <2>2, <2>3
<1>6. /\ Grows(led) /\ DOMAIN Numbered(checked) = checked
      /\ \A c \in checked : Numbered(checked)[c] \in DOMAIN led
      /\ \A k \in DOMAIN led \ DOMAIN ledger : \E c \in checked : led[k] = Result(p, "checks", c, passed)
  BY <1>1, <1>2, AppendedIs, NumberedIs
<1> HIDE DEF led
<1>7. /\ reg \in Registries /\ DOMAIN reg = DOMAIN registry /\ Design(reg) = Design(registry)
      /\ \A c \in DOMAIN reg : c \notin checked => reg[c] = registry[c]
  <2>1. Len(led) <= MaxRecords /\ \A c \in DOMAIN Numbered(checked) : Numbered(checked)[c] \in DOMAIN led
    BY <1>4, <1>6
  <2> HIDE DEF checked
  <2> QED
    BY <1>2, <1>6, <2>1, JudgedIs
<1> HIDE DEF reg
<1>8. \A k \in DOMAIN led \ DOMAIN ledger : led[k].tree = running[p].tree
  <2>1. \A c : Result(p, "checks", c, passed).tree = running[p].tree
    BY DEF Result, Evidence
  <2> QED
    BY <1>6, <2>1
<1>9. s(n) \in Status /\ s(n).review = status.review
  BY <1>2, <1>5 DEF Status
<1> HIDE DEF s
<1>10. CASE TakesBack(status')
  BY <1>10, ReviewGone
<1>11. CASE ~TakesBack(status')
  <2>1. /\ Keeps(status', s(n), reg) /\ ReviewHolds(s(n), reg, running[p].tree, tree, checked)
        /\ status'.review.hash = reg /\ status'.review.tree = s(n).review.tree
    BY <1>5, <1>7, <1>9, <1>11, AfterEvidenceIs
  <2>2. /\ status.review # None /\ running[p].tree = status.review.tree
        /\ status'.review.tree = status.review.tree
        /\ \A c \in checked : reg[c].state = "passing"
    BY <1>9, <2>1 DEF ReviewHolds
  <2>3. ASSUME NEW c \in DOMAIN reg
        PROVE  /\ reg[c].state = "passing"
               /\ \A k \in Newest(c)' : ledger'[k].tree = status'.review.tree
    <3>1. reg[c].spec = registry[c].spec /\ c \in DOMAIN registry
      BY <1>2, <1>7, SameClaims
    <3>2. reg[c].state = "passing"
      BY <1>7, <2>2, <3>1 DEF Standing, ReviewFits
    <3>3. ASSUME NEW k \in Newest(c)'
          PROVE  ledger'[k].tree = status'.review.tree
      <4>1. CASE k \in DOMAIN ledger
        <5>1. k \in Newest(c) /\ ledger'[k] = ledger[k]
          BY <1>4, <1>6, <3>1, <4>1, NewestWas DEF Standing, Safe
        <5> QED
          BY <2>2, <3>1, <5>1 DEF Standing, ReviewFits
      <4>2. CASE k \notin DOMAIN ledger
        <5>1. k \in DOMAIN led
          BY <1>4 DEF Newest
        <5> QED
          BY <1>4, <1>8, <2>2, <4>2, <5>1
      <4> QED
        BY <4>1, <4>2
    <3> QED
      BY <3>2, <3>3
  <2> QED
    BY <1>4, <2>1, <2>3 DEF ReviewFits
<1> QED
  BY <1>10, <1>11

LEMMA RecordEvidenceFits ==
  ASSUME Standing, NEW c \in Criteria, RecordEvidence(c)
  PROVE  ReviewFits'
<1> DEFINE record == Evidence("manual", TRUE, [d \in {c} |-> registry[c].spec], None)
           led == Append(ledger, record)
           reg == [registry EXCEPT ![c] = Attached(led, registry, c, Len(led))]
<1>1. /\ ledger' = led /\ registry' = reg /\ c \in DOMAIN registry
      /\ status' = AfterEvidence(status, led, reg, tree, tree, {c}, policy)
  BY DEF RecordEvidence
<1>2. Safe'
  BY RecordEvidenceSafe DEF Standing
<1>3. /\ registry \in Registries /\ registry' \in Registries /\ ledger \in Seq(Record) /\ status \in Status
      /\ registry \in [DOMAIN registry -> Criterion]
  BY <1>2, RegistryIs DEF Standing, Safe, Typed, TypeOK
<1>4. record.kind = "manual"
  BY DEF Evidence
<1> HIDE DEF record
<1>5. /\ Grows(led) /\ \A k \in DOMAIN led \ DOMAIN ledger : led[k].kind # "checks"
  BY <1>1, <1>2, <1>3, <1>4 DEF Grows, Safe, Typed, TypeOK
<1>6. /\ DOMAIN reg = DOMAIN registry
      /\ \A d \in DOMAIN reg : d # c => reg[d] = registry[d]
  BY <1>3
<1>7. \A d \in DOMAIN reg : reg[d].spec = registry[d].spec
  <2>1. ShapedCriterion(registry[c])
    BY <1>1, <1>3 DEF Criterion, ShapedCriterion
  <2>2. Attached(led, registry, c, Len(led)).spec = registry[c].spec
    BY <2>1 DEF Attached, ShapedCriterion
  <2> QED
    BY <1>1, <1>3, <1>6, <2>2
<1> HIDE DEF led, reg
<1>8. CASE TakesBack(status')
  BY <1>8, ReviewGone
<1>9. CASE ~TakesBack(status')
  <2>1. /\ ReviewHolds(status, reg, tree, tree, {c})
        /\ status'.review.hash = reg /\ status'.review.tree = status.review.tree
    BY <1>1, <1>3, <1>9, AfterEvidenceIs
  <2>2. status.review # None /\ reg[c].state = "passing"
    BY <2>1 DEF ReviewHolds
  <2>3. ASSUME NEW d \in DOMAIN reg
        PROVE  /\ reg[d].state = "passing"
               /\ \A k \in Newest(d)' : ledger'[k].tree = status'.review.tree
    <3>1. reg[d].state = "passing"
      BY <1>6, <2>2 DEF Standing, ReviewFits
    <3>2. ASSUME NEW k \in Newest(d)'
          PROVE  ledger'[k].tree = status'.review.tree
      <4>1. k \in DOMAIN ledger
        BY <1>1, <1>5 DEF Newest
      <4>2. k \in Newest(d) /\ ledger'[k] = ledger[k]
        BY <1>1, <1>5, <1>7, <4>1, NewestWas DEF Standing, Safe
      <4> QED
        BY <1>6, <2>1, <2>2, <4>2 DEF Standing, ReviewFits
    <3> QED
      BY <3>1, <3>2
  <2> QED
    BY <1>1, <2>1, <2>3 DEF ReviewFits
<1> QED
  BY <1>8, <1>9

\* A review is recorded of a registry that passes, checked on the tree it reads.
LEMMA RecordReviewFits ==
  ASSUME Safe, NEW by \in Actors, RecordReview(by)
  PROVE  ReviewFits'
<1> DEFINE review == [by |-> by, hash |-> registry, policy |-> policy, tree |-> tree,
                      specs |-> Design(registry), design |-> ReviewedDesign(status)]
           preflight == [status EXCEPT !.phase = 6, !.review = review]
<1>1. /\ GatesHold(preflight) /\ StatusOnly /\ status' = [status EXCEPT !.review = preflight.review]
  BY DEF RecordReview
<1>2. review.hash = registry /\ review.tree = tree
  OBVIOUS
<1> HIDE DEF review
<1>3. status \in Status
  BY DEF Safe, Typed, TypeOK
<1>4. preflight.phase = 6 /\ preflight.review = review /\ status'.review = preflight.review
  BY <1>1, <1>3 DEF Status
<1> HIDE DEF preflight
<1>5. /\ \A c \in DOMAIN registry : ~Drifted(c)
      /\ Evidenced(preflight)
  BY <1>1, <1>4 DEF GatesHold
<1>6. registry' = registry /\ ledger' = ledger
  BY <1>1 DEF StatusOnly
<1>7. \A c \in DOMAIN registry : registry[c].state = "passing" /\ \A n \in Newest(c) : ledger[n].tree = tree
  BY <1>5 DEF Evidenced, Drifted
<1>8. \A c : Newest(c)' = Newest(c)
  BY <1>6 DEF Newest
<1> QED
  BY <1>2, <1>4, <1>6, <1>7, <1>8 DEF ReviewFits

LEMMA OneRunReplaced ==
  ASSUME Standing, NEW p \in Runners, NEW run, running' = [running EXCEPT ![p] = run],
         run.what # "baseline", run \in Checking => DOMAIN run.written = {}
  PROVE  OneAtATime'
<1>1. running \in [Runners -> Run]
  BY DEF Standing, Safe, Typed, TypeOK
<1> QED
  BY <1>1 DEF Standing, OneAtATime

LEMMA OneIdle ==
  ASSUME Standing, NEW p \in Runners, running' = [running EXCEPT ![p] = Idle]
  PROVE  OneAtATime'
<1>1. Idle.what = "nothing"
  BY DEF Idle
<1>2. \A r \in Checking : r.what \in {"verify", "baseline"}
  BY DEF Checking
<1> QED
  BY <1>1, <1>2, OneRunReplaced

LEMMA RunsFit ==
  ASSUME Standing, ~Concurrent, ~Baselines, NEW p \in Runners, Runs(p)
  PROVE  ReviewFits' /\ OneAtATime'
<1>1. ASSUME NEW cs, VerifyStart(p, cs, "verify")
      PROVE  ReviewFits' /\ OneAtATime'
  <2> DEFINE run == [what |-> "verify", specs |-> [c \in cs |-> registry[c].spec], tree |-> tree,
                     policy |-> policy, written |-> [c \in {} |-> 0]]
  <2>1. ReviewFits'
    BY <1>1, LedgerSame, ReviewUntouched DEF VerifyStart, Standing
  <2>2. running' = [running EXCEPT ![p] = run]
    BY <1>1 DEF VerifyStart
  <2>3. run.what = "verify" /\ DOMAIN run.written = {}
    OBVIOUS
  <2> HIDE DEF run
  <2> QED
    BY <2>1, <2>2, <2>3, OneRunReplaced
<1>2. ASSUME NEW passed, VerifyFinish(p, passed)
      PROVE  ReviewFits' /\ OneAtATime'
  BY <1>2, VerifyFinishFits, OneIdle DEF VerifyFinish
<1>3. ASSUME NEW failed, BaselineFinish(p, failed)
      PROVE  FALSE
  BY <1>3 DEF BaselineFinish, Verifying, Standing, OneAtATime
<1>4. CASE RunEnds(p)
  BY <1>4, LedgerSame, ReviewUntouched, OneIdle DEF RunEnds, Standing
<1>5. CASE VerifyLiveStart(p)
  <2> DEFINE run == [what |-> "live", hash |-> registry, policy |-> policy, begun |-> approvals]
  <2>1. ReviewFits'
    BY <1>5, LedgerSame, ReviewUntouched DEF VerifyLiveStart, Standing
  <2>2. running' = [running EXCEPT ![p] = run] /\ run.what = "live"
    BY <1>5 DEF VerifyLiveStart
  <2>3. \A r \in Checking : r.what \in {"verify", "baseline"}
    BY DEF Checking
  <2> HIDE DEF run
  <2> QED
    BY <2>1, <2>2, <2>3, OneRunReplaced
<1>6. ASSUME NEW ok \in BOOLEAN, VerifyLiveFinish(p, ok)
      PROVE  ReviewFits' /\ OneAtATime'
  <2> DEFINE record == LiveRecord(ok, running[p].begun)
  <2>1. Safe'
    BY <1>6, VerifyLiveFinishSafe DEF Standing
  <2>2. /\ ledger' = Append(ledger, record) /\ registry' = registry
        /\ running' = [running EXCEPT ![p] = Idle]
    BY <1>6 DEF VerifyLiveFinish
  <2>3. record.kind = "live"
    BY DEF LiveRecord
  <2>4. status'.review = status.review
    BY <1>6 DEF VerifyLiveFinish, Standing, Safe, Typed, TypeOK, Status
  <2> HIDE DEF record
  <2>5. Grows(ledger') /\ \A n \in DOMAIN ledger' \ DOMAIN ledger : ledger'[n].kind # "checks"
    BY <2>1, <2>2, <2>3 DEF Standing, Safe, Typed, TypeOK, Grows
  <2> QED
    BY <2>2, <2>4, <2>5, ReviewUntouched, OneIdle DEF Standing
<1>7. ASSUME NEW ready, NEW passed, ChecksRecorded(p, ready, passed)
      PROVE  FALSE
  BY <1>7 DEF ChecksRecorded
<1> QED
  BY <1>1, <1>2, <1>3, <1>4, <1>5, <1>6, <1>7 DEF Runs

\* A command that writes the status only, and not its review.
LEMMA StatusFits ==
  ASSUME Standing, StatusOnly, status'.review = status.review
  PROVE  ReviewFits' /\ OneAtATime'
BY LedgerSame, ReviewUntouched DEF StatusOnly, Standing, OneAtATime

LEMMA DesignsFit ==
  ASSUME Standing, Designs
  PROVE  ReviewFits' /\ OneAtATime'
<1>1. status \in Status
  BY DEF Standing, Safe, Typed, TypeOK
<1>2. StatusOnly
  BY DEF Designs, DesignPropose, DesignReviewChanges, DesignReviewApproved, DesignApprove,
         DesignReject, Advance
<1>3. status'.review = status.review
  <2>1. ASSUME NEW stat, DesignPropose(stat) \/ DesignReviewChanges(stat)
        PROVE  status'.review = status.review
    BY <1>1, <2>1 DEF DesignPropose, DesignReviewChanges, Status
  <2>2. CASE DesignReviewApproved \/ DesignApprove \/ DesignReject
    BY <1>1, <2>2 DEF DesignReviewApproved, DesignApprove, DesignReject, Status
  <2>3. ASSUME NEW target, NEW stat, NEW by, Advance(target, stat, by)
        PROVE  status'.review = status.review
    <3>1. PICK reads, who : status' = Advanced(status, target, reads, who)
      BY <2>3 DEF Advance, Advanced
    <3> QED
      BY <1>1, <3>1 DEF Advanced, Status
  <2> QED
    BY <2>1, <2>2, <2>3 DEF Designs
<1> QED
  BY <1>2, <1>3, StatusFits

LEMMA RegistersFit ==
  ASSUME Standing, Registers
  PROVE  ReviewFits' /\ OneAtATime'
<1>1. PICK n \in Nat : status' = Redesigned([status EXCEPT !.symptom = n])
  <2>1. status \in Status /\ [status EXCEPT !.symptom = status.symptom] = status
    BY DEF Standing, Safe, Typed, TypeOK, Status
  <2>2. ASSUME NEW c, NEW spec, NEW revoke, CriterionAdd(c, spec, revoke)
        PROVE  status' = Redesigned([status EXCEPT !.symptom = IF c \in Primary THEN 0 ELSE status.symptom])
    BY <2>2 DEF CriterionAdd
  <2>3. ASSUME NEW c, NEW spec, NEW state, NEW revoke, CriterionUpdate(c, spec, state, revoke)
        PROVE  status' = Redesigned([status EXCEPT !.symptom =
                                       IF c \in Primary /\ spec # None THEN 0 ELSE status.symptom])
    BY <2>3 DEF CriterionUpdate
  <2>4. ASSUME NEW c, CriterionRemove(c)
        PROVE  status' = Redesigned([status EXCEPT !.symptom = status.symptom])
    BY <2>1, <2>4 DEF CriterionRemove
  <2>5. status.symptom \in Nat
    BY <2>1 DEF Status
  <2> QED
    BY <2>2, <2>3, <2>4, <2>5 DEF Registers
<1>2. [status EXCEPT !.symptom = n] \in Status
  BY DEF Standing, Safe, Typed, TypeOK, Status
<1>3. TakesBack(status')
  BY <1>1, <1>2, RedesignedIs
<1>4. running' = running
  BY DEF Registers, CriterionAdd, CriterionUpdate, CriterionRemove
<1> QED
  BY <1>3, <1>4, ReviewGone DEF Standing, OneAtATime

LEMMA DecidesFit ==
  ASSUME Standing, Decides
  PROVE  ReviewFits' /\ OneAtATime'
<1>1. status \in Status
  BY DEF Standing, Safe, Typed, TypeOK
<1>2. running' = running
  BY DEF Decides, RecordEvidence, RecordSymptom, RecordReview, DeploymentApprove, DeploymentRevoke,
         StatusOnly
<1>3. OneAtATime'
  BY <1>2 DEF Standing, OneAtATime
<1>4. ASSUME NEW n, RecordSymptom(n)
      PROVE  ReviewFits'
  <2>1. n \in Nat /\ status' = Invalidated([status EXCEPT !.symptom = n], 5)
    BY <1>4 DEF RecordSymptom, Standing, Safe, Typed, TypeOK
  <2>2. [status EXCEPT !.symptom = n] \in Status
    BY <1>1, <2>1 DEF Status
  <2> QED
    BY <2>1, <2>2, InvalidatedIs, ReviewGone
<1>5. CASE DeploymentApprove
  <2>1. status'.review = status.review
    BY <1>1, <1>5 DEF DeploymentApprove, Status
  <2>2. ledger' = ledger /\ registry' = registry
    BY <1>5 DEF DeploymentApprove
  <2> QED
    BY <1>3, <2>1, <2>2, LedgerSame, ReviewUntouched DEF Standing
<1>6. CASE DeploymentRevoke
  <2>1. status'.review = status.review
    BY <1>1, <1>6 DEF DeploymentRevoke, Status
  <2> QED
    BY <1>6, <2>1, StatusFits DEF DeploymentRevoke
<1> QED
  BY <1>3, <1>4, <1>5, <1>6, RecordEvidenceFits, RecordReviewFits DEF Decides, Standing

LEMMA StandingNext ==
  ASSUME Standing, ~Concurrent, ~Baselines, [Next]_vars
  PROVE  Standing'
<1>1. Safe'
  BY SafeNext DEF Standing
<1>2. ASSUME EditTree \/ EditPolicy \/ UNCHANGED vars
      PROVE  Standing'
  <2>1. status' = status /\ ledger' = ledger /\ running' = running /\ registry' = registry
    BY <1>2 DEF EditTree, EditPolicy, vars
  <2>2. OneAtATime'
    BY <2>1 DEF Standing, OneAtATime
  <2>3. ReviewFits'
    BY <2>1, LedgerSame, ReviewUntouched DEF Standing
  <2> QED
    BY <1>1, <2>2, <2>3 DEF Standing
<1> QED
  BY <1>1, <1>2, RegistersFit, DesignsFit, DecidesFit, RunsFit DEF Next, Standing

\* While checks run one at a time and no baseline is taken, a review on record is
\* of the registry exactly as it is, every criterion passing and each newest check
\* run on the tree the reviewer read, whoever verifies what meanwhile.
\* (_review_retention_refusal and _retain_or_invalidate; with concurrent checks it
\* fails, as TLC shows under MCDeliveryConcurrent.cfg.)
THEOREM ReviewStandsAlone ==
  ASSUME ~Concurrent, ~Baselines
  PROVE  Spec => []ReviewStands
<1>1. Init => Standing
  <2> SUFFICES ASSUME Init PROVE Standing
    OBVIOUS
  <2>1. Safe /\ status.review = None
    BY SafeInit DEF Init
  <2>2. Idle.what = "nothing" /\ \A r \in Checking : r.what \in {"verify", "baseline"}
    BY DEF Idle, Checking
  <2>3. \A p \in Runners : running[p] = Idle
    BY DEF Init
  <2> QED
    BY <2>1, <2>2, <2>3 DEF Standing, ReviewFits, OneAtATime
<1>2. Standing /\ [Next]_vars => Standing'
  BY StandingNext
<1>3. Standing => ReviewStands
  BY DEF Standing, ReviewFits, ReviewStands
<1> QED
  BY <1>1, <1>2, <1>3, PTL DEF Spec
=============================================================================
