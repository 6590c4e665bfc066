----------------------------- MODULE Amendment -----------------------------
(***************************************************************************)
(* Changing what was agreed: the acceptance criteria are edited, the design*)
(* they form is reviewed and approved, and after Phase 3 a change either   *)
(* revokes both decisions or goes through the scoped amendment lane: open, *)
(* review, revise, approve, escalate.                                      *)
(*                                                                         *)
(* A design is the registry itself where the code compares hashes of it.   *)
(* Each command is one locked transaction.  Evidence is the spec it was    *)
(* recorded for; how it comes about, and the review and deployment that    *)
(* follow, are the subject of Delivery.                                    *)
(***************************************************************************)
EXTENDS Naturals, Sequences, FiniteSets

CONSTANTS Ids,        \* criterion ids
          Specs,      \* [primary, automated : BOOLEAN, tests : SUBSET Tests, item]
          First,      \* the registry after Phase 1
          Actors, Architect,
          Nothing,    \* no such criterion, evidence, decision or amendment
          MaxEdits    \* bound: transactions on the registry

VARIABLES registry,   \* the acceptance criteria
          tested,     \* the spec each criterion has evidence for
          phase,
          reviewed,   \* design_review: the design and the decision
          approved,   \* design_approved: the design
          amendment,  \* the open amendment
          edits,
          seen, agreed  \* every design a reviewer, a Pilot ever approved

vars == <<registry, tested, phase, reviewed, approved, amendment, edits, seen, agreed>>

Registries == {r \in [Ids -> Specs \cup {Nothing}] :
                 Cardinality({i \in Ids : r[i] # Nothing /\ r[i].primary}) = 1}

Init ==
    /\ registry = First /\ tested = [i \in Ids |-> Nothing]
    /\ phase = 2 /\ reviewed = Nothing /\ approved = Nothing
    /\ amendment = Nothing /\ edits = 0 /\ seen = {} /\ agreed = {}

-----------------------------------------------------------------------------
\* A transaction adds, updates or removes criteria; one primary fix remains.
Transactions == {r \in Registries : r # registry}
Touched(r)   == {i \in Ids : r[i] # registry[i]}
Added(r)     == {i \in Ids : registry[i] = Nothing /\ r[i] # Nothing}
Reset(r)     == [i \in Ids |-> IF i \in Touched(r) THEN Nothing ELSE tested[i]]

Edits(r) == edits < MaxEdits /\ registry' = r /\ edits' = edits + 1

\* The gate is weaker: fewer tests and no new one, or no automated checks.
Downgrade(old, new) ==
    \/ old.automated /\ ~new.automated
    \/ new.automated /\ new.tests # old.tests /\ new.tests \subseteq old.tests

Items(r)   == {r[i].item : i \in {j \in Ids : r[j] # Nothing}}
ItemsOf(r, changed) ==
    {(IF r[i] # Nothing THEN r[i] ELSE registry[i]).item :
        i \in {j \in changed : r[j] # Nothing \/ registry[j] # Nothing}}

\* classify_amendment; changed are the ids the amendment changed before.
Scoped(r, changed) ==
    /\ Added(r) = {} /\ Items(r) = Items(registry)
    /\ \A i \in Touched(r) :
          IF r[i] = Nothing THEN ~registry[i].primary
          ELSE r[i].primary = registry[i].primary /\ ~Downgrade(registry[i], r[i])
    /\ Cardinality(ItemsOf(r, changed \cup Touched(r))) <= 1

\* The amendment on record: its delta is a sequence of resulting registries.
Reviews    == [by : Actors, ok : BOOLEAN, hash : Registries \X Seq(Registries)]
Amendments == [by : Actors, base : Registries, ops : Seq(Registries), changed : SUBSET Ids,
               review : Reviews \cup {Nothing}, frozen : 3 .. 5]

Hash(a)     == <<a.base, a.ops>>
Result(a)   == a.ops[Len(a.ops)]
Open        == amendment # Nothing
Invalidated == IF phase >= 6 THEN 5 ELSE phase

\* A decision stands for the registry, or for the base of the open amendment.
Current(design) ==
    \/ design = registry
    \/ Open /\ amendment.base = design /\ Result(amendment) = registry

DesignHolds ==
    /\ reviewed # Nothing /\ reviewed.ok /\ Current(reviewed.design)
    /\ approved # Nothing /\ Current(approved)

Evidenced == \A i \in Ids : registry[i] # Nothing => tested[i] = registry[i]

-----------------------------------------------------------------------------
\* cmd_criteria_apply: outside an amendment every edit revokes the design.
CriteriaApply(r) ==
    /\ ~Open /\ Edits(r) /\ tested' = Reset(r)
    /\ phase' = 2 /\ reviewed' = Nothing /\ approved' = Nothing
    /\ UNCHANGED <<amendment, seen, agreed>>

RecordDesignReview(ok) ==
    /\ phase = 2
    /\ reviewed' = [design |-> registry, ok |-> ok]
    /\ approved' = IF ok THEN approved ELSE Nothing
    /\ seen' = IF ok THEN seen \cup {registry} ELSE seen
    /\ UNCHANGED <<registry, tested, phase, amendment, edits, agreed>>

\* A human may approve the design at any time, also inside an amendment.
DesignApprove ==
    /\ approved' = registry /\ agreed' = agreed \cup {registry}
    /\ UNCHANGED <<registry, tested, phase, reviewed, amendment, edits, seen>>

RecordEvidence(i) ==
    /\ registry[i] # Nothing /\ phase >= 3
    /\ tested' = [tested EXCEPT ![i] = registry[i]]
    /\ phase' = Invalidated
    /\ UNCHANGED <<registry, reviewed, approved, amendment, edits, seen, agreed>>

Advance(to) ==
    /\ ~Open /\ to <= phase + 1 /\ to \in 3 .. 6 /\ to # phase
    /\ DesignHolds /\ (to = 6 => Evidenced)
    /\ phase' = to
    /\ UNCHANGED <<registry, tested, reviewed, approved, amendment, edits, seen, agreed>>

\* plan_amendment and plan_amendment_revision.
MayOpen(r)   == phase >= 3 /\ ~Open /\ DesignHolds /\ Scoped(r, {})
MayRevise(r) == Open /\ Scoped(r, amendment.changed)

AmendmentOpen(r, by) ==
    /\ MayOpen(r) /\ Edits(r) /\ tested' = Reset(r)
    /\ phase' = Invalidated
    /\ amendment' = [by |-> by, base |-> registry, ops |-> <<r>>, changed |-> Touched(r),
                     review |-> Nothing, frozen |-> Invalidated]
    /\ UNCHANGED <<reviewed, approved, seen, agreed>>

AmendmentRevise(r) ==
    /\ MayRevise(r) /\ Edits(r)
    /\ LET changed == amendment.changed \cup Touched(r)
       IN  /\ tested' = [i \in Ids |-> IF i \in changed THEN Nothing ELSE tested[i]]
           /\ amendment' = [amendment EXCEPT !.ops = Append(@, r), !.changed = changed,
                                             !.review = Nothing]
    /\ phase' = Invalidated
    /\ UNCHANGED <<reviewed, approved, seen, agreed>>

\* recompute_amendment_hash: the registry is where the recorded delta leads.
Reproduced == Result(amendment) = registry

AmendmentReview(by, ok) ==
    /\ Open /\ by \notin {amendment.by, Architect} /\ Reproduced
    /\ amendment' = [amendment EXCEPT !.review = [by |-> by, ok |-> ok, hash |-> Hash(amendment)]]
    /\ seen' = IF ok THEN seen \cup {registry} ELSE seen
    /\ UNCHANGED <<registry, tested, phase, reviewed, approved, edits, agreed>>

\* cmd_amendment_approve: the decisions move on to the amended design.
AmendmentApprove(by) ==
    /\ Open /\ by # amendment.by
    /\ amendment.review # Nothing /\ amendment.review.ok
    /\ Reproduced /\ amendment.review.hash = Hash(amendment)
    /\ reviewed' = IF reviewed = Nothing THEN Nothing ELSE [reviewed EXCEPT !.design = Result(amendment)]
    /\ approved' = IF approved = Nothing THEN Nothing ELSE Result(amendment)
    /\ amendment' = Nothing /\ phase' = amendment.frozen
    /\ agreed' = agreed \cup {registry}
    /\ UNCHANGED <<registry, tested, edits, seen>>
    /\ DesignHolds'

\* A variant with a plausible bug, used nowhere: the decisions stay.
EscalateInPlace ==
    /\ Open /\ amendment' = Nothing
    /\ phase' = Invalidated
    /\ UNCHANGED <<registry, tested, reviewed, approved, edits, seen, agreed>>

AmendmentEscalate ==
    /\ Open /\ amendment' = Nothing
    /\ phase' = 2 /\ reviewed' = Nothing /\ approved' = Nothing
    /\ UNCHANGED <<registry, tested, edits, seen, agreed>>

Next ==
    \/ \E r \in Transactions : CriteriaApply(r) \/ AmendmentRevise(r)
    \/ \E r \in Transactions, a \in Actors : AmendmentOpen(r, a)
    \/ \E ok \in BOOLEAN : RecordDesignReview(ok) \/ \E a \in Actors : AmendmentReview(a, ok)
    \/ \E a \in Actors : AmendmentApprove(a)
    \/ \E i \in Ids : RecordEvidence(i)
    \/ \E to \in 3 .. 6 : Advance(to)
    \/ DesignApprove \/ AmendmentEscalate

Spec == Init /\ [][Next]_vars

-----------------------------------------------------------------------------
\* The records are well typed, and an open amendment leads to the registry.
TypeOK ==
    /\ registry \in Registries /\ phase \in 2 .. 6 /\ edits \in 0 .. MaxEdits
    /\ \A i \in Ids : tested[i] # Nothing => tested[i] \in Specs
    /\ reviewed # Nothing => reviewed.design \in Registries /\ reviewed.ok \in BOOLEAN
    /\ approved # Nothing => approved \in Registries
    /\ Open => amendment \in Amendments /\ amendment.frozen = phase /\ Reproduced

\* cmd_amendment_open, _revise, _review, _approve, _escalate: past Phase 2 and
\* with nothing open, the registry is a design that an independent reviewer and
\* a Pilot both approved as a whole, whatever changed in between.
AmendedIsReviewed == phase >= 3 /\ ~Open => registry \in seen /\ registry \in agreed

\* lib.classify_amendment: cross-item is judged over the cumulative changed ids,
\* so a second transaction cannot smuggle in a second work item.
OneWorkItem ==
    Open => Cardinality({(IF registry[i] # Nothing THEN registry[i] ELSE amendment.base[i]).item :
                            i \in amendment.changed}) = 1
=============================================================================
