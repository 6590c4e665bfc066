------------------------------- MODULE WorkItems -------------------------------
(***************************************************************************)
(* The registry of work items a run promises: derived from the feature     *)
(* title, from explicit --item arguments and from the [#N] tags of the     *)
(* criteria; synchronized by every criterion command but the removal and   *)
(* by work-items-sync; reduced by work-item-remove, which leaves a         *)
(* tombstone; replaced by an approved tranche.  The items that have        *)
(* criteria are the scope that design decisions are bound to.              *)
(*                                                                         *)
(* Items are numbered in the registry's sort order, issues first.  Phase 3 *)
(* stands for the phases from 3 on.  Every command commits under the       *)
(* project lock, so it is one step; refused commands change nothing.       *)
(* Left out: titles, urls, notes, lanes and delivery records; a registry   *)
(* that is only derived on read, decisions recorded without a scope and    *)
(* the digests of earlier engines; amendments, which Amendment is about;   *)
(* init's untouched placeholder, and the gates of Delivery.                *)
(***************************************************************************)
EXTENDS Naturals, Sequences, FiniteSets

CONSTANTS Items,     \* ids, a set of naturals in the registry's sort order
          Issues,    \* those that are issues; the others are asks
          Title,     \* what the feature title names
          Criteria, Untagged, Absent, Nothing,
          Proposed,  \* the order of a tranche proposal, a sequence of issues
          MaxEdits   \* bound on edits of the criteria

VARIABLES items,     \* the persisted registry, a sequence of ids
          optional,  \* items that are not required
          removed,   \* tombstones
          explicit,  \* work_items_explicit: init named the scope with --item
          tag,       \* the work item each criterion is tagged with
          passing,   \* criteria whose state is passing
          active,    \* active_work_item
          tranche,   \* tranche_approval.approved_order
          phase, edits,
          review,    \* design_review: its scope and whether it approved
          approval,  \* design_approved: its scope
          deployed   \* deployment_approved is on record

vars == <<items, optional, removed, explicit, tag, passing, active, tranche,
          phase, review, approval, deployed, edits>>
registry  == <<items, optional, removed, explicit, active, tranche>>
decisions == <<phase, review, approval, deployed>>

Listed(seq) == {seq[i] : i \in DOMAIN seq}
Sorted(set) == CHOOSE seq \in [1 .. Cardinality(set) -> set] :
                   \A j, k \in DOMAIN seq : j < k => seq[j] < seq[k]

-----------------------------------------------------------------------------
\* criterion_work_item_id over the criteria on file.
Live(tags)   == {c \in Criteria : tags[c] # Absent}
Tagged(tags) == {tags[c] : c \in Live(tags)} \ {Untagged}

\* derive_work_item_registry: a tombstone outlives the title, never a tag or --item.
Buried(tags, named) == removed \ (Tagged(tags) \cup named)
Derived(tags, named) ==
    (Tagged(tags) \cup (IF named # {} THEN named ELSE IF explicit THEN {} ELSE Title))
        \ Buried(tags, named)

\* Title asks join no scope that has issues or that init named.
Unwanted(tags, known) ==
    {i \in Items \ (Issues \cup Tagged(tags)) : explicit \/ known \cap Issues # {}}

\* sync_work_item_registry sorts what it keeps.
Synced(tags) ==
    Sorted(Listed(items) \cup (Derived(tags, {}) \ Unwanted(tags, Listed(items))))

\* derive_work_items: untagged criteria belong to a registry's only item.
Mapped(seq, tags, i) ==
    {c \in Live(tags) : tags[c] = i \/ (tags[c] = Untagged /\ seq = <<i>>)}
Scope(seq, tags) == {i \in Listed(seq) : Mapped(seq, tags, i) # {}}
Done(i) == Mapped(items, tag, i) # {} /\ Mapped(items, tag, i) \subseteq passing

\* Criteria of items the registry no longer has; their row comes last.
Unattributed == {c \in Live(tag) : tag[c] \notin Listed(items) \cup {Untagged}}

\* scope_hash_matches: the scope, or the digest over all items.
Matches(scope) == scope \in {Scope(items, tag), Listed(items)}

\* _design_review_errors and _design_errors, as far as they look at the scope.
DesignCurrent ==
    /\ review # Nothing /\ review.approved /\ Matches(review.scope)
    /\ approval # Nothing /\ Matches(approval)

-----------------------------------------------------------------------------
\* init: without --item the title names the items and there is one criterion
\* without a tag; with --item there are no criteria yet.
Init ==
    /\ \E named \in SUBSET Items :
        /\ explicit = (named # {})
        /\ items = Sorted(IF named # {} THEN named ELSE Title)
    /\ tag \in [Criteria -> {Untagged, Absent}]
    /\ Cardinality(Live(tag)) = IF explicit THEN 0 ELSE 1
    /\ optional = {} /\ removed = {} /\ passing = {} /\ edits = 0
    /\ active = Nothing /\ tranche = Nothing
    /\ phase = 1 /\ review = Nothing /\ approval = Nothing /\ deployed = FALSE

-----------------------------------------------------------------------------
\* _invalidate_decisions with the design, as every criterion command does.
InvalidateDecisions ==
    /\ review' = Nothing /\ approval' = Nothing /\ deployed' = FALSE
    /\ phase' = IF phase >= 3 THEN 2 ELSE phase

\* One new or changed criterion.  Neither command ends a tombstone.  (An
\* approved design is edited with --revoke-approval.)
SetCriterion(c, t) ==
    /\ edits < MaxEdits /\ edits' = edits + 1
    /\ tag' = [tag EXCEPT ![c] = t]
    /\ items' = Synced(tag')
    /\ InvalidateDecisions
    /\ UNCHANGED <<optional, removed, explicit, active, tranche>>

CriterionAdd(c, t) == tag[c] = Absent /\ SetCriterion(c, t) /\ UNCHANGED passing

\* An update with the values that are there already keeps the criterion's state.
CriterionUpdate(c, t) ==
    /\ tag[c] # Absent /\ SetCriterion(c, t)
    /\ passing' = passing \ {c} \/ (t = tag[c] /\ UNCHANGED passing)

CriterionRemove(c) ==
    /\ tag[c] # Absent /\ Live(tag) # {c}
    /\ edits < MaxEdits /\ edits' = edits + 1
    /\ tag' = [tag EXCEPT ![c] = Absent]
    /\ passing' = passing \ {c}
    /\ InvalidateDecisions /\ UNCHANGED registry

\* criteria-apply: all operations in one commit; the tags end their tombstones.
CriteriaApply(tags, respecified) ==
    /\ edits < MaxEdits /\ edits' = edits + 1
    /\ Live(tags) # {}
    /\ tag' = tags
    /\ passing' = {c \in passing \ respecified : tags[c] = tag[c]}
    /\ items' = Synced(tags)
    /\ removed' = removed \ Tagged(tags)
    /\ InvalidateDecisions
    /\ UNCHANGED <<optional, explicit, active, tranche>>

\* verify judges a criterion in any phase; the deployment approval stands only
\* with the review, while everything checked again passes (_retain_or_invalidate).
Verify(c, ok) ==
    /\ tag[c] # Absent
    /\ passing' = IF ok THEN passing \cup {c} ELSE passing \ {c}
    /\ deployed' = FALSE \/ (ok /\ UNCHANGED deployed)
    /\ UNCHANGED <<registry, tag, phase, review, approval, edits>>

-----------------------------------------------------------------------------
\* The part of work-items-sync about decisions bound to another scope.
Bound == (IF review = Nothing THEN {} ELSE {review.scope}) \cup ({approval} \ {Nothing})
Rescoped(before, after) == before # after \/ \E scope \in Bound : scope # after

RevisitDecisions(before, after) ==
    IF Rescoped(before, after)
    THEN /\ review' = Nothing /\ approval' = Nothing
         /\ phase' = IF phase >= 3 THEN 2 ELSE phase
         /\ UNCHANGED deployed
    ELSE UNCHANGED decisions

WorkItemsSync(named) ==
    /\ LET derived == Derived(tag, named)
           kept    == IF named # {} THEN derived
                      ELSE derived \ Unwanted(tag, Listed(items) \cup derived)
       IN  items' = items \o Sorted(kept \ Listed(items))
    /\ removed' = removed \ named
    /\ deployed => Scope(items', tag) = Scope(items, tag)
    /\ RevisitDecisions(Scope(items, tag), Scope(items', tag))
    /\ UNCHANGED <<optional, explicit, tag, passing, active, tranche, edits>>

\* work-item-update --required or --optional; neither is part of the scope.
WorkItemUpdate(i, required) ==
    /\ i \in Listed(items)
    /\ optional' = IF required THEN optional \ {i} ELSE optional \cup {i}
    /\ UNCHANGED <<items, removed, explicit, active, tranche, tag, passing, edits, decisions>>

\* commit takes no empty registry (validate_acceptance_schema).
WorkItemRemove(i) ==
    /\ i \in Listed(items) /\ Mapped(items, tag, i) = {}
    /\ \E k \in DOMAIN items : items[k] = i /\ items' = SubSeq(items, 1, k - 1) \o SubSeq(items, k + 1, Len(items))
    /\ items' # <<>>
    /\ optional' = optional \ {i}
    /\ removed' = removed \cup {i}
    /\ deployed \/ Scope(items', tag) = Scope(items, tag)
    /\ UNCHANGED <<explicit, active, tranche, tag, passing, edits, decisions>>

\* In an approved tranche the first required row that is not done goes next.  A
\* run-wide state (blocked, in review, ...) hides that an item is done, and the
\* row of unattributed criteria is one nobody can activate.
InOrder(i, hidden) ==
    LET open == {k \in DOMAIN items : items[k] \notin optional /\ (hidden \/ ~Done(items[k]))}
    IN  IF open # {} THEN \E k \in open : items[k] = i /\ \A j \in open : k <= j
        ELSE Unattributed \subseteq (IF hidden THEN {} ELSE passing)

WorkItemActivate(i, hidden) ==
    /\ i \in Listed(items)
    /\ tranche # Nothing => InOrder(i, hidden)
    /\ active' = i
    /\ UNCHANGED <<items, optional, removed, explicit, tranche, tag, passing, edits, decisions>>

\* The Pilot keeps part of the proposal, in an order of theirs.
Orders == UNION {{o \in [1 .. n -> Listed(Proposed)] : Cardinality(Listed(o)) = n} :
                 n \in 1 .. Len(Proposed)}

TrancheApprove(order) ==
    /\ phase = 1
    /\ items' = order /\ optional' = {}
    /\ tranche' = order /\ active' = order[1]
    /\ UNCHANGED <<removed, explicit, tag, passing, edits, decisions>>

-----------------------------------------------------------------------------
\* record-design-review; requested changes revoke an approval that came early.
RecordDesignReview(approved) ==
    /\ phase = 2
    /\ review' = [scope |-> Scope(items, tag), approved |-> approved]
    /\ approval' = IF approved THEN approval ELSE Nothing
    /\ UNCHANGED <<registry, tag, passing, edits, phase, deployed>>

\* design-approve, in any phase: every required item has criteria.
DesignApprove ==
    /\ \A i \in Listed(items) \ optional : Mapped(items, tag, i) # {}
    /\ approval' = Scope(items, tag)
    /\ UNCHANGED <<registry, tag, passing, edits, phase, review, deployed>>

\* The Pilot sends a reviewed design back.
DesignReject ==
    /\ phase = 2 /\ review # Nothing /\ review.approved /\ approval = Nothing
    /\ review' = Nothing
    /\ UNCHANGED <<registry, tag, passing, edits, phase, approval, deployed>>

Advance ==
    /\ phase < 3 /\ phase' = phase + 1
    /\ Live(tag) # {}
    /\ phase = 2 => DesignCurrent
    /\ UNCHANGED <<registry, tag, passing, edits, review, approval, deployed>>

\* deployment-gate --approve, and --revoke.
DeploymentApprove ==
    /\ phase = 3 /\ ~deployed /\ DesignCurrent /\ passing = Live(tag)
    /\ deployed' = TRUE
    /\ UNCHANGED <<registry, tag, passing, edits, phase, review, approval>>

DeploymentRevoke ==
    /\ phase = 3 /\ deployed /\ deployed' = FALSE
    /\ UNCHANGED <<registry, tag, passing, edits, phase, review, approval>>

-----------------------------------------------------------------------------
Next ==
    \/ \E c \in Criteria : CriterionRemove(c) \/ \E ok \in BOOLEAN : Verify(c, ok)
    \/ \E c \in Criteria, t \in Items \cup {Untagged} : CriterionAdd(c, t) \/ CriterionUpdate(c, t)
    \/ \E tags \in [Criteria -> Items \cup {Untagged, Absent}], respecified \in SUBSET Criteria :
          CriteriaApply(tags, respecified)
    \/ \E named \in SUBSET Items : WorkItemsSync(named)
    \/ \E i \in Items, yes \in BOOLEAN : WorkItemUpdate(i, yes) \/ WorkItemActivate(i, yes)
    \/ \E i \in Items : WorkItemRemove(i)
    \/ \E order \in Orders : TrancheApprove(order)
    \/ \E approved \in BOOLEAN : RecordDesignReview(approved)
    \/ DesignApprove \/ DesignReject \/ Advance \/ DeploymentApprove \/ DeploymentRevoke

Spec == Init /\ [][Next]_vars

-----------------------------------------------------------------------------
TypeOK ==
    /\ items \in Seq(Items) /\ Cardinality(Listed(items)) = Len(items) /\ items # <<>>
    /\ optional \subseteq Listed(items) /\ removed \subseteq Items /\ explicit \in BOOLEAN
    /\ tag \in [Criteria -> Items \cup {Untagged, Absent}] /\ passing \subseteq Live(tag)
    /\ active \in Items \cup {Nothing}
    /\ tranche = Nothing \/ tranche \in Seq(Items)
    /\ phase \in 1 .. 3 /\ edits \in 0 .. MaxEdits /\ deployed \in BOOLEAN
    /\ review = Nothing \/ review \in [scope : SUBSET Items, approved : BOOLEAN]
    /\ approval = Nothing \/ approval \in SUBSET Items

\* What a step of RemovedStaysRemoved is.
RemovedStays ==
    \A i \in removed \ Listed(items) : i \in Listed(items') =>
        i \in Tagged(tag') \/ i \notin removed' \/ items' = tranche'

\* An item somebody removed comes back only because a criterion is tagged with
\* it, because it was named and the tombstone went with that, or in a tranche:
\* no other edit lets the feature title bring it back (#141).
RemovedStaysRemoved == [][RemovedStays]_vars

\* Beyond Phase 2 the design review and the approval are about the items that
\* carry criteria now, whatever was added, removed, retagged or made optional
\* since.
ScopeStaysDecided == phase = 3 => DesignCurrent

\* The same, except where every item was optional and without criteria when the
\* design was decided, and the removal of one after deployment approval left a
\* registry of one item, which untagged criteria belong to.
LastOneLeft    == Len(items) = 1 /\ removed # {} /\ review # Nothing /\ review.scope = {}
ScopeIsDecided == ScopeStaysDecided \/ LastOneLeft

\* Within an approved tranche an item becomes active only after those the Pilot
\* put before it, of the ones still in the registry, are done.
ActivatedInApprovedOrder ==
    [][tranche # Nothing /\ active' # active =>
           \A k \in DOMAIN tranche : active' = tranche[k] /\ tranche' = tranche =>
               \A j \in 1 .. k - 1 : tranche[j] \in Listed(items) => Done(tranche[j])]_vars
=============================================================================
