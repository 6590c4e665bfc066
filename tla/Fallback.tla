------------------------------ MODULE Fallback -------------------------------
(* Which profile replaces a session that failed: the chain of replacements   *)
(* behind it, the ordered fallback profiles of its role, the vendors, the    *)
(* cap, and for a reviewer the implementer it was bound to when it was first *)
(* launched.  The implementer and the reviewer are launched, fail, complete, *)
(* are found wanting in review rounds and are replaced in any order.         *)
(*                                                                           *)
(* The reservation's own protocol is module Recovery's; here it is one step. *)
(* Left out: invalid entries, contract adapters, denied models, required     *)
(* tiers, concurrent implementers, and pruning.                              *)
EXTENDS Naturals, Sequences, FiniteSets

CONSTANTS
    Profiles,       \* adapter and model
    Adapter,        \* Profiles -> their adapter
    Local,          \* the adapters that run on this machine
    Available,      \* the adapters found on the PATH
    Configured,     \* role -> its profile
    Fallbacks,      \* role -> the sequence of its fallback profiles
    Cap,            \* max_failovers_per_role
    Substitution,   \* model_policy.quota_substitution
    Rounds,         \* max_review_rounds
    Nothing,
    MaxSessions, MaxFindings    \* bounds

Roles == {"implementer", "reviewer"}
\* A category stands for those the planner treats alike.
Environment == {"runtime_environment"}
Recoverable == Environment \cup {"rate_limit", "non_zero_exit"}
Categories == Recoverable \cup {"cancelled"}

VARIABLES
    sessions,   \* agent_sessions, in the order they were made
    findings,   \* agent_quality_findings
    round       \* review_round

vars == <<sessions, findings, round>>

Ids == DOMAIN sessions
Session == [role : Roles, profile : Profiles, state : {"live", "failed", "completed"},
            category : Categories \cup {Nothing}, from : 0..MaxSessions,
            quality : BOOLEAN, binding : Profiles \cup {Nothing}]

TypeOK ==
    /\ sessions \in Seq(Session) /\ Len(sessions) <= MaxSessions
    /\ \A i \in Ids :
          /\ sessions[i].from < i
          /\ sessions[i].from # 0 => sessions[sessions[i].from].role = sessions[i].role
          /\ (sessions[i].state = "failed") = (sessions[i].category # Nothing)
          /\ (sessions[i].role = "reviewer") = (sessions[i].binding # Nothing)
    \* a role has one session at a time, and a session one replacement
    /\ \A i, j \in Ids : i < j /\ sessions[i].role = sessions[j].role => sessions[i].state # "live"
    /\ \A i, j \in Ids : i # j /\ sessions[i].from = sessions[j].from => sessions[i].from = 0
    /\ findings \subseteq [of : Ids, round : 0..MaxFindings] /\ round \in 0..MaxFindings

Init == sessions = <<>> /\ findings = {} /\ round = 0

-----------------------------------------------------------------------------
Of(role) == {i \in Ids : sessions[i].role = role}
Latest(role) == CHOOSE i \in Of(role) : \A j \in Of(role) : j <= i

\* _implementer_binding: the latest implementer's session, else its
\* configuration.
ImplementerNow ==
    IF Of("implementer") = {} THEN Configured["implementer"]
    ELSE sessions[Latest("implementer")].profile

New(role, profile, from, quality, binding) ==
    Append(sessions, [role |-> role, profile |-> profile, state |-> "live", category |-> Nothing,
                      from |-> from, quality |-> quality, binding |-> binding])

\* A launch of its own: it starts a chain.
Launch(role) ==
    /\ Len(sessions) < MaxSessions
    /\ \A i \in Of(role) : sessions[i].state # "live"
    /\ sessions' = New(role, Configured[role], 0, FALSE,
                       IF role = "reviewer" THEN ImplementerNow ELSE Nothing)
    /\ UNCHANGED <<findings, round>>

\* classify_runtime_failure
Fail(i, category) ==
    /\ sessions[i].state = "live"
    /\ sessions' = [sessions EXCEPT ![i].state = "failed", ![i].category = category]
    /\ UNCHANGED <<findings, round>>

Complete(i) ==
    /\ sessions[i].state = "live"
    /\ sessions' = [sessions EXCEPT ![i].state = "completed"]
    /\ UNCHANGED <<findings, round>>

NextRound ==
    /\ round < MaxFindings /\ round' = round + 1
    /\ UNCHANGED <<sessions, findings>>

\* record_quality_finding: one per session and review round.
RecordFinding(i) ==
    LET finding == [of |-> i, round |-> round]
    IN /\ sessions[i].state = "completed" /\ i = Latest(sessions[i].role)
       /\ finding \notin findings /\ Cardinality(findings) < MaxFindings
       /\ findings' = findings \cup {finding}
       /\ UNCHANGED <<sessions, round>>

\* should_failover_for_quality: in that many different rounds.
EligibleAnyRound(i) == Cardinality({f \in findings : f.of = i}) >= Rounds
Eligible(i) == Cardinality({f \in findings : f.of = i /\ f.round > 0}) >= Rounds

\* _replacement_chain, from the failed session back to the first.
Chain[i \in Ids] == IF sessions[i].from = 0 THEN <<i>> ELSE <<i>> \o Chain[sessions[i].from]
Attempted(i) == {sessions[j].profile : j \in {Chain[i][n] : n \in DOMAIN Chain[i]}}
Failovers(i) == Len(Chain[i]) - 1

\* The adapter the planner compares with: the last of the identities it is
\* given, and the chain ends with its first session.
Previous(i) == Adapter[sessions[Chain[i][Len(Chain[i])]].profile]

\* The profiles plan_agent_fallback does not skip.
MayReplace(i, category, profile) ==
    LET leaves == Adapter[profile] # Previous(i)
        localExit == leaves /\ Previous(i) \in Local
    IN /\ category \notin Environment
       /\ leaves /\ ~localExit => category = "rate_limit" /\ Substitution
       /\ Adapter[profile] \in Available
       /\ profile \notin Attempted(i)
       /\ sessions[i].role = "reviewer" => profile # sessions[i].binding

Candidates(i, category) ==
    {n \in DOMAIN Fallbacks[sessions[i].role] :
        MayReplace(i, category, Fallbacks[sessions[i].role][n])}

\* The first of them, while the cap allows another.
Plan(i, category) ==
    IF category \notin Recoverable \/ Failovers(i) >= Cap \/ Candidates(i, category) = {} THEN Nothing
    ELSE Fallbacks[sessions[i].role][
            CHOOSE n \in Candidates(i, category) : \A k \in Candidates(i, category) : n <= k]

\* reserve_agent_replacement of the role's latest session: a failure, or a
\* completed session with an eligible finding.  A plan that selects nothing
\* records a Pilot pause, which changes no session.
BindingOf(i) == sessions[i].binding

Replace(i, quality) ==
    LET category == IF quality THEN "non_zero_exit" ELSE sessions[i].category
        profile == IF quality /\ ~Eligible(i) THEN Nothing ELSE Plan(i, category)
    IN /\ i = Latest(sessions[i].role)
       /\ IF quality THEN sessions[i].state = "completed" /\ (\E f \in findings : f.of = i)
          ELSE sessions[i].state = "failed"
       /\ profile # Nothing /\ Len(sessions) < MaxSessions
       /\ sessions' = New(sessions[i].role, profile, i, quality, BindingOf(i))
       /\ UNCHANGED <<findings, round>>

Next ==
    \/ \E role \in Roles : Launch(role)
    \/ \E i \in Ids :
          \/ \E category \in Categories : Fail(i, category)
          \/ Complete(i) \/ RecordFinding(i)
          \/ \E quality \in BOOLEAN : Replace(i, quality)
    \/ NextRound

Spec == Init /\ [][Next]_vars

-----------------------------------------------------------------------------
\* Whatever fails in whatever order, a chain of replacements never tries a
\* profile twice and stops at the cap; no reviewer in it is the implementer
\* the first one was bound to, though implementers were replaced since; and
\* nobody is replaced for quality before enough review rounds found fault.
FallbacksAreSound ==
    \A i \in Ids :
        LET chain == Chain[i]
            first == chain[Len(chain)]
        IN /\ Len(chain) <= Cap + 1
           /\ \A m, n \in DOMAIN chain : m # n => sessions[chain[m]].profile # sessions[chain[n]].profile
           /\ sessions[i].role = "reviewer" /\ i # first => sessions[i].profile # sessions[first].binding
           /\ sessions[i].quality =>
              Cardinality({f \in findings : f.of = sessions[i].from /\ f.round > 0}) >= Rounds

\* A replacement stays with the vendor of the session it replaces, but for a
\* rate limit under quota_substitution or a local model's failure.  The code
\* compares with the first session of the chain.
VendorIsKept ==
    \A i \in Ids : LET from == sessions[i].from IN
        from # 0 /\ Adapter[sessions[i].profile] # Adapter[sessions[from].profile] =>
        \/ Adapter[sessions[from].profile] \in Local
        \/ sessions[from].category = "rate_limit" /\ Substitution
=============================================================================
