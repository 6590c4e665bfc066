------------------------------ MODULE Recovery ------------------------------
(***************************************************************************)
(* The managed sessions of one role, and what becomes of a lost one.       *)
(*                                                                         *)
(* A host process (handsoff_agent.execute_with_recovery) creates a session *)
(* on record, starts a child, records its end and, when it failed, replaces*)
(* it with a fallback.  Beside it the watchdog (lib.recover_run) looks for *)
(* a session that failed or fell silent, reserves an attempt under a lease,*)
(* lets the project lock go while it runs a host of its own, and settles   *)
(* the attempt afterwards.  Hosts, watchdogs, run-close and the Pilot hold *)
(* the project lock one at a time and share the status file; a host may be *)
(* killed between any two sections, and its child survives it.             *)
(*                                                                         *)
(* Sessions are numbered as they are created, so role_session_ids, "the    *)
(* live pointer, else the latest terminal session that no later launch     *)
(* superseded", is the pointer or the last number.                         *)
(***************************************************************************)
EXTENDS Integers, Sequences, SequencesExt

CONSTANTS
  Hosts,              \* processes that launch, recover or both
  MaxFailovers,       \* fallbacks in one host: max_failovers_per_role, or as many as are configured
  MaxAttempts,        \* [recovery].max_attempts
  LifetimeAttempts,   \* MAX_RECOVERY_ATTEMPTS, what the status schema admits
  MaxLaunches,        \* bound: launches by a person
  MaxTroubles,        \* bound: failures, kills, slow hosts and slow recoveries
  MaxClosures         \* bound: closures of the run and changes of its phase

ASSUME RecoveryAssumption ==
  /\ Hosts # {}
  /\ {MaxFailovers, MaxAttempts, LifetimeAttempts, MaxLaunches, MaxTroubles, MaxClosures} \subseteq Nat

LiveStates == {"launching", "running"}
TerminalStates == {"completed", "failed", "failed_to_start", "cancelled"}

\* One session on record.  `ran` is whether running_at is there.  `failure` is
\* its entry in agent_failures: of a category that may be replaced, or of one
\* that needs a person.  `waived` is acknowledged, adopted or authorised for one
\* retry; `retried` and `excused` are the events recovery_auto_confirmed and
\* recovery_acknowledged of it.  `replaces` and `replacement` are its record in
\* agent_replacements.  `unasked` is history: it was presumed lost for a reason
\* that does not ask whether its process exists.
Session == [state: LiveStates \cup TerminalStates, ran: BOOLEAN, failure: {"none", "recoverable", "other"},
            waived: BOOLEAN, retried: BOOLEAN, excused: BOOLEAN, unasked: BOOLEAN, replaces: Nat,
            replacement: {"none", "reserved", "claimed", "running", "recovered", "failed"}]
Attempt == [from: Nat, to: Nat, state: {"reserved", "recovered", "failed"}]

VARIABLES
  session,    \* agent_sessions, agent_failures and agent_replacements, by number
  current,    \* current_agent_sessions of the role, 0 when there is none
  attempts,   \* recovery_attempts
  lease,      \* recovery_lease: "none", "held" or "expired", always of the last attempt
  run,        \* run_closed, an escalation that blocks the run, and the run's phase: the one
              \* the role's last session was launched in, another of the same role, or
              \* another role's
  child,      \* the operating system's view of each session's child
  host,       \* what each host process is about to do
  spent       \* how much of each bound is used

vars == <<session, current, attempts, lease, run, child, host, spent>>
record == <<session, current>>
recovery == <<attempts, lease>>

Idle == [pc |-> "idle", session |-> 0, attempt |-> 0, ok |-> FALSE]

\* Variants with a plausible bug stand before the definition they alter and
\* are used nowhere.
NewSession(from) == [state |-> "launching", ran |-> FALSE, failure |-> "none", waived |-> FALSE, retried |-> FALSE,
                     excused |-> FALSE, unasked |-> FALSE, replaces |-> from,
                     replacement |-> IF from = 0 THEN "none" ELSE "reserved"]

Init ==
    /\ session = <<>> /\ current = 0
    /\ attempts = <<>> /\ lease = "none"
    /\ run = [open |-> TRUE, escalated |-> FALSE, phase |-> "own"]
    /\ child = <<>>
    /\ host = [h \in Hosts |-> Idle]
    /\ spent = [launches |-> 0, troubles |-> 0, closures |-> 0, moves |-> 0]

Sessions == DOMAIN session
Live(i) == session[i].state \in LiveStates
RoleSession == IF current # 0 THEN current ELSE Len(session)
\* The live beacon exists from the start of the child, and is fresh while the
\* host that started the child is there to refresh it.
HasHost(i) == \E h \in Hosts : host[h].session = i /\ host[h].pc \in {"mark", "running"}

Trouble == spent.troubles < MaxTroubles /\ spent' = [spent EXCEPT !.troubles = @ + 1]

-----------------------------------------------------------------------------
(* One session: create_agent_session, transition_agent_session. *)

\* A host that ends gives its result to recover_run, if that called it.
Left(h, ok) == IF host[h].attempt = 0 THEN Idle ELSE [host[h] EXCEPT !.pc = "settle", !.ok = ok]
Leave(h, ok) == host' = [host EXCEPT ![h] = Left(h, ok)]
At(h, pc) == host[h].pc = pc
Goes(h, pc) == host' = [host EXCEPT ![h].pc = pc]

\* Only the current session moves, along its life cycle, and a replacement
\* only in step with the record of its reservation.
Allowed(i, state) ==
    /\ current = i
    /\ CASE session[i].state = "launching" -> state \in {"running", "failed_to_start"}
         [] session[i].state = "running" -> state \in {"completed", "failed", "cancelled"}
         [] OTHER -> FALSE
    /\ session[i].replacement \in
          {"none", IF session[i].state = "launching" THEN "claimed" ELSE "running"}

Transition(i, state, failure) ==
    /\ session' = [session EXCEPT
          ![i].state = state, ![i].failure = failure, ![i].ran = @ \/ state = "running",
          ![i].replacement = IF @ = "none" THEN @
                             ELSE CASE state = "running" -> "running"
                                    [] state = "completed" -> "recovered"
                                    [] OTHER -> "failed"]
    /\ current' = IF state = "running" THEN current ELSE 0

\* A person launches the role.
Launch(h) ==
    /\ At(h, "idle") /\ spent.launches < MaxLaunches
    /\ Goes(h, "create")
    /\ spent' = [spent EXCEPT !.launches = @ + 1]
    /\ UNCHANGED <<record, recovery, run, child>>

MayCreate == current = 0 \/ ~Live(current)

CreateSession(h) ==
    /\ At(h, "create")
    /\ IF MayCreate
       THEN /\ session' = Append(session, NewSession(0))
            /\ child' = Append(child, "none")
            /\ current' = Len(session')
            /\ host' = [host EXCEPT ![h].pc = "spawn", ![h].session = Len(session')]
            /\ run' = [run EXCEPT !.phase = "own"]
       ELSE Leave(h, FALSE) /\ UNCHANGED <<record, run, child>>
    /\ UNCHANGED <<recovery, spent>>

Spawn(h) ==
    /\ At(h, "spawn")
    /\ child' = [child EXCEPT ![host[h].session] = "alive"]
    /\ Goes(h, "mark")
    /\ UNCHANGED <<record, recovery, run, spent>>

\* The executable cannot be started.
SpawnFails(h) ==
    /\ At(h, "spawn") /\ Trouble
    /\ LET i == host[h].session IN
         IF Allowed(i, "failed_to_start")
         THEN Transition(i, "failed_to_start", "recoverable") /\ Goes(h, "reserve")
         ELSE Leave(h, FALSE) /\ UNCHANGED record
    /\ UNCHANGED <<recovery, run, child>>

\* A child whose session has moved on meanwhile is stopped.
MarkRunning(h) ==
    /\ At(h, "mark")
    /\ LET i == host[h].session IN
         IF Allowed(i, "running")
         THEN Transition(i, "running", "none") /\ Goes(h, "running") /\ UNCHANGED child
         ELSE /\ Leave(h, FALSE)
              /\ child' = [child EXCEPT ![i] = "gone"]
              /\ UNCHANGED record
    /\ UNCHANGED <<recovery, run, spent>>

\* The child finishes, is stopped at its timeout or dies.
ChildEnds(i) ==
    /\ child[i] = "alive"
    /\ child' = [child EXCEPT ![i] = "gone"]
    /\ UNCHANGED <<record, recovery, run, host, spent>>

Completes(h) ==
    /\ At(h, "running") /\ child[host[h].session] = "gone"
    /\ LET i == host[h].session IN
         IF Allowed(i, "completed")
         THEN Transition(i, "completed", "none") /\ Leave(h, TRUE)
         ELSE Leave(h, FALSE) /\ UNCHANGED record
    /\ UNCHANGED <<recovery, run, child, spent>>

\* classify_runtime_failure: what the child left decides whether another may
\* take over.  A refused transition is not a failed launch, so it ends the host.
Fails(h) ==
    /\ At(h, "running") /\ child[host[h].session] = "gone" /\ Trouble
    /\ LET i == host[h].session IN
         \E failure \in {"recoverable", "other"} :
           IF Allowed(i, "failed")
           THEN Transition(i, "failed", failure) /\ Goes(h, "reserve")
           ELSE Leave(h, FALSE) /\ UNCHANGED record
    /\ UNCHANGED <<recovery, run, child>>

-----------------------------------------------------------------------------
(* The replacement of a failed session within its host. *)

\* _replacement_chain: how many replacements led to session i.
Failovers(i) ==
    LET count[j \in 0..Len(session)] ==
          IF j = 0 \/ session[j].replaces = 0 THEN 0 ELSE 1 + count[session[j].replaces]
    IN  count[i]

\* A variant: the reservation does not compare the current session.
StillTheRolesAlways(i) == TRUE

StillTheRoles(i) == RoleSession = i

\* reserve_agent_replacement: a fallback is put on record, or the run waits
\* for a person (and the host ends), or somebody was faster.
Reserve(h) ==
    /\ At(h, "reserve")
    /\ LET i == host[h].session IN
         IF /\ StillTheRoles(i)
            /\ ~Live(i)
            /\ session[i].failure = "recoverable"
            /\ Failovers(i) < MaxFailovers
         THEN /\ session' = Append(session, NewSession(i))
              /\ child' = Append(child, "none")
              /\ current' = Len(session')
              /\ host' = [host EXCEPT ![h].pc = "claim", ![h].session = Len(session')]
              /\ run' = [run EXCEPT !.phase = "own"]
         ELSE Leave(h, FALSE) /\ UNCHANGED <<record, run, child>>
    /\ UNCHANGED <<recovery, spent>>

\* claim_precreated_agent_session.
Claim(h) ==
    /\ At(h, "claim")
    /\ LET i == host[h].session IN
         IF current = i /\ session[i].state = "launching" /\ session[i].replacement = "reserved"
         THEN session' = [session EXCEPT ![i].replacement = "claimed"] /\ Goes(h, "spawn")
         ELSE Leave(h, FALSE) /\ UNCHANGED session
    /\ UNCHANGED <<current, recovery, run, child, spent>>

-----------------------------------------------------------------------------
(* The watchdog. *)

\* A variant: a silent session is lost although its process exists.
SilentThoughAlive(i, unasked) == TRUE

\* A live session falls silent: nothing refreshes its liveness, and the beacon
\* names no process that exists.  The beacon is not asked about a session of
\* another phase, one that was acknowledged, or one of a role with a
\* protocol_silence_minutes, which any role may have.
Silent(i, unasked) == child[i] # "alive" \/ unasked

\* recovery_assessment names the session to recover, or none.  One of another
\* phase or an acknowledged one is no candidate, but while it lives, in a phase
\* of its own role, it is looked at after all.
LostSession(unasked) ==
    LET i == RoleSession IN
      IF \/ i = 0
         \/ run.escalated
         \/ \E k \in DOMAIN attempts : attempts[k].state = "reserved"
         \/ session[i].failure = "other" /\ ~session[i].waived
         \/ run.phase = "other"
         \/ ~Live(i) /\ (run.phase = "again" \/ session[i].excused)
         \/ session[i].state \in {"completed", "cancelled"}
         \/ Live(i) /\ ~Silent(i, unasked)
      THEN 0 ELSE i

\* _recovery_episode_attempts: the attempts that led, one from the session
\* the other was launched for, to the lost session.
Episode(lost) ==
    LET step(attempt, chain) ==
          IF chain.broken THEN chain
          ELSE IF chain.cursor \in {attempt.to, attempt.from}
               THEN [cursor |-> attempt.from, length |-> chain.length + 1, broken |-> FALSE]
               ELSE [chain EXCEPT !.broken = chain.length > 0]
    IN  FoldRight(step, attempts, [cursor |-> lost, length |-> 0, broken |-> FALSE]).length

\* A variant: the lease goes and its attempt stays under way.
ExpiredLeaseOnly(list) == list

\* An expired lease is closed first, and its attempt with it.
Expired(list) ==
    IF lease = "expired"
    THEN [list EXCEPT ![Len(list)].state = IF @ = "reserved" THEN "failed" ELSE @]
    ELSE list

ExpireLease ==
    /\ lease = "expired"
    /\ attempts' = Expired(attempts) /\ lease' = "none"
    /\ UNCHANGED <<record, run, child, host, spent>>

\* A variant: the presumed-lost session stays the role's current one.
PresumedLostButCurrent(i, unasked) ==
    /\ session' = IF Live(i) THEN [session EXCEPT ![i].state = "failed", ![i].failure = "recoverable", ![i].unasked = unasked]
                  ELSE session
    /\ UNCHANGED current

\* A silent session is presumed lost: it is superseded, its child not signalled,
\* and a replacement's own record is left as it was.
PresumedLost(i, unasked) ==
    /\ session' = IF Live(i) THEN [session EXCEPT ![i].state = "failed", ![i].failure = "recoverable", ![i].unasked = unasked]
                  ELSE session
    /\ current' = IF current = i THEN 0 ELSE current

\* A session whose host is only slow, not gone, or whose child is only quiet.
NotLost(i) == Live(i) /\ (child[i] = "alive" \/ \E g \in Hosts : host[g].session = i /\ ~At(g, "idle"))

\* recover_run up to the launch.  A session that is not lost is found silent at
\* most MaxTroubles times.
Recover(h, unasked) ==
    /\ At(h, "idle") /\ lease # "expired"
    /\ LET i == LostSession(unasked) IN
         /\ i # 0
         /\ unasked => Live(i) /\ child[i] = "alive"
         /\ IF NotLost(i) THEN Trouble ELSE UNCHANGED spent
         /\ \/ /\ Episode(i) >= MaxAttempts
               /\ run' = [run EXCEPT !.escalated = TRUE]
               /\ UNCHANGED <<record, recovery, host>>
            \/ /\ Episode(i) < MaxAttempts
               /\ Len(attempts) < LifetimeAttempts
               /\ PresumedLost(i, unasked)
               /\ attempts' = Append(attempts, [from |-> i, to |-> 0, state |-> "reserved"])
               /\ lease' = "held"
               /\ host' = [host EXCEPT ![h] = [Idle EXCEPT !.pc = "create", !.attempt = Len(attempts')]]
               /\ UNCHANGED run
    /\ UNCHANGED child

\* A variant: the attempt is settled and its lease forgotten.
LeaseAfterKept == lease

LeaseAfter == "none"

\* recover_run after the launch: the attempt must still be this one's to end.
Settle(h) ==
    /\ At(h, "settle")
    /\ LET k == host[h].attempt IN
         IF attempts[k].state = "reserved"
         THEN /\ attempts' = [attempts EXCEPT
                   ![k].to = IF RoleSession # @ /\ RoleSession # attempts[k].from THEN RoleSession ELSE 0,
                   ![k].state = IF host[h].ok THEN "recovered" ELSE "failed"]
              /\ lease' = LeaseAfter
         ELSE UNCHANGED recovery
    /\ host' = [host EXCEPT ![h] = Idle]
    /\ UNCHANGED <<record, run, child, spent>>

\* The lease is never renewed.  While its holder is at work the expiry is
\* trouble; afterwards it is only a matter of time.
LeaseExpires ==
    /\ lease = "held"
    /\ lease' = "expired"
    /\ IF \E h \in Hosts : host[h].attempt = Len(attempts) /\ ~At(h, "idle") THEN Trouble ELSE UNCHANGED spent
    /\ UNCHANGED <<record, attempts, run, child, host>>

\* reconcile_gone_sessions, on any reading of the status: the recorded child
\* is gone and so is the host that would have said so.
Reconcile ==
    /\ current # 0 /\ child[current] = "gone" /\ ~HasHost(current)
    /\ LET state == IF session[current].state = "running" THEN "failed" ELSE "failed_to_start" IN
         Allowed(current, state) /\ Transition(current, state, "recoverable")
    /\ UNCHANGED <<recovery, run, child, host, spent>>

-----------------------------------------------------------------------------
(* People. *)

\* recovery-acknowledge of an exhausted recovery: the session at the end of
\* its chain is not recovered again.
AcknowledgeEscalation ==
    /\ run.escalated
    /\ LET last == attempts[Len(attempts)]
           i == IF last.to # 0 THEN last.to ELSE last.from IN
         session' = IF attempts = <<>> THEN session ELSE [session EXCEPT ![i].excused = TRUE]
    /\ run' = [run EXCEPT !.escalated = FALSE]
    /\ UNCHANGED <<current, recovery, child, host, spent>>

\* The assessment reports a failure that only a person can wave through.
NeedsPerson ==
    LET i == RoleSession IN
    /\ i # 0 /\ ~run.escalated
    /\ \A k \in DOMAIN attempts : attempts[k].state # "reserved"
    /\ session[i].failure = "other" /\ ~session[i].waived

AcknowledgeFailure ==
    /\ NeedsPerson
    /\ session' = [session EXCEPT ![RoleSession].waived = TRUE, ![RoleSession].excused = TRUE]
    /\ UNCHANGED <<current, recovery, run, child, host, spent>>

\* recover --auto: one retry of a session, once.
AutoRetry ==
    /\ NeedsPerson /\ ~session[RoleSession].retried
    /\ session' = [session EXCEPT ![RoleSession].waived = TRUE, ![RoleSession].retried = TRUE]
    /\ UNCHANGED <<current, recovery, run, child, host, spent>>

\* close_run: a live session is stopped if its process can be proved by a fresh
\* beacon, or never existed.  The attempt under way is left as it is.  A
\* replacement's record is changed without its handoff, which the schema
\* refuses: the child is dead and the run stays open.
CloseRun ==
    /\ run.open /\ spent.closures + spent.moves < MaxClosures
    /\ spent' = [spent EXCEPT !.closures = @ + 1]
    /\ IF current = 0
       THEN run' = [run EXCEPT !.open = FALSE] /\ lease' = "none" /\ UNCHANGED <<record, child>>
       ELSE /\ child[current] = "none" \/ HasHost(current)
            /\ child' = [child EXCEPT ![current] = IF @ = "alive" THEN "gone" ELSE @]
            /\ IF session[current].replacement \in {"claimed", "running"}
               THEN UNCHANGED <<record, lease, run>>
               ELSE /\ session' = [session EXCEPT ![current].state =
                             IF @ = "launching" THEN "failed_to_start" ELSE "cancelled"]
                    /\ current' = 0
                    /\ run' = [run EXCEPT !.open = FALSE]
                    /\ lease' = "none"
    /\ UNCHANGED <<attempts, host>>

ReopenRun ==
    /\ ~run.open
    /\ run' = [run EXCEPT !.open = TRUE]
    /\ UNCHANGED <<record, recovery, child, host, spent>>

\* advance and its rollbacks: the phase is another one, or the session's again.
PhaseMoves ==
    /\ session # <<>> /\ spent.closures + spent.moves < MaxClosures
    /\ spent' = [spent EXCEPT !.moves = @ + 1]
    /\ \E phase \in {"own", "again", "other"} \ {run.phase} : run' = [run EXCEPT !.phase = phase]
    /\ UNCHANGED <<record, recovery, child, host>>

\* A host process is killed.  Its child, in a session of its own, lives on.
KillHost(h) ==
    /\ ~At(h, "idle") /\ Trouble
    /\ host' = [host EXCEPT ![h] = Idle]
    /\ UNCHANGED <<record, recovery, run, child>>

-----------------------------------------------------------------------------
HostStep(h) ==
    \/ CreateSession(h) \/ Spawn(h) \/ SpawnFails(h) \/ MarkRunning(h)
    \/ Completes(h) \/ Fails(h) \/ Reserve(h) \/ Claim(h) \/ Settle(h)

Next ==
    \/ \E h \in Hosts : Launch(h) \/ HostStep(h) \/ KillHost(h) \/ \E unasked \in BOOLEAN : Recover(h, unasked)
    \/ \E i \in Sessions : ChildEnds(i)
    \/ ExpireLease \/ LeaseExpires \/ Reconcile
    \/ AcknowledgeEscalation \/ AcknowledgeFailure \/ AutoRetry \/ CloseRun \/ ReopenRun
    \/ PhaseMoves

Spec == Init /\ [][Next]_vars

\* A watchdog acts on a session that is lost.
Watchdog == LostSession(FALSE) # 0 /\ ~NotLost(LostSession(FALSE)) /\ \E h \in Hosts : Recover(h, FALSE)

\* A host goes on until it ends or is killed, time passes, and somebody keeps
\* watching the run.
FairSpec ==
    /\ Spec
    /\ \A h \in Hosts : WF_vars(HostStep(h))
    /\ WF_vars(Watchdog)
    /\ WF_vars(LeaseExpires) /\ WF_vars(ExpireLease)

-----------------------------------------------------------------------------
(* What should be true. *)

TypeOK ==
    /\ session \in Seq(Session) /\ child \in [Sessions -> {"none", "alive", "gone"}]
    /\ current \in 0..Len(session)
    /\ \A i \in Sessions : session[i].replaces < i
    /\ attempts \in Seq(Attempt) /\ lease \in {"none", "held", "expired"}
    /\ run \in [open: BOOLEAN, escalated: BOOLEAN, phase: {"own", "again", "other"}]
    /\ host \in [Hosts -> [pc: {"idle", "create", "spawn", "mark", "running", "reserve", "claim", "settle"},
                           session: 0..Len(session), attempt: 0..Len(attempts), ok: BOOLEAN]]
    /\ spent \in [launches: 0..MaxLaunches, troubles: 0..MaxTroubles, closures: 0..MaxClosures, moves: 0..MaxClosures]

\* HAZARD: the pointer and the session are changed by hosts, watchdogs,
\* reconciliation and run-close, each from its own reading of the status.  The
\* role's pointer names a live session, and no live session is without it.
PointerIsLive == \A i \in Sessions : Live(i) <=> current = i

\* HAZARD: the recovery launcher runs outside the lock.  What every command
\* is about to commit passes validate_status_schema: a lease is of the last
\* attempt, which is under way, and no other attempt is.  Otherwise the command
\* would be refused and its work lost.
CommitsAreValid ==
    /\ lease # "none" => attempts # <<>> /\ attempts[Len(attempts)].state = "reserved"
    /\ \A k \in DOMAIN attempts : attempts[k].state = "reserved" => k = Len(attempts)

\* HAZARD: a watchdog that presumes a worker lost while it works.  A worker whose
\* start was recorded is at work beside a later one only if it was presumed lost
\* for a reason that does not ask the beacon: its phase, an acknowledgement, or the
\* protocol limit of its role.
OneWorker ==
    \A i, j \in Sessions :
        (session[i].ran /\ child[i] = "alive" /\ session[j].ran /\ child[j] = "alive" /\ i < j)
          => session[i].unasked

\* REFERENCE.md: a live process is never presumed lost.
AliveIsNeverLost ==
    [][\A i \in Sessions : Live(i) /\ session[i].ran /\ child[i] = "alive" => ~session'[i].unasked]_vars

\* HAZARD: a late host or a second watchdog records over what was concluded.
\* An ended session keeps its state and its failure, and is replaced at most once.
EndedStays ==
    [][\A i \in Sessions : ~Live(i) =>
          /\ session'[i].state = session[i].state /\ session'[i].failure = session[i].failure
          /\ \A j \in DOMAIN session' : session'[j].replaces = i =>
                j \in Sessions \/ i = RoleSession]_vars

\* An attempt that run-close took the lease from and that no host will settle.
Orphaned ==
    /\ lease = "none" /\ spent.closures > 0
    /\ \E k \in DOMAIN attempts :
          attempts[k].state = "reserved" /\ \A h \in Hosts : host[h].attempt # k

\* Nothing the run still waits for is lost, or a person has been asked.  What an
\* earlier phase left behind is not recovered.
Resolved ==
    LET i == RoleSession IN
    \/ i = 0 \/ run.escalated \/ NeedsPerson
    \/ run.phase = "other"
    \/ run.phase = "again" /\ ~Live(i)
    \/ session[i].state \in {"completed", "cancelled"} \/ session[i].excused
    \/ Live(i) /\ child[i] = "alive"

\* HAZARD: a lost worker must not leave its role empty for ever.  It is
\* replaced, or the run asks for a person.
LostIsResolved == <>[](Resolved \/ Orphaned)

\* REFERENCE.md: max_attempts limits the cost of recovery, and exhaustion
\* requires an operator acknowledgement.  As long as every session has failed,
\* no person launched another and none excused one, there are no more attempts.
AttemptsAreLimited ==
    (spent.launches = 1 /\ \A i \in Sessions :
          ~Live(i) /\ session[i].state = "failed" /\ ~session[i].waived /\ ~session[i].excused)
      => Len(attempts) <= MaxAttempts

\* Closing and reopening a run does not switch its recovery off.
RecoverySurvivesClosure == <>[]Resolved

=============================================================================
