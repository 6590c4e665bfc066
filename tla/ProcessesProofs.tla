---------------------------- MODULE ProcessesProofs ----------------------------
(* Machine-checked facts about the processes of a run, for any number of     *)
(* hosts, reviewers, implementers, profiles and servers and for any bounds.  *)
(*                                                                           *)
(* First Recovery alone: the records stay well formed, the role's pointer    *)
(* names its live session and no other is live, what is committed about      *)
(* attempts and their lease is valid, an ended session stays as it ended,    *)
(* and of two workers at work at once whose start was recorded, the earlier  *)
(* was presumed lost without asking for its process.                         *)
(* TypeOK, HostsKnow, PointerIsLive, PointerIsLast and CommitsAreValid       *)
(* together are inductive.  The first four carry each other: a host reads    *)
(* the session it believes in, a step moves only the session the pointer     *)
(* names, and nobody appends a session while the pointer names one.          *)
(*                                                                           *)
(* Then, part by part, the dashboard servers (BoardsInv), the workspaces     *)
(* (TreesInv), a reviewer's verdict (VerdictInv), the choice of a fallback   *)
(* (FallbackInv) and the clock (ClockInv), each invariant inductive for its  *)
(* own module; and at the end the processes together.                        *)
EXTENDS Processes, FiniteSetTheorems, SequenceTheorems, NaturalsInduction, WellFoundedInduction, TLAPS

\* Past its creation a host has a session, and a host about to settle has an attempt.
Working == {"spawn", "mark", "running", "reserve", "claim"}
HostsKnow ==
    \A h \in Hosts : /\ host[h].pc \in Working => host[h].session # 0
                     /\ host[h].pc = "settle" => host[h].attempt # 0

\* What the pointer names is the last session.
PointerIsLast == current # 0 => current = Len(session)

Inv == TypeOK /\ HostsKnow /\ PointerIsLive /\ PointerIsLast /\ CommitsAreValid

Pcs == {"idle", "create", "mark", "spawn", "running", "reserve", "claim", "settle"}
Host == [pc: Pcs, session: 0..Len(session), attempt: 0..Len(attempts), ok: BOOLEAN]

-----------------------------------------------------------------------------
(* What the records may become, one record at a time. *)

\* Session i becomes s.
Becomes(i, s) == session' = [session EXCEPT ![i] = s]

LEMMA Replaced ==
  ASSUME session \in Seq(Session), NEW i \in Sessions, NEW s \in Session, Becomes(i, s)
  PROVE  /\ session' \in Seq(Session) /\ Len(session') = Len(session) /\ Sessions' = Sessions
         /\ \A k \in Sessions : session'[k] = IF k = i THEN s ELSE session[k]
  BY DEF Becomes, Sessions

LEMMA Added ==
  ASSUME session \in Seq(Session), NEW s \in Session, session' = Append(session, s)
  PROVE  /\ session' \in Seq(Session) /\ Len(session') = Len(session) + 1
         /\ Sessions' = Sessions \cup {Len(session')}
         /\ \A k \in Sessions : session'[k] = session[k]
         /\ session'[Len(session')] = s
  BY DEF Sessions

LEMMA NewSessionType ==
  ASSUME NEW i \in Nat
  PROVE  NewSession(i) \in Session
  BY DEF NewSession, Session, LiveStates, TerminalStates

\* The session a transition leaves behind.
Moved(s, state, failure) ==
    [s EXCEPT !.state = state, !.failure = failure, !.ran = @ \/ state = "running",
              !.replacement = IF @ = "none" THEN @
                              ELSE CASE state = "running" -> "running"
                                     [] state = "completed" -> "recovered"
                                     [] OTHER -> "failed"]

LEMMA MovedType ==
  ASSUME NEW s \in Session, NEW state \in LiveStates \cup TerminalStates,
         NEW failure \in {"none", "recoverable", "other"}
  PROVE  /\ Moved(s, state, failure) \in Session
         /\ Moved(s, state, failure).state = state
         /\ Moved(s, state, failure).replaces = s.replaces
<1> DEFINE ran == s.ran \/ state = "running"
           replacement == IF s.replacement = "none" THEN s.replacement
                          ELSE CASE state = "running" -> "running"
                                 [] state = "completed" -> "recovered"
                                 [] OTHER -> "failed"
<1>1. ran \in BOOLEAN
  OBVIOUS
<1>2. replacement \in {"none", "reserved", "claimed", "running", "recovered", "failed"}
  BY DEF Session
<1>3. Moved(s, state, failure) = [s EXCEPT !.state = state, !.failure = failure, !.ran = ran,
                                           !.replacement = replacement]
  BY DEF Moved
<1> HIDE DEF ran, replacement
<1> QED BY <1>1, <1>2, <1>3 DEF Session

\* A transition moves one live session and leaves the pointer where it belongs.
LEMMA TransitionShape ==
  ASSUME TypeOK, NEW i \in Nat, NEW state \in LiveStates \cup TerminalStates,
         NEW failure \in {"none", "recoverable", "other"},
         Allowed(i, state), i # 0, Transition(i, state, failure)
  PROVE  /\ i \in Sessions /\ i = current /\ Live(i)
         /\ Becomes(i, Moved(session[i], state, failure))
         /\ state = "running" => current' = current
         /\ state # "running" => current' = 0 /\ state \in TerminalStates
<1>1. i = current /\ i \in Sessions
  BY DEF Allowed, TypeOK, Sessions
<1>2. Live(i) /\ state # "launching"
  BY DEF Allowed, Live, LiveStates
<1>3. Becomes(i, Moved(session[i], state, failure))
  BY <1>1 DEF Transition, Becomes, Moved, Sessions
<1> QED BY <1>1, <1>2, <1>3 DEF Transition, LiveStates

-----------------------------------------------------------------------------
(* The invariant in four parts, and what a step may do to each. *)

SessionsOK ==
    /\ session \in Seq(Session) /\ child \in [Sessions -> {"none", "alive", "gone"}]
    /\ current \in 0..Len(session)
    /\ \A i \in Sessions : session[i].replaces < i
    /\ PointerIsLive /\ PointerIsLast

AttemptsOK == attempts \in Seq(Attempt) /\ lease \in {"none", "held", "expired"} /\ CommitsAreValid
HostsOK == host \in [Hosts -> Host] /\ HostsKnow

CountsOK ==
    /\ run \in [open: BOOLEAN, escalated: BOOLEAN, phase: {"own", "again", "other"}]
    /\ spent \in [launches: 0..MaxLaunches, troubles: 0..MaxTroubles, closures: 0..MaxClosures,
                  moves: 0..MaxClosures]

LEMMA InvParts == Inv <=> SessionsOK /\ AttemptsOK /\ HostsOK /\ CountsOK
  BY DEF Inv, TypeOK, SessionsOK, AttemptsOK, HostsOK, CountsOK, Host, Pcs

\* What EndedStays says of one step.
Steady ==
    \A i \in Sessions : ~Live(i) =>
          /\ session'[i].state = session[i].state /\ session'[i].failure = session[i].failure
          /\ \A j \in DOMAIN session' : session'[j].replaces = i => j \in Sessions \/ i = RoleSession

\* A function on 1..n is a sequence of length n.
LEMMA ArrayIsSequence ==
  ASSUME NEW S, NEW n \in Nat, NEW f \in [1..n -> S]
  PROVE  f \in Seq(S) /\ Len(f) = n
<1>1. f \in Seq(S)
  BY SeqDef, Zenon
<1>2. Len(f) \in Nat /\ DOMAIN f = 1..Len(f)
  BY <1>1, LenProperties
<1>3. DOMAIN f = 1..n
  OBVIOUS
<1>4. Len(f) = n
  BY <1>2, <1>3, SMT
<1> QED BY <1>1, <1>4

LEMMA SessionsKept ==
  ASSUME SessionsOK, UNCHANGED record, child' \in [Sessions -> {"none", "alive", "gone"}]
  PROVE  SessionsOK' /\ Steady /\ Len(session') = Len(session)
  BY DEF SessionsOK, record, Steady, PointerIsLive, PointerIsLast, Live, Sessions

\* One session changes: the pointer's, or another in what does not end it.
LEMMA SessionMoved ==
  ASSUME SessionsOK, NEW i \in Sessions, NEW s \in Session, Becomes(i, s),
         s.replaces = session[i].replaces,
         \/ s.state = session[i].state /\ s.failure = session[i].failure /\ current' = current
         \/ Live(i) /\ current = i /\ current' = IF s.state \in LiveStates THEN i ELSE 0,
         child' \in [Sessions -> {"none", "alive", "gone"}]
  PROVE  SessionsOK' /\ Steady /\ Len(session') = Len(session)
<1>1. /\ session' \in Seq(Session) /\ Len(session') = Len(session) /\ Sessions' = Sessions
      /\ \A k \in Sessions : session'[k] = IF k = i THEN s ELSE session[k]
  BY Replaced DEF SessionsOK
<1>2. \A k \in Sessions : session'[k].replaces = session[k].replaces
  BY <1>1
<1>3. \A k \in Sessions : Live(k)' <=> IF k = i THEN s.state \in LiveStates ELSE Live(k)
  BY <1>1 DEF Live
<1>4. current' \in 0..Len(session')
  BY <1>1 DEF SessionsOK, Sessions
<1>5. PointerIsLive'
  BY <1>1, <1>3 DEF SessionsOK, PointerIsLive, Live, Sessions
<1>6. Steady
  BY <1>1, <1>2 DEF Steady, Sessions
<1>7. PointerIsLast'
  BY <1>1 DEF SessionsOK, PointerIsLast
<1> QED BY <1>1, <1>2, <1>4, <1>5, <1>6, <1>7 DEF SessionsOK

\* A session is added while the role has none.
LEMMA SessionAdded ==
  ASSUME SessionsOK, NEW i \in 0..Len(session), i = 0 \/ i = RoleSession, current = 0,
         session' = Append(session, NewSession(i)), child' = Append(child, "none"), current' = Len(session')
  PROVE  SessionsOK' /\ Steady /\ Len(session') = Len(session) + 1
<1>1. i \in Nat /\ NewSession(i) \in Session /\ NewSession(i).state \in LiveStates /\ NewSession(i).replaces = i
  BY NewSessionType DEF SessionsOK, NewSession, LiveStates
<1>2. /\ session' \in Seq(Session) /\ Len(session') = Len(session) + 1
      /\ Sessions' = Sessions \cup {Len(session')}
      /\ \A k \in Sessions : session'[k] = session[k]
      /\ session'[Len(session')] = NewSession(i)
  BY <1>1, Added DEF SessionsOK
<1>3. Sessions = 1..Len(session) /\ Len(session) \in Nat
  BY DEF SessionsOK, Sessions
<1>4. child' \in [Sessions' -> {"none", "alive", "gone"}]
  <2>1. child \in Seq({"none", "alive", "gone"}) /\ Len(child) = Len(session)
    <3>1. child \in [1..Len(session) -> {"none", "alive", "gone"}]
      BY <1>3 DEF SessionsOK
    <3> QED BY <1>3, <3>1, ArrayIsSequence
  <2>2. child' \in Seq({"none", "alive", "gone"}) /\ Len(child') = Len(session')
    BY <1>2, <2>1, AppendProperties
  <2>3. child' \in [1..Len(child') -> {"none", "alive", "gone"}]
    BY <2>2, LenProperties
  <2>4. Sessions' = 1..Len(session')
    BY <1>2 DEF Sessions
  <2> QED BY <2>2, <2>3, <2>4
<1>5. \A k \in Sessions : ~Live(k)
  BY <1>3 DEF SessionsOK, PointerIsLive
<1>6. PointerIsLive'
  BY <1>1, <1>2, <1>3, <1>5 DEF PointerIsLive, Live
<1>7. \A k \in Sessions' : session'[k].replaces < k
  BY <1>1, <1>2, <1>3 DEF SessionsOK
<1>8. Steady
  <2>1. ASSUME NEW j \in DOMAIN session' PROVE j \in Sessions \/ j = Len(session')
    BY <1>2 DEF Sessions
  <2>2. ASSUME NEW k \in Sessions, NEW j \in DOMAIN session', session'[j].replaces = k
        PROVE  j \in Sessions \/ k = RoleSession
    BY <1>1, <1>2, <1>3, <2>1, <2>2
  <2>3. \A k \in Sessions : session'[k] = session[k]
    BY <1>2
  <2> QED BY <2>2, <2>3, Zenon DEF Steady
<1>9. PointerIsLast'
  BY DEF PointerIsLast
<1> QED BY <1>2, <1>3, <1>4, <1>6, <1>7, <1>8, <1>9 DEF SessionsOK

LEMMA AttemptsKept ==
  ASSUME AttemptsOK, attempts' = attempts, lease' = "none" \/ lease' = lease \/ (lease # "none" /\ lease' = "expired")
  PROVE  AttemptsOK' /\ Len(attempts') = Len(attempts)
  BY DEF AttemptsOK, CommitsAreValid

\* An attempt ends, and the lease with it.
LEMMA AttemptEnded ==
  ASSUME AttemptsOK, NEW k \in DOMAIN attempts, NEW a \in Attempt, a.state # "reserved",
         attempts' = [attempts EXCEPT ![k] = a], lease' = "none"
  PROVE  AttemptsOK' /\ Len(attempts') = Len(attempts)
  BY DEF AttemptsOK, CommitsAreValid

\* An attempt is added when none is under way.
LEMMA AttemptAdded ==
  ASSUME AttemptsOK, NEW i \in Nat, \A k \in DOMAIN attempts : attempts[k].state # "reserved",
         attempts' = Append(attempts, [from |-> i, to |-> 0, state |-> "reserved"]), lease' = "held"
  PROVE  AttemptsOK' /\ Len(attempts') = Len(attempts) + 1
<1>1. [from |-> i, to |-> 0, state |-> "reserved"] \in Attempt
  BY DEF Attempt
<1> QED BY <1>1 DEF AttemptsOK, CommitsAreValid

LEMMA HostsKept ==
  ASSUME HostsOK, host' = host, Len(session) \in Nat, Len(attempts) \in Nat,
         Len(session') \in Nat, Len(attempts') \in Nat,
         Len(session') >= Len(session), Len(attempts') >= Len(attempts)
  PROVE  HostsOK'
<1>1. \A r \in Host : r \in Host'
  BY DEF Host, Pcs
<1> QED BY <1>1 DEF HostsOK, HostsKnow, Working

\* One host goes on.
LEMMA HostMoved ==
  ASSUME HostsOK, NEW h \in Hosts, NEW r \in Host', host' = [host EXCEPT ![h] = r],
         r.pc \in Working => r.session # 0, r.pc = "settle" => r.attempt # 0,
         Len(session) \in Nat, Len(attempts) \in Nat, Len(session') \in Nat, Len(attempts') \in Nat,
         Len(session') >= Len(session), Len(attempts') >= Len(attempts)
  PROVE  HostsOK'
<1>1. \A q \in Host : q \in Host'
  BY DEF Host, Pcs
<1>2. host' \in [Hosts -> Host']
  BY <1>1 DEF HostsOK
<1>3. HostsKnow'
  BY DEF HostsOK, HostsKnow, Working
<1> QED BY <1>2, <1>3 DEF HostsOK

-----------------------------------------------------------------------------
(* What hosts and counters do in a step. *)

Children == [Sessions -> {"none", "alive", "gone"}]

\* No record is dropped.
Longer ==
    /\ Len(session) \in Nat /\ Len(attempts) \in Nat /\ Len(session') \in Nat /\ Len(attempts') \in Nat
    /\ Len(session') >= Len(session) /\ Len(attempts') >= Len(attempts)

LEMMA HostMoves ==
  ASSUME Longer, NEW q \in Host, NEW pc \in Pcs, NEW i \in 0..Len(session')
  PROVE  LET r == [q EXCEPT !.pc = pc, !.session = i]
         IN r \in Host' /\ r.pc = pc /\ r.session = i
<1>1. q.attempt \in 0..Len(attempts')
  BY DEF Host, Longer
<1> QED BY <1>1 DEF Host, Longer

LEMMA HostGoes ==
  ASSUME HostsOK, Longer, NEW h \in Hosts, NEW pc \in Working \cup {"create"}, Goes(h, pc),
         pc \in Working => host[h].session # 0
  PROVE  HostsOK'
<1> DEFINE r == [host[h] EXCEPT !.pc = pc]
<1>1. host[h] \in Host /\ host' = [host EXCEPT ![h] = r]
  BY DEF HostsOK, Goes
<1>2. r \in Host' /\ r.pc = pc /\ r.session = host[h].session
  BY <1>1 DEF Host, Pcs, Working, Longer
<1>3. pc # "settle"
  BY DEF Working
<1> HIDE DEF r
<1> QED BY <1>1, <1>2, <1>3, HostMoved DEF Longer

LEMMA HostLeaves ==
  ASSUME HostsOK, Longer, NEW h \in Hosts, NEW ok \in BOOLEAN, Leave(h, ok)
  PROVE  HostsOK'
<1> DEFINE r == Left(h, ok)
<1>1. host[h] \in Host /\ host' = [host EXCEPT ![h] = r]
  BY DEF HostsOK, Leave
<1>2. r \in Host' /\ r.pc \notin Working /\ (r.pc = "settle" => r.attempt # 0)
  <2>1. CASE host[h].attempt = 0
    BY <2>1 DEF Left, Idle, Host, Pcs, Working, Longer
  <2>2. CASE host[h].attempt # 0
    <3>1. r = [host[h] EXCEPT !.pc = "settle", !.ok = ok]
      BY <2>2 DEF Left
    <3>2. host[h].session \in 0..Len(session') /\ host[h].attempt \in 0..Len(attempts')
      BY <1>1 DEF Host, Longer
    <3>3. r = [pc |-> "settle", session |-> host[h].session, attempt |-> host[h].attempt, ok |-> ok]
      BY <1>1, <3>1 DEF Host
    <3> HIDE DEF r
    <3>4. r \in Host'
      BY <3>2, <3>3 DEF Host, Pcs
    <3>5. r.pc = "settle" /\ r.attempt = host[h].attempt
      BY <3>3
    <3> QED BY <2>2, <3>4, <3>5 DEF Working
  <2> QED BY <2>1, <2>2
<1> HIDE DEF r
<1> QED BY <1>1, <1>2, HostMoved DEF Longer

LEMMA HostStops ==
  ASSUME HostsOK, Longer, NEW h \in Hosts, host' = [host EXCEPT ![h] = Idle]
  PROVE  HostsOK'
<1>1. Idle \in Host' /\ Idle.pc = "idle"
  BY DEF Idle, Host, Pcs, Longer
<1>2. "idle" \notin Working
  BY DEF Working
<1> QED BY <1>1, <1>2, HostMoved DEF Longer

LEMMA TroubleCounts ==
  ASSUME RecoveryAssumption, CountsOK, Trouble, run' = run
  PROVE  CountsOK'
<1>1. spent.troubles + 1 \in 0..MaxTroubles
  BY DEF RecoveryAssumption, CountsOK, Trouble
<1> QED BY <1>1 DEF CountsOK, Trouble

LEMMA CountsKept ==
  ASSUME CountsOK, run' = run, spent' = spent
  PROVE  CountsOK'
  BY DEF CountsOK

\* A launch begins in the phase of its time.
LEMMA CountsOwn ==
  ASSUME CountsOK, run' = [run EXCEPT !.phase = "own"] \/ run' = run, spent' = spent
  PROVE  CountsOK'
  BY DEF CountsOK

LEMMA Transitions ==
  ASSUME Inv, NEW i \in Nat, NEW state \in LiveStates \cup TerminalStates,
         NEW failure \in {"none", "recoverable", "other"},
         i # 0, Allowed(i, state), Transition(i, state, failure), child' \in Children
  PROVE  SessionsOK' /\ Steady /\ Len(session') = Len(session)
<1> DEFINE s == Moved(session[i], state, failure)
<1>1. SessionsOK /\ TypeOK
  BY InvParts DEF Inv
<1>2. /\ i \in Sessions /\ i = current /\ Live(i) /\ Becomes(i, s)
      /\ state = "running" => current' = current
      /\ state # "running" => current' = 0 /\ state \in TerminalStates
  BY <1>1, TransitionShape
<1>3. session[i] \in Session
  BY <1>1, <1>2 DEF SessionsOK, Sessions
<1>4. s \in Session /\ s.state = state /\ s.replaces = session[i].replaces
  BY <1>3, MovedType
<1>5. current' = IF s.state \in LiveStates THEN i ELSE 0
  BY <1>2, <1>4 DEF LiveStates, TerminalStates
<1> HIDE DEF s
<1> QED BY <1>1, <1>2, <1>4, <1>5, SessionMoved DEF Children

\* Nobody creates a session while the pointer names one.
LEMMA PointerFree ==
  ASSUME SessionsOK, current # 0
  PROVE  current \in Sessions /\ Live(current)
  BY DEF SessionsOK, PointerIsLive, Sessions

-----------------------------------------------------------------------------
(* One lemma for each action. *)

Before == RecoveryAssumption /\ Inv
After == SessionsOK' /\ AttemptsOK' /\ HostsOK' /\ CountsOK' /\ Steady

\* The parts of the invariant, and the lengths, as every action finds them.
LEMMA Given ==
  ASSUME Before
  PROVE  /\ SessionsOK /\ AttemptsOK /\ HostsOK /\ CountsOK
         /\ child \in Children
         /\ Len(session) \in Nat /\ Len(attempts) \in Nat /\ Sessions = 1..Len(session)
         /\ \A h \in Hosts : host[h] \in Host
  BY InvParts DEF Before, SessionsOK, AttemptsOK, HostsOK, Children, Sessions

\* What a working host knows of its session.
LEMMA Knows ==
  ASSUME Before, NEW h \in Hosts, host[h].pc \in Working
  PROVE  host[h].session \in Sessions /\ host[h].session \in Nat /\ host[h].session # 0
<1>1. host[h] \in Host /\ Sessions = 1..Len(session) /\ Len(session) \in Nat /\ HostsKnow
  BY Given DEF HostsOK
<1> QED BY <1>1 DEF Host, HostsKnow

LEMMA LaunchStep == ASSUME Before, NEW h \in Hosts, Launch(h) PROVE After
<1>1. SessionsOK' /\ Steady /\ AttemptsOK' /\ Longer
  BY Given, SessionsKept, AttemptsKept DEF Launch, record, recovery, Longer, Children
<1>2. HostsOK'
  BY <1>1, Given, HostGoes DEF Launch, Working
<1>3. CountsOK'
  <2>1. spent.launches + 1 \in 0..MaxLaunches
    BY Given DEF Before, RecoveryAssumption, CountsOK, Launch
  <2> QED BY <2>1, Given DEF CountsOK, Launch
<1> QED BY <1>1, <1>2, <1>3 DEF After

LEMMA CreateStep == ASSUME Before, NEW h \in Hosts, CreateSession(h) PROVE After
<1>1. AttemptsOK' /\ attempts' = attempts
  BY Given, AttemptsKept DEF CreateSession, recovery
<1>2. CountsOK'
  BY Given, CountsOwn DEF CreateSession
<1>3. CASE MayCreate
  <2>1. current = 0
    BY <1>3, Given, PointerFree DEF MayCreate
  <2>2. SessionsOK' /\ Steady /\ Len(session') = Len(session) + 1
    BY <1>3, <2>1, Given, SessionAdded DEF CreateSession
  <2>3. Longer
    BY <1>1, <2>2, Given DEF Longer
  <2>4. HostsOK'
    <3> DEFINE r == [host[h] EXCEPT !.pc = "spawn", !.session = Len(session')]
    <3>1. host' = [host EXCEPT ![h] = r]
      BY <1>3, Given DEF CreateSession, HostsOK
    <3>2. host[h] \in Host /\ Len(session') \in 0..Len(session') /\ Len(session') # 0
      BY <2>2, <2>3, Given DEF Longer
    <3>3. r \in Host' /\ r.pc = "spawn" /\ r.session = Len(session')
      BY <2>3, <3>2, HostMoves DEF Pcs
    <3> HIDE DEF r
    <3> QED BY <2>3, <3>1, <3>2, <3>3, Given, HostMoved DEF Longer
  <2> QED BY <1>1, <1>2, <2>2, <2>4 DEF After
<1>4. CASE ~MayCreate
  <2>1. SessionsOK' /\ Steady /\ Longer
    BY <1>1, <1>4, Given, SessionsKept DEF CreateSession, Children, Longer
  <2>2. HostsOK'
    BY <1>4, <2>1, Given, HostLeaves DEF CreateSession
  <2> QED BY <1>1, <1>2, <2>1, <2>2 DEF After
<1> QED BY <1>3, <1>4

LEMMA SpawnStep == ASSUME Before, NEW h \in Hosts, Spawn(h) PROVE After
<1>1. AttemptsOK' /\ CountsOK' /\ attempts' = attempts
  BY Given, AttemptsKept, CountsKept DEF Spawn, recovery
<1>2. child' \in Children
  BY Given DEF Spawn, Children
<1>3. SessionsOK' /\ Steady /\ Longer
  BY <1>1, <1>2, Given, SessionsKept DEF Spawn, Children, Longer
<1>4. HostsOK'
  BY <1>3, Given, Knows, HostGoes DEF Spawn, At, Working
<1> QED BY <1>1, <1>3, <1>4 DEF After

LEMMA SpawnFailsStep == ASSUME Before, NEW h \in Hosts, SpawnFails(h) PROVE After
<1> DEFINE i == host[h].session
<1>1. AttemptsOK' /\ CountsOK' /\ attempts' = attempts /\ child' \in Children
  BY Given, AttemptsKept, TroubleCounts DEF SpawnFails, recovery, Before
<1>2. i \in Sessions /\ i \in Nat /\ i # 0
  BY Knows DEF SpawnFails, At, Working
<1>3. CASE Allowed(i, "failed_to_start")
  <2>1. Transition(i, "failed_to_start", "recoverable") /\ Goes(h, "reserve")
    BY <1>3 DEF SpawnFails
  <2>2. SessionsOK' /\ Steady /\ Len(session') = Len(session)
    BY <1>1, <1>2, <1>3, <2>1, Transitions DEF Before, TerminalStates
  <2>3. Longer
    BY <1>1, <2>2, Given DEF Longer
  <2>4. HostsOK'
    BY <1>2, <2>1, <2>3, Given, HostGoes DEF Working
  <2> QED BY <1>1, <2>2, <2>4 DEF After
<1>4. CASE ~Allowed(i, "failed_to_start")
  <2>1. SessionsOK' /\ Steady /\ Longer
    BY <1>1, <1>4, Given, SessionsKept DEF SpawnFails, Children, Longer
  <2>2. HostsOK'
    BY <1>4, <2>1, Given, HostLeaves DEF SpawnFails
  <2> QED BY <1>1, <2>1, <2>2 DEF After
<1> QED BY <1>3, <1>4

LEMMA MarkRunningStep == ASSUME Before, NEW h \in Hosts, MarkRunning(h) PROVE After
<1> DEFINE i == host[h].session
<1>1. AttemptsOK' /\ CountsOK' /\ attempts' = attempts
  BY Given, AttemptsKept, CountsKept DEF MarkRunning, recovery
<1>2. i \in Sessions /\ i \in Nat /\ i # 0 /\ child' \in Children
  BY Given, Knows DEF MarkRunning, At, Working, Children
<1>3. CASE Allowed(i, "running")
  <2>1. Transition(i, "running", "none") /\ Goes(h, "running")
    BY <1>3 DEF MarkRunning
  <2>2. SessionsOK' /\ Steady /\ Len(session') = Len(session)
    BY <1>2, <1>3, <2>1, Transitions DEF Before, LiveStates
  <2>3. Longer
    BY <1>1, <2>2, Given DEF Longer
  <2>4. HostsOK'
    BY <1>2, <2>1, <2>3, Given, HostGoes DEF Working
  <2> QED BY <1>1, <2>2, <2>4 DEF After
<1>4. CASE ~Allowed(i, "running")
  <2>1. SessionsOK' /\ Steady /\ Longer
    BY <1>1, <1>2, <1>4, Given, SessionsKept DEF MarkRunning, Children, Longer
  <2>2. HostsOK'
    BY <1>4, <2>1, Given, HostLeaves DEF MarkRunning
  <2> QED BY <1>1, <2>1, <2>2 DEF After
<1> QED BY <1>3, <1>4

LEMMA CompletesStep == ASSUME Before, NEW h \in Hosts, Completes(h) PROVE After
<1> DEFINE i == host[h].session
<1>1. AttemptsOK' /\ CountsOK' /\ attempts' = attempts /\ child' \in Children
  BY Given, AttemptsKept, CountsKept DEF Completes, recovery
<1>2. i \in Sessions /\ i \in Nat /\ i # 0
  BY Knows DEF Completes, At, Working
<1>3. CASE Allowed(i, "completed")
  <2>1. Transition(i, "completed", "none") /\ Leave(h, TRUE)
    BY <1>3 DEF Completes
  <2>2. SessionsOK' /\ Steady /\ Len(session') = Len(session)
    BY <1>1, <1>2, <1>3, <2>1, Transitions DEF Before, TerminalStates
  <2>3. Longer
    BY <1>1, <2>2, Given DEF Longer
  <2>4. HostsOK'
    BY <2>1, <2>3, Given, HostLeaves
  <2> QED BY <1>1, <2>2, <2>4 DEF After
<1>4. CASE ~Allowed(i, "completed")
  <2>1. SessionsOK' /\ Steady /\ Longer
    BY <1>1, <1>4, Given, SessionsKept DEF Completes, Children, Longer
  <2>2. HostsOK'
    BY <1>4, <2>1, Given, HostLeaves DEF Completes
  <2> QED BY <1>1, <2>1, <2>2 DEF After
<1> QED BY <1>3, <1>4

LEMMA FailsStep == ASSUME Before, NEW h \in Hosts, Fails(h) PROVE After
<1> DEFINE i == host[h].session
<1>1. AttemptsOK' /\ CountsOK' /\ attempts' = attempts /\ child' \in Children
  BY Given, AttemptsKept, TroubleCounts DEF Fails, recovery, Before
<1>2. i \in Sessions /\ i \in Nat /\ i # 0
  BY Knows DEF Fails, At, Working
<1>3. CASE Allowed(i, "failed")
  <2>1. PICK failure \in {"recoverable", "other"} : Transition(i, "failed", failure) /\ Goes(h, "reserve")
    BY <1>3 DEF Fails
  <2>2. SessionsOK' /\ Steady /\ Len(session') = Len(session)
    BY <1>1, <1>2, <1>3, <2>1, Transitions DEF Before, TerminalStates
  <2>3. Longer
    BY <1>1, <2>2, Given DEF Longer
  <2>4. HostsOK'
    BY <1>2, <2>1, <2>3, Given, HostGoes DEF Working
  <2> QED BY <1>1, <2>2, <2>4 DEF After
<1>4. CASE ~Allowed(i, "failed")
  <2>1. Leave(h, FALSE) /\ UNCHANGED record
    BY <1>4 DEF Fails
  <2>2. SessionsOK' /\ Steady /\ Longer
    BY <1>1, <2>1, Given, SessionsKept DEF Children, Longer
  <2>3. HostsOK'
    BY <2>1, <2>2, Given, HostLeaves
  <2> QED BY <1>1, <2>2, <2>3 DEF After
<1> QED BY <1>3, <1>4

\* The session a host replaces is the role's, so the role has none that lives.
LEMMA ReserveStep == ASSUME Before, NEW h \in Hosts, Reserve(h) PROVE After
<1> DEFINE i == host[h].session
<1>1. AttemptsOK' /\ CountsOK' /\ attempts' = attempts
  BY Given, AttemptsKept, CountsOwn DEF Reserve, recovery
<1>2. i \in Sessions /\ i \in Nat /\ i # 0
  BY Knows DEF Reserve, At, Working
<1>3. CASE session' = Append(session, NewSession(i)) /\ StillTheRoles(i) /\ ~Live(i)
           /\ child' = Append(child, "none") /\ current' = Len(session')
           /\ host' = [host EXCEPT ![h].pc = "claim", ![h].session = Len(session')]
  <2>1. current = 0 /\ i = RoleSession
    BY <1>3, Given, PointerFree DEF StillTheRoles, RoleSession
  <2>2. SessionsOK' /\ Steady /\ Len(session') = Len(session) + 1
    <3>1. i \in 0..Len(session)
      BY <1>2, Given
    <3> QED BY <1>3, <2>1, <3>1, Given, SessionAdded
  <2>3. Longer
    BY <1>1, <2>2, Given DEF Longer
  <2>4. HostsOK'
    <3> DEFINE r == [host[h] EXCEPT !.pc = "claim", !.session = Len(session')]
    <3>1. host' = [host EXCEPT ![h] = r]
      BY <1>3, Given DEF HostsOK
    <3>2. host[h] \in Host /\ Len(session') \in 0..Len(session') /\ Len(session') # 0
      BY <2>2, <2>3, Given DEF Longer
    <3>3. r \in Host' /\ r.pc = "claim" /\ r.session = Len(session')
      BY <2>3, <3>2, HostMoves DEF Pcs
    <3> HIDE DEF r
    <3> QED BY <2>3, <3>1, <3>2, <3>3, Given, HostMoved DEF Longer
  <2> QED BY <1>1, <2>2, <2>4 DEF After
<1>4. CASE Leave(h, FALSE) /\ UNCHANGED <<record, child>>
  <2>1. SessionsOK' /\ Steady /\ Longer
    BY <1>1, <1>4, Given, SessionsKept DEF Children, Longer
  <2>2. HostsOK'
    BY <1>4, <2>1, Given, HostLeaves
  <2> QED BY <1>1, <2>1, <2>2 DEF After
<1> QED BY <1>3, <1>4 DEF Reserve

LEMMA ClaimStep == ASSUME Before, NEW h \in Hosts, Claim(h) PROVE After
<1> DEFINE i == host[h].session
<1>1. AttemptsOK' /\ CountsOK' /\ attempts' = attempts /\ child' \in Children /\ current' = current
  BY Given, AttemptsKept, CountsKept DEF Claim, recovery
<1>2. i \in Sessions /\ i \in Nat /\ i # 0
  BY Knows DEF Claim, At, Working
<1>3. CASE session' = [session EXCEPT ![i].replacement = "claimed"] /\ Goes(h, "spawn")
  <2> DEFINE s == [session[i] EXCEPT !.replacement = "claimed"]
  <2>1. session[i] \in Session
    BY <1>2, Given DEF SessionsOK
  <2>2. s \in Session /\ s.state = session[i].state /\ s.failure = session[i].failure
        /\ s.replaces = session[i].replaces
    BY <2>1 DEF Session
  <2>3. Becomes(i, s)
    BY <1>2, <1>3 DEF Becomes
  <2> HIDE DEF s
  <2>4. SessionsOK' /\ Steady /\ Len(session') = Len(session)
    BY <1>1, <1>2, <2>2, <2>3, Given, SessionMoved DEF Children
  <2>5. Longer
    BY <1>1, <2>4, Given DEF Longer
  <2>6. HostsOK'
    BY <1>2, <1>3, <2>5, Given, HostGoes DEF Working
  <2> QED BY <1>1, <2>4, <2>6 DEF After
<1>4. CASE Leave(h, FALSE) /\ UNCHANGED session
  <2>1. SessionsOK' /\ Steady /\ Longer
    BY <1>1, <1>4, Given, SessionsKept DEF Children, Longer, record
  <2>2. HostsOK'
    BY <1>4, <2>1, Given, HostLeaves
  <2> QED BY <1>1, <2>1, <2>2 DEF After
<1> QED BY <1>3, <1>4 DEF Claim

\* Nothing is recovered while an attempt is under way.
LEMMA NothingReserved ==
  ASSUME NEW unasked, LostSession(unasked) # 0
  PROVE  /\ \A k \in DOMAIN attempts : attempts[k].state # "reserved"
         /\ LostSession(unasked) = RoleSession
  BY DEF LostSession

LEMMA RoleType ==
  ASSUME Before
  PROVE  RoleSession \in 0..Len(session) /\ RoleSession \in Nat
  BY Given DEF RoleSession, SessionsOK

\* A watchdog becomes the launcher of its attempt.
LEMMA HostAttempts ==
  ASSUME Longer, NEW q \in Host, NEW k \in 0..Len(attempts')
  PROVE  LET r == [q EXCEPT !.pc = "create", !.attempt = k] IN r \in Host' /\ r.pc = "create"
<1>1. q.session \in 0..Len(session')
  BY DEF Host, Longer
<1> QED BY <1>1 DEF Host, Pcs, Longer

\* The session a watchdog presumes lost.
LostAs(s, unasked) == [s EXCEPT !.state = "failed", !.failure = "recoverable", !.unasked = unasked]

LEMMA LostType ==
  ASSUME NEW s \in Session, NEW unasked \in BOOLEAN
  PROVE  /\ LostAs(s, unasked) \in Session /\ LostAs(s, unasked).state = "failed"
         /\ LostAs(s, unasked).replaces = s.replaces /\ LostAs(s, unasked).ran = s.ran
         /\ LostAs(s, unasked).unasked = unasked
  BY DEF LostAs, Session, TerminalStates

LEMMA RecoverStep == ASSUME Before, NEW h \in Hosts, NEW unasked \in BOOLEAN, Recover(h, unasked) PROVE After
<1> DEFINE i == LostSession(unasked)
<1>1. i # 0 /\ i = RoleSession /\ i \in Sessions /\ i \in Nat /\ child' \in Children /\ child' = child
  BY Given, NothingReserved, RoleType DEF Recover
<1>2. CASE run' = [run EXCEPT !.escalated = TRUE] /\ UNCHANGED <<record, recovery, host>>
  <2>1. SessionsOK' /\ Steady /\ AttemptsOK' /\ Longer
    BY <1>1, <1>2, Given, SessionsKept, AttemptsKept DEF Children, Longer, recovery
  <2>2. HostsOK'
    BY <1>2, <2>1, Given, HostsKept DEF Longer
  <2>3. spent'.troubles \in 0..MaxTroubles /\ spent' = [spent EXCEPT !.troubles = spent'.troubles]
    BY Given DEF Recover, Trouble, CountsOK, Before, RecoveryAssumption
  <2>4. CountsOK'
    BY <1>2, <2>3, Given DEF CountsOK
  <2> QED BY <2>1, <2>2, <2>4 DEF After
<1>3. CASE /\ PresumedLost(i, unasked)
           /\ attempts' = Append(attempts, [from |-> i, to |-> 0, state |-> "reserved"])
           /\ lease' = "held"
           /\ host' = [host EXCEPT ![h] = [Idle EXCEPT !.pc = "create", !.attempt = Len(attempts')]]
           /\ UNCHANGED run
  <2>1. AttemptsOK' /\ Len(attempts') = Len(attempts) + 1
    BY <1>1, <1>3, Given, NothingReserved, AttemptAdded
  <2>2. SessionsOK' /\ Steady /\ Len(session') = Len(session)
    <3>1. CASE Live(i)
      <4> DEFINE s == LostAs(session[i], unasked)
      <4>1. session[i] \in Session /\ current = i
        BY <1>1, <3>1, Given DEF SessionsOK, PointerIsLive
      <4>2. s \in Session /\ s.state = "failed" /\ s.replaces = session[i].replaces
        BY <4>1, LostType
      <4>3. Becomes(i, s) /\ current' = 0
        BY <1>1, <1>3, <3>1, <4>1 DEF Becomes, PresumedLost, LostAs
      <4>4. current' = IF s.state \in LiveStates THEN i ELSE 0
        BY <4>2, <4>3 DEF LiveStates
      <4> HIDE DEF s
      <4> QED BY <1>1, <3>1, <4>1, <4>2, <4>3, <4>4, Given, SessionMoved DEF Children
    <3>2. CASE ~Live(i)
      <4>1. current # i
        BY <1>1, <3>2, Given, PointerFree
      <4> QED BY <1>1, <1>3, <3>2, <4>1, Given, SessionsKept DEF PresumedLost, record, Children
    <3> QED BY <3>1, <3>2
  <2>3. Longer
    BY <2>1, <2>2, Given DEF Longer
  <2>4. HostsOK'
    <3> DEFINE r == [Idle EXCEPT !.pc = "create", !.attempt = Len(attempts')]
    <3>1. host' = [host EXCEPT ![h] = r]
      BY <1>3
    <3>2. r \in Host' /\ r.pc = "create"
      <4>1. Idle \in Host
        BY Given DEF Idle, Host, Pcs
      <4>2. Len(attempts') \in 0..Len(attempts')
        BY <2>3 DEF Longer
      <4> QED BY <2>3, <4>1, <4>2, HostAttempts
    <3>3. r.pc \notin Working
      BY <3>2 DEF Working
    <3> HIDE DEF r
    <3> QED BY <2>3, <3>1, <3>2, <3>3, Given, HostMoved DEF Longer
  <2>5. spent'.troubles \in 0..MaxTroubles /\ spent' = [spent EXCEPT !.troubles = spent'.troubles]
    BY Given DEF Recover, Trouble, CountsOK, Before, RecoveryAssumption
  <2>6. CountsOK'
    BY <1>3, <2>5, Given DEF CountsOK
  <2> QED BY <2>1, <2>2, <2>4, <2>6 DEF After
<1> QED BY <1>2, <1>3 DEF Recover

LEMMA SettleStep == ASSUME Before, NEW h \in Hosts, Settle(h) PROVE After
<1> DEFINE k == host[h].attempt
<1>1. SessionsOK' /\ Steady /\ CountsOK' /\ Len(session') = Len(session)
  BY Given, SessionsKept, CountsKept DEF Settle, Children
<1>2. k \in DOMAIN attempts
  <2>1. host[h] \in Host /\ host[h].pc = "settle" /\ k # 0
    BY Given DEF Settle, At, HostsOK, HostsKnow
  <2> QED BY <2>1, Given DEF Host, AttemptsOK
<1>3. AttemptsOK' /\ Len(attempts') = Len(attempts)
  <2>1. CASE attempts[k].state = "reserved"
    <3> DEFINE to == IF RoleSession # attempts[k].to /\ RoleSession # attempts[k].from THEN RoleSession ELSE 0
               state == IF host[h].ok THEN "recovered" ELSE "failed"
               a == [attempts[k] EXCEPT !.to = to, !.state = state]
    <3>1. to \in Nat /\ state \in {"recovered", "failed"}
      BY RoleType
    <3>2. attempts' = [attempts EXCEPT ![k] = a] /\ lease' = "none"
      BY <1>2, <2>1, Given DEF Settle, LeaseAfter, AttemptsOK
    <3>3. attempts[k] \in Attempt
      BY <1>2, Given DEF AttemptsOK
    <3> HIDE DEF to, state
    <3>4. a \in Attempt /\ a.state # "reserved"
      BY <3>1, <3>3 DEF Attempt
    <3> HIDE DEF a
    <3> QED BY <1>2, <3>2, <3>4, Given, AttemptEnded
  <2>2. CASE attempts[k].state # "reserved"
    BY <2>2, Given, AttemptsKept DEF Settle, recovery
  <2> QED BY <2>1, <2>2
<1>4. Longer
  BY <1>1, <1>3, Given DEF Longer
<1>5. HostsOK'
  BY <1>4, Given, HostStops DEF Settle
<1> QED BY <1>1, <1>3, <1>5 DEF After

LEMMA KillStep == ASSUME Before, NEW h \in Hosts, KillHost(h) PROVE After
<1>1. SessionsOK' /\ Steady /\ AttemptsOK' /\ CountsOK' /\ Longer
  BY Given, SessionsKept, AttemptsKept, TroubleCounts DEF KillHost, Children, recovery, Longer, Before
<1>2. HostsOK'
  BY <1>1, Given, HostStops DEF KillHost
<1> QED BY <1>1, <1>2 DEF After

LEMMA ChildEndsStep == ASSUME Before, NEW i \in Sessions, ChildEnds(i) PROVE After
<1>1. child' \in Children
  BY Given DEF ChildEnds, Children
<1>2. SessionsOK' /\ Steady /\ AttemptsOK' /\ CountsOK' /\ Longer
  BY <1>1, Given, SessionsKept, AttemptsKept, CountsKept DEF ChildEnds, Children, recovery, Longer
<1>3. HostsOK'
  BY <1>2, Given, HostsKept DEF ChildEnds, Longer
<1> QED BY <1>2, <1>3 DEF After

\* A lease is of the last attempt, so closing both leaves none under way.
LEMMA ExpireStep == ASSUME Before, ExpireLease PROVE After
<1> DEFINE k == Len(attempts)
           a == [attempts[k] EXCEPT !.state = "failed"]
<1>1. SessionsOK' /\ Steady /\ CountsOK' /\ Len(session') = Len(session)
  BY Given, SessionsKept, CountsKept DEF ExpireLease, Children
<1>2. k \in DOMAIN attempts /\ attempts[k] \in Attempt /\ attempts[k].state = "reserved"
  BY Given DEF ExpireLease, AttemptsOK, CommitsAreValid
<1>3. a \in Attempt /\ a.state # "reserved"
  BY <1>2 DEF Attempt
<1>4. attempts' = [attempts EXCEPT ![k] = a] /\ lease' = "none"
  BY <1>2 DEF ExpireLease, Expired
<1> HIDE DEF a
<1>5. AttemptsOK' /\ Len(attempts') = Len(attempts)
  BY <1>2, <1>3, <1>4, Given, AttemptEnded
<1>6. HostsOK'
  BY <1>1, <1>5, Given, HostsKept DEF ExpireLease
<1> QED BY <1>1, <1>5, <1>6 DEF After

LEMMA LeaseExpiresStep == ASSUME Before, LeaseExpires PROVE After
<1>1. SessionsOK' /\ Steady /\ Longer /\ AttemptsOK'
  BY Given, SessionsKept, AttemptsKept DEF LeaseExpires, Children, Longer
<1>2. CountsOK'
  BY Given, TroubleCounts, CountsKept DEF LeaseExpires, Before
<1>3. HostsOK'
  BY <1>1, Given, HostsKept DEF LeaseExpires, Longer
<1> QED BY <1>1, <1>2, <1>3 DEF After

LEMMA ReconcileStep == ASSUME Before, Reconcile PROVE After
<1> DEFINE state == IF session[current].state = "running" THEN "failed" ELSE "failed_to_start"
<1>1. /\ current # 0 /\ current \in Nat /\ state \in TerminalStates /\ child' \in Children
      /\ Allowed(current, state) /\ Transition(current, state, "recoverable")
  BY Given DEF Reconcile, SessionsOK, TerminalStates
<1> HIDE DEF state
<1>2. SessionsOK' /\ Steady /\ Len(session') = Len(session)
  BY <1>1, Transitions DEF Before
<1>3. AttemptsOK' /\ CountsOK' /\ Longer
  BY <1>2, Given, AttemptsKept, CountsKept DEF Reconcile, recovery, Longer
<1>4. HostsOK'
  BY <1>3, Given, HostsKept DEF Reconcile, Longer
<1> QED BY <1>2, <1>3, <1>4 DEF After

\* People note something of a session that does not touch its life.
LEMMA Noted ==
  ASSUME Before, NEW i \in Sessions, NEW s \in Session, Becomes(i, s),
         s.state = session[i].state, s.failure = session[i].failure, s.replaces = session[i].replaces,
         UNCHANGED <<current, recovery, child, host>>
  PROVE  SessionsOK' /\ Steady /\ AttemptsOK' /\ HostsOK'
<1>1. SessionsOK' /\ Steady /\ Len(session') = Len(session)
  BY Given, SessionMoved DEF Children
<1>2. AttemptsOK' /\ Longer
  BY <1>1, Given, AttemptsKept DEF recovery, Longer
<1>3. HostsOK'
  BY <1>2, Given, HostsKept DEF Longer
<1> QED BY <1>1, <1>2, <1>3

LEMMA AcknowledgeEscalationStep == ASSUME Before, AcknowledgeEscalation PROVE After
<1> DEFINE last == attempts[Len(attempts)]
           i == IF last.to # 0 THEN last.to ELSE last.from
           s == [session[i] EXCEPT !.excused = TRUE]
<1>1. CountsOK'
  BY Given DEF AcknowledgeEscalation, CountsOK
<1>2. CASE attempts # <<>> /\ i \in Sessions
  <2>1. Becomes(i, s)
    BY <1>2, Given DEF AcknowledgeEscalation, Becomes, SessionsOK
  <2>2. session[i] \in Session
    BY <1>2, Given DEF SessionsOK
  <2>3. /\ s \in Session /\ s.state = session[i].state /\ s.failure = session[i].failure
        /\ s.replaces = session[i].replaces
    BY <2>2 DEF Session
  <2> HIDE DEF s, i
  <2>4. SessionsOK' /\ Steady /\ AttemptsOK' /\ HostsOK'
    BY <1>2, <2>1, <2>3, Noted DEF AcknowledgeEscalation
  <2> QED BY <1>1, <2>4 DEF After
<1>3. CASE ~(attempts # <<>> /\ i \in Sessions)
  <2>1. session' = session
    BY <1>3, Given DEF AcknowledgeEscalation, SessionsOK, Sessions
  <2>2. SessionsOK' /\ Steady /\ AttemptsOK' /\ Longer
    BY <2>1, Given, SessionsKept, AttemptsKept DEF AcknowledgeEscalation, record, recovery, Children, Longer
  <2>3. HostsOK'
    BY <2>2, Given, HostsKept DEF AcknowledgeEscalation, Longer
  <2> QED BY <1>1, <2>2, <2>3 DEF After
<1> QED BY <1>2, <1>3

LEMMA AcknowledgeFailureStep == ASSUME Before, AcknowledgeFailure PROVE After
<1> DEFINE i == RoleSession
           s == [session[i] EXCEPT !.waived = TRUE, !.excused = TRUE]
<1>1. i \in Sessions /\ session[i] \in Session
  BY Given, RoleType DEF AcknowledgeFailure, NeedsPerson, SessionsOK
<1>2. Becomes(i, s)
  BY <1>1, Given DEF AcknowledgeFailure, Becomes, SessionsOK
<1>3. /\ s \in Session /\ s.state = session[i].state /\ s.failure = session[i].failure
      /\ s.replaces = session[i].replaces
  BY <1>1 DEF Session
<1> HIDE DEF i, s
<1>4. SessionsOK' /\ Steady /\ AttemptsOK' /\ HostsOK'
  BY <1>1, <1>2, <1>3, Noted DEF AcknowledgeFailure
<1>5. CountsOK'
  BY Given, CountsKept DEF AcknowledgeFailure
<1> QED BY <1>4, <1>5 DEF After

LEMMA AutoRetryStep == ASSUME Before, AutoRetry PROVE After
<1> DEFINE i == RoleSession
           s == [session[i] EXCEPT !.waived = TRUE, !.retried = TRUE]
<1>1. i \in Sessions /\ session[i] \in Session
  BY Given, RoleType DEF AutoRetry, NeedsPerson, SessionsOK
<1>2. Becomes(i, s)
  BY <1>1, Given DEF AutoRetry, Becomes, SessionsOK
<1>3. /\ s \in Session /\ s.state = session[i].state /\ s.failure = session[i].failure
      /\ s.replaces = session[i].replaces
  BY <1>1 DEF Session
<1> HIDE DEF i, s
<1>4. SessionsOK' /\ Steady /\ AttemptsOK' /\ HostsOK'
  BY <1>1, <1>2, <1>3, Noted DEF AutoRetry
<1>5. CountsOK'
  BY Given, CountsKept DEF AutoRetry
<1> QED BY <1>4, <1>5 DEF After

LEMMA ReopenStep == ASSUME Before, ReopenRun PROVE After
<1>1. SessionsOK' /\ Steady /\ AttemptsOK' /\ Longer
  BY Given, SessionsKept, AttemptsKept DEF ReopenRun, recovery, Children, Longer
<1>2. HostsOK' /\ CountsOK'
  BY <1>1, Given, HostsKept DEF ReopenRun, Longer, CountsOK
<1> QED BY <1>1, <1>2 DEF After

LEMMA PhaseStep == ASSUME Before, PhaseMoves PROVE After
<1>1. SessionsOK' /\ Steady /\ AttemptsOK' /\ Longer
  BY Given, SessionsKept, AttemptsKept DEF PhaseMoves, recovery, Children, Longer
<1>2. HostsOK'
  BY <1>1, Given, HostsKept DEF PhaseMoves, Longer
<1>3. CountsOK'
  <2>1. spent.moves + 1 \in 0..MaxClosures
    BY Given DEF PhaseMoves, Before, RecoveryAssumption, CountsOK
  <2>2. run' \in [open: BOOLEAN, escalated: BOOLEAN, phase: {"own", "again", "other"}]
    BY Given DEF PhaseMoves, CountsOK
  <2> QED BY <2>1, <2>2, Given DEF PhaseMoves, CountsOK
<1> QED BY <1>1, <1>2, <1>3 DEF After

LEMMA CloseStep == ASSUME Before, CloseRun PROVE After
<1>1. AttemptsOK' /\ attempts' = attempts
  BY Given, AttemptsKept DEF CloseRun
<1>2. CountsOK'
  <2>1. spent.closures + 1 \in 0..MaxClosures
    BY Given DEF CloseRun, Before, RecoveryAssumption, CountsOK
  <2>2. run' \in [open: BOOLEAN, escalated: BOOLEAN, phase: {"own", "again", "other"}]
    BY Given DEF CloseRun, CountsOK
  <2> QED BY <2>1, <2>2, Given DEF CloseRun, CountsOK
<1>3. child' \in Children
  BY Given DEF CloseRun, Children
<1>4. SessionsOK' /\ Steady /\ Len(session') = Len(session)
  <2>1. CASE UNCHANGED record
    BY <1>3, <2>1, Given, SessionsKept DEF Children
  <2>2. CASE /\ current # 0 /\ current' = 0
             /\ session' = [session EXCEPT ![current].state = IF @ = "launching" THEN "failed_to_start" ELSE "cancelled"]
    <3> DEFINE i == current
               state == IF session[i].state = "launching" THEN "failed_to_start" ELSE "cancelled"
               s == [session[i] EXCEPT !.state = state]
    <3>1. i \in Sessions /\ Live(i) /\ session[i] \in Session
      BY <2>2, Given, PointerFree DEF SessionsOK
    <3>2. Becomes(i, s)
      BY <2>2, <3>1 DEF Becomes
    <3>3. state \in TerminalStates /\ state \notin LiveStates
      BY DEF TerminalStates, LiveStates
    <3> HIDE DEF state
    <3>4. s \in Session /\ s.state = state /\ s.replaces = session[i].replaces
      BY <3>1, <3>3 DEF Session
    <3> HIDE DEF s
    <3>5. current' = IF s.state \in LiveStates THEN i ELSE 0
      BY <2>2, <3>3, <3>4
    <3> QED BY <1>3, <3>1, <3>2, <3>4, <3>5, Given, SessionMoved DEF Children
  <2> QED BY <2>1, <2>2 DEF CloseRun, record
<1>5. Longer
  BY <1>1, <1>4, Given DEF Longer
<1>6. HostsOK'
  BY <1>5, Given, HostsKept DEF CloseRun, Longer
<1> QED BY <1>1, <1>2, <1>4, <1>6 DEF After

-----------------------------------------------------------------------------
(* The theorems. *)

LEMMA Inits == RecoveryAssumption /\ Init => Inv
<1> SUFFICES ASSUME RecoveryAssumption, Init PROVE Inv
  OBVIOUS
<1>1. Len(session) = 0 /\ Sessions = {} /\ session \in Seq(Session) /\ attempts \in Seq(Attempt)
      /\ Len(attempts) = 0
  BY DEF Init, Sessions
<1>2. SessionsOK
  BY <1>1 DEF Init, SessionsOK, PointerIsLive, PointerIsLast, Sessions
<1>3. AttemptsOK
  BY <1>1 DEF Init, AttemptsOK, CommitsAreValid
<1>4. HostsOK
  BY <1>1 DEF Init, HostsOK, HostsKnow, Host, Pcs, Idle, Working
<1>5. CountsOK
  BY DEF Init, CountsOK, RecoveryAssumption
<1> QED BY <1>2, <1>3, <1>4, <1>5, InvParts

LEMMA Steps == ASSUME Before, [Next]_vars PROVE Inv' /\ Steady
<1>1. CASE Next
  <2>1. ASSUME NEW h \in Hosts, Launch(h) \/ HostStep(h) \/ KillHost(h) \/ \E unasked \in BOOLEAN : Recover(h, unasked)
        PROVE After
    BY <2>1, LaunchStep, CreateStep, SpawnStep, SpawnFailsStep, MarkRunningStep, CompletesStep, FailsStep,
       ReserveStep, ClaimStep, SettleStep, RecoverStep, KillStep DEF HostStep
  <2>2. After
    BY <1>1, <2>1, ChildEndsStep, ExpireStep, LeaseExpiresStep, ReconcileStep, AcknowledgeEscalationStep,
       AcknowledgeFailureStep, AutoRetryStep, CloseStep, ReopenStep, PhaseStep DEF Next
  <2>3. SessionsOK' /\ AttemptsOK' /\ HostsOK' /\ CountsOK' => Inv'
    BY DEF Inv, TypeOK, SessionsOK, AttemptsOK, HostsOK, CountsOK, Host, Pcs
  <2> QED BY <2>2, <2>3 DEF After
<1>2. CASE UNCHANGED vars
  <2>1. SessionsOK' /\ Steady /\ Longer /\ AttemptsOK'
    BY <1>2, Given, SessionsKept, AttemptsKept DEF vars, record, Children, Longer
  <2>2. HostsOK' /\ CountsOK'
    BY <1>2, <2>1, Given, HostsKept, CountsKept DEF vars, Longer
  <2>3. SessionsOK' /\ AttemptsOK' /\ HostsOK' /\ CountsOK' => Inv'
    BY DEF Inv, TypeOK, SessionsOK, AttemptsOK, HostsOK, CountsOK, Host, Pcs
  <2> QED BY <2>1, <2>2, <2>3
<1> QED BY <1>1, <1>2

LEMMA Invariant == Spec => []Inv
<1>1. Inv /\ [Next]_vars => Inv'
  BY Steps, RecoveryAssumption DEF Before
<1>2. Init => Inv
  BY Inits, RecoveryAssumption
<1> QED BY <1>1, <1>2, PTL DEF Spec

\* The records of sessions, attempts, lease and hosts stay well formed
\* (agent_sessions and recovery_attempts of the status).
THEOREM TypeCorrect == Spec => []TypeOK
<1>1. Inv => TypeOK
  BY DEF Inv
<1> QED BY <1>1, Invariant, PTL

\* Hosts, watchdogs, reconciliation and run-close each act on their own
\* reading of the status, and still the pointer of the role names its live
\* session and no other session is live (current_agent_sessions).
THEOREM PointerAlwaysLive == Spec => []PointerIsLive
<1>1. Inv => PointerIsLive
  BY DEF Inv
<1> QED BY <1>1, Invariant, PTL

\* A lease is of the last attempt, which is under way, and no other attempt
\* is (validate_status_schema of recovery_lease and recovery_attempts).
THEOREM CommitsAlwaysValid == Spec => []CommitsAreValid
<1>1. Inv => CommitsAreValid
  BY DEF Inv
<1> QED BY <1>1, Invariant, PTL

\* An ended session keeps its state and failure, and only the session that
\* stands for the role is ever replaced (transition_agent_session,
\* reserve_agent_replacement).
THEOREM EndedAlwaysStays == Spec => EndedStays
<1>1. Inv /\ [Next]_vars => [Steady]_vars
  BY Steps, RecoveryAssumption DEF Before
<1> QED BY <1>1, Invariant, PTL DEF Spec, EndedStays, Steady

-----------------------------------------------------------------------------
(* One worker.  A session whose running was recorded loses its life only   *)
(* when its child is seen to be gone or nobody asks, and is never given    *)
(* another child: the hosts that may still start one are each at a session *)
(* of their own, which never ran.                                          *)

Starting == {"claim", "spawn", "mark"}

WorkInv ==
    /\ \A i \in Sessions : session[i].ran /\ child[i] = "alive" => Live(i) \/ session[i].unasked
    /\ \A h \in Hosts : host[h].pc \in Starting => ~session[host[h].session].ran
    /\ \A g, h \in Hosts :
          host[g].pc \in Starting /\ host[h].pc \in Starting /\ host[g].session = host[h].session => g = h

\* A session that lives is the last, so none comes after it.
LEMMA WorkInvSuffices == ASSUME PointerIsLive, PointerIsLast, session \in Seq(Session), WorkInv PROVE OneWorker
<1>1. \A i, j \in Sessions : Live(i) => ~(i < j)
  BY DEF PointerIsLive, PointerIsLast, Sessions
<1> QED BY <1>1 DEF WorkInv, OneWorker

\* Nobody begins to start a child that was not about to.
NoneBegins ==
    \A h \in Hosts : host'[h].pc \in Starting =>
        host[h].pc \in Starting /\ host'[h].session = host[h].session

NoneBorn == \A i \in Sessions : child'[i] = "alive" => child[i] = "alive"

LEMMA NoneBeginsOne ==
  ASSUME HostsOK, NEW h \in Hosts, NEW r, host' = [host EXCEPT ![h] = r],
         r.pc \in Starting => host[h].pc \in Starting /\ r.session = host[h].session
  PROVE  NoneBegins
  BY DEF HostsOK, NoneBegins

LEMMA NoneBeginsSame == ASSUME UNCHANGED host PROVE NoneBegins
  BY DEF NoneBegins

LEMMA NoneBeginsLeave == ASSUME Before, NEW h \in Hosts, NEW ok, Leave(h, ok) PROVE NoneBegins
<1>1. host[h] \in Host /\ HostsOK /\ host' = [host EXCEPT ![h] = Left(h, ok)]
  BY Given DEF Leave
<1>2. Left(h, ok).pc \in {"idle", "settle"}
  BY <1>1 DEF Left, Idle, Host
<1> QED BY <1>1, <1>2, NoneBeginsOne DEF Starting

LEMMA NoneBeginsGoes ==
  ASSUME Before, NEW h \in Hosts, NEW pc, Goes(h, pc), pc \in Starting => host[h].pc \in Starting
  PROVE  NoneBegins
<1> DEFINE r == [host[h] EXCEPT !.pc = pc]
<1>1. host[h] \in Host /\ HostsOK /\ host' = [host EXCEPT ![h] = r]
  BY Given DEF Goes
<1>2. r.pc = pc /\ r.session = host[h].session
  BY <1>1 DEF Host
<1> HIDE DEF r
<1> QED BY <1>1, <1>2, NoneBeginsOne

LEMMA NoneBeginsStop == ASSUME Before, NEW h \in Hosts, host' = [host EXCEPT ![h] = Idle] PROVE NoneBegins
<1>1. Idle.pc \notin Starting
  BY DEF Idle, Starting
<1> QED BY <1>1, Given, NoneBeginsOne

LEMMA StartingWorks == Starting \subseteq Working
  BY DEF Starting, Working

\* A step that runs no session and starts no child.
LEMMA WorkSame == ASSUME Before, WorkInv, UNCHANGED session, NoneBorn, NoneBegins PROVE WorkInv'
<1>1. Sessions' = Sessions /\ \A i \in Sessions : Live(i)' <=> Live(i)
  BY DEF Sessions, Live
<1> QED BY <1>1 DEF WorkInv, NoneBorn, NoneBegins

LEMMA WorkMoved ==
  ASSUME Before, WorkInv, NEW i \in Sessions, NEW s \in Session, Becomes(i, s), s.ran = session[i].ran,
         \/ s.state \in LiveStates \/ child'[i] # "alive" \/ ~s.ran \/ s.unasked
         \/ s.state = session[i].state /\ s.unasked = session[i].unasked,
         NoneBorn, NoneBegins
  PROVE  WorkInv'
<1>1. /\ Sessions' = Sessions
      /\ \A k \in Sessions : session'[k] = IF k = i THEN s ELSE session[k]
  BY Given, Replaced DEF SessionsOK
<1>2. \A k \in Sessions : session'[k].ran = session[k].ran
  BY <1>1
<1>3. \A k \in Sessions : session'[k].ran /\ child'[k] = "alive" => Live(k)' \/ session'[k].unasked
  BY <1>1, <1>2 DEF Live, WorkInv, NoneBorn
<1>4. \A h \in Hosts : host'[h].pc \in Starting => ~session'[host'[h].session].ran
  <2> SUFFICES ASSUME NEW h \in Hosts, host'[h].pc \in Starting PROVE ~session'[host'[h].session].ran
    OBVIOUS
  <2>1. host[h].pc \in Starting /\ host'[h].session = host[h].session
    BY DEF NoneBegins
  <2>2. host[h].session \in Sessions
    BY <2>1, Knows, StartingWorks
  <2> QED BY <1>2, <2>1, <2>2 DEF WorkInv
<1>5. \A g, h \in Hosts :
        host'[g].pc \in Starting /\ host'[h].pc \in Starting /\ host'[g].session = host'[h].session => g = h
  BY DEF WorkInv, NoneBegins
<1> QED BY <1>1, <1>3, <1>4, <1>5 DEF WorkInv

LEMMA MovedRan ==
  ASSUME NEW s \in Session, NEW state \in TerminalStates, NEW failure \in {"none", "recoverable", "other"}
  PROVE  Moved(s, state, failure).ran = s.ran /\ Moved(s, state, failure).unasked = s.unasked
<1>1. state # "running" /\ s.ran \in BOOLEAN
  BY DEF TerminalStates, Session
<1>2. Moved(s, state, failure).ran = (s.ran \/ state = "running") /\ Moved(s, state, failure).unasked = s.unasked
  BY DEF Moved, Session
<1> QED BY <1>1, <1>2

\* A session ends once its child is gone, or before it ran.
LEMMA WorkEnds ==
  ASSUME Before, WorkInv, NEW i \in Nat, NEW state \in TerminalStates,
         NEW failure \in {"none", "recoverable", "other"},
         i # 0, Allowed(i, state), Transition(i, state, failure), child' = child,
         child[i] # "alive" \/ ~session[i].ran, NoneBegins
  PROVE  WorkInv'
<1> DEFINE s == Moved(session[i], state, failure)
<1>1. TypeOK /\ state \in LiveStates \cup TerminalStates
  BY DEF Before, Inv
<1>2. i \in Sessions /\ Becomes(i, s)
  BY <1>1, TransitionShape
<1>3. session[i] \in Session
  BY <1>2, Given DEF SessionsOK
<1>4. s \in Session /\ s.ran = session[i].ran /\ s.unasked = session[i].unasked
  BY <1>1, <1>3, MovedType, MovedRan
<1> HIDE DEF s
<1> QED BY <1>2, <1>3, <1>4, WorkMoved DEF NoneBorn

\* A session is added, and the host that added it is the only one at it.
LEMMA WorkBegins ==
  ASSUME Before, WorkInv, NEW h \in Hosts, NEW i \in Nat, NEW pc \in Starting,
         session' = Append(session, NewSession(i)), child' = Append(child, "none"),
         host' = [host EXCEPT ![h].pc = pc, ![h].session = Len(session')]
  PROVE  WorkInv'
<1> DEFINE new == Len(session')
           r == [host[h] EXCEPT !.pc = pc, !.session = new]
<1>1. NewSession(i) \in Session /\ NewSession(i).ran = FALSE /\ NewSession(i).state \in LiveStates
  BY NewSessionType DEF NewSession, LiveStates
<1>2. /\ new = Len(session) + 1 /\ Sessions' = Sessions \cup {new} /\ new \notin Sessions
      /\ \A k \in Sessions : session'[k] = session[k]
      /\ session'[new] = NewSession(i)
  BY <1>1, Given, Added DEF SessionsOK
<1>3. \A k \in Sessions : child'[k] = child[k]
  <2>1. child \in [1..Len(session) -> {"none", "alive", "gone"}] /\ Len(session) \in Nat
    BY Given DEF SessionsOK
  <2>2. child \in Seq({"none", "alive", "gone"}) /\ Len(child) = Len(session)
    BY <2>1, ArrayIsSequence
  <2>3. \A k \in 1..Len(child) : child'[k] = child[k]
    BY <2>2, AppendProperties
  <2> QED BY <2>2, <2>3, Given
<1>4. /\ host'[h].pc = pc /\ host'[h].session = new
      /\ \A g \in Hosts : g # h => host'[g] = host[g]
  <2>1. host[h] \in Host /\ host' = [host EXCEPT ![h] = r]
    BY Given DEF HostsOK
  <2>2. r.pc = pc /\ r.session = new
    BY <2>1 DEF Host
  <2> HIDE DEF r, new
  <2> QED BY <2>1, <2>2, Given DEF HostsOK
<1> HIDE DEF new, r
<1>5. \A g \in Hosts : g # h /\ host[g].pc \in Starting => host[g].session \in Sessions
  BY Knows, StartingWorks
<1>6. \A k \in Sessions' : session'[k].ran /\ child'[k] = "alive" => Live(k)' \/ session'[k].unasked
  BY <1>1, <1>2, <1>3 DEF WorkInv, Live
<1>7. \A g \in Hosts : g # h /\ host'[g].pc \in Starting =>
        /\ host[g].pc \in Starting /\ host'[g].session = host[g].session
        /\ host[g].session \in Sessions /\ host[g].session # Len(session')
  BY <1>2, <1>4, <1>5 DEF new
<1>8. \A g \in Hosts : host'[g].pc \in Starting => ~session'[host'[g].session].ran
  <2> SUFFICES ASSUME NEW g \in Hosts, host'[g].pc \in Starting PROVE ~session'[host'[g].session].ran
    OBVIOUS
  <2>1. CASE g = h
    BY <1>1, <1>2, <1>4, <2>1
  <2>2. CASE g # h
    <3>1. session'[host'[g].session] = session[host[g].session]
      BY <1>2, <1>7, <2>2
    <3>2. ~session[host[g].session].ran
      BY <1>7, <2>2 DEF WorkInv
    <3> QED BY <3>1, <3>2
  <2> QED BY <2>1, <2>2
<1>9. \A f, g \in Hosts :
        host'[f].pc \in Starting /\ host'[g].pc \in Starting /\ host'[f].session = host'[g].session => f = g
  <2> SUFFICES ASSUME NEW f \in Hosts, NEW g \in Hosts, host'[f].pc \in Starting, host'[g].pc \in Starting,
                      host'[f].session = host'[g].session
               PROVE  f = g
    OBVIOUS
  <2>1. CASE f # h /\ g # h
    BY <1>7, <2>1 DEF WorkInv
  <2>2. CASE f = h \/ g = h
    BY <1>4, <1>7, <2>2 DEF new
  <2> QED BY <2>1, <2>2
<1> QED BY <1>6, <1>8, <1>9 DEF WorkInv

LEMMA WorkSpawn == ASSUME Before, WorkInv, NEW h \in Hosts, Spawn(h) PROVE WorkInv'
<1> DEFINE i == host[h].session
<1>1. i \in Sessions /\ ~session[i].ran
  BY Knows, StartingWorks DEF Spawn, At, WorkInv, Starting
<1>2. NoneBegins
  BY NoneBeginsGoes DEF Spawn, At, Starting
<1>3. \A k \in Sessions : k # i /\ child'[k] = "alive" => child[k] = "alive"
  BY Given DEF Spawn, Children
<1>4. UNCHANGED session /\ Sessions' = Sessions /\ \A k \in Sessions : Live(k)' <=> Live(k)
  BY DEF Spawn, record, Sessions, Live
<1> QED BY <1>1, <1>2, <1>3, <1>4 DEF WorkInv, NoneBegins

LEMMA WorkMarks == ASSUME Before, WorkInv, NEW h \in Hosts, MarkRunning(h) PROVE WorkInv'
<1> DEFINE i == host[h].session
<1>1. i \in Sessions /\ i \in Nat /\ i # 0 /\ host[h].pc = "mark"
  BY Knows DEF MarkRunning, At, Working
<1>2. CASE Allowed(i, "running")
  <2> DEFINE s == Moved(session[i], "running", "none")
  <2>1. Transition(i, "running", "none") /\ Goes(h, "running") /\ child' = child
    BY <1>2 DEF MarkRunning
  <2>2. TypeOK /\ session[i] \in Session /\ "running" \in LiveStates
    BY <1>1, Given DEF Before, Inv, SessionsOK, LiveStates
  <2>3. Becomes(i, s)
    BY <1>1, <1>2, <2>1, <2>2, TransitionShape
  <2>4. s \in Session /\ s.state = "running"
    BY <2>2, MovedType
  <2> HIDE DEF s
  <2>5. /\ Sessions' = Sessions
        /\ \A k \in Sessions : session'[k] = IF k = i THEN s ELSE session[k]
    BY <1>1, <2>3, <2>4, Given, Replaced DEF SessionsOK
  <2>6. NoneBegins
    BY <2>1, NoneBeginsGoes DEF Starting
  <2>7. host'[h].pc \notin Starting
    BY <2>1, Given DEF Goes, HostsOK, Host, Starting
  <2>8. \A g \in Hosts : host'[g].pc \in Starting =>
           host[g].pc \in Starting /\ host'[g].session \in Sessions /\ host'[g].session # i
    <3> SUFFICES ASSUME NEW g \in Hosts, host'[g].pc \in Starting
                 PROVE  host[g].pc \in Starting /\ host'[g].session \in Sessions /\ host'[g].session # i
      OBVIOUS
    <3>1. host[g].pc \in Starting /\ host'[g].session = host[g].session /\ g # h
      BY <2>6, <2>7 DEF NoneBegins
    <3>2. host[g].session \in Sessions
      BY <3>1, Knows, StartingWorks
    <3> QED BY <1>1, <3>1, <3>2 DEF WorkInv, Starting
  <2>9. \A k \in Sessions : session'[k].ran /\ child'[k] = "alive" => Live(k)' \/ session'[k].unasked
    BY <2>1, <2>2, <2>4, <2>5 DEF WorkInv, Live
  <2> QED BY <2>5, <2>6, <2>8, <2>9 DEF WorkInv, NoneBegins
<1>3. CASE ~Allowed(i, "running")
  <2>1. Leave(h, FALSE) /\ child' = [child EXCEPT ![i] = "gone"] /\ UNCHANGED session
    BY <1>3 DEF MarkRunning, record
  <2> QED BY <2>1, Given, NoneBeginsLeave, WorkSame DEF NoneBorn, Children
<1> QED BY <1>2, <1>3

LEMMA WorkHost == ASSUME Before, WorkInv, NEW h \in Hosts, HostStep(h) PROVE WorkInv'
<1> DEFINE i == host[h].session
<1>1. CASE CreateSession(h)
  <2>1. CASE MayCreate
    BY <1>1, <2>1, WorkBegins DEF CreateSession, Starting
  <2>2. CASE ~MayCreate
    BY <1>1, <2>2, NoneBeginsLeave, WorkSame DEF CreateSession, record, NoneBorn
  <2> QED BY <2>1, <2>2
<1>2. CASE SpawnFails(h)
  <2>1. i \in Sessions /\ i \in Nat /\ i # 0 /\ ~session[i].ran /\ child' = child
    BY <1>2, Knows DEF SpawnFails, At, Working, WorkInv, Starting
  <2>2. CASE Allowed(i, "failed_to_start")
    BY <1>2, <2>1, <2>2, NoneBeginsGoes, WorkEnds DEF SpawnFails, Starting, TerminalStates
  <2>3. CASE ~Allowed(i, "failed_to_start")
    BY <1>2, <2>1, <2>3, NoneBeginsLeave, WorkSame DEF SpawnFails, record, NoneBorn
  <2> QED BY <2>2, <2>3
<1>3. CASE Completes(h)
  <2>1. i \in Sessions /\ i \in Nat /\ i # 0 /\ child[i] # "alive" /\ child' = child
    BY <1>3, Knows DEF Completes, At, Working
  <2>2. CASE Allowed(i, "completed")
    BY <1>3, <2>1, <2>2, NoneBeginsLeave, WorkEnds DEF Completes, TerminalStates
  <2>3. CASE ~Allowed(i, "completed")
    BY <1>3, <2>1, <2>3, NoneBeginsLeave, WorkSame DEF Completes, record, NoneBorn
  <2> QED BY <2>2, <2>3
<1>4. CASE Fails(h)
  <2>1. i \in Sessions /\ i \in Nat /\ i # 0 /\ child[i] # "alive" /\ child' = child
    BY <1>4, Knows DEF Fails, At, Working
  <2>2. CASE Allowed(i, "failed")
    <3>1. PICK failure \in {"recoverable", "other"} : Transition(i, "failed", failure) /\ Goes(h, "reserve")
      BY <1>4, <2>2 DEF Fails
    <3>2. NoneBegins
      BY <3>1, NoneBeginsGoes DEF Starting
    <3> QED BY <2>1, <2>2, <3>1, <3>2, WorkEnds DEF TerminalStates
  <2>3. CASE ~Allowed(i, "failed")
    BY <1>4, <2>1, <2>3, NoneBeginsLeave, WorkSame DEF Fails, record, NoneBorn
  <2> QED BY <2>2, <2>3
<1>5. CASE Reserve(h)
  <2>1. i \in Nat
    BY <1>5, Knows DEF Reserve, At, Working
  <2>2. CASE Leave(h, FALSE) /\ UNCHANGED <<record, child>>
    BY <2>2, NoneBeginsLeave, WorkSame DEF record, NoneBorn
  <2>3. CASE /\ session' = Append(session, NewSession(i)) /\ child' = Append(child, "none")
             /\ host' = [host EXCEPT ![h].pc = "claim", ![h].session = Len(session')]
    BY <2>1, <2>3, WorkBegins DEF Starting
  <2> QED BY <1>5, <2>2, <2>3 DEF Reserve
<1>6. CASE Claim(h)
  <2>1. i \in Sessions /\ host[h].pc \in Starting /\ child' = child
    BY <1>6, Knows DEF Claim, At, Working, Starting
  <2>2. CASE Leave(h, FALSE) /\ UNCHANGED session
    BY <2>1, <2>2, NoneBeginsLeave, WorkSame DEF NoneBorn
  <2>3. CASE session' = [session EXCEPT ![i].replacement = "claimed"] /\ Goes(h, "spawn")
    <3> DEFINE s == [session[i] EXCEPT !.replacement = "claimed"]
    <3>1. session[i] \in Session
      BY <2>1, Given DEF SessionsOK
    <3>2. /\ s \in Session /\ s.state = session[i].state /\ s.ran = session[i].ran
          /\ s.unasked = session[i].unasked
      BY <3>1 DEF Session
    <3>3. Becomes(i, s)
      BY <2>1, <2>3 DEF Becomes
    <3> HIDE DEF s
    <3>4. NoneBegins /\ NoneBorn
      BY <2>1, <2>3, NoneBeginsGoes DEF NoneBorn
    <3> QED BY <2>1, <3>2, <3>3, <3>4, WorkMoved
  <2> QED BY <1>6, <2>2, <2>3 DEF Claim
<1>7. CASE Settle(h)
  BY <1>7, NoneBeginsStop, WorkSame DEF Settle, record, NoneBorn
<1> QED BY <1>1, <1>2, <1>3, <1>4, <1>5, <1>6, <1>7, WorkSpawn, WorkMarks DEF HostStep

\* The watchdog presumes lost only what has no child, or does not ask.
LEMMA WorkRecovers ==
  ASSUME Before, WorkInv, NEW h \in Hosts, NEW unasked \in BOOLEAN, Recover(h, unasked) PROVE WorkInv'
<1> DEFINE i == LostSession(unasked)
<1>1. /\ i # 0 /\ i = RoleSession /\ i \in Sessions /\ child' = child
      /\ Live(i) => child[i] # "alive" \/ unasked
  BY Given, NothingReserved, RoleType DEF Recover, LostSession, Silent
<1>2. NoneBegins
  <2>1. CASE UNCHANGED host
    BY <2>1, NoneBeginsSame
  <2>2. CASE host' = [host EXCEPT ![h] = [Idle EXCEPT !.pc = "create", !.attempt = Len(attempts')]]
    <3>1. [Idle EXCEPT !.pc = "create", !.attempt = Len(attempts')].pc = "create"
      BY DEF Idle
    <3> QED BY <2>2, <3>1, Given, NoneBeginsOne DEF Starting
  <2> QED BY <2>1, <2>2 DEF Recover
<1>3. CASE UNCHANGED session
  BY <1>1, <1>2, <1>3, WorkSame DEF NoneBorn
<1>4. CASE Live(i) /\ session' = [session EXCEPT ![i].state = "failed", ![i].failure = "recoverable",
                                                 ![i].unasked = unasked]
  <2> DEFINE s == LostAs(session[i], unasked)
  <2>1. session[i] \in Session
    BY <1>1, Given DEF SessionsOK
  <2>2. s \in Session /\ s.ran = session[i].ran /\ s.unasked = unasked
    BY <2>1, LostType
  <2>3. Becomes(i, s)
    BY <1>1, <1>4 DEF Becomes, LostAs
  <2> HIDE DEF s
  <2> QED BY <1>1, <1>2, <1>4, <2>2, <2>3, WorkMoved DEF NoneBorn
<1> QED BY <1>3, <1>4 DEF Recover, PresumedLost, record

\* A closure kills the child before it ends the session.
LEMMA WorkCloses == ASSUME Before, WorkInv, CloseRun PROVE WorkInv'
<1>1. NoneBegins /\ NoneBorn /\ (current # 0 => current \in Sessions /\ child'[current] # "alive")
  <2>1. current # 0 => current \in Sessions
    BY Given, PointerFree
  <2>2. CASE current = 0
    BY <2>2, NoneBeginsSame DEF CloseRun, NoneBorn
  <2>3. CASE current # 0
    <3>1. child' = [child EXCEPT ![current] = IF @ = "alive" THEN "gone" ELSE @]
      BY <2>3 DEF CloseRun
    <3> QED BY <2>1, <2>3, <3>1, Given, NoneBeginsSame DEF CloseRun, NoneBorn, Children
  <2> QED BY <2>2, <2>3
<1>2. CASE UNCHANGED session
  BY <1>1, <1>2, WorkSame
<1>3. CASE /\ current # 0
           /\ session' = [session EXCEPT ![current].state = IF @ = "launching" THEN "failed_to_start" ELSE "cancelled"]
  <2> DEFINE state == IF session[current].state = "launching" THEN "failed_to_start" ELSE "cancelled"
             s == [session[current] EXCEPT !.state = state]
  <2>1. session[current] \in Session
    BY <1>1, <1>3, Given DEF SessionsOK
  <2>2. s \in Session /\ s.ran = session[current].ran /\ s.unasked = session[current].unasked
    BY <2>1 DEF Session, TerminalStates
  <2>3. Becomes(current, s)
    BY <1>3, <1>1 DEF Becomes
  <2> HIDE DEF s
  <2> QED BY <1>1, <1>3, <2>2, <2>3, WorkMoved
<1> QED BY <1>2, <1>3 DEF CloseRun, record

LEMMA WorkReconciles == ASSUME Before, WorkInv, Reconcile PROVE WorkInv'
<1> DEFINE state == IF session[current].state = "running" THEN "failed" ELSE "failed_to_start"
<1>1. /\ current # 0 /\ current \in Nat /\ state \in TerminalStates /\ child' = child
      /\ Allowed(current, state) /\ Transition(current, state, "recoverable")
      /\ child[current] # "alive" /\ NoneBegins
  BY Given, NoneBeginsSame DEF Reconcile, SessionsOK, TerminalStates
<1> HIDE DEF state
<1> QED BY <1>1, WorkEnds

\* What a person notes neither runs a session nor ends it.
LEMMA WorkNoted ==
  ASSUME Before, WorkInv, NEW i, NEW s, Becomes(i, s), i \in Sessions => s \in Session,
         i \in Sessions => s.state = session[i].state /\ s.ran = session[i].ran /\ s.unasked = session[i].unasked,
         UNCHANGED <<child, host>>
  PROVE  WorkInv'
<1>1. NoneBegins /\ NoneBorn
  BY NoneBeginsSame DEF NoneBorn
<1>2. CASE i \in Sessions
  BY <1>1, <1>2, WorkMoved
<1>3. CASE i \notin Sessions
  <2>1. session' = session
    BY <1>3, Given DEF Becomes, SessionsOK, Sessions
  <2> QED BY <1>1, <2>1, WorkSame
<1> QED BY <1>2, <1>3

LEMMA WorkPeople ==
  ASSUME Before, WorkInv, AcknowledgeEscalation \/ AcknowledgeFailure \/ AutoRetry PROVE WorkInv'
<1>1. \A i \in Sessions : session[i] \in Session
  BY Given DEF SessionsOK
<1>0. \A i \in Sessions :
        LET s == [session[i] EXCEPT !.excused = TRUE]
        IN  /\ s \in Session /\ s.state = session[i].state /\ s.ran = session[i].ran
            /\ s.unasked = session[i].unasked
  BY <1>1 DEF Session
<1>2. CASE AcknowledgeEscalation
  <2> DEFINE last == attempts[Len(attempts)]
             i == IF last.to # 0 THEN last.to ELSE last.from
             s == [session[i] EXCEPT !.excused = TRUE]
  <2>1. CASE attempts = <<>>
    BY <1>2, <2>1, NoneBeginsSame, WorkSame DEF AcknowledgeEscalation, NoneBorn
  <2>2. CASE attempts # <<>>
    <3>1. Becomes(i, s) /\ UNCHANGED <<child, host>>
      BY <1>2, <2>2 DEF AcknowledgeEscalation, Becomes
    <3> HIDE DEF i
    <3>2. i \in Sessions => /\ s \in Session /\ s.state = session[i].state /\ s.ran = session[i].ran
                        /\ s.unasked = session[i].unasked
      BY <1>0
    <3> HIDE DEF s
    <3> QED BY <3>1, <3>2, WorkNoted
  <2> QED BY <2>1, <2>2
<1>3. CASE AcknowledgeFailure
  <2> DEFINE i == RoleSession
             s == [session[i] EXCEPT !.waived = TRUE, !.excused = TRUE]
  <2>1. Becomes(i, s) /\ UNCHANGED <<child, host>>
    BY <1>3 DEF AcknowledgeFailure, Becomes
  <2>2. i \in Sessions => /\ s \in Session /\ s.state = session[i].state /\ s.ran = session[i].ran
                        /\ s.unasked = session[i].unasked
    BY <1>1 DEF Session
  <2> HIDE DEF s, i
  <2> QED BY <2>1, <2>2, WorkNoted
<1>4. CASE AutoRetry
  <2> DEFINE i == RoleSession
             s == [session[i] EXCEPT !.waived = TRUE, !.retried = TRUE]
  <2>1. Becomes(i, s) /\ UNCHANGED <<child, host>>
    BY <1>4 DEF AutoRetry, Becomes
  <2>2. i \in Sessions => /\ s \in Session /\ s.state = session[i].state /\ s.ran = session[i].ran
                        /\ s.unasked = session[i].unasked
    BY <1>1 DEF Session
  <2> HIDE DEF s, i
  <2> QED BY <2>1, <2>2, WorkNoted
<1> QED BY <1>2, <1>3, <1>4

LEMMA WorkSteps == ASSUME Before, WorkInv, [Next]_vars PROVE WorkInv'
<1>1. ASSUME NEW h \in Hosts, Launch(h) PROVE WorkInv'
  BY <1>1, NoneBeginsGoes, WorkSame DEF Launch, record, NoneBorn, Starting
<1>2. ASSUME NEW h \in Hosts, KillHost(h) PROVE WorkInv'
  BY <1>2, NoneBeginsStop, WorkSame DEF KillHost, record, NoneBorn
<1>3. ASSUME NEW i \in Sessions, ChildEnds(i) PROVE WorkInv'
  BY <1>3, Given, NoneBeginsSame, WorkSame DEF ChildEnds, record, NoneBorn, Children
<1>4. CASE ExpireLease \/ LeaseExpires \/ ReopenRun \/ PhaseMoves
  BY <1>4, NoneBeginsSame, WorkSame DEF ExpireLease, LeaseExpires, ReopenRun, PhaseMoves, record, NoneBorn
<1>5. CASE UNCHANGED vars
  BY <1>5, NoneBeginsSame, WorkSame DEF vars, NoneBorn
<1> QED BY <1>1, <1>2, <1>3, <1>4, <1>5, WorkHost, WorkRecovers, WorkReconciles, WorkPeople, WorkCloses DEF Next

\* Watchdogs, hosts, closures and reconciliation conclude about a session from
\* what they read of it.  Of two workers at work at once whose start was recorded,
\* the earlier was presumed lost for its phase, an acknowledgement or the protocol
\* limit, which do not ask for its process (recovery_assessment, recover_run,
\* transition_agent_session).
THEOREM OneWorkerOnly == Spec => []OneWorker
<1>1. Init => WorkInv
  BY DEF Init, WorkInv, Sessions, Idle, Starting
<1>2. Inv /\ WorkInv /\ [Next]_vars => WorkInv'
  BY WorkSteps, RecoveryAssumption DEF Before
<1>3. Inv /\ WorkInv => OneWorker
  BY WorkInvSuffices DEF Inv, TypeOK
<1> QED BY <1>1, <1>2, <1>3, Invariant, PTL DEF Spec

-----------------------------------------------------------------------------
(* DashboardOwner, with any servers, callers and observers.                *)
BoardsAssumption(p) ==
  /\ Nothing \notin Servers[p] /\ Nothing \notin [pid : Servers[p], port : Ports]
  /\ Nothing \notin {"down", "restored"} /\ MaxSlow \in Nat

Owners(p) == [pid : Servers[p], port : Ports]
Told(p)   == [kind : {"down", "restored"}, of : Owners(p), closed : {FALSE}]
Resting   == [at |-> "idle", record |-> Nothing]
Releasing(p) == [at : {"classify", "ask", "post", "poll", "unlink"}, record : Owners(p)]
Judging(p)   == [at : {"judge", "down", "live"}, record : Owners(p)]
Listening == {"bound", "serving", "stopping"}

ServersFit(p) ==
  /\ v1 \in [Servers[p] -> Listening \cup {"off", "leaving", "removing", "gone"}]
  /\ v2 \in [Servers[p] -> Ports] /\ v3 \in [Servers[p] -> 0 .. 2]
  \* a server that still serves was not told twice that its root is missing
  /\ \A s \in Servers[p] : v1[s] \in {"off", "bound", "serving"} => v3[s] <= 1
  /\ \A s, t \in Servers[p] : s # t /\ v1[s] \in Listening /\ v1[t] \in Listening => v2[s] # v2[t]

FilesFit(p) ==
  /\ v4 \in Owners(p) \cup {Nothing} /\ v5 \in BOOLEAN /\ v6 \in BOOLEAN /\ v11 \in 0 .. MaxSlow

AskersFit(p) ==
  /\ v9 \in [Releasers[p] -> Releasing(p) \cup {Resting}]
  /\ v10 \in [Observers[p] -> Judging(p) \cup {Resting}]

\* What was told last is what the status holds.
LedgerFits(p) ==
  /\ v7 \in Owners(p) \cup {Nothing} /\ v8 \in Seq(Told(p))
  /\ v8 = <<>> => v7 = Nothing
  /\ v8 # <<>> => v7 = IF v8[Len(v8)].kind = "down" THEN v8[Len(v8)].of ELSE Nothing
  /\ \A i \in 1 .. (Len(v8) - 1) : /\ v8[i] # v8[i + 1]
                                   /\ v8[i].kind = "restored" => v8[i + 1].kind = "down"

BoardsInv(p) == ServersFit(p) /\ FilesFit(p) /\ AskersFit(p) /\ LedgerFits(p)

LEMMA BoardsStart == ASSUME NEW p, BoardsAssumption(p), Boards(p)!Init PROVE BoardsInv(p)
<1>1. ServersFit(p)
  BY DEF Boards!Init, ServersFit, Listening
<1>2. FilesFit(p)
  BY DEF Boards!Init, FilesFit, BoardsAssumption
<1>3. AskersFit(p)
  BY DEF Boards!Init, AskersFit, Boards!Idle, Resting
<1>4. LedgerFits(p)
  BY DEF Boards!Init, LedgerFits
<1> QED BY <1>1, <1>2, <1>3, <1>4 DEF BoardsInv

LEMMA BoardsStutter == ASSUME NEW p, BoardsInv(p), UNCHANGED Shared PROVE BoardsInv(p)'
BY DEF BoardsInv, ServersFit, FilesFit, AskersFit, LedgerFits, Shared, Owners, Told, Releasing, Judging

LEMMA BoardsKeep ==
  ASSUME NEW p, BoardsAssumption(p), BoardsInv(p)
  PROVE  Boards(p)!TypeOK /\ Boards(p)!ReportedOnce
<1>1. /\ v1 \in [Servers[p] -> Boards(p)!Listens \cup {"off", "leaving", "removing", "gone"}]
      /\ v2 \in [Servers[p] -> Ports] /\ v3 \in [Servers[p] -> 0..2]
  BY DEF BoardsInv, ServersFit, Listening, Boards!Listens
<1>2. /\ v4 \in Boards(p)!Owner \cup {Nothing} /\ v7 \in Boards(p)!Owner \cup {Nothing}
      /\ v5 \in BOOLEAN /\ v6 \in BOOLEAN /\ v11 \in 0 .. MaxSlow
  BY DEF BoardsInv, FilesFit, LedgerFits, Owners, Boards!Owner
<1>3. \A i \in DOMAIN v8 : v8[i] \in Told(p)
  BY ElementOfSeq DEF BoardsInv, LedgerFits
<1>4. \A i \in DOMAIN v8 : v8[i].kind \in {"down", "restored"} /\ v8[i].of \in Boards(p)!Owner
  BY <1>3 DEF Told, Owners, Boards!Owner
<1>5. \A i \in DOMAIN v8 : ~v8[i].closed
  BY <1>3, Zenon DEF Told
<1>6. \A c \in Releasers[p] : v9[c] # Boards(p)!Idle =>
        /\ v9[c].at \in {"classify", "ask", "post", "poll", "unlink"}
        /\ v9[c].record \in Boards(p)!Owner
  BY DEF BoardsInv, AskersFit, Releasing, Resting, Owners, Boards!Owner, Boards!Idle
<1>7. \A o \in Observers[p] : v10[o] # Boards(p)!Idle =>
        v10[o].at \in {"judge", "down", "live"} /\ v10[o].record \in Boards(p)!Owner
  BY DEF BoardsInv, AskersFit, Judging, Resting, Owners, Boards!Owner, Boards!Idle
<1>8. \A s, t \in Servers[p] : s # t /\ {v1[s], v1[t]} \subseteq Boards(p)!Listens => v2[s] # v2[t]
  BY DEF BoardsInv, ServersFit, Listening, Boards!Listens
<1>9. Boards(p)!TypeOK
  BY <1>1, <1>2, <1>4, <1>6, <1>7, <1>8, Zenon DEF Boards!TypeOK
<1>10. Boards(p)!ReportedOnce
  BY <1>5 DEF BoardsInv, LedgerFits, Boards!ReportedOnce
<1> QED BY <1>9, <1>10

\* A server's own steps leave alone what was told and who asks.
LEMMA ServersNext ==
  ASSUME NEW p, BoardsAssumption(p), BoardsInv(p), NEW s \in Servers[p],
         \/ Boards(p)!Bind(s) \/ Boards(p)!Serve(s) \/ Boards(p)!Interrupt(s) \/ Boards(p)!Tick(s)
         \/ Boards(p)!Close(s) \/ Boards(p)!ReadOwn(s) \/ Boards(p)!RemoveOwn(s) \/ Boards(p)!Die(s)
  PROVE  BoardsInv(p)' /\ Boards(p)!StopsItsOwn
<1>1. ServersFit(p) /\ FilesFit(p) /\ AskersFit(p) /\ LedgerFits(p)
  BY DEF BoardsInv
<1>2. UNCHANGED <<v2, v6, v7, v8, v9, v10, v11>>
  BY DEF Boards!Bind, Boards!Serve, Boards!Interrupt, Boards!Tick, Boards!Close, Boards!ReadOwn, Boards!RemoveOwn, Boards!Die,
         Boards!run
<1>3. AskersFit(p)' /\ LedgerFits(p)'
  BY <1>1, <1>2 DEF AskersFit, LedgerFits, Owners, Told, Releasing, Judging
<1>4. Boards(p)!StopsItsOwn
  BY <1>2 DEF Boards!StopsItsOwn
<1>5. ServersFit(p)' /\ FilesFit(p)'
  <2>1. CASE Boards(p)!Bind(s)
    <3>1. /\ v1[s] = "off" /\ v1' = [v1 EXCEPT ![s] = "bound"] /\ UNCHANGED <<v2, v3, v4, v5>>
          /\ \A t \in Servers[p] : v1[t] \in Listening => v2[t] # v2[s]
      BY <2>1 DEF Boards!Bind, Boards!Listens, Listening
    <3>2. \A t, u \in Servers[p] : t # u /\ v1'[t] \in Listening /\ v1'[u] \in Listening => v2[t] # v2[u]
      BY <1>1, <3>1 DEF ServersFit, Listening
    <3> QED BY <1>1, <1>2, <3>1, <3>2 DEF ServersFit, FilesFit, Owners, Listening
  <2>2. CASE Boards(p)!Serve(s)
    <3>1. /\ v1[s] = "bound" /\ v1' = [v1 EXCEPT ![s] = "serving"] /\ UNCHANGED <<v2, v3, v5>>
          /\ v4' = v4 \/ v4' = [pid |-> s, port |-> v2[s]]
      BY <2>2 DEF Boards!Serve
    <3>2. v4' \in Owners(p) \cup {Nothing}
      BY <1>1, <3>1 DEF FilesFit, ServersFit, Owners
    <3> QED BY <1>1, <1>2, <3>1, <3>2 DEF ServersFit, FilesFit, Owners, Listening
  <2>3. CASE Boards(p)!Interrupt(s)
    <3>1. v1[s] = "serving" /\ v1' = [v1 EXCEPT ![s] = "stopping"] /\ UNCHANGED <<v2, v3, v4, v5>>
      BY <2>3 DEF Boards!Interrupt, Boards!Stopping
    <3> QED BY <1>1, <1>2, <3>1 DEF ServersFit, FilesFit, Owners, Listening
  <2>4. CASE Boards(p)!Tick(s)
    <3>1. /\ v1[s] = "serving" /\ UNCHANGED <<v2, v4, v5>>
          /\ v3' = [v3 EXCEPT ![s] = IF v5 THEN 0 ELSE @ + 1]
          /\ IF v3'[s] = 2 THEN v1' = [v1 EXCEPT ![s] = "stopping"] ELSE v1' = v1
      BY <2>4 DEF Boards!Tick, Boards!Stopping
    <3>2. v3' \in [Servers[p] -> 0 .. 2]
      BY <1>1, <3>1 DEF ServersFit
    <3> QED BY <1>1, <1>2, <3>1, <3>2 DEF ServersFit, FilesFit, Owners, Listening
  <2>5. CASE Boards(p)!Close(s)
    <3>1. v1[s] = "stopping" /\ v1' = [v1 EXCEPT ![s] = "leaving"] /\ UNCHANGED <<v2, v3, v4, v5>>
      BY <2>5 DEF Boards!Close
    <3> QED BY <1>1, <1>2, <3>1 DEF ServersFit, FilesFit, Owners, Listening
  <2>6. CASE Boards(p)!ReadOwn(s) \/ Boards(p)!RemoveOwn(s) \/ Boards(p)!Die(s)
    <3>1. /\ v1' = [v1 EXCEPT ![s] = "removing"] \/ v1' = [v1 EXCEPT ![s] = "gone"]
          /\ UNCHANGED <<v2, v3, v5>> /\ v4' \in {v4, Nothing}
      BY <2>6 DEF Boards!ReadOwn, Boards!RemoveOwn, Boards!Die
    <3> QED BY <1>1, <1>2, <3>1 DEF ServersFit, FilesFit, Owners, Listening
  <2> QED BY <2>1, <2>2, <2>3, <2>4, <2>5, <2>6
<1> QED BY <1>1, <1>3, <1>4, <1>5 DEF BoardsInv

LEMMA AnsweredSlowly ==
  ASSUME NEW p, BoardsAssumption(p), BoardsInv(p), NEW q, NEW s, Boards(p)!Answered(q, s)
  PROVE  v11' \in 0 .. MaxSlow
BY DEF Boards!Answered, BoardsInv, FilesFit, BoardsAssumption

\* Another's record goes on, or none does.
LEMMA CallersNext ==
  ASSUME NEW p, BoardsAssumption(p), BoardsInv(p), NEW c \in Releasers[p],
         \/ Boards(p)!Release(c) \/ Boards(p)!CloseRelease(c) \/ Boards(p)!Classify(c) \/ Boards(p)!Ask(c)
         \/ Boards(p)!Poll(c) \/ Boards(p)!Unlink(c)
  PROVE  BoardsInv(p)' /\ Boards(p)!StopsItsOwn
<1>1. ServersFit(p) /\ FilesFit(p) /\ AskersFit(p) /\ LedgerFits(p)
  BY DEF BoardsInv
<1>2. UNCHANGED <<v1, v2, v3, v5, v6, v7, v8, v10>>
  BY DEF Boards!Release, Boards!CloseRelease, Boards!Classify, Boards!Ask, Boards!Poll, Boards!Unlink, Boards!run, Boards!processes
<1>3. ServersFit(p)' /\ LedgerFits(p)'
  BY <1>1, <1>2 DEF ServersFit, LedgerFits, Owners, Told
<1>4. Boards(p)!StopsItsOwn
  BY <1>2 DEF Boards!StopsItsOwn
<1>5. v4' \in {v4, Nothing} /\ v11' \in 0 .. MaxSlow
  BY <1>1, AnsweredSlowly
  DEF FilesFit, Boards!Release, Boards!CloseRelease, Boards!Classify, Boards!Ask, Boards!Poll, Boards!Unlink
<1>6. FilesFit(p)'
  BY <1>1, <1>2, <1>5 DEF FilesFit, Owners
<1>7. \E n \in Releasing(p) \cup {Resting} : v9' = [v9 EXCEPT ![c] = n]
  <2>1. CASE Boards(p)!Release(c) \/ Boards(p)!CloseRelease(c)
    <3>1. v4 \in Owners(p)
      BY <2>1, <1>1 DEF FilesFit, Boards!Release, Boards!CloseRelease
    <3>2. \E at \in {"ask", "classify"} : v9' = [v9 EXCEPT ![c] = [at |-> at, record |-> v4]]
      BY <2>1 DEF Boards!Release, Boards!CloseRelease
    <3> QED BY <3>1, <3>2 DEF Releasing
  <2>2. CASE Boards(p)!Unlink(c)
    BY <2>2 DEF Boards!Unlink, Boards!Idle, Resting
  <2>3. CASE Boards(p)!Ask(c) \/ Boards(p)!Poll(c)
    <3>1. v9[c].at \in {"ask", "poll"} /\ \E at \in {"post", "unlink"} : v9' = [v9 EXCEPT ![c].at = at]
      BY <2>3 DEF Boards!Ask, Boards!Poll
    <3>2. v9[c] \in Releasing(p)
      BY <1>1, <3>1 DEF AskersFit, Resting
    <3> QED BY <3>1, <3>2 DEF Releasing
  <2>4. CASE Boards(p)!Classify(c)
    <3>1. /\ v9[c].at = "classify"
          /\ \/ v9' = [v9 EXCEPT ![c].at = "unlink"]
             \/ v9' = [v9 EXCEPT ![c] = Resting]
             \/ v4 # Nothing /\ v9' = [v9 EXCEPT ![c] = [at |-> "ask", record |-> v4]]
      BY <2>4 DEF Boards!Classify, Boards!Idle, Resting
    <3>2. v9[c] \in Releasing(p)
      BY <1>1, <3>1 DEF AskersFit, Resting
    <3>3. v4 # Nothing => v4 \in Owners(p)
      BY <1>1 DEF FilesFit
    <3> QED BY <3>1, <3>2, <3>3 DEF Releasing
  <2> QED BY <2>1, <2>2, <2>3, <2>4
<1>8. AskersFit(p)'
  BY <1>1, <1>2, <1>7 DEF AskersFit, Releasing, Judging, Owners
<1> QED BY <1>3, <1>4, <1>6, <1>8 DEF BoardsInv

\* Only the server that finds its own token in the request stops for it.
LEMMA PostNext ==
  ASSUME NEW p, BoardsAssumption(p), BoardsInv(p), NEW c \in Releasers[p], Boards(p)!Post(c)
  PROVE  BoardsInv(p)' /\ Boards(p)!StopsItsOwn
<1>1. ServersFit(p) /\ FilesFit(p) /\ AskersFit(p) /\ LedgerFits(p)
  BY DEF BoardsInv
<1>2. UNCHANGED <<v2, v3, v4, v5, v6, v7, v8, v10>>
  BY DEF Boards!Post, Boards!run
<1>3. PICK s \in Servers[p] \cup {Nothing} :
        /\ Boards(p)!Answered(v9[c].record.port, s)
        /\ v9[c].at = "post" /\ \E at \in {"poll", "unlink"} : v9' = [v9 EXCEPT ![c].at = at]
        /\ \/ v1' = v1
           \/ /\ s \in Servers[p] /\ v1' = [v1 EXCEPT ![s] = IF @ = "serving" THEN "stopping" ELSE @]
              /\ s \in Registered \cap Mine /\ s = v9[c].record.pid
  BY DEF Boards!Post, Boards!Stopping, Boards!ShutdownMatches
<1>4. AskersFit(p)'
  <2>1. v9[c] \in Releasing(p)
    BY <1>1, <1>3 DEF AskersFit, Resting
  <2>2. \E n \in Releasing(p) : v9' = [v9 EXCEPT ![c] = n]
    BY <1>3, <2>1 DEF Releasing
  <2> QED BY <1>1, <1>2, <2>2 DEF AskersFit, Releasing, Judging, Owners
<1>5. LedgerFits(p)'
  BY <1>1, <1>2 DEF LedgerFits, Owners, Told
<1>6. FilesFit(p)'
  BY <1>1, <1>2, <1>3, AnsweredSlowly DEF FilesFit, Owners
<1>7. ServersFit(p)'
  BY <1>1, <1>2, <1>3 DEF ServersFit, Listening
<1>8. Boards(p)!StopsItsOwn
  <2>1. SUFFICES ASSUME NEW d \in Releasers[p], NEW t \in Servers[p],
                        v1'[t] = "stopping", v1[t] = "serving", v9'[d] # v9[d]
                 PROVE  t \in Mine \cap Registered /\ v9[d].record.pid = t
    BY DEF Boards!StopsItsOwn
  <2>2. d = c
    BY <1>1, <1>3, <2>1 DEF AskersFit
  <2>3. t = s
    BY <1>1, <1>3, <2>1 DEF ServersFit
  <2> QED BY <1>3, <2>1, <2>2, <2>3
<1> QED BY <1>4, <1>5, <1>6, <1>7, <1>8 DEF BoardsInv

\* What is told under the lock differs from what was told last.
LEMMA ReportNext ==
  ASSUME NEW p, BoardsAssumption(p), BoardsInv(p), NEW o \in Observers[p], Boards(p)!Report(o)
  PROVE  LedgerFits(p)'
<1>1. FilesFit(p) /\ AskersFit(p) /\ LedgerFits(p)
  BY DEF BoardsInv
<1> DEFINE r == v10[o].record
<1>2. v10[o].at \in {"down", "live"}
  BY DEF Boards!Report
<1>3. r \in Owners(p)
  BY <1>1, <1>2 DEF AskersFit, Judging, Resting
<1>4. CASE Boards(p)!EventOf(o) = Nothing
  BY <1>1, <1>4 DEF Boards!Report, LedgerFits, Owners, Told, BoardsAssumption
<1>5. CASE Boards(p)!EventOf(o) # Nothing
  <2> DEFINE kind == Boards(p)!EventOf(o)
             e == [kind |-> kind, of |-> r, closed |-> FALSE]
  <2>1. /\ v6 = TRUE
        /\ \/ kind = "down" /\ v7 # r
           \/ kind = "restored" /\ v7 # Nothing
    BY <1>1, <1>2, <1>5 DEF Boards!EventOf, FilesFit
  <2>2. (~v6) = FALSE
    BY <2>1
  <2>3. v8' = Append(v8, e)
    BY <1>5, <2>2, Zenon DEF Boards!Report
  <2>4. v7' = IF kind = "down" THEN r ELSE Nothing
    BY <2>1 DEF Boards!Report
  <2>5. e \in Told(p) /\ e.kind = kind /\ e.of = r
    BY <1>3, <2>1 DEF Told
  <2> HIDE DEF e, kind, r
  <2>6. v8' \in Seq(Told(p)) /\ Len(v8') = Len(v8) + 1 /\ v8'[Len(v8) + 1] = e
        /\ \A i \in 1 .. Len(v8) : v8'[i] = v8[i]
    BY <1>1, <2>3, <2>5, AppendProperties DEF LedgerFits
  <2>7. v8 # <<>> => v8[Len(v8)] # e /\ (v8[Len(v8)].kind = "restored" => e.kind = "down")
    BY <1>1, <2>1, <2>5 DEF LedgerFits
  <2>8. Len(v8) \in Nat /\ (v8 = <<>> <=> Len(v8) = 0)
    BY <1>1, EmptySeq, LenProperties DEF LedgerFits
  <2>9. \A i \in 1 .. (Len(v8') - 1) : /\ v8'[i] # v8'[i + 1]
                                       /\ v8'[i].kind = "restored" => v8'[i + 1].kind = "down"
    <3> TAKE i \in 1 .. (Len(v8') - 1)
    <3>1. CASE i = Len(v8)
      BY <2>6, <2>7, <2>8, <3>1
    <3>2. CASE i \in 1 .. (Len(v8) - 1)
      BY <1>1, <2>6, <2>8, <3>2 DEF LedgerFits
    <3> QED BY <2>6, <2>8, <3>1, <3>2
  <2>10. v7' \in Owners(p) \cup {Nothing}
    BY <1>3, <2>4
  <2>11. v8' # <<>> /\ v8'[Len(v8')] = e
    BY <2>6, <2>8
  <2>12. v7' = IF v8'[Len(v8')].kind = "down" THEN v8'[Len(v8')].of ELSE Nothing
    BY <2>4, <2>5, <2>11
  <2> QED BY <2>6, <2>9, <2>10, <2>11, <2>12 DEF LedgerFits, Told, Owners
<1> QED BY <1>4, <1>5

LEMMA ObserversNext ==
  ASSUME NEW p, BoardsAssumption(p), BoardsInv(p), NEW o \in Observers[p],
         Boards(p)!Look(o) \/ Boards(p)!Judge(o) \/ Boards(p)!Report(o)
  PROVE  BoardsInv(p)' /\ Boards(p)!StopsItsOwn
<1>1. ServersFit(p) /\ FilesFit(p) /\ AskersFit(p) /\ LedgerFits(p)
  BY DEF BoardsInv
<1>2. UNCHANGED <<v1, v2, v3, v4, v5, v6, v9>>
  BY DEF Boards!Look, Boards!Judge, Boards!Report, Boards!run, Boards!processes
<1>3. ServersFit(p)' /\ Boards(p)!StopsItsOwn
  BY <1>1, <1>2 DEF ServersFit, Boards!StopsItsOwn
<1>4. v11' \in 0 .. MaxSlow
  BY <1>1, AnsweredSlowly DEF FilesFit, Boards!Look, Boards!Judge, Boards!Report
<1>5. FilesFit(p)'
  BY <1>1, <1>2, <1>4 DEF FilesFit, Owners
<1>6. LedgerFits(p)'
  <2>1. CASE Boards(p)!Look(o) \/ Boards(p)!Judge(o)
    BY <1>1, <2>1 DEF LedgerFits, Boards!Look, Boards!Judge, Boards!run, Owners, Told
  <2> QED BY <2>1, ReportNext
<1>7. \E n \in Judging(p) \cup {Resting} : v10' = [v10 EXCEPT ![o] = n]
  <2>1. CASE Boards(p)!Look(o)
    <3>1. v4 \in Owners(p) /\ v10' = [v10 EXCEPT ![o] = [at |-> "judge", record |-> v4]]
      BY <2>1, <1>1 DEF FilesFit, Boards!Look
    <3> QED BY <3>1 DEF Judging
  <2>2. CASE Boards(p)!Judge(o)
    <3>1. v10[o].at = "judge" /\ \E at \in {"live", "down"} : v10' = [v10 EXCEPT ![o].at = at]
      BY <2>2 DEF Boards!Judge
    <3>2. v10[o] \in Judging(p)
      BY <1>1, <3>1 DEF AskersFit, Resting
    <3> QED BY <3>1, <3>2 DEF Judging
  <2>3. CASE Boards(p)!Report(o)
    BY <2>3 DEF Boards!Report, Boards!Idle, Resting
  <2> QED BY <2>1, <2>2, <2>3
<1>8. AskersFit(p)'
  BY <1>1, <1>2, <1>7 DEF AskersFit, Releasing, Judging, Owners
<1> QED BY <1>3, <1>5, <1>6, <1>8 DEF BoardsInv

LEMMA BoardsNext ==
  ASSUME NEW p, BoardsAssumption(p), BoardsInv(p), Boards(p)!Next
  PROVE  BoardsInv(p)' /\ Boards(p)!StopsItsOwn
<1>1. CASE Boards(p)!CloseRun \/ Boards(p)!ReopenRun \/ Boards(p)!RemoveRoot
  <2>1. /\ UNCHANGED <<v1, v2, v3, v7, v8, v9, v10, v11>> /\ v4' \in {v4, Nothing}
        /\ v5' \in {v5, FALSE} /\ v6' \in {v6, TRUE, FALSE}
    BY <1>1 DEF Boards!CloseRun, Boards!ReopenRun, Boards!RemoveRoot, Boards!run, Boards!processes
  <2>2. ServersFit(p)' /\ AskersFit(p)' /\ LedgerFits(p)'
    BY <2>1 DEF BoardsInv, ServersFit, AskersFit, LedgerFits, Owners, Told, Releasing, Judging
  <2>3. FilesFit(p)'
    BY <2>1 DEF BoardsInv, FilesFit, Owners
  <2>4. Boards(p)!StopsItsOwn
    BY <2>1 DEF Boards!StopsItsOwn
  <2> QED BY <2>2, <2>3, <2>4 DEF BoardsInv
<1> QED BY <1>1, ServersNext, CallersNext, PostNext, ObserversNext DEF Boards!Next

-----------------------------------------------------------------------------
(* Workspace, with any implementers, operators and paths.                  *)
TreesAssumption(p) ==
  /\ Nothing \notin Implementers[p] \cup Operators[p] /\ Implementers[p] \cap Operators[p] = {}
  /\ People \notin Implementers[p] /\ Owns[p] \in [Implementers[p] -> SUBSET Paths]
  /\ MaxWrites \in Nat /\ Nothing \notin Trees(p)!Content
  /\ Nothing \notin [by : Trees(p)!Callers, todo : SUBSET Paths, staged : Trees(p)!Trees, aside : Trees(p)!Trees,
                     from : Trees(p)!Trees, amid : BOOLEAN]

Everyone(p) == Implementers[p] \cup Operators[p]
Contents(p) == [n : 0 .. MaxWrites, by : Implementers[p] \cup {People, Nothing}]
PathsOf(p)  == [Paths -> Contents(p) \cup {Nothing}]
TreeRec(p)  == [base : PathsOf(p), seed : PathsOf(p), work : PathsOf(p), exists : BOOLEAN, amid : BOOLEAN]
SessionRec  == [state : {"launching", "running", "cancelled", "failed", "refused", "none", "completed"},
                kept : {"none", "pending", "applied", "discarded"}, held : {"none", "held", "adopted"}]
CallerRec(p) == [at : {"none", "created", "seeding", "running", "applying", "holding", "held", "applied", "refused",
                       "cleaning", "removing", "swapping", "gone"},
                 wants : {"none", "apply", "adopt", "discard"}, on : Implementers[p] \cup {Nothing}]
ApplyRec(p) == [by : Everyone(p), todo : SUBSET Paths, staged : PathsOf(p), aside : PathsOf(p), from : PathsOf(p),
                amid : BOOLEAN]

WorkspaceTypes(p) ==
  /\ v1 \in [Paths -> Contents(p)] /\ v2 \in [Implementers[p] -> SessionRec]
  /\ v3 \in [Implementers[p] -> TreeRec(p)] /\ v4 \in [Everyone(p) -> CallerRec(p)]
  /\ v5 \in ApplyRec(p) \cup {Nothing} /\ v6 \in [Implementers[p] -> {"none", "part", "all"}]
  /\ v7 \in {"running", "paused", "resumed"} /\ v9 \in 0 .. MaxWrites /\ v10 \in Nat

\* What a session is before its child starts, and what keeps it from going.
Early == {"none", "created", "seeding"}
HasResult(s) == v2[s].kept # "none" \/ v2[s].held # "none"
Started(s)   == v4[s].at \notin Early \cup {"gone"} \/ HasResult(s)

\* A launcher is there for its session, an operator for one with a result.
CallersStand(p) ==
  /\ \A s \in Implementers[p] : v4[s].on = s /\ (v4[s].at \in Early => ~HasResult(s))
  /\ \A o \in Operators[p] : v4[o].at # "none" => v4[o].on \in Implementers[p] /\ HasResult(v4[o].on)
  /\ \A c \in Everyone(p) : v4[c].at = "swapping" <=> (v5 # Nothing /\ v5.by = c)

\* A child starts in a whole worktree, and what is applied is there.
SeedsWhole(p) ==
  /\ \A s \in Implementers[p] : v3[s].exists => \A q \in Paths : v3[s].seed[q] # Nothing => v3[s].work[q] # Nothing
  /\ \A s \in Implementers[p] : v3[s].exists /\ Started(s) =>
        \A q \in Paths : v3[s].seed[q] \in Contents(p) /\ v3[s].work[q] \in Contents(p)
  /\ v5 # Nothing => \A q \in v5.todo : v5.staged[q] \in Contents(p)

PartlyApplied(p) ==
  v10 = 0 => \A s \in Implementers[p] : v6[s] = "part" => v5 # Nothing /\ v4[v5.by].on = s

\* While nobody is killed, a write is known by its number.
IsThere(p, x) ==
  \/ \E q \in Paths : v1[q] = x
  \/ \E s \in Implementers[p], q \in Paths : x = v3[s].base[q] \/ x = v3[s].seed[q] \/ x = v3[s].work[q]
  \/ v5 # Nothing /\ \E q \in Paths : x = v5.staged[q] \/ x = v5.aside[q]
WritesNumbered(p) ==
  \A x, y \in Contents(p) : IsThere(p, x) /\ IsThere(p, y) => x.n <= v9 /\ (x.n = y.n => x = y)

\* What a session writes comes after the baseline of its worktree.
WritesFollow(p) ==
  \A s \in Implementers[p] : v3[s].exists =>
    \A q \in Owns[p][s] : /\ v3[s].base[q] \in Contents(p)
                          /\ v3[s].seed[q] = Nothing => v3[s].work[q] = Nothing
                          /\ v3[s].work[q] # v3[s].seed[q] => /\ v3[s].work[q] \in Contents(p)
                                                              /\ v3[s].work[q].n > v3[s].base[q].n

\* No write of a path that is older than number m can come back.
NoneBefore(q, m) ==
  /\ v1[q].n >= m
  /\ v5 # Nothing => (v5.aside[q] # Nothing => v5.aside[q].n >= m) /\ (q \in v5.todo => v5.staged[q].n >= m)

\* A path is seeded from the baseline, or the project has left that baseline for good.
SeedsFollow(p) ==
  \A s \in Implementers[p] : v3[s].exists /\ v3[s].amid = FALSE /\ v4[s].at = "seeding" =>
    \A q \in Owns[p][s] :
       /\ NoneBefore(q, v3[s].base[q].n)
       /\ v3[s].seed[q] \in {Nothing, v3[s].base[q]} \/ NoneBefore(q, v3[s].base[q].n + 1)

SeedIsBase(p) ==
  \A s \in Implementers[p] : v3[s].exists /\ v3[s].amid = FALSE /\ Started(s) =>
    \A q \in Owns[p][s] : v3[s].seed[q] = v3[s].base[q]

SeenBefore(p) ==
  v5 # Nothing /\ v5.amid = FALSE => \A q \in v5.todo : v1[q] = v5.from[q] \/ v1[q].by = People

WorkStory(p) ==
  v10 = 0 => WritesNumbered(p) /\ WritesFollow(p) /\ SeedsFollow(p) /\ SeedIsBase(p) /\ SeenBefore(p)

TreesInv(p) == WorkspaceTypes(p) /\ CallersStand(p) /\ SeedsWhole(p) /\ PartlyApplied(p) /\ WorkStory(p)

LEMMA TreesNames ==
  ASSUME NEW p
  PROVE  /\ Trees(p)!Callers = Everyone(p) /\ Trees(p)!Content = Contents(p) /\ Trees(p)!Trees = PathsOf(p)
         /\ (TreesAssumption(p) => Nothing \notin ApplyRec(p))
BY DEF Trees!Callers, Everyone, Trees!Content, Contents, Trees!Trees, PathsOf, TreesAssumption, ApplyRec

LEMMA TreesStart == ASSUME NEW p, TreesAssumption(p), Trees(p)!Init PROVE TreesInv(p)
<1> DEFINE initial == [n |-> 0, by |-> People]
           empty == [q \in Paths |-> Nothing]
           none == [base |-> empty, seed |-> empty, work |-> empty, exists |-> FALSE, amid |-> FALSE]
<1>1. /\ v1 = [q \in Paths |-> initial]
      /\ v2 = [s \in Implementers[p] |-> [state |-> "none", kept |-> "none", held |-> "none"]]
      /\ v3 = [s \in Implementers[p] |-> none]
      /\ v4 = [c \in Everyone(p) |-> [at |-> "none", wants |-> "none", on |-> IF c \in Implementers[p] THEN c ELSE Nothing]]
      /\ v5 = Nothing /\ v6 = [s \in Implementers[p] |-> "none"]
      /\ v7 = "running" /\ v9 = 0 /\ v10 = 0
  BY TreesNames DEF Trees!Init, Trees!NoTree, Trees!Empty
<1>2. initial \in Contents(p) /\ empty \in PathsOf(p)
  BY DEF Contents, PathsOf, TreesAssumption
<1> HIDE DEF initial, empty
<1>3. none \in TreeRec(p) /\ none.exists = FALSE
  BY <1>2 DEF TreeRec
<1> HIDE DEF none
<1>4. WorkspaceTypes(p)
  BY <1>1, <1>2, <1>3 DEF WorkspaceTypes, SessionRec, CallerRec, TreesAssumption
<1>5. CallersStand(p) /\ PartlyApplied(p)
  BY <1>1 DEF CallersStand, PartlyApplied, HasResult, Everyone, TreesAssumption
<1>6. \A s \in Implementers[p] : ~v3[s].exists /\ v3[s] = none
  BY <1>1, <1>3
<1>7. SeedsWhole(p) /\ WritesFollow(p) /\ SeedsFollow(p) /\ SeedIsBase(p) /\ SeenBefore(p)
  BY <1>1, <1>6 DEF SeedsWhole, WritesFollow, SeedsFollow, SeedIsBase, SeenBefore
<1>8. \A x \in Contents(p) : IsThere(p, x) => x = initial
  BY <1>1, <1>6 DEF IsThere, none, empty, TreesAssumption, Contents, Trees!Content
<1>9. WritesNumbered(p)
  BY <1>1, <1>8 DEF WritesNumbered, initial
<1> QED BY <1>4, <1>5, <1>7, <1>9 DEF TreesInv, WorkStory

LEMMA TreesStutter == ASSUME NEW p, TreesInv(p), UNCHANGED Shared PROVE TreesInv(p)'
<1>1. WorkspaceTypes(p)' /\ CallersStand(p)' /\ SeedsWhole(p)' /\ PartlyApplied(p)'
  BY DEF TreesInv, Shared, WorkspaceTypes, CallersStand, SeedsWhole, PartlyApplied, HasResult, Started, Contents, PathsOf, TreeRec,
         CallerRec, ApplyRec, Everyone
<1>2. WorkStory(p)'
  BY DEF TreesInv, Shared, WorkStory, WritesNumbered, IsThere, WritesFollow, SeedsFollow, SeedIsBase, SeenBefore, NoneBefore,
         HasResult, Started, Contents
<1> QED BY <1>1, <1>2 DEF TreesInv

LEMMA TreesKeep ==
  ASSUME NEW p, TreesAssumption(p), TreesInv(p)
  PROVE  Trees(p)!TypeOK /\ Trees(p)!AllOrNothing
<1>1. WorkspaceTypes(p) /\ CallersStand(p) /\ PartlyApplied(p)
  BY DEF TreesInv
<1>2. v1 \in [Paths -> Trees(p)!Content]
  BY <1>1, TreesNames DEF WorkspaceTypes
<1>3. \A s \in Implementers[p] :
        /\ v2[s].state \in Trees(p)!Live \cup Trees(p)!Stopped \cup {"none", "completed"}
        /\ v2[s].kept \in {"none", "pending", "applied", "discarded"}
        /\ v2[s].held \in {"none", "held", "adopted"}
  BY <1>1 DEF WorkspaceTypes, SessionRec, Trees!Live, Trees!Stopped
<1>4. \A s \in Implementers[p] : /\ v3[s].base \in Trees(p)!Trees /\ v3[s].seed \in Trees(p)!Trees
                                 /\ v3[s].work \in Trees(p)!Trees
  BY <1>1, TreesNames DEF WorkspaceTypes, TreeRec
<1>5. \A c \in Trees(p)!Callers : v4[c].at = "swapping" <=> (~Trees(p)!LockFree /\ v5.by = c)
  BY <1>1, TreesNames DEF CallersStand, Trees!LockFree
<1>6. ~Trees(p)!LockFree => v5.by \in Trees(p)!Callers /\ v5.aside \in Trees(p)!Trees
  BY <1>1, TreesNames DEF WorkspaceTypes, ApplyRec, Trees!LockFree
<1>7. v6 \in [Implementers[p] -> {"none", "part", "all"}] /\ v7 \in {"running", "paused", "resumed"}
  BY <1>1 DEF WorkspaceTypes
<1>8. Trees(p)!TypeOK
  BY <1>2, <1>3, <1>4, <1>5, <1>6, <1>7, Zenon DEF Trees!TypeOK
<1>9. Trees(p)!AllOrNothing
  BY <1>1 DEF PartlyApplied, Trees!AllOrNothing, Trees!LockFree
<1> QED BY <1>8, <1>9

\* What an apply is to replace of another session's work is what it was seeded with.
LEMMA TreesKeepOthers ==
  ASSUME NEW p, TreesAssumption(p), TreesInv(p)
  PROVE  Trees(p)!OthersWorkKept
<1> SUFFICES ASSUME v10 = 0, v5 # Nothing, ~v5.amid, NEW q \in Paths, q \in v5.todo, v1[q].by \in Implementers[p]
             PROVE  v1[q] = v5.from[q]
  BY DEF Trees!OthersWorkKept, Trees!MadeOnTop, Trees!LockFree
<1>1. v5.amid = FALSE
  BY DEF TreesInv, WorkspaceTypes, ApplyRec
<1> QED BY <1>1 DEF TreesInv, WorkStory, SeenBefore, TreesAssumption

\* Steps that leave the project and its apply alone, and start no child.
Earlier == Early \cup {"gone"}
Ready(p, s) ==
  /\ v3[s].exists /\ v4[s].at = "seeding"
  /\ \A q \in Paths : v3[s].seed[q] # Nothing
  /\ \A q \in Owns[p][s] : v1[q] = v3[s].base[q]

SessionsGoOn(p) ==
  /\ v2' \in [Implementers[p] -> SessionRec]
  /\ \A s \in Implementers[p] : (HasResult(s) => HasResult(s)') /\ (HasResult(s)' => Started(s))
CallersGoOn(p) ==
  /\ v4' \in [Everyone(p) -> CallerRec(p)]
  /\ \A s \in Implementers[p] :
       /\ v4'[s].on = s /\ (v4'[s].at \in Early => v4[s].at \in Early)
       /\ v4'[s].at = "seeding" => v4[s].at = "seeding"
       /\ v4'[s].at \notin Earlier => v4[s].at \notin Earlier \/ v3'[s].exists = FALSE \/ Ready(p, s)
  /\ \A o \in Operators[p] : v4'[o].at # "none" => v4'[o].on \in Implementers[p] /\ HasResult(v4'[o].on)
  /\ \A c \in Everyone(p) : /\ v4'[c].at = "swapping" <=> v4[c].at = "swapping"
                            /\ v4[c].at = "swapping" => v4'[c].on = v4[c].on
TreesGoOn(p) ==
  /\ v3' \in [Implementers[p] -> TreeRec(p)]
  /\ \A s \in Implementers[p] :
       v3'[s] = v3[s] \/ (v3'[s].exists = FALSE /\ \A q \in Paths : /\ v3'[s].base[q] = Nothing /\ v3'[s].seed[q] = Nothing
                                                                   /\ v3'[s].work[q] = Nothing)

LEMMA ReadySeeds ==
  ASSUME NEW p, TreesAssumption(p), TreesInv(p), NEW s \in Implementers[p], Ready(p, s), v10 = 0, v3[s].amid = FALSE
  PROVE  \A q \in Owns[p][s] : v3[s].seed[q] = v3[s].base[q]
<1> SUFFICES ASSUME NEW q \in Owns[p][s], v3[s].seed[q] # v3[s].base[q] PROVE FALSE
  OBVIOUS
<1>1. q \in Paths /\ v3[s].seed[q] # Nothing /\ v1[q] = v3[s].base[q]
  BY DEF Ready, TreesAssumption
<1>2. SeedsFollow(p) /\ v1[q].n \in Nat
  BY <1>1 DEF TreesInv, WorkStory, WorkspaceTypes, Contents
<1>3. NoneBefore(q, v3[s].base[q].n + 1)
  BY <1>1, <1>2 DEF SeedsFollow, Ready
<1> QED BY <1>1, <1>2, <1>3 DEF NoneBefore

LEMMA Quietly ==
  ASSUME NEW p, TreesAssumption(p), TreesInv(p), SessionsGoOn(p), CallersGoOn(p), TreesGoOn(p),
         UNCHANGED <<v1, v5, v6, v9, v10>>, v7' \in {"running", "paused", "resumed"}
  PROVE  TreesInv(p)'
<1>1. WorkspaceTypes(p) /\ CallersStand(p) /\ SeedsWhole(p) /\ PartlyApplied(p) /\ WorkStory(p)
  BY DEF TreesInv
<1>2. WorkspaceTypes(p)'
  BY <1>1 DEF WorkspaceTypes, SessionsGoOn, CallersGoOn, TreesGoOn, Contents, PathsOf, TreeRec, CallerRec, ApplyRec, Everyone, SessionRec
<1>3. \A s \in Implementers[p] : Started(s)' => Started(s) \/ v3'[s].exists = FALSE \/ Ready(p, s)
  BY DEF SessionsGoOn, CallersGoOn, Started, Earlier
<1>4. CallersStand(p)'
  <2>1. \A s \in Implementers[p] : v4'[s].on = s /\ (v4'[s].at \in Early => ~HasResult(s)')
    BY <1>1 DEF CallersStand, CallersGoOn, SessionsGoOn, Started
  <2>2. \A o \in Operators[p] : v4'[o].at # "none" =>
          v4'[o].on \in Implementers[p] /\ (v2'[v4'[o].on].kept # "none" \/ v2'[v4'[o].on].held # "none")
    BY DEF CallersGoOn, SessionsGoOn, HasResult
  <2>3. \A c \in Everyone(p) : v4'[c].at = "swapping" <=> (v5' # Nothing /\ v5'.by = c)
    BY <1>1 DEF CallersStand, CallersGoOn
  <2> QED BY <2>1, <2>2, <2>3 DEF CallersStand, HasResult, Everyone
<1>5. SeedsWhole(p)'
  <2>1. \A s \in Implementers[p] : v3'[s].exists => v3'[s] = v3[s]
    BY DEF TreesGoOn
  <2>2. \A s \in Implementers[p] : v3'[s].exists => \A q \in Paths : v3'[s].seed[q] # Nothing => v3'[s].work[q] # Nothing
    BY <1>1, <2>1 DEF SeedsWhole
  <2>3. ASSUME NEW s \in Implementers[p], v3'[s].exists, Started(s)', NEW q \in Paths
        PROVE  v3'[s].seed[q] \in Contents(p) /\ v3'[s].work[q] \in Contents(p)
    <3>1. CASE Started(s)
      BY <1>1, <2>1, <2>3, <3>1 DEF SeedsWhole
    <3>2. CASE Ready(p, s)
      <4>1. v3[s] \in TreeRec(p) /\ v3[s].seed[q] # Nothing /\ v3[s].work[q] # Nothing
        BY <1>1, <3>2 DEF WorkspaceTypes, Ready, SeedsWhole
      <4> QED BY <2>1, <2>3, <4>1 DEF TreeRec, PathsOf
    <3> QED BY <1>3, <2>3, <3>1, <3>2
  <2>4. v5' # Nothing => \A q \in v5'.todo : v5'.staged[q] \in Contents(p)
    BY <1>1 DEF SeedsWhole
  <2> QED BY <2>2, <2>3, <2>4 DEF SeedsWhole, Started, HasResult, Contents
<1>6. PartlyApplied(p)'
  <2>1. v5 # Nothing => v5.by \in Everyone(p) /\ v4'[v5.by].on = v4[v5.by].on
    BY <1>1 DEF CallersStand, CallersGoOn, WorkspaceTypes, ApplyRec
  <2> QED BY <1>1, <2>1 DEF PartlyApplied
<1>7. ASSUME v10 = 0 PROVE WritesNumbered(p)'
  <2>1. \A x \in Contents(p) : IsThere(p, x)' => IsThere(p, x)
    BY TreesNames DEF TreesGoOn, IsThere, TreesAssumption
  <2> QED BY <1>1, <1>7, <2>1 DEF WorkStory, WritesNumbered, Contents
<1>8. \A s \in Implementers[p] : v3'[s].exists => v3'[s] = v3[s]
  BY DEF TreesGoOn
<1>9. ASSUME v10 = 0 PROVE WritesFollow(p)'
  BY <1>1, <1>8, <1>9 DEF WorkStory, WritesFollow, Contents
<1>10. ASSUME v10 = 0 PROVE SeedsFollow(p)'
  BY <1>1, <1>8, <1>10 DEF WorkStory, SeedsFollow, NoneBefore, CallersGoOn
<1>11. ASSUME v10 = 0 PROVE SeedIsBase(p)'
  <2> SUFFICES ASSUME NEW s \in Implementers[p], v3'[s].exists, v3'[s].amid = FALSE, Started(s)', NEW q \in Owns[p][s]
               PROVE  v3'[s].seed[q] = v3'[s].base[q]
    BY DEF SeedIsBase, Started, HasResult
  <2>1. v3'[s] = v3[s]
    BY <1>8
  <2>2. CASE Started(s)
    BY <1>1, <1>11, <2>1, <2>2 DEF WorkStory, SeedIsBase
  <2>3. CASE Ready(p, s)
    BY <1>11, <2>1, <2>3, ReadySeeds
  <2> QED BY <1>3, <2>2, <2>3
<1>12. ASSUME v10 = 0 PROVE SeenBefore(p)'
  BY <1>1, <1>12 DEF WorkStory, SeenBefore
<1>13. WorkStory(p)'
  BY <1>7, <1>9, <1>10, <1>11, <1>12 DEF WorkStory
<1> QED BY <1>2, <1>4, <1>5, <1>6, <1>13 DEF TreesInv

LEMMA Same ==
  ASSUME NEW p, TreesAssumption(p), TreesInv(p)
  PROVE  /\ UNCHANGED v2 => SessionsGoOn(p)
         /\ UNCHANGED v3 => TreesGoOn(p)
         /\ UNCHANGED v4 => CallersGoOn(p)
<1>1. UNCHANGED v2 => SessionsGoOn(p)
  BY DEF TreesInv, WorkspaceTypes, SessionsGoOn, HasResult, Started
<1>2. UNCHANGED v3 => TreesGoOn(p)
  BY DEF TreesInv, WorkspaceTypes, TreesGoOn
<1>3. UNCHANGED v4 => CallersGoOn(p)
  BY DEF TreesInv, WorkspaceTypes, CallersStand, CallersGoOn
<1> QED BY <1>1, <1>2, <1>3

LEMMA Vanishes ==
  ASSUME NEW p, TreesAssumption(p), TreesInv(p), NEW s \in Implementers[p], Trees(p)!Gone(s)
  PROVE  TreesGoOn(p)
<1> DEFINE none == Trees(p)!NoTree
<1>1. v3' = [v3 EXCEPT ![s] = none]
  BY DEF Trees!Gone
<1>2. /\ none \in TreeRec(p) /\ none.exists = FALSE
      /\ \A q \in Paths : none.base[q] = Nothing /\ none.seed[q] = Nothing /\ none.work[q] = Nothing
  BY DEF Trees!NoTree, Trees!Empty, TreeRec, PathsOf
<1> HIDE DEF none
<1> QED BY <1>1, <1>2 DEF TreesInv, WorkspaceTypes, TreesGoOn

LEMMA EndsOnly ==
  ASSUME NEW p, TreesAssumption(p), TreesInv(p), NEW s \in Implementers[p],
         NEW state \in {"launching", "running", "cancelled", "failed", "refused", "completed"},
         v2' = v2 \/ v2' = [v2 EXCEPT ![s].state = state]
  PROVE  SessionsGoOn(p)
<1>1. CASE v2' = v2
  BY <1>1, Same
<1>2. CASE v2' = [v2 EXCEPT ![s].state = state]
  <2>1. v2 \in [Implementers[p] -> SessionRec]
    BY DEF TreesInv, WorkspaceTypes
  <2>2. v2' \in [Implementers[p] -> SessionRec]
    BY <1>2, <2>1 DEF SessionRec
  <2>3. \A t \in Implementers[p] : v2'[t].kept = v2[t].kept /\ v2'[t].held = v2[t].held
    BY <1>2, <2>1 DEF SessionRec
  <2> QED BY <2>2, <2>3 DEF SessionsGoOn, HasResult, Started
<1> QED BY <1>1, <1>2

LEMMA Moves ==
  ASSUME NEW p, TreesAssumption(p), TreesInv(p), NEW c \in Everyone(p),
         NEW a \in {"created", "running", "applying", "holding", "held", "refused", "cleaning", "removing"},
         v4' = [v4 EXCEPT ![c].at = a], v4[c].at # "swapping",
         c \in Implementers[p] => \/ a = "created" /\ v4[c].at \in Early
                                  \/ a # "created" /\ (v4[c].at \notin Earlier \/ Ready(p, c)),
         c \in Operators[p] => v4[c].at # "none"
  PROVE  CallersGoOn(p)
<1>1. v4 \in [Everyone(p) -> CallerRec(p)] /\ CallersStand(p)
  BY DEF TreesInv, WorkspaceTypes
<1>2. v4' \in [Everyone(p) -> CallerRec(p)]
  BY <1>1 DEF CallerRec
<1>3. \A d \in Everyone(p) : v4'[d].at = (IF d = c THEN a ELSE v4[d].at) /\ v4'[d].on = v4[d].on
  BY <1>1 DEF CallerRec
<1>4. Implementers[p] \subseteq Everyone(p) /\ Operators[p] \subseteq Everyone(p)
  BY DEF Everyone
<1>5. \A s \in Implementers[p] :
       /\ v4'[s].on = s /\ (v4'[s].at \in Early => v4[s].at \in Early)
       /\ v4'[s].at = "seeding" => v4[s].at = "seeding"
       /\ v4'[s].at \notin Earlier => v4[s].at \notin Earlier \/ v3'[s].exists = FALSE \/ Ready(p, s)
  BY <1>1, <1>3, <1>4 DEF CallersStand, Earlier, Early
<1>6. \A o \in Operators[p] : v4'[o].at # "none" => v4'[o].on \in Implementers[p] /\ HasResult(v4'[o].on)
  BY <1>1, <1>3, <1>4 DEF CallersStand
<1>7. \A d \in Everyone(p) : /\ v4'[d].at = "swapping" <=> v4[d].at = "swapping"
                             /\ v4[d].at = "swapping" => v4'[d].on = v4[d].on
  BY <1>1, <1>3
<1> QED BY <1>2, <1>5, <1>6, <1>7 DEF CallersGoOn

\* Whoever leaves leaves nothing behind but what is recorded.
LEMMA Leaving ==
  ASSUME NEW p, TreesAssumption(p), TreesInv(p), NEW c \in Everyone(p), Trees(p)!Leaves(c)
  PROVE  /\ v4' \in [Everyone(p) -> CallerRec(p)] /\ v4'[c].at \in {"none", "gone"}
         /\ \A d \in Everyone(p) : d # c => v4'[d] = v4[d]
         /\ c \in Implementers[p] => v4'[c].at = "gone" /\ v4'[c].on = c
         /\ c \notin Implementers[p] => v4'[c].at = "none"
         /\ v4[c].at # "swapping" => CallersGoOn(p)
<1>1. v4 \in [Everyone(p) -> CallerRec(p)] /\ CallersStand(p)
  BY DEF TreesInv, WorkspaceTypes
<1>2. CASE c \in Implementers[p]
  <2>1. v4' = [v4 EXCEPT ![c] = [v4[c] EXCEPT !.at = "gone"]]
    BY <1>2 DEF Trees!Leaves
  <2> DEFINE r == [v4[c] EXCEPT !.at = "gone"]
  <2>2. r \in CallerRec(p) /\ r.at = "gone" /\ r.on = c
    BY <1>1, <1>2 DEF CallerRec, CallersStand
  <2> HIDE DEF r
  <2>3. v4' = [v4 EXCEPT ![c] = r]
    BY <2>1 DEF r
  <2>4. v4' \in [Everyone(p) -> CallerRec(p)] /\ v4'[c] = r /\ \A d \in Everyone(p) : d # c => v4'[d] = v4[d]
    BY <1>1, <2>2, <2>3
  <2>5. v4[c].at # "swapping" => CallersGoOn(p)
    BY <1>1, <1>2, <2>2, <2>4 DEF CallersGoOn, CallersStand, Everyone, Earlier, Early, TreesAssumption
  <2> QED BY <1>2, <2>2, <2>4, <2>5
<1>3. CASE c \notin Implementers[p]
  <2> DEFINE r == [at |-> "none", wants |-> "none", on |-> Nothing]
  <2>1. v4' = [v4 EXCEPT ![c] = r]
    BY <1>3 DEF Trees!Leaves
  <2>2. r \in CallerRec(p) /\ r.at = "none"
    BY DEF CallerRec
  <2> HIDE DEF r
  <2>4. v4' \in [Everyone(p) -> CallerRec(p)] /\ v4'[c] = r /\ \A d \in Everyone(p) : d # c => v4'[d] = v4[d]
    BY <1>1, <2>2, <2>1
  <2>5. v4[c].at # "swapping" => CallersGoOn(p)
    BY <1>1, <1>3, <2>2, <2>4 DEF CallersGoOn, CallersStand, Everyone, Earlier, Early, TreesAssumption
  <2> QED BY <1>3, <2>2, <2>4, <2>5
<1> QED BY <1>2, <1>3

\* A launcher's steps, but for the seeding, the work and the apply; and a recovery.
LEMMA LaunchersNext ==
  ASSUME NEW p, TreesAssumption(p), TreesInv(p), NEW s \in Implementers[p],
         \/ Trees(p)!Launch(s) \/ Trees(p)!Start(s) \/ Trees(p)!Abandon(s) \/ Trees(p)!Exit(s) \/ Trees(p)!Hold(s)
         \/ Trees(p)!EndHeld(s) \/ Trees(p)!MarkExit(s) \/ Trees(p)!KeepOrRemove(s) \/ Trees(p)!Recover(s)
         \/ \E how \in {"cancelled", "failed"} : Trees(p)!Stop(s, how)
  PROVE  TreesInv(p)'
<1>1. UNCHANGED <<v1, v5, v6, v7, v9, v10>>
  BY DEF Trees!Launch, Trees!Start, Trees!Abandon, Trees!Exit, Trees!Hold, Trees!EndHeld, Trees!MarkExit, Trees!KeepOrRemove,
         Trees!Recover, Trees!Stop
<1>2. WorkspaceTypes(p) /\ CallersStand(p) /\ s \in Everyone(p) /\ s \notin Operators[p]
  BY DEF TreesInv, Everyone, TreesAssumption
<1>3. SessionsGoOn(p) /\ CallersGoOn(p) /\ TreesGoOn(p)
  <2>1. CASE Trees(p)!Launch(s)
    <3>1. /\ v4[s].at = "none" /\ v4' = [v4 EXCEPT ![s].at = "created"]
          /\ v2' = [v2 EXCEPT ![s].state = "launching"] /\ UNCHANGED v3
      BY <2>1 DEF Trees!Launch, Trees!Goes
    <3> QED BY <1>2, <3>1, EndsOnly, Moves, Same DEF Early
  <2>2. CASE Trees(p)!Start(s)
    <3>1. /\ v4[s].at = "seeding" /\ Ready(p, s) /\ UNCHANGED v3
          /\ v2' = v2 \/ v2' = [v2 EXCEPT ![s].state = "running"]
          /\ v4' = [v4 EXCEPT ![s].at = "running"] \/ v4' = [v4 EXCEPT ![s].at = "cleaning"]
      BY <2>2 DEF Trees!Start, Trees!Goes, Trees!Ends, Trees!HostEdited, Ready
    <3> QED BY <1>2, <3>1, EndsOnly, Moves, Same
  <2>3. CASE Trees(p)!Abandon(s)
    <3>1. /\ v4[s].at # "swapping" /\ Trees(p)!Leaves(s) /\ Trees(p)!Gone(s)
          /\ v2' = v2 \/ v2' = [v2 EXCEPT ![s].state = "failed"]
      BY <2>3 DEF Trees!Abandon, Trees!Ends
    <3> QED BY <1>2, <3>1, EndsOnly, Leaving, Vanishes
  <2>4. CASE Trees(p)!Exit(s)
    <3>1. /\ v4[s].at = "running" /\ UNCHANGED <<v2, v3>>
          /\ v4' = [v4 EXCEPT ![s].at = "holding"] \/ v4' = [v4 EXCEPT ![s].at = "applying"]
      BY <2>4 DEF Trees!Exit, Trees!Goes
    <3> QED BY <1>2, <3>1, Moves, Same DEF Earlier, Early
  <2>5. CASE Trees(p)!Hold(s)
    <3>1. /\ v4[s].at = "holding" /\ UNCHANGED v3 /\ v4' = [v4 EXCEPT ![s].at = "held"]
          /\ v2' = [v2 EXCEPT ![s].held = "held"]
      BY <2>5 DEF Trees!Hold, Trees!Goes
    <3>2. Started(s)
      BY <3>1 DEF Started, Early
    <3>3. SessionsGoOn(p)
      BY <1>2, <3>1, <3>2 DEF SessionsGoOn, SessionRec, HasResult, WorkspaceTypes, Started
    <3> QED BY <1>2, <3>1, <3>3, Moves, Same DEF Earlier, Early
  <2>6. CASE Trees(p)!EndHeld(s)
    <3>1. /\ v4[s].at = "held" /\ UNCHANGED v3 /\ Trees(p)!Leaves(s)
          /\ v2' = v2 \/ v2' = [v2 EXCEPT ![s].state = "completed"]
      BY <2>6 DEF Trees!EndHeld, Trees!Ends
    <3> QED BY <1>2, <3>1, EndsOnly, Leaving, Same
  <2>7. CASE Trees(p)!MarkExit(s)
    <3>1. /\ v4[s].at \in {"applied", "refused"} /\ UNCHANGED v3 /\ v4' = [v4 EXCEPT ![s].at = "cleaning"]
          /\ \/ v2' = v2
             \/ v2' = [v2 EXCEPT ![s].state = "completed"] \/ v2' = [v2 EXCEPT ![s].state = "refused"]
      BY <2>7 DEF Trees!MarkExit, Trees!Ends, Trees!Goes
    <3> QED BY <1>2, <3>1, EndsOnly, Moves, Same DEF Earlier, Early
  <2>8. CASE Trees(p)!KeepOrRemove(s)
    <3>1. /\ v4[s].at = "cleaning" /\ Trees(p)!Leaves(s)
          /\ \/ v2' = [v2 EXCEPT ![s].kept = "pending"] /\ UNCHANGED v3
             \/ Trees(p)!Gone(s) /\ UNCHANGED v2
      BY <2>8 DEF Trees!KeepOrRemove
    <3>2. Started(s)
      BY <3>1 DEF Started, Early
    <3>3. SessionsGoOn(p)
      BY <1>2, <3>1, <3>2, Same DEF SessionsGoOn, SessionRec, HasResult, WorkspaceTypes, Started
    <3> QED BY <1>2, <3>1, <3>3, Leaving, Vanishes, Same
  <2>9. CASE Trees(p)!Recover(s)
    <3>1. UNCHANGED v4 /\ Trees(p)!Gone(s) /\ v2' = [v2 EXCEPT ![s].state = "failed"]
      BY <2>9 DEF Trees!Recover
    <3> QED BY <3>1, EndsOnly, Vanishes, Same
  <2>10. CASE \E how \in {"cancelled", "failed"} : Trees(p)!Stop(s, how)
    <3>1. /\ v4[s].at = "running" /\ UNCHANGED v3 /\ v4' = [v4 EXCEPT ![s].at = "cleaning"]
          /\ \/ v2' = v2
             \/ v2' = [v2 EXCEPT ![s].state = "cancelled"] \/ v2' = [v2 EXCEPT ![s].state = "failed"]
      BY <2>10 DEF Trees!Stop, Trees!Ends, Trees!Goes
    <3> QED BY <1>2, <3>1, EndsOnly, Moves, Same DEF Earlier, Early
  <2> QED BY <2>1, <2>2, <2>3, <2>4, <2>5, <2>6, <2>7, <2>8, <2>9, <2>10
<1> QED BY <1>1, <1>2, <1>3, Quietly DEF WorkspaceTypes

\* An operator's steps, the refusal of an apply, and what happens to the whole run.
LEMMA OthersNext ==
  ASSUME NEW p, TreesAssumption(p), TreesInv(p),
         \/ \E o \in Operators[p] :
              \/ Trees(p)!MarkRequest(o)
              \/ \E s \in Implementers[p] : Trees(p)!Ask(o, s, "apply") \/ Trees(p)!Ask(o, s, "adopt") \/ Trees(p)!Discard(o, s)
         \/ \E c \in Everyone(p) : Trees(p)!RefuseApply(c) \/ Trees(p)!Remove(c)
         \/ Trees(p)!Pause \/ Trees(p)!Resume \/ Trees(p)!CloseRun
  PROVE  TreesInv(p)'
<1>1. UNCHANGED <<v1, v5, v6, v9, v10>>
  BY DEF Trees!MarkRequest, Trees!Ask, Trees!Discard, Trees!RefuseApply, Trees!Remove, Trees!Pause, Trees!Resume, Trees!CloseRun
<1>2. WorkspaceTypes(p) /\ CallersStand(p)
  BY DEF TreesInv
<1>3. v7' \in {"running", "paused", "resumed"}
  BY <1>2 DEF WorkspaceTypes, Trees!MarkRequest, Trees!Ask, Trees!Discard, Trees!RefuseApply, Trees!Remove, Trees!Pause, Trees!Resume, Trees!CloseRun
<1>4. ASSUME NEW o \in Operators[p], NEW s \in Implementers[p], NEW a \in {"applying", "removing"},
             NEW w \in {"apply", "adopt", "discard"}, v4[o].at = "none", HasResult(s),
             v4' = [v4 EXCEPT ![o] = [at |-> a, wants |-> w, on |-> s]]
      PROVE  CallersGoOn(p)
  <2> DEFINE r == [at |-> a, wants |-> w, on |-> s]
  <2>1. r \in CallerRec(p) /\ r.at = a /\ r.on = s
    BY DEF CallerRec
  <2> HIDE DEF r
  <2>2. v4' = [v4 EXCEPT ![o] = r]
    BY <1>4 DEF r
  <2>3. o \in Everyone(p) /\ o \notin Implementers[p] /\ v4 \in [Everyone(p) -> CallerRec(p)]
    BY <1>2 DEF Everyone, TreesAssumption, WorkspaceTypes
  <2>4. v4' \in [Everyone(p) -> CallerRec(p)] /\ v4'[o] = r /\ \A d \in Everyone(p) : d # o => v4'[d] = v4[d]
    BY <2>1, <2>2, <2>3
  <2> QED BY <1>2, <1>4, <2>1, <2>3, <2>4 DEF CallersGoOn, CallersStand, Everyone
<1>5. ASSUME NEW o \in Operators[p], v4[o].at \in {"applied", "refused"}
      PROVE  /\ o \in Everyone(p) /\ o \notin Implementers[p]
             /\ v4[o].on \in Implementers[p] /\ HasResult(v4[o].on)
  BY <1>2, <1>5 DEF Everyone, CallersStand, TreesAssumption
<1>6. SessionsGoOn(p) /\ CallersGoOn(p) /\ TreesGoOn(p)
  <2>1. ASSUME NEW o \in Operators[p], Trees(p)!MarkRequest(o) PROVE SessionsGoOn(p) /\ CallersGoOn(p) /\ TreesGoOn(p)
    <3> DEFINE s == v4[o].on
    <3>1. /\ v4[o].at \in {"applied", "refused"} /\ UNCHANGED v3
          /\ \/ /\ v2' = [v2 EXCEPT ![s].held = "adopted"] \/ v2' = [v2 EXCEPT ![s].kept = "applied"]
                /\ v4' = [v4 EXCEPT ![o].at = "removing"]
             \/ UNCHANGED v2 /\ Trees(p)!Leaves(o)
      BY <2>1 DEF Trees!MarkRequest, Trees!Goes
    <3>2. /\ o \in Everyone(p) /\ o \notin Implementers[p] /\ s \in Implementers[p] /\ HasResult(s)
      BY <1>5, <3>1
    <3> HIDE DEF s
    <3>3. SessionsGoOn(p)
      BY <1>2, <3>1, <3>2, Same DEF SessionsGoOn, SessionRec, HasResult, WorkspaceTypes, Started
    <3> QED BY <3>1, <3>2, <3>3, Moves, Leaving, Same
  <2>2. ASSUME NEW o \in Operators[p], NEW s \in Implementers[p],
               Trees(p)!Ask(o, s, "apply") \/ Trees(p)!Ask(o, s, "adopt") \/ Trees(p)!Discard(o, s)
        PROVE  SessionsGoOn(p) /\ CallersGoOn(p) /\ TreesGoOn(p)
    <3>1. /\ v4[o].at = "none" /\ UNCHANGED v3 /\ HasResult(s)
          /\ \/ UNCHANGED v2 /\ v4' = [v4 EXCEPT ![o] = [at |-> "applying", wants |-> "apply", on |-> s]]
             \/ UNCHANGED v2 /\ v4' = [v4 EXCEPT ![o] = [at |-> "applying", wants |-> "adopt", on |-> s]]
             \/ /\ v2' = [v2 EXCEPT ![s].kept = "discarded"]
                /\ v4' = [v4 EXCEPT ![o] = [at |-> "removing", wants |-> "discard", on |-> s]]
      BY <2>2 DEF Trees!Ask, Trees!Discard, Trees!Disposable, Trees!Adoptable, HasResult
    <3>2. SessionsGoOn(p)
      BY <1>2, <3>1, Same DEF SessionsGoOn, SessionRec, HasResult, WorkspaceTypes, Started
    <3> QED BY <1>4, <3>1, <3>2, Same
  <2>3. ASSUME NEW c \in Everyone(p), Trees(p)!RefuseApply(c) PROVE SessionsGoOn(p) /\ CallersGoOn(p) /\ TreesGoOn(p)
    <3>1. v4[c].at = "applying" /\ v4' = [v4 EXCEPT ![c].at = "refused"] /\ UNCHANGED <<v2, v3>>
      BY <2>3 DEF Trees!RefuseApply, Trees!Goes
    <3> QED BY <3>1, Moves, Same DEF Earlier, Early
  <2>4. ASSUME NEW c \in Everyone(p), Trees(p)!Remove(c) PROVE SessionsGoOn(p) /\ CallersGoOn(p) /\ TreesGoOn(p)
    <3>1. v4[c].at = "removing" /\ Trees(p)!Leaves(c) /\ Trees(p)!Gone(v4[c].on) /\ UNCHANGED v2
      BY <2>4 DEF Trees!Remove
    <3>2. v4[c].on \in Implementers[p]
      BY <1>2, <3>1 DEF CallersStand, Everyone
    <3> QED BY <3>1, <3>2, Leaving, Vanishes, Same
  <2>5. CASE Trees(p)!Pause \/ Trees(p)!Resume
    <3>1. UNCHANGED <<v2, v3, v4>>
      BY <2>5 DEF Trees!Pause, Trees!Resume
    <3> QED BY <3>1, Same
  <2>6. CASE Trees(p)!CloseRun
    <3>1. /\ UNCHANGED v4
          /\ v2' = [s \in Implementers[p] |->
                      IF v2[s].state = "launching" THEN [v2[s] EXCEPT !.state = "failed"]
                      ELSE IF v2[s].state = "running" THEN [v2[s] EXCEPT !.state = "cancelled"]
                      ELSE IF v2[s].kept = "pending" THEN [v2[s] EXCEPT !.kept = "discarded"]
                      ELSE v2[s]]
          /\ \E gone \in SUBSET Implementers[p] :
               v3' = [s \in Implementers[p] |-> IF s \in gone THEN Trees(p)!NoTree ELSE v3[s]]
      BY <2>6, Zenon DEF Trees!CloseRun
    <3>2. SessionsGoOn(p)
      <4>1. v2' \in [Implementers[p] -> SessionRec]
        BY <1>2, <3>1 DEF SessionRec, WorkspaceTypes
      <4>2. ASSUME NEW s \in Implementers[p]
            PROVE  (HasResult(s) => HasResult(s)') /\ (HasResult(s)' => Started(s))
        BY <1>2, <3>1 DEF SessionRec, HasResult, WorkspaceTypes, Started
      <4> QED BY <4>1, <4>2 DEF SessionsGoOn
    <3>3. TreesGoOn(p)
      <4> DEFINE none == Trees(p)!NoTree
      <4>1. /\ none \in TreeRec(p) /\ none.exists = FALSE
            /\ \A q \in Paths : none.base[q] = Nothing /\ none.seed[q] = Nothing /\ none.work[q] = Nothing
        BY DEF Trees!NoTree, Trees!Empty, TreeRec, PathsOf
      <4> HIDE DEF none
      <4>2. PICK gone : v3' = [s \in Implementers[p] |-> IF s \in gone THEN none ELSE v3[s]]
        BY <3>1 DEF none
      <4> QED BY <1>2, <4>1, <4>2 DEF TreesGoOn, WorkspaceTypes
    <3> QED BY <3>1, <3>2, <3>3, Same
  <2> QED BY <2>1, <2>2, <2>3, <2>4, <2>5, <2>6
<1> QED BY <1>1, <1>3, <1>6, Quietly

\* A worktree is seeded from the project as it is, while it changes.
LEMMA SeedingNext ==
  ASSUME NEW p, TreesAssumption(p), TreesInv(p), NEW s \in Implementers[p],
         Trees(p)!BeginSeeding(s) \/ \E q \in Paths : Trees(p)!SeedPath(s, q)
  PROVE  TreesInv(p)'
<1>1. WorkspaceTypes(p) /\ CallersStand(p) /\ SeedsWhole(p) /\ PartlyApplied(p) /\ WorkStory(p)
  BY DEF TreesInv
<1>2. UNCHANGED <<v1, v2, v5, v6, v7, v9, v10>>
  BY DEF Trees!BeginSeeding, Trees!SeedPath
<1>3. /\ v4[s].at \in {"created", "seeding"}
      /\ v4' = [v4 EXCEPT ![s].at = "seeding"]
  <2>1. CASE Trees(p)!BeginSeeding(s)
    BY <2>1 DEF Trees!BeginSeeding, Trees!Goes
  <2>2. CASE \E q \in Paths : Trees(p)!SeedPath(s, q)
    <3>1. v4[s].at = "seeding" /\ v4' = v4
      BY <2>2 DEF Trees!SeedPath
    <3> QED BY <1>1, <3>1 DEF WorkspaceTypes, CallerRec, Everyone
  <2> QED BY <2>1, <2>2
<1>4. /\ v4' \in [Everyone(p) -> CallerRec(p)] /\ v4'[s].at = "seeding"
      /\ \A c \in Everyone(p) : v4'[c].on = v4[c].on /\ (c # s => v4'[c] = v4[c])
      /\ s \in Everyone(p) /\ s \notin Operators[p]
  BY <1>1, <1>3 DEF WorkspaceTypes, CallerRec, Everyone, TreesAssumption
<1>5. CallersStand(p)'
  BY <1>1, <1>2, <1>3, <1>4 DEF CallersStand, HasResult, Everyone, Early
<1>6. ~Started(s)' /\ \A t \in Implementers[p] : t # s => (Started(t)' <=> Started(t))
  BY <1>1, <1>2, <1>3, <1>4 DEF Started, HasResult, CallersStand, Early, Everyone
<1>7. PICK r \in TreeRec(p) :
        /\ v3' = [v3 EXCEPT ![s] = r] /\ r.exists
        /\ \A q \in Paths : r.seed[q] # Nothing => r.work[q] # Nothing
        /\ \A q \in Paths : \/ r.base[q] = v3[s].base[q] \/ r.base[q] \in {v1[q], Nothing}
        /\ \A q \in Paths : \/ r.seed[q] = v3[s].seed[q] /\ r.work[q] = v3[s].work[q]
                            \/ r.seed[q] = r.work[q] /\ r.seed[q] \in {v1[q], Nothing}
        /\ \/ /\ \A q \in Owns[p][s] : r.base[q] = v1[q] /\ r.work[q] = r.seed[q] /\ r.seed[q] \in {Nothing, v1[q]}
              /\ r.amid = (v5 # Nothing)
           \/ /\ v3[s].exists /\ v4[s].at = "seeding" /\ r.base = v3[s].base /\ (r.amid = FALSE => v3[s].amid = FALSE /\ v5 = Nothing)
              /\ \A q \in Paths : \/ r.seed[q] = v3[s].seed[q] /\ r.work[q] = v3[s].work[q]
                                  \/ r.seed[q] = v1[q] /\ r.work[q] = v1[q]
  <2>1. CASE Trees(p)!BeginSeeding(s)
    <3> DEFINE atCommit == [q \in Paths |-> IF q \in Committed /\ v1[q].n = 0 THEN v1[q] ELSE Nothing]
               base == [q \in Paths |-> IF q \in Owns[p][s] THEN v1[q] ELSE Nothing]
               r == [base |-> base, seed |-> atCommit, work |-> atCommit, exists |-> TRUE, amid |-> v5 # Nothing]
    <3>1. v3' = [v3 EXCEPT ![s] = r]
      BY <2>1 DEF Trees!BeginSeeding, Trees!LockFree
    <3>2. atCommit \in PathsOf(p) /\ base \in PathsOf(p)
      BY <1>1 DEF WorkspaceTypes, PathsOf
    <3>3. /\ \A q \in Paths : base[q] \in {v1[q], Nothing} /\ atCommit[q] \in {v1[q], Nothing}
          /\ \A q \in Owns[p][s] : base[q] = v1[q] /\ q \in Paths
      BY DEF TreesAssumption
    <3> HIDE DEF atCommit, base
    <3>4. r \in TreeRec(p)
      BY <3>2 DEF TreeRec
    <3> QED BY <3>1, <3>3, <3>4
  <2>2. CASE \E q \in Paths : Trees(p)!SeedPath(s, q)
    <3>1. PICK q \in Paths : Trees(p)!SeedPath(s, q)
      BY <2>2
    <3> DEFINE t == v3[s]
               r == [base |-> t.base, seed |-> [t.seed EXCEPT ![q] = v1[q]], work |-> [t.work EXCEPT ![q] = v1[q]],
                     exists |-> t.exists, amid |-> t.amid \/ v5 # Nothing]
    <3>2. t \in TreeRec(p) /\ v1[q] \in Contents(p) /\ Nothing \notin Contents(p)
      BY <1>1, TreesNames DEF WorkspaceTypes, TreesAssumption
    <3>3. v3' = [v3 EXCEPT ![s] = r]
      BY <3>1 DEF Trees!SeedPath, Trees!LockFree
    <3>4. r \in TreeRec(p)
      BY <3>2 DEF TreeRec, PathsOf
    <3>5. v4[s].at = "seeding" /\ t.exists
      BY <3>1 DEF Trees!SeedPath
    <3>6. \A z \in Paths : \/ r.seed[z] = t.seed[z] /\ r.work[z] = t.work[z]
                           \/ r.seed[z] = v1[z] /\ r.work[z] = v1[z]
      BY <3>2 DEF TreeRec, PathsOf
    <3>7. \A z \in Paths : r.seed[z] # Nothing => r.work[z] # Nothing
      BY <1>1, <3>2, <3>5, <3>6 DEF SeedsWhole, WorkspaceTypes
    <3>8. r.base = t.base /\ r.exists /\ (r.amid = FALSE => t.amid = FALSE /\ v5 = Nothing)
      BY <3>2, <3>5 DEF TreeRec
    <3> HIDE DEF r
    <3>9. /\ \A z \in Paths : \/ r.base[z] = v3[s].base[z] \/ r.base[z] \in {v1[z], Nothing}
          /\ \A z \in Paths : \/ r.seed[z] = v3[s].seed[z] /\ r.work[z] = v3[s].work[z]
                              \/ r.seed[z] = r.work[z] /\ r.seed[z] \in {v1[z], Nothing}
      BY <3>6, <3>8
    <3>10. v3[s].exists /\ r.base = v3[s].base /\ (r.amid = FALSE => v3[s].amid = FALSE /\ v5 = Nothing) /\ r.exists
      BY <3>5, <3>8
    <3>11. \A z \in Paths : \/ r.seed[z] = v3[s].seed[z] /\ r.work[z] = v3[s].work[z]
                            \/ r.seed[z] = v1[z] /\ r.work[z] = v1[z]
      BY <3>6
    <3> QED BY <3>3, <3>4, <3>5, <3>7, <3>9, <3>10, <3>11, Zenon
  <2> QED BY <2>1, <2>2
<1>8. v3'[s] = r /\ \A t \in Implementers[p] : t # s => v3'[t] = v3[t]
  BY <1>1, <1>7 DEF WorkspaceTypes
<1>9. WorkspaceTypes(p)'
  BY <1>1, <1>2, <1>4, <1>7 DEF WorkspaceTypes, Contents, PathsOf, TreeRec, CallerRec, ApplyRec, Everyone
<1>10. SeedsWhole(p)'
  BY <1>1, <1>2, <1>6, <1>7, <1>8 DEF SeedsWhole, Started, HasResult, Contents
<1>11. PartlyApplied(p)'
  BY <1>1, <1>2, <1>4 DEF PartlyApplied, WorkspaceTypes, ApplyRec
<1>12. ASSUME v10 = 0 PROVE WritesNumbered(p)'
  <2>1. \A x \in Contents(p) : IsThere(p, x)' => IsThere(p, x)
    BY <1>2, <1>7, <1>8, TreesNames DEF IsThere, TreesAssumption
  <2> QED BY <1>1, <1>2, <1>12, <2>1 DEF WorkStory, WritesNumbered, Contents
<1>13. \A q \in Paths : v1[q] \in Contents(p) /\ v1[q] # Nothing
  BY <1>1, TreesNames DEF WorkspaceTypes, TreesAssumption
<1>14. ASSUME v10 = 0 PROVE WritesFollow(p)'
  <2> SUFFICES ASSUME NEW t \in Implementers[p], v3'[t].exists, NEW q \in Owns[p][t]
               PROVE  /\ v3'[t].base[q] \in Contents(p)
                      /\ v3'[t].seed[q] = Nothing => v3'[t].work[q] = Nothing
                      /\ v3'[t].work[q] # v3'[t].seed[q] => /\ v3'[t].work[q] \in Contents(p)
                                                            /\ v3'[t].work[q].n > v3'[t].base[q].n
    BY DEF WritesFollow, Contents
  <2>1. q \in Paths /\ WritesFollow(p)
    BY <1>1, <1>14 DEF TreesAssumption, WorkStory
  <2>2. CASE t # s
    BY <1>8, <2>1, <2>2 DEF WritesFollow
  <2>3. CASE t = s
    BY <1>7, <1>8, <1>13, <2>1, <2>3 DEF WritesFollow
  <2> QED BY <2>2, <2>3
<1>15. ASSUME v10 = 0 PROVE SeedsFollow(p)'
  <2> SUFFICES ASSUME NEW t \in Implementers[p], v3'[t].exists, v3'[t].amid = FALSE, v4'[t].at = "seeding", NEW q \in Owns[p][t]
               PROVE  /\ NoneBefore(q, v3'[t].base[q].n)
                      /\ v3'[t].seed[q] \in {Nothing, v3'[t].base[q]} \/ NoneBefore(q, v3'[t].base[q].n + 1)
    BY <1>2 DEF SeedsFollow, NoneBefore
  <2>1. q \in Paths /\ SeedsFollow(p) /\ WritesNumbered(p) /\ WritesFollow(p)
    BY <1>1, <1>15 DEF TreesAssumption, WorkStory
  <2>2. CASE t # s
    BY <1>4, <1>8, <2>1, <2>2 DEF SeedsFollow, Everyone
  <2>3. CASE t = s /\ v5 = Nothing /\ r.base[q] = v1[q] /\ r.seed[q] \in {Nothing, v1[q]}
    BY <1>8, <1>13, <2>1, <2>3 DEF NoneBefore, Contents
  <2>4. CASE /\ t = s /\ v5 = Nothing /\ v3[s].exists /\ v4[s].at = "seeding" /\ r.base = v3[s].base /\ v3[s].amid = FALSE
             /\ r.seed[q] = v3[s].seed[q] \/ r.seed[q] = v1[q]
    <3>1. /\ NoneBefore(q, v3[s].base[q].n)
          /\ v3[s].seed[q] \in {Nothing, v3[s].base[q]} \/ NoneBefore(q, v3[s].base[q].n + 1)
          /\ v3[s].base[q] \in Contents(p)
      BY <2>1, <2>4 DEF SeedsFollow, WritesFollow
    <3>2. IsThere(p, v1[q]) /\ IsThere(p, v3[s].base[q])
      BY <2>1 DEF IsThere
    <3>3. v1[q] = v3[s].base[q] \/ v1[q].n # v3[s].base[q].n
      BY <1>13, <2>1, <3>1, <3>2 DEF WritesNumbered
    <3>4. v1[q].n \in Int /\ v3[s].base[q].n \in Int
      BY <1>13, <2>1, <3>1 DEF Contents
    <3>5. v1[q] = v3[s].base[q] \/ NoneBefore(q, v3[s].base[q].n + 1)
      BY <2>4, <3>1, <3>3, <3>4 DEF NoneBefore
    <3> QED BY <1>8, <2>4, <3>1, <3>5
  <2> QED BY <1>7, <1>8, <2>1, <2>2, <2>3, <2>4
<1>16. ASSUME v10 = 0 PROVE SeedIsBase(p)'
  <2> SUFFICES ASSUME NEW t \in Implementers[p], v3'[t].exists, v3'[t].amid = FALSE, Started(t)', NEW q \in Owns[p][t]
               PROVE  v3'[t].seed[q] = v3'[t].base[q]
    BY DEF SeedIsBase, Started, HasResult
  <2> QED BY <1>1, <1>6, <1>8, <1>16 DEF WorkStory, SeedIsBase
<1>17. ASSUME v10 = 0 PROVE SeenBefore(p)'
  BY <1>1, <1>2, <1>17 DEF WorkStory, SeenBefore
<1>18. WorkStory(p)'
  BY <1>2, <1>12, <1>14, <1>15, <1>16, <1>17 DEF WorkStory
<1> QED BY <1>5, <1>9, <1>10, <1>11, <1>18 DEF TreesInv

\* A write is the last of all.
LEMMA NewWrite ==
  ASSUME NEW p, TreesAssumption(p), TreesInv(p), NEW new \in Contents(p), new.n = v9 + 1, v9' = v9 + 1, v10 = 0,
         \A x \in Contents(p) : IsThere(p, x)' => IsThere(p, x) \/ x = new
  PROVE  WritesNumbered(p)'
<1>1. WritesNumbered(p) /\ v9 \in Nat
  BY DEF TreesInv, WorkStory, WorkspaceTypes, TreesAssumption
<1>2. \A x \in Contents(p) : x.n \in Nat
  BY DEF Contents, TreesAssumption
<1>3. ASSUME NEW x \in Contents(p), NEW y \in Contents(p), IsThere(p, x)', IsThere(p, y)'
      PROVE  x.n <= v9' /\ (x.n = y.n => x = y)
  BY <1>1, <1>2, <1>3 DEF WritesNumbered
<1> QED BY <1>3 DEF WritesNumbered, Contents

LEMMA WorkNext ==
  ASSUME NEW p, TreesAssumption(p), TreesInv(p), NEW s \in Implementers[p], NEW q \in Paths, Trees(p)!Work(s, q)
  PROVE  TreesInv(p)'
<1> DEFINE new == [n |-> v9 + 1, by |-> s]
           t == v3[s]
           r == [t EXCEPT !.work = [@ EXCEPT ![q] = new]]
<1>1. WorkspaceTypes(p) /\ CallersStand(p) /\ SeedsWhole(p) /\ PartlyApplied(p) /\ WorkStory(p)
  BY DEF TreesInv
<1>2. UNCHANGED <<v1, v2, v4, v5, v6, v7, v10>> /\ v9' = v9 + 1 /\ v9 < MaxWrites /\ v4[s].at = "running" /\ v3[s].exists
  BY DEF Trees!Work
<1>3. v3' = [v3 EXCEPT ![s] = r]
  BY <1>1 DEF Trees!Work, Trees!Written, WorkspaceTypes, TreeRec
<1>4. new \in Contents(p) /\ new.n = v9 + 1 /\ Nothing \notin Contents(p) /\ v9 \in Nat
  <2>1. v9 \in Nat /\ v9 + 1 \in 0 .. MaxWrites
    BY <1>1, <1>2 DEF WorkspaceTypes, TreesAssumption
  <2>2. Nothing \notin Contents(p)
    BY TreesNames DEF TreesAssumption
  <2> QED BY <2>1, <2>2 DEF Contents
<1> HIDE DEF new
<1>5. /\ r \in TreeRec(p) /\ r.base = t.base /\ r.seed = t.seed /\ r.exists = t.exists /\ r.amid = t.amid
      /\ r.work[q] = new /\ \A z \in Paths : z # q => r.work[z] = t.work[z]
  BY <1>1, <1>4 DEF WorkspaceTypes, TreeRec, PathsOf
<1>6. Started(s) /\ \A u \in Implementers[p] : Started(u)' <=> Started(u)
  BY <1>2 DEF Started, HasResult, Early
<1> HIDE DEF r
<1>7. v3'[s] = r /\ \A u \in Implementers[p] : u # s => v3'[u] = v3[u]
  BY <1>1, <1>3 DEF WorkspaceTypes
<1>8. \A z \in Paths : t.seed[z] # Nothing
  BY <1>1, <1>2, <1>4, <1>6 DEF SeedsWhole
<1>9. WorkspaceTypes(p)'
  BY <1>1, <1>2, <1>3, <1>4, <1>5 DEF WorkspaceTypes, Contents, PathsOf, TreeRec, CallerRec, ApplyRec, Everyone, TreesAssumption
<1>10. CallersStand(p)' /\ PartlyApplied(p)'
  BY <1>1, <1>2 DEF CallersStand, PartlyApplied, HasResult, Everyone
<1>11. SeedsWhole(p)'
  <2>1. \A u \in Implementers[p] : v3'[u].exists => \A z \in Paths : v3'[u].seed[z] # Nothing => v3'[u].work[z] # Nothing
    BY <1>1, <1>2, <1>4, <1>5, <1>7 DEF SeedsWhole
  <2>2. \A u \in Implementers[p] : v3'[u].exists /\ Started(u)' =>
          \A z \in Paths : v3'[u].seed[z] \in Contents(p) /\ v3'[u].work[z] \in Contents(p)
    BY <1>1, <1>2, <1>4, <1>5, <1>6, <1>7 DEF SeedsWhole
  <2> QED BY <1>1, <1>2, <2>1, <2>2 DEF SeedsWhole, Started, HasResult, Contents
<1>12. ASSUME v10 = 0 PROVE WritesNumbered(p)'
  <2>1. \A x \in Contents(p) : IsThere(p, x)' => IsThere(p, x) \/ x = new
    BY <1>2, <1>5, <1>7 DEF IsThere
  <2> QED BY <1>2, <1>4, <1>12, <2>1, NewWrite
<1>13. ASSUME v10 = 0 PROVE WritesFollow(p)'
  <2>1. /\ t.base[q] \in Contents(p) => t.base[q].n <= v9
    BY <1>1, <1>13 DEF WorkStory, WritesNumbered, IsThere
  <2>2. ASSUME NEW u \in Implementers[p], v3'[u].exists, NEW z \in Owns[p][u]
        PROVE  /\ v3'[u].base[z] \in Contents(p)
               /\ v3'[u].seed[z] = Nothing => v3'[u].work[z] = Nothing
               /\ v3'[u].work[z] # v3'[u].seed[z] => /\ v3'[u].work[z] \in Contents(p)
                                                     /\ v3'[u].work[z].n > v3'[u].base[z].n
    <3>1. WritesFollow(p) /\ z \in Paths /\ \A x \in Contents(p) : x.n \in Nat
      BY <1>1, <1>13 DEF WorkStory, TreesAssumption, Contents
    <3>2. CASE u # s \/ z # q
      BY <1>2, <1>5, <1>7, <2>2, <3>1, <3>2 DEF WritesFollow
    <3>3. CASE u = s /\ z = q
      BY <1>2, <1>4, <1>5, <1>7, <1>8, <2>1, <2>2, <3>1, <3>3 DEF WritesFollow
    <3> QED BY <3>2, <3>3
  <2> QED BY <2>2 DEF WritesFollow, Contents
<1>14. ASSUME v10 = 0 PROVE SeedsFollow(p)'
  BY <1>1, <1>2, <1>7, <1>14 DEF WorkStory, SeedsFollow, NoneBefore
<1>15. ASSUME v10 = 0 PROVE SeedIsBase(p)'
  <2>1. \A u \in Implementers[p] : v3'[u].exists /\ v3'[u].amid = FALSE /\ Started(u)' =>
            \A z \in Owns[p][u] : v3'[u].seed[z] = v3'[u].base[z]
    BY <1>1, <1>5, <1>6, <1>7, <1>15 DEF WorkStory, SeedIsBase
  <2> QED BY <2>1 DEF SeedIsBase, Started, HasResult
<1>16. ASSUME v10 = 0 PROVE SeenBefore(p)'
  BY <1>1, <1>2, <1>16 DEF WorkStory, SeenBefore
<1>17. WorkStory(p)'
  BY <1>2, <1>12, <1>13, <1>14, <1>15, <1>16 DEF WorkStory
<1> QED BY <1>9, <1>10, <1>11, <1>17 DEF TreesInv

LEMMA EditNext ==
  ASSUME NEW p, TreesAssumption(p), TreesInv(p), NEW q \in Paths, Trees(p)!PersonEdits(q)
  PROVE  TreesInv(p)'
<1> DEFINE new == [n |-> v9 + 1, by |-> People]
<1>1. WorkspaceTypes(p) /\ CallersStand(p) /\ SeedsWhole(p) /\ PartlyApplied(p) /\ WorkStory(p)
  BY DEF TreesInv
<1>2. UNCHANGED <<v2, v3, v4, v5, v6, v7, v10>> /\ v9' = v9 + 1 /\ v9 < MaxWrites
  BY DEF Trees!PersonEdits
<1>3. v1' = [v1 EXCEPT ![q] = new]
  BY DEF Trees!PersonEdits, Trees!Written
<1>4. new \in Contents(p) /\ new.n = v9 + 1 /\ new.by = People /\ v9 \in Nat
  <2>1. v9 \in Nat /\ v9 + 1 \in 0 .. MaxWrites
    BY <1>1, <1>2 DEF WorkspaceTypes, TreesAssumption
  <2> QED BY <2>1 DEF Contents
<1> HIDE DEF new
<1>5. v1' \in [Paths -> Contents(p)] /\ v1'[q] = new /\ \A z \in Paths : z # q => v1'[z] = v1[z]
  BY <1>1, <1>3, <1>4 DEF WorkspaceTypes
<1>6. WorkspaceTypes(p)'
  BY <1>1, <1>2, <1>4, <1>5 DEF WorkspaceTypes, Contents, PathsOf, TreeRec, CallerRec, ApplyRec, Everyone, TreesAssumption
<1>7. CallersStand(p)' /\ SeedsWhole(p)' /\ PartlyApplied(p)'
  BY <1>1, <1>2 DEF CallersStand, SeedsWhole, PartlyApplied, Started, HasResult, Everyone, Contents
<1>8. ASSUME v10 = 0 PROVE WritesNumbered(p)'
  <2>1. \A x \in Contents(p) : IsThere(p, x)' => IsThere(p, x) \/ x = new
    BY <1>2, <1>5 DEF IsThere
  <2> QED BY <1>2, <1>4, <1>8, <2>1, NewWrite
<1>9. ASSUME v10 = 0 PROVE WritesFollow(p)' /\ SeedIsBase(p)'
  BY <1>1, <1>2, <1>9 DEF WorkStory, WritesFollow, SeedIsBase, Started, HasResult, Contents
<1>10. ASSUME v10 = 0 PROVE SeedsFollow(p)'
  <2>1. ASSUME NEW s \in Implementers[p], v3[s].exists, v3[s].amid = FALSE, v4[s].at = "seeding", NEW z \in Owns[p][s]
        PROVE  /\ NoneBefore(z, v3[s].base[z].n)'
               /\ v3[s].seed[z] \in {Nothing, v3[s].base[z]} \/ NoneBefore(z, v3[s].base[z].n + 1)'
    <3>1. z \in Paths /\ v3[s].base[z] \in Contents(p) /\ SeedsFollow(p) /\ WritesNumbered(p)
      BY <1>1, <1>10, <2>1 DEF WorkStory, WritesFollow, TreesAssumption
    <3>2. v3[s].base[z].n <= v9 /\ v3[s].base[z].n \in Nat
      BY <3>1 DEF WritesNumbered, IsThere, Contents
    <3>3. /\ NoneBefore(z, v3[s].base[z].n)
          /\ v3[s].seed[z] \in {Nothing, v3[s].base[z]} \/ NoneBefore(z, v3[s].base[z].n + 1)
      BY <2>1, <3>1 DEF SeedsFollow
    <3>4. v1'[z] = v1[z] \/ v1'[z].n = v9 + 1
      BY <1>4, <1>5, <3>1
    <3> QED BY <1>2, <1>4, <3>2, <3>3, <3>4 DEF NoneBefore
  <2> QED BY <1>2, <2>1 DEF SeedsFollow, NoneBefore
<1>11. ASSUME v10 = 0 PROVE SeenBefore(p)'
  BY <1>1, <1>2, <1>4, <1>5, <1>11 DEF WorkStory, SeenBefore, WorkspaceTypes, ApplyRec
<1>12. WorkStory(p)'
  BY <1>2, <1>8, <1>9, <1>10, <1>11 DEF WorkStory
<1> QED BY <1>6, <1>7, <1>12 DEF TreesInv

\* An apply begins where the project still is as the worktree was seeded with it.
LEMMA BeginNext ==
  ASSUME NEW p, TreesAssumption(p), TreesInv(p), NEW c \in Everyone(p), Trees(p)!BeginApply(c)
  PROVE  TreesInv(p)'
<1> DEFINE s == v4[c].on
           t == v3[s]
           changed == {q \in Paths : t.work[q] # t.seed[q]}
           none == [q \in Paths |-> Nothing]
           r == [by |-> c, todo |-> changed, staged |-> t.work, aside |-> none, from |-> t.seed, amid |-> t.amid]
<1>1. WorkspaceTypes(p) /\ CallersStand(p) /\ SeedsWhole(p) /\ PartlyApplied(p) /\ WorkStory(p)
  BY DEF TreesInv
<1>2. /\ UNCHANGED <<v1, v2, v3, v6, v7, v9, v10>> /\ v5 = Nothing /\ v4[c].at = "applying"
      /\ t.exists /\ v5' = r /\ v4' = [v4 EXCEPT ![c].at = "swapping"]
      /\ changed \subseteq Owns[p][s] /\ \A q \in Owns[p][s] : v1[q] = t.base[q]
  BY DEF Trees!BeginApply, Trees!LockFree, Trees!Goes, Trees!Outside, Trees!Changed, Trees!HostEdited, Trees!Empty
<1>3. s \in Implementers[p] /\ Started(s)
  BY <1>1, <1>2 DEF CallersStand, Everyone, Started, Early
<1>4. t \in TreeRec(p) /\ none \in PathsOf(p) /\ \A q \in Paths : none[q] = Nothing
  BY <1>1, <1>3 DEF WorkspaceTypes, PathsOf
<1>5. \A q \in changed : q \in Paths /\ q \in Owns[p][s] /\ t.work[q] # t.seed[q]
  BY <1>2
<1> HIDE DEF changed, none, s
<1>6. changed \in SUBSET Paths
  BY DEF changed
<1>7. r \in ApplyRec(p)
  BY <1>4, <1>6 DEF ApplyRec, TreeRec
<1>8. /\ v4' \in [Everyone(p) -> CallerRec(p)]
      /\ \A d \in Everyone(p) : /\ v4'[d].on = v4[d].on /\ v4'[d].at = IF d = c THEN "swapping" ELSE v4[d].at
  BY <1>1, <1>2 DEF WorkspaceTypes, CallerRec
<1>9. WorkspaceTypes(p)'
  BY <1>1, <1>2, <1>7, <1>8 DEF WorkspaceTypes, Contents, PathsOf, TreeRec, CallerRec, ApplyRec, Everyone
<1>10. v5' # Nothing /\ v5'.by = c
  BY <1>2, <1>7, TreesNames
<1>11. CallersStand(p)'
  BY <1>1, <1>2, <1>8, <1>10 DEF CallersStand, HasResult, Early, Everyone
<1>12. \A u \in Implementers[p] : Started(u)' => Started(u)
  BY <1>2, <1>8 DEF Started, HasResult, Early, Everyone
<1>13. \A q \in Paths : t.seed[q] \in Contents(p) /\ t.work[q] \in Contents(p)
  BY <1>1, <1>2, <1>3 DEF SeedsWhole
<1>14. SeedsWhole(p)'
  <2>1. \A q \in v5'.todo : v5'.staged[q] \in Contents(p)
    BY <1>2, <1>5, <1>13
  <2> QED BY <1>1, <1>2, <1>12, <2>1 DEF SeedsWhole, Started, HasResult, Contents
<1>15. PartlyApplied(p)'
  BY <1>1, <1>2 DEF PartlyApplied
<1>16. ASSUME v10 = 0 PROVE WritesNumbered(p)'
  <2>1. \A x \in Contents(p) : IsThere(p, x)' => IsThere(p, x)
    BY <1>2, <1>3, <1>4, TreesNames DEF IsThere, TreesAssumption
  <2> QED BY <1>1, <1>2, <1>16, <2>1 DEF WorkStory, WritesNumbered, Contents
<1>17. ASSUME v10 = 0 PROVE WritesFollow(p)'
  BY <1>1, <1>2, <1>17 DEF WorkStory, WritesFollow, Contents
<1>18. ASSUME v10 = 0 PROVE SeedIsBase(p)'
  <2>1. \A u \in Implementers[p] : v3[u].exists /\ v3[u].amid = FALSE /\ Started(u)' => \A q \in Owns[p][u] : v3[u].seed[q] = v3[u].base[q]
    BY <1>1, <1>12, <1>18 DEF WorkStory, SeedIsBase
  <2> QED BY <1>2, <2>1 DEF SeedIsBase, Started, HasResult
<1>19. ASSUME v10 = 0 PROVE SeedsFollow(p)'
  <2>1. WritesFollow(p) /\ SeedsFollow(p) /\ \A q \in Paths : v1[q] \in Contents(p)
    BY <1>1, <1>19 DEF WorkStory, WorkspaceTypes
  <2>2. ASSUME NEW q \in Paths, NEW m \in Nat, NoneBefore(q, m) PROVE NoneBefore(q, m)'
    <3>1. v1[q].n >= m /\ v1[q].n \in Nat
      BY <2>1, <2>2 DEF NoneBefore, Contents
    <3>2. q \in changed => t.work[q] \in Contents(p) /\ t.work[q].n > v1[q].n
      BY <1>2, <1>3, <1>5, <2>1 DEF WritesFollow
    <3>3. q \in changed => t.work[q].n >= m
      BY <3>1, <3>2 DEF Contents
    <3> QED BY <1>2, <1>4, <3>1, <3>3 DEF NoneBefore
  <2>3. ASSUME NEW u \in Implementers[p], v3[u].exists, v3[u].amid = FALSE, v4'[u].at = "seeding", NEW q \in Owns[p][u]
        PROVE  /\ NoneBefore(q, v3[u].base[q].n)'
               /\ v3[u].seed[q] \in {Nothing, v3[u].base[q]} \/ NoneBefore(q, v3[u].base[q].n + 1)'
    <3>1. v4[u].at = "seeding" /\ q \in Paths /\ v3[u].base[q].n \in Nat
      BY <1>8, <2>1, <2>3 DEF WritesFollow, Contents, Everyone, TreesAssumption
    <3>2. /\ NoneBefore(q, v3[u].base[q].n)
          /\ v3[u].seed[q] \in {Nothing, v3[u].base[q]} \/ NoneBefore(q, v3[u].base[q].n + 1)
      BY <2>1, <2>3, <3>1 DEF SeedsFollow
    <3>3. v3'[u].base = v3[u].base
      BY <1>2
    <3>4. PICK m \in Nat : m = v3[u].base[q].n /\ m = v3'[u].base[q].n
      BY <3>1, <3>3
    <3>5. NoneBefore(q, m)' /\ (NoneBefore(q, m + 1) => NoneBefore(q, m + 1)')
      BY <2>2, <3>1, <3>2, <3>4
    <3>6. NoneBefore(q, v3[u].base[q].n)'
      BY <3>4, <3>5 DEF NoneBefore
    <3>7. NoneBefore(q, v3[u].base[q].n + 1) => NoneBefore(q, v3[u].base[q].n + 1)'
      BY <3>4, <3>5 DEF NoneBefore
    <3> QED BY <3>2, <3>6, <3>7
  <2> QED BY <1>2, <2>3 DEF SeedsFollow, NoneBefore
<1>20. ASSUME v10 = 0 PROVE SeenBefore(p)'
  <2>1. v5'.amid = FALSE => \A q \in v5'.todo : v1[q] = v5'.from[q]
    BY <1>1, <1>2, <1>3, <1>5, <1>20 DEF WorkStory, SeedIsBase
  <2> QED BY <1>2, <2>1 DEF SeenBefore
<1>21. WorkStory(p)'
  BY <1>2, <1>16, <1>17, <1>18, <1>19, <1>20 DEF WorkStory
<1> QED BY <1>9, <1>11, <1>14, <1>15, <1>21 DEF TreesInv

\* What leaves the worktrees alone while an apply goes on or ends.
LEMMA AppliesNext ==
  ASSUME NEW p, TreesAssumption(p), TreesInv(p), v5 # Nothing,
         v1' \in [Paths -> Contents(p)], v5' \in ApplyRec(p) \cup {Nothing}, v6' \in [Implementers[p] -> {"none", "part", "all"}],
         v4' \in [Everyone(p) -> CallerRec(p)],
         UNCHANGED <<v2, v3, v7, v9, v10>>, CallersStand(p)', PartlyApplied(p)',
         \A s \in Implementers[p] : /\ Started(s)' => Started(s)
                                    /\ v4'[s].at = "seeding" => v4[s].at = "seeding",
         v5' # Nothing => v5'.staged = v5.staged /\ v5'.from = v5.from /\ v5'.amid = v5.amid /\ v5'.todo \subseteq v5.todo,
         \A q \in Paths : \/ v1'[q] = v1[q]
                          \/ q \in v5.todo /\ v1'[q] = v5.staged[q] /\ (v5' # Nothing => q \notin v5'.todo)
                          \/ v1'[q] = v5.aside[q] /\ v5' = Nothing,
         v5' # Nothing => \A q \in Paths : v5'.aside[q] = v5.aside[q] \/ v5'.aside[q] = v1[q]
  PROVE  TreesInv(p)'
<1>1. WorkspaceTypes(p) /\ CallersStand(p) /\ SeedsWhole(p) /\ WorkStory(p) /\ v5 \in ApplyRec(p)
  BY DEF TreesInv, WorkspaceTypes
<1>2. WorkspaceTypes(p)'
  BY <1>1 DEF WorkspaceTypes, Contents, PathsOf, TreeRec, CallerRec, ApplyRec, Everyone
<1>3. SeedsWhole(p)'
  <2>1. v5' # Nothing => \A q \in v5'.todo : v5'.staged[q] \in Contents(p)
    BY <1>1 DEF SeedsWhole
  <2> QED BY <1>1, <2>1 DEF SeedsWhole, Started, HasResult, Contents
<1>4. \A q \in Paths : v1'[q] \in Contents(p) /\ v1[q] \in Contents(p) /\ v1'[q] # Nothing
  BY <1>1, TreesNames DEF WorkspaceTypes, TreesAssumption
<1>5. v5.todo \subseteq Paths
  BY <1>1 DEF ApplyRec
<1>6. ASSUME v10 = 0 PROVE WritesNumbered(p)'
  <2>1. \A x \in Contents(p) : IsThere(p, x)' => IsThere(p, x)
    BY <1>4 DEF IsThere
  <2> QED BY <1>1, <1>6, <2>1 DEF WorkStory, WritesNumbered, Contents
<1>7. ASSUME v10 = 0 PROVE WritesFollow(p)' /\ SeedIsBase(p)'
  <2>1. WritesFollow(p)'
    BY <1>1, <1>7 DEF WorkStory, WritesFollow, Contents
  <2>2. \A u \in Implementers[p] : v3[u].exists /\ v3[u].amid = FALSE /\ Started(u)' => \A q \in Owns[p][u] : v3[u].seed[q] = v3[u].base[q]
    BY <1>1, <1>7 DEF WorkStory, SeedIsBase
  <2> QED BY <2>1, <2>2 DEF SeedIsBase, Started, HasResult
<1>8. ASSUME v10 = 0 PROVE SeedsFollow(p)'
  <2>1. WritesFollow(p) /\ SeedsFollow(p)
    BY <1>1, <1>8 DEF WorkStory
  <2>2. ASSUME NEW q \in Paths, NEW m \in Nat, NoneBefore(q, m) PROVE NoneBefore(q, m)'
    <3>1. v1'[q].n >= m
      BY <1>4, <2>2 DEF NoneBefore
    <3>2. v5' # Nothing => (v5'.aside[q] # Nothing => v5'.aside[q].n >= m) /\ (q \in v5'.todo => v5'.staged[q].n >= m)
      BY <2>2 DEF NoneBefore
    <3> QED BY <3>1, <3>2 DEF NoneBefore
  <2>3. ASSUME NEW u \in Implementers[p], v3[u].exists, v3[u].amid = FALSE, v4'[u].at = "seeding", NEW q \in Owns[p][u]
        PROVE  /\ NoneBefore(q, v3[u].base[q].n)'
               /\ v3[u].seed[q] \in {Nothing, v3[u].base[q]} \/ NoneBefore(q, v3[u].base[q].n + 1)'
    <3>1. v4[u].at = "seeding" /\ q \in Paths /\ v3[u].base[q].n \in Nat
      BY <2>1, <2>3 DEF WritesFollow, Contents, TreesAssumption
    <3>2. /\ NoneBefore(q, v3[u].base[q].n)
          /\ v3[u].seed[q] \in {Nothing, v3[u].base[q]} \/ NoneBefore(q, v3[u].base[q].n + 1)
      BY <2>1, <2>3, <3>1 DEF SeedsFollow
    <3>4. NoneBefore(q, v3[u].base[q].n)'
      BY <2>2, <3>1, <3>2 DEF NoneBefore
    <3>5. NoneBefore(q, v3[u].base[q].n + 1) => NoneBefore(q, v3[u].base[q].n + 1)'
      BY <2>2, <3>1 DEF NoneBefore
    <3> QED BY <3>2, <3>4, <3>5
  <2> QED BY <2>3 DEF SeedsFollow, NoneBefore
<1>9. ASSUME v10 = 0 PROVE SeenBefore(p)'
  <2>1. ASSUME v5' # Nothing, v5'.amid = FALSE, NEW q \in v5'.todo PROVE v1'[q] = v5'.from[q] \/ v1'[q].by = People
    BY <1>1, <1>5, <1>9, <2>1 DEF WorkStory, SeenBefore
  <2> QED BY <2>1 DEF SeenBefore
<1>10. WorkStory(p)'
  BY <1>6, <1>7, <1>8, <1>9 DEF WorkStory
<1> QED BY <1>2, <1>3, <1>10 DEF TreesInv

LEMMA SwapNext ==
  ASSUME NEW p, TreesAssumption(p), TreesInv(p), NEW q \in Paths, Trees(p)!SwapIn(q)
  PROVE  TreesInv(p)'
<1> DEFINE s == v4[v5.by].on
           r == [v5 EXCEPT !.todo = @ \ {q}, !.aside = [@ EXCEPT ![q] = v1[q]]]
<1>1. WorkspaceTypes(p) /\ CallersStand(p) /\ SeedsWhole(p) /\ PartlyApplied(p)
  BY DEF TreesInv
<1>2. /\ UNCHANGED <<v2, v3, v4, v7, v9, v10>> /\ v5 # Nothing /\ q \in v5.todo
      /\ v1' = [v1 EXCEPT ![q] = v5.staged[q]] /\ v6' = [v6 EXCEPT ![s] = "part"]
  BY DEF Trees!SwapIn, Trees!LockFree
<1>3. v5 \in ApplyRec(p) /\ v1[q] \in Contents(p) /\ v5.staged[q] \in Contents(p)
  BY <1>1, <1>2 DEF WorkspaceTypes, SeedsWhole
<1>4. v5' = r
  BY <1>3 DEF Trees!SwapIn, ApplyRec
<1>5. /\ r \in ApplyRec(p) /\ r.by = v5.by /\ r.staged = v5.staged /\ r.from = v5.from /\ r.amid = v5.amid
      /\ r.todo = v5.todo \ {q} /\ r.aside[q] = v1[q] /\ \A z \in Paths : z # q => r.aside[z] = v5.aside[z]
  BY <1>3 DEF ApplyRec, PathsOf
<1> HIDE DEF r, s
<1>6. v5' # Nothing
  BY <1>4, <1>5, TreesNames
<1>7. CallersStand(p)'
  BY <1>1, <1>2, <1>4, <1>5, <1>6 DEF CallersStand, HasResult, Everyone
<1>8. PartlyApplied(p)'
  BY <1>1, <1>2, <1>4, <1>5, <1>6 DEF PartlyApplied, WorkspaceTypes, s
<1>9. /\ v1' \in [Paths -> Contents(p)] /\ v6' \in [Implementers[p] -> {"none", "part", "all"}]
      /\ v4' \in [Everyone(p) -> CallerRec(p)]
  BY <1>1, <1>2, <1>3 DEF WorkspaceTypes
<1>10. \A z \in Paths : v1'[z] = IF z = q THEN v5.staged[q] ELSE v1[z]
  BY <1>1, <1>2 DEF WorkspaceTypes
<1>11. \A u \in Implementers[p] : /\ Started(u)' => Started(u)
                                  /\ v4'[u].at = "seeding" => v4[u].at = "seeding"
  BY <1>2 DEF Started, HasResult
<1>12. UNCHANGED <<v2, v3, v7, v9, v10>>
  BY <1>2
<1>13. \A z \in Paths : \/ v1'[z] = v1[z]
                        \/ z \in v5.todo /\ v1'[z] = v5.staged[z] /\ z \notin v5'.todo
  BY <1>2, <1>4, <1>5, <1>10
<1>14. \A z \in Paths : v5'.aside[z] = v5.aside[z] \/ v5'.aside[z] = v1[z]
  BY <1>4, <1>5
<1>15. v5' \in ApplyRec(p) /\ v5'.staged = v5.staged /\ v5'.from = v5.from /\ v5'.amid = v5.amid /\ v5'.todo \subseteq v5.todo
  BY <1>4, <1>5
<1> QED BY <1>2, <1>6, <1>7, <1>8, <1>9, <1>11, <1>12, <1>13, <1>14, <1>15, AppliesNext, Zenon

\* The apply is over: all of it stands, or none.
LEMMA EndsNext ==
  ASSUME NEW p, TreesAssumption(p), TreesInv(p), Trees(p)!RollBack \/ Trees(p)!Applied
  PROVE  TreesInv(p)'
<1> DEFINE c == v5.by
           s == v4[c].on
<1>1. WorkspaceTypes(p) /\ CallersStand(p) /\ SeedsWhole(p) /\ PartlyApplied(p)
  BY DEF TreesInv
<1>2. /\ UNCHANGED <<v2, v3, v7, v9, v10>> /\ v5 # Nothing /\ v5' = Nothing
      /\ \E a \in {"applied", "refused"} : v4' = [v4 EXCEPT ![c].at = a]
      /\ \E b \in {"none", "all"} : v6' = [v6 EXCEPT ![s] = b]
      /\ \/ v1' = v1
         \/ v1' = [q \in Paths |-> IF v5.aside[q] # Nothing THEN v5.aside[q] ELSE v1[q]]
  BY DEF Trees!RollBack, Trees!Applied, Trees!LockFree, Trees!Goes
<1>3. v5 \in ApplyRec(p) /\ c \in Everyone(p) /\ v4[c].at = "swapping"
  BY <1>1, <1>2 DEF WorkspaceTypes, ApplyRec, CallersStand
<1>4. /\ v1' \in [Paths -> Contents(p)]
      /\ \A q \in Paths : v1'[q] = v1[q] \/ v1'[q] = v5.aside[q]
  <2>1. v5.aside \in PathsOf(p)
    BY <1>3 DEF ApplyRec
  <2> QED BY <1>1, <1>2, <2>1 DEF WorkspaceTypes, PathsOf
<1> HIDE DEF c
<1>5. /\ v4' \in [Everyone(p) -> CallerRec(p)] /\ v4'[c].at \in {"applied", "refused"}
      /\ \A d \in Everyone(p) : v4'[d].on = v4[d].on /\ (d # c => v4'[d].at = v4[d].at)
  BY <1>1, <1>2, <1>3 DEF WorkspaceTypes, CallerRec
<1>6. v6' \in [Implementers[p] -> {"none", "part", "all"}]
  BY <1>1, <1>2 DEF WorkspaceTypes
<1>7. CallersStand(p)'
  <2>1. \A d \in Everyone(p) : v4'[d].at # "swapping"
    BY <1>1, <1>2, <1>5 DEF CallersStand, c
  <2>2. \A u \in Implementers[p] : v4'[u].on = u /\ (v4'[u].at \in Early => ~HasResult(u))
    BY <1>1, <1>3, <1>5 DEF CallersStand, Everyone, Early
  <2>3. \A o \in Operators[p] : v4'[o].at # "none" => v4'[o].on \in Implementers[p] /\ HasResult(v4'[o].on)
    BY <1>1, <1>3, <1>5 DEF CallersStand, Everyone
  <2> QED BY <1>2, <2>1, <2>2, <2>3 DEF CallersStand, HasResult, Everyone
<1>8. PartlyApplied(p)'
  BY <1>1, <1>2 DEF PartlyApplied, WorkspaceTypes, c
<1>9. \A u \in Implementers[p] : /\ Started(u)' => Started(u)
                                 /\ v4'[u].at = "seeding" => v4[u].at = "seeding"
  BY <1>2, <1>3, <1>5 DEF Started, HasResult, Everyone, Early
<1> QED BY <1>2, <1>4, <1>5, <1>6, <1>7, <1>8, <1>9, AppliesNext, Zenon

\* After a kill what was being applied is left as it is.
LEMMA KillNext ==
  ASSUME NEW p, TreesAssumption(p), TreesInv(p), NEW c \in Everyone(p), Trees(p)!Kill(c)
  PROVE  TreesInv(p)'
<1>1. WorkspaceTypes(p) /\ CallersStand(p) /\ SeedsWhole(p)
  BY DEF TreesInv
<1>2. /\ UNCHANGED <<v2, v3, v6, v7, v9>> /\ v10' = v10 + 1 /\ Trees(p)!Leaves(c) /\ v4[c].at \notin {"none", "gone"}
      /\ IF v5 # Nothing /\ v5.by = c
         THEN v5' = Nothing /\ (v1' = v1 \/ \E q \in v5.todo : v1' = [v1 EXCEPT ![q] = Trees(p)!Absent])
         ELSE v5' = v5 /\ v1' = v1
  BY DEF Trees!Kill, Trees!LockFree
<1>3. /\ v4' \in [Everyone(p) -> CallerRec(p)] /\ v4'[c].at \in {"none", "gone"}
      /\ \A d \in Everyone(p) : d # c => v4'[d] = v4[d]
      /\ c \in Implementers[p] => v4'[c].at = "gone" /\ v4'[c].on = c
      /\ c \notin Implementers[p] => v4'[c].at = "none"
  BY <1>2, Leaving
<1>4. v10' \in Nat /\ v10' # 0
  BY <1>1, <1>2 DEF WorkspaceTypes
<1>5. PartlyApplied(p)' /\ WorkStory(p)'
  BY <1>4 DEF PartlyApplied, WorkStory
<1>6. v1' \in [Paths -> Contents(p)] /\ v5' \in ApplyRec(p) \cup {Nothing}
  <2>1. Trees(p)!Absent \in Contents(p)
    BY DEF Trees!Absent, Contents, TreesAssumption
  <2> QED BY <1>1, <1>2, <2>1 DEF WorkspaceTypes
<1>7. WorkspaceTypes(p)'
  BY <1>1, <1>2, <1>3, <1>4, <1>6 DEF WorkspaceTypes, Contents, PathsOf, TreeRec, CallerRec, ApplyRec, Everyone
<1>8. CallersStand(p)'
  <2>1. \A d \in Everyone(p) : v4'[d].at = "swapping" <=> (v5' # Nothing /\ v5'.by = d)
    BY <1>1, <1>2, <1>3 DEF CallersStand
  <2>2. \A u \in Implementers[p] : v4'[u].on = u /\ (v4'[u].at \in Early => ~HasResult(u))
    BY <1>1, <1>3 DEF CallersStand, Everyone, Early
  <2>3. \A o \in Operators[p] : v4'[o].at # "none" => v4'[o].on \in Implementers[p] /\ HasResult(v4'[o].on)
    BY <1>1, <1>3 DEF CallersStand, Everyone, TreesAssumption
  <2> QED BY <1>2, <2>1, <2>2, <2>3 DEF CallersStand, HasResult, Everyone
<1>9. SeedsWhole(p)'
  <2>1. \A u \in Implementers[p] : Started(u)' => Started(u)
    BY <1>1, <1>2, <1>3 DEF Started, HasResult, Everyone
  <2>2. v5' # Nothing => \A q \in v5'.todo : v5'.staged[q] \in Contents(p)
    BY <1>1, <1>2 DEF SeedsWhole
  <2> QED BY <1>1, <1>2, <2>1, <2>2 DEF SeedsWhole, Started, HasResult, Contents
<1> QED BY <1>5, <1>7, <1>8, <1>9 DEF TreesInv

LEMMA TreesNext == ASSUME NEW p, TreesAssumption(p), TreesInv(p), Trees(p)!Next PROVE TreesInv(p)'
<1>1. CASE \E s \in Implementers[p] :
             \/ Trees(p)!Launch(s) \/ Trees(p)!Start(s) \/ Trees(p)!Abandon(s) \/ Trees(p)!Exit(s) \/ Trees(p)!Hold(s)
             \/ Trees(p)!EndHeld(s) \/ Trees(p)!MarkExit(s) \/ Trees(p)!KeepOrRemove(s) \/ Trees(p)!Recover(s)
             \/ \E how \in {"cancelled", "failed"} : Trees(p)!Stop(s, how)
  BY <1>1, LaunchersNext, Zenon
<1>2. CASE \E s \in Implementers[p] : Trees(p)!BeginSeeding(s) \/ \E q \in Paths : Trees(p)!SeedPath(s, q)
  BY <1>2, SeedingNext, Zenon
<1>3. CASE \E s \in Implementers[p] : \E q \in Paths : Trees(p)!Work(s, q)
  BY <1>3, WorkNext, Zenon
<1>4. CASE \/ \E o \in Operators[p] :
               \/ Trees(p)!MarkRequest(o)
               \/ \E s \in Implementers[p] : Trees(p)!Ask(o, s, "apply") \/ Trees(p)!Ask(o, s, "adopt") \/ Trees(p)!Discard(o, s)
           \/ \E c \in Everyone(p) : Trees(p)!RefuseApply(c) \/ Trees(p)!Remove(c)
           \/ Trees(p)!Pause \/ Trees(p)!Resume \/ Trees(p)!CloseRun
  BY <1>4, OthersNext, Zenon
<1>5. CASE \E c \in Everyone(p) : Trees(p)!BeginApply(c) \/ Trees(p)!Kill(c)
  BY <1>5, BeginNext, KillNext, Zenon
<1>6. CASE \E q \in Paths : Trees(p)!PersonEdits(q) \/ Trees(p)!SwapIn(q)
  BY <1>6, EditNext, SwapNext, Zenon
<1>7. CASE Trees(p)!RollBack \/ Trees(p)!Applied
  BY <1>7, EndsNext, Zenon
<1>8. Trees(p)!Callers = Everyone(p)
  BY TreesNames
<1> QED BY <1>1, <1>2, <1>3, <1>4, <1>5, <1>6, <1>7, <1>8, Zenon DEF Trees!Next

-----------------------------------------------------------------------------
(* ReviewVerdict, with any reviewers and one Pilot at a time.              *)
VerdictAssumption ==
  /\ First \in Specs /\ ReviewCap \in Nat /\ MaxOverrides \in Nat /\ MaxEdits \in Nat /\ MaxPauses \in Nat
  /\ \A p, q \in Pilots : p = q
  /\ Nothing \notin [session : Reviewers, spec : Specs]
  /\ Nothing \notin [session : Reviewers, step : {"replay", "readopt", "mark"}]

ReviewerRec == [state : {"reviewing", "printed", "dispatching", "adopting", "replaying", "reaffirming", "marking", "none",
                         "completed", "failed"},
                judged : Specs \cup {Nothing}, verdict : {"approved", "findings"} \cup {Nothing},
                adopted : BOOLEAN, held : {"no", "held", "adopted"}]
AttemptRec  == [spec : Specs, disposition : {"open", "approved", "changes_requested", "abandoned"}]
ReviewRec   == [session : Reviewers, spec : Specs]
AdopterRec  == [session : Reviewers, step : {"replay", "readopt", "mark"}]
Tally       == [launcher : {0, 1}, pilots : {0, 1}]

VerdictTypes ==
  /\ v1 \in Specs /\ v2 \in 2 .. 6 /\ v3 \in BOOLEAN
  /\ v4 \in Seq(AttemptRec) /\ Len(v4) <= ReviewCap + v5
  /\ v5 \in 0 .. MaxOverrides /\ v9 \in 0 .. MaxEdits /\ v10 \in 0 .. MaxPauses
  /\ v6 \in ReviewRec \cup {Nothing} /\ v7 \in [Reviewers -> ReviewerRec]
  /\ v8 \in [Pilots -> AdopterRec \cup {Nothing}] /\ v11 \in [Reviewers -> Tally]

\* A session whose launcher has recorded no verdict yet, and who replays one.
Unheard == {"none", "reviewing", "printed", "dispatching", "adopting", "replaying"}
ReplayedBy(p, s) == v8[p] # Nothing /\ v8[p].session = s

\* What a Pilot recorded is marked, or about to be: nobody replays it again.
VerdictStory ==
  /\ \A s \in Reviewers : v7[s].state \in Unheard => v11[s].launcher = 0
  /\ \A s \in Reviewers : v11[s].pilots # 0 =>
        v7[s].adopted = TRUE \/ \E p \in Pilots : ReplayedBy(p, s) /\ v8[p].step = "mark"
  /\ \A p \in Pilots, s \in Reviewers : ReplayedBy(p, s) /\ v8[p].step = "replay" => v11[s].pilots = 0
  /\ v6 # Nothing => v6.spec = v1

VerdictInv == VerdictTypes /\ VerdictStory

LEMMA VerdictStart == ASSUME VerdictAssumption, Verdict!Init PROVE VerdictInv
<1> DEFINE none == [state |-> "none", judged |-> Nothing, verdict |-> Nothing, adopted |-> FALSE, held |-> "no"]
           zero == [launcher |-> 0, pilots |-> 0]
<1>1. /\ v1 = First /\ v2 = 4 /\ v3 = FALSE /\ v4 = <<>> /\ v5 = 0 /\ v6 = Nothing /\ v9 = 0 /\ v10 = 0
      /\ v7 = [s \in Reviewers |-> none] /\ v8 = [p \in Pilots |-> Nothing] /\ v11 = [s \in Reviewers |-> zero]
  BY DEF Verdict!Init
<1>2. none \in ReviewerRec /\ zero \in Tally /\ zero.launcher = 0 /\ zero.pilots = 0
  BY DEF ReviewerRec, Tally
<1> HIDE DEF none, zero
<1>3. v4 \in Seq(AttemptRec) /\ Len(v4) = 0
  BY <1>1
<1>4. VerdictTypes
  <2>1. v7 \in [Reviewers -> ReviewerRec] /\ v8 \in [Pilots -> AdopterRec \cup {Nothing}] /\ v11 \in [Reviewers -> Tally]
    BY <1>1, <1>2
  <2>2. v1 \in Specs /\ v6 \in ReviewRec \cup {Nothing} /\ v3 \in BOOLEAN
    BY <1>1, Zenon DEF VerdictAssumption
  <2>4. v2 \in 2 .. 6
    BY <1>1
  <2>3. v5 \in 0 .. MaxOverrides /\ v9 \in 0 .. MaxEdits /\ v10 \in 0 .. MaxPauses /\ Len(v4) <= ReviewCap + v5
    BY <1>1, <1>3 DEF VerdictAssumption
  <2> QED BY <1>3, <2>1, <2>2, <2>3, <2>4, Zenon DEF VerdictTypes
<1>5. VerdictStory
  BY <1>1, <1>2 DEF VerdictStory, ReplayedBy
<1> QED BY <1>4, <1>5 DEF VerdictInv

LEMMA VerdictStutter == ASSUME VerdictInv, UNCHANGED Shared PROVE VerdictInv'
BY DEF VerdictInv, Shared, VerdictTypes, VerdictStory, ReplayedBy

LEMMA VerdictKeeps == ASSUME VerdictAssumption, VerdictInv PROVE Verdict!TypeOK /\ Verdict!VerdictsCountOnce
<1>1. VerdictTypes /\ VerdictStory
  BY DEF VerdictInv
<1>2. v4 \in Seq(Verdict!Attempt) /\ Len(v4) <= Verdict!EffectiveCap
  BY <1>1 DEF VerdictTypes, AttemptRec, Verdict!Attempt, Verdict!EffectiveCap
<1>3. v6 = Nothing \/ v6 \in [session : Reviewers, spec : Specs]
  BY <1>1 DEF VerdictTypes, ReviewRec
<1>4. v7 \in [Reviewers -> Verdict!Session]
  <2>1. ReviewerRec = Verdict!Session
    BY DEF ReviewerRec, Verdict!Session, Verdict!Live, Verdict!Verdicts
  <2> QED BY <1>1, <2>1 DEF VerdictTypes
<1>5. \A p \in Pilots : v8[p] = Nothing \/ v8[p] \in [session : Reviewers, step : {"replay", "readopt", "mark"}]
  BY <1>1 DEF VerdictTypes, AdopterRec
<1>6. v11 \in [Reviewers -> [launcher : Nat, pilots : Nat]] /\ \A s \in Reviewers : v11[s].launcher <= 1 /\ v11[s].pilots <= 1
  <2>1. \A r \in Tally : r \in [launcher : Nat, pilots : Nat] /\ r.launcher <= 1 /\ r.pilots <= 1
    BY DEF Tally
  <2> QED BY <1>1, <2>1 DEF VerdictTypes
<1>7. /\ v1 \in Specs /\ v2 \in 2 .. 6 /\ v3 \in BOOLEAN
      /\ v5 \in 0 .. MaxOverrides /\ v9 \in 0 .. MaxEdits /\ v10 \in 0 .. MaxPauses
  BY <1>1 DEF VerdictTypes
<1>8. Verdict!TypeOK
  BY <1>2, <1>3, <1>4, <1>5, <1>6, <1>7, Zenon DEF Verdict!TypeOK
<1>9. Verdict!VerdictsCountOnce
  BY <1>1, <1>6 DEF VerdictStory, Verdict!VerdictsCountOnce
<1> QED BY <1>8, <1>9

\* The attempts stay within their cap, whoever opens, closes or abandons one.
LEMMA AttemptsWithinCap ==
  ASSUME VerdictAssumption, VerdictInv
  PROVE  /\ Verdict!MayOpen => /\ Verdict!Opened \in Seq(AttemptRec) /\ Verdict!Opened # <<>>
                               /\ Len(Verdict!Opened) <= ReviewCap + v5
         /\ Verdict!AbandonStale \in Seq(AttemptRec) /\ Len(Verdict!AbandonStale) <= ReviewCap + v5
         /\ \A as \in Seq(AttemptRec), how \in {"approved", "changes_requested", "abandoned"} :
              as # <<>> => Verdict!Closed(as, how) \in Seq(AttemptRec) /\ Len(Verdict!Closed(as, how)) = Len(as)
<1>1. VerdictTypes
  BY DEF VerdictInv
<1>2. ASSUME NEW as \in Seq(AttemptRec), NEW how \in {"approved", "changes_requested", "abandoned"}, as # <<>>
      PROVE  Verdict!Closed(as, how) \in Seq(AttemptRec) /\ Len(Verdict!Closed(as, how)) = Len(as)
  <2> DEFINE n == Len(as)
             r == [as[n] EXCEPT !.disposition = how]
  <2>1. n \in 1 .. Len(as)
    <3>1. \A seq \in Seq(AttemptRec) : seq # <<>> => Len(seq) \in Nat \ {0}
      BY EmptySeq
    <3>2. Len(as) \in Nat \ {0}
      BY <1>2, <3>1
    <3>3. \A k \in Nat \ {0} : k \in 1 .. k
      OBVIOUS
    <3> QED BY <3>2, <3>3, Zenon
  <2>2. as[n] \in AttemptRec
    BY <2>1, ElementOfSeq
  <2>3. r \in AttemptRec
    BY <2>2 DEF AttemptRec
  <2>4. Verdict!Closed(as, how) = [as EXCEPT ![n] = r]
    BY DEF Verdict!Closed
  <2> HIDE DEF r, n
  <2>5. \A seq \in Seq(AttemptRec) : \A i \in 1 .. Len(seq) : \A e \in AttemptRec :
          [seq EXCEPT ![i] = e] \in Seq(AttemptRec) /\ Len([seq EXCEPT ![i] = e]) = Len(seq)
    BY ExceptSeq
  <2>6. as \in Seq(AttemptRec)
    OBVIOUS
  <2> QED BY <2>1, <2>3, <2>4, <2>5, <2>6, Zenon
<1>3. Verdict!MayOpen => /\ Verdict!Opened \in Seq(AttemptRec) /\ Verdict!Opened # <<>>
                         /\ Len(Verdict!Opened) <= ReviewCap + v5
  <2> SUFFICES ASSUME Verdict!MayOpen PROVE /\ Verdict!Opened \in Seq(AttemptRec) /\ Verdict!Opened # <<>>
                                            /\ Len(Verdict!Opened) <= ReviewCap + v5
    OBVIOUS
  <2>1. CASE Verdict!HasOpen
    <3>1. Verdict!Opened = v4 /\ v4 # <<>>
      BY <2>1 DEF Verdict!Opened, Verdict!HasOpen
    <3> QED BY <1>1, <3>1 DEF VerdictTypes
  <2>2. CASE ~Verdict!HasOpen
    <3> DEFINE e == [spec |-> v1, disposition |-> "open"]
    <3>1. Verdict!Opened = Append(v4, e) /\ Len(v4) < ReviewCap + v5
      BY <2>2 DEF Verdict!Opened, Verdict!MayOpen, Verdict!EffectiveCap
    <3>2. e \in AttemptRec
      BY <1>1 DEF VerdictTypes, AttemptRec
    <3> HIDE DEF e
    <3>3. Append(v4, e) \in Seq(AttemptRec) /\ Len(Append(v4, e)) = Len(v4) + 1 /\ Append(v4, e) # <<>> /\ Len(v4) \in Nat
      BY <1>1, <3>2, AppendProperties, LenProperties DEF VerdictTypes
    <3>4. ReviewCap + v5 \in Int
      BY <1>1 DEF VerdictTypes, VerdictAssumption
    <3> QED BY <3>1, <3>3, <3>4
  <2> QED BY <2>1, <2>2
<1>4. Verdict!AbandonStale \in Seq(AttemptRec) /\ Len(Verdict!AbandonStale) <= ReviewCap + v5
  <2>1. CASE Verdict!HasOpen
    <3>1. v4 # <<>> /\ Verdict!AbandonStale = Verdict!Closed(v4, "abandoned")
      BY <2>1 DEF Verdict!AbandonStale, Verdict!HasOpen
    <3> QED BY <1>1, <1>2, <3>1 DEF VerdictTypes
  <2>2. CASE ~Verdict!HasOpen
    BY <1>1, <2>2 DEF Verdict!AbandonStale, VerdictTypes
  <2> QED BY <2>1, <2>2
<1> QED BY <1>2, <1>3, <1>4

\* How a session may follow upon itself while its launcher is at it: nothing it
\* heard is forgotten.
MayFollow(r, t) ==
  /\ r.state \in Unheard => t.state \in Unheard
  /\ t.adopted = TRUE => r.adopted = TRUE

\* A launcher or a mark moves a session on, and counts nothing.
LEMMA ReviewerMoves ==
  ASSUME VerdictAssumption, VerdictInv, NEW s \in Reviewers, NEW r \in ReviewerRec, v7' = [v7 EXCEPT ![s] = r],
         UNCHANGED <<v8, v11>>, MayFollow(r, v7[s])
  PROVE  /\ v7' \in [Reviewers -> ReviewerRec]
         /\ (v6' # Nothing => v6'.spec = v1') => VerdictStory'
<1>1. VerdictTypes /\ VerdictStory
  BY DEF VerdictInv
<1>2. v7' \in [Reviewers -> ReviewerRec] /\ v7'[s] = r /\ \A t \in Reviewers : t # s => v7'[t] = v7[t]
  BY <1>1 DEF VerdictTypes
<1>3. \A p \in Pilots, t \in Reviewers : ReplayedBy(p, t)' <=> ReplayedBy(p, t)
  BY DEF ReplayedBy
<1>4. \A t \in Reviewers : /\ v7'[t].state \in Unheard => v7[t].state \in Unheard
                           /\ v7[t].adopted = TRUE => v7'[t].adopted = TRUE
  BY <1>2 DEF MayFollow
<1> QED BY <1>1, <1>2, <1>3, <1>4 DEF VerdictStory

LEMMA LauncherNext ==
  ASSUME VerdictAssumption, VerdictInv, NEW s \in Reviewers,
         \/ Verdict!LaunchReviewer(s) \/ \E v \in {"approved", "findings"} : Verdict!PrintVerdict(s, v)
         \/ Verdict!EndWithoutVerdict(s) \/ Verdict!RefuseDelivery(s) \/ Verdict!QuarantineLateResult(s)
         \/ Verdict!DeliverReviewerResult(s) \/ Verdict!DispatchFails(s) \/ Verdict!AutoAdopt(s)
         \/ Verdict!AutoReplayFails(s) \/ Verdict!AutoMark(s)
  PROVE  VerdictInv'
<1> DEFINE t == v7[s]
           MovesOn == \E r \in ReviewerRec : v7' = [v7 EXCEPT ![s] = r] /\ MayFollow(r, t)
<1>1. VerdictTypes /\ VerdictStory
  BY DEF VerdictInv
<1>2. v7 \in [Reviewers -> ReviewerRec] /\ t \in ReviewerRec
  BY <1>1 DEF VerdictTypes
<1>3. ASSUME UNCHANGED <<v1, v2, v3, v5, v6, v8, v9, v10, v11>>,
             (v4' = v4) \/ (v4' = Verdict!Opened /\ Verdict!MayOpen), MovesOn
      PROVE  VerdictInv'
  <2>1. v4' \in Seq(AttemptRec) /\ Len(v4') <= ReviewCap + v5'
    BY <1>1, <1>3, AttemptsWithinCap DEF VerdictTypes
  <2>2. v7' \in [Reviewers -> ReviewerRec] /\ VerdictStory'
    BY <1>1, <1>3, ReviewerMoves DEF VerdictStory
  <2>3. VerdictTypes'
    BY <1>1, <1>3, <2>1, <2>2 DEF VerdictTypes
  <2> QED BY <2>2, <2>3 DEF VerdictInv
<1>4. ASSUME NEW a \in {"failed", "dispatching", "adopting"}, v7' = [v7 EXCEPT ![s].state = a], t.state \in Unheard
      PROVE  MovesOn
  <2> DEFINE r == [t EXCEPT !.state = a]
  <2>1. r \in ReviewerRec /\ r.state = a /\ r.adopted = t.adopted
    BY <1>2 DEF ReviewerRec
  <2>3. v7' = [v7 EXCEPT ![s] = r]
    BY <1>4
  <2> HIDE DEF r
  <2> QED BY <1>4, <2>1, <2>3 DEF MayFollow, Unheard
<1>5. CASE Verdict!LaunchReviewer(s)
  <2> DEFINE r == [t EXCEPT !.state = "reviewing", !.judged = v1]
  <2>1. v7' = [v7 EXCEPT ![s] = r] /\ t.state = "none"
    BY <1>2, <1>5 DEF Verdict!LaunchReviewer, ReviewerRec
  <2>2. r \in ReviewerRec /\ r.state = "reviewing" /\ r.adopted = t.adopted
    BY <1>1, <1>2 DEF VerdictTypes, ReviewerRec
  <2> HIDE DEF r
  <2>3. MayFollow(r, t)
    BY <1>2, <2>1, <2>2 DEF Unheard, MayFollow
  <2> QED BY <1>3, <1>5, <2>1, <2>2, <2>3 DEF Verdict!LaunchReviewer, Verdict!run
<1>6. CASE \E v \in {"approved", "findings"} : Verdict!PrintVerdict(s, v)
  <2>1. PICK v \in {"approved", "findings"} : Verdict!PrintVerdict(s, v)
    BY <1>6
  <2> DEFINE r == [t EXCEPT !.state = "printed", !.verdict = v]
  <2>2. v7' = [v7 EXCEPT ![s] = r] /\ t.state = "reviewing"
    BY <1>2, <2>1 DEF Verdict!PrintVerdict, ReviewerRec
  <2>3. r \in ReviewerRec /\ r.state = "printed" /\ r.adopted = t.adopted
    BY <1>2 DEF ReviewerRec
  <2> HIDE DEF r
  <2>4. MayFollow(r, t)
    BY <1>2, <2>2, <2>3 DEF Unheard, MayFollow
  <2> QED BY <1>3, <2>1, <2>2, <2>3, <2>4 DEF Verdict!PrintVerdict, Verdict!run
<1>7. CASE Verdict!EndWithoutVerdict(s) \/ Verdict!RefuseDelivery(s) \/ Verdict!DeliverReviewerResult(s)
           \/ Verdict!DispatchFails(s)
  <2>1. t.state \in Unheard /\ \E a \in {"failed", "dispatching", "adopting"} : v7' = [v7 EXCEPT ![s].state = a]
    BY <1>7 DEF Verdict!EndWithoutVerdict, Verdict!RefuseDelivery, Verdict!DeliverReviewerResult, Verdict!DispatchFails,
                Verdict!Moved, Unheard
  <2>2. UNCHANGED <<v1, v2, v3, v4, v5, v6, v8, v9, v10, v11>>
    BY <1>7 DEF Verdict!EndWithoutVerdict, Verdict!RefuseDelivery, Verdict!DeliverReviewerResult, Verdict!DispatchFails,
                Verdict!run
  <2> QED BY <1>3, <1>4, <2>1, <2>2
<1>8. CASE Verdict!QuarantineLateResult(s)
  <2> DEFINE r == [t EXCEPT !.state = "completed", !.held = "held"]
  <2>1. v7' = [v7 EXCEPT ![s] = r] /\ t.state = "printed"
    BY <1>2, <1>8 DEF Verdict!QuarantineLateResult, ReviewerRec
  <2>2. r \in ReviewerRec /\ r.state = "completed" /\ r.adopted = t.adopted
    BY <1>1, <1>2 DEF VerdictTypes, ReviewerRec
  <2> HIDE DEF r
  <2>3. MayFollow(r, t)
    BY <1>2, <2>1, <2>2 DEF Unheard, MayFollow
  <2> QED BY <1>3, <1>8, <2>1, <2>2, <2>3 DEF Verdict!QuarantineLateResult, Verdict!run
<1>9. CASE Verdict!AutoAdopt(s)
  <2>1. PICK a \in BOOLEAN, to \in {"failed", "completed", "reaffirming", "replaying"} :
          (t.adopted = TRUE => a = TRUE) /\ v7' = [v7 EXCEPT ![s].adopted = a, ![s].state = to]
    <3> DEFINE a == t.adopted \/ (~Verdict!AdoptionRefused(s) /\ Verdict!Rebinds(s))
    <3>1. \E to \in {"failed", "completed", "reaffirming", "replaying"} : v7' = [v7 EXCEPT ![s].adopted = a, ![s].state = to]
      BY <1>9 DEF Verdict!AutoAdopt
    <3>2. a \in BOOLEAN /\ (t.adopted = TRUE => a = TRUE)
      OBVIOUS
    <3> HIDE DEF a
    <3> QED BY <3>1, <3>2, Zenon
  <2> DEFINE r == [t EXCEPT !.adopted = a, !.state = to]
  <2>2. v7' = [v7 EXCEPT ![s] = r]
    BY <1>2, <2>1 DEF ReviewerRec
  <2>3. r \in ReviewerRec /\ r.state = to /\ r.adopted = a
    BY <1>2 DEF ReviewerRec
  <2>4. t.state = "adopting"
    BY <1>9 DEF Verdict!AutoAdopt
  <2> HIDE DEF r
  <2>5. MayFollow(r, t)
    BY <1>2, <2>1, <2>3, <2>4 DEF Unheard, MayFollow
  <2>6. UNCHANGED <<v1, v2, v3, v4, v5, v6, v8, v9, v10, v11>>
    BY <1>9 DEF Verdict!AutoAdopt, Verdict!run
  <2> QED BY <1>3, <2>2, <2>3, <2>5, <2>6
<1>10. CASE Verdict!AutoMark(s)
  <2> DEFINE r == [t EXCEPT !.state = "completed", !.adopted = TRUE]
  <2>1. v7' = [v7 EXCEPT ![s] = r] /\ t.state = "marking"
    BY <1>2, <1>10 DEF Verdict!AutoMark, ReviewerRec
  <2>2. r \in ReviewerRec /\ r.state = "completed" /\ r.adopted = TRUE
    BY <1>1, <1>2 DEF VerdictTypes, ReviewerRec
  <2> HIDE DEF r
  <2>3. MayFollow(r, t)
    BY <1>2, <2>1, <2>2 DEF Unheard, MayFollow
  <2> QED BY <1>3, <1>10, <2>1, <2>2, <2>3 DEF Verdict!AutoMark, Verdict!run
<1>11. CASE Verdict!AutoReplayFails(s)
  <2> DEFINE r == [t EXCEPT !.state = "failed"]
  <2>1. v7' = [v7 EXCEPT ![s] = r]
    BY <1>11 DEF Verdict!AutoReplayFails, Verdict!Moved
  <2>2. r \in ReviewerRec /\ r.state = "failed" /\ r.adopted = t.adopted
    BY <1>2 DEF ReviewerRec
  <2> HIDE DEF r
  <2>3. MayFollow(r, t)
    BY <2>2 DEF Unheard, MayFollow
  <2>4. UNCHANGED <<v1, v2, v3, v4, v5, v6, v8, v9, v10, v11>>
    BY <1>11 DEF Verdict!AutoReplayFails, Verdict!run
  <2> QED BY <1>3, <2>1, <2>2, <2>3, <2>4
<1> QED BY <1>5, <1>6, <1>7, <1>8, <1>9, <1>10, <1>11, Zenon

\* What a record command does, whoever runs it.
LEMMA Recording ==
  ASSUME VerdictAssumption, VerdictInv, NEW s \in Reviewers, NEW by \in {"launcher", "pilots"},
         Verdict!Record(s, by), v1' = v1, v5' = v5, v11[s][by] = 0
  PROVE  /\ v4' \in Seq(AttemptRec) /\ Len(v4') <= ReviewCap + v5' /\ v2' \in 2 .. 6
         /\ v6' \in ReviewRec \cup {Nothing} /\ (v6' # Nothing => v6'.spec = v1')
         /\ v11' \in [Reviewers -> Tally] /\ \A t \in Reviewers : t # s => v11'[t] = v11[t]
         /\ by = "launcher" => v11'[s].pilots = v11[s].pilots
         /\ by = "pilots" => v11'[s].launcher = v11[s].launcher
<1>1. VerdictTypes
  BY DEF VerdictInv
<1>2. \/ /\ Verdict!MayOpen /\ v4' = Verdict!Closed(Verdict!Opened, "approved") /\ v2' = v2
         /\ v6' = [session |-> s, spec |-> v1]
      \/ /\ Verdict!MayOpen /\ v4' = Verdict!Closed(Verdict!Opened, "changes_requested") /\ v2' \in {v2, 4} /\ v6' = Nothing
  BY DEF Verdict!Record, Verdict!RecordReview, Verdict!RecordReviewFindings, Verdict!MayApprove, Verdict!MayRequest
<1>3. v4' \in Seq(AttemptRec) /\ Len(v4') <= ReviewCap + v5'
  BY <1>2, AttemptsWithinCap
<1>4. v6' \in ReviewRec \cup {Nothing} /\ (v6' # Nothing => v6'.spec = v1')
  BY <1>1, <1>2 DEF VerdictTypes, ReviewRec
<1>5. v2' \in 2 .. 6
  BY <1>1, <1>2 DEF VerdictTypes
<1>6. v11' = [v11 EXCEPT ![s] = [v11[s] EXCEPT ![by] = v11[s][by] + 1]]
  BY DEF Verdict!Record
<1> DEFINE n == [v11[s] EXCEPT ![by] = v11[s][by] + 1]
<1>7. v11[s] \in Tally
  BY <1>1 DEF VerdictTypes
<1>8. n \in Tally /\ (by = "launcher" => n.pilots = v11[s].pilots) /\ (by = "pilots" => n.launcher = v11[s].launcher)
  BY <1>7 DEF Tally
<1> HIDE DEF n
<1>9. v11' = [v11 EXCEPT ![s] = n]
  BY <1>6 DEF n
<1>10. v11' \in [Reviewers -> Tally] /\ v11'[s] = n /\ \A t \in Reviewers : t # s => v11'[t] = v11[t]
  BY <1>1, <1>8, <1>9 DEF VerdictTypes
<1> QED BY <1>3, <1>4, <1>5, <1>8, <1>10

\* The launcher records a verdict that it has not recorded before.
LEMMA DeliveryNext ==
  ASSUME VerdictAssumption, VerdictInv, NEW s \in Reviewers,
         Verdict!Dispatched(s) \/ Verdict!AutoReplay(s) \/ Verdict!AutoReaffirm(s)
  PROVE  VerdictInv'
<1>1. VerdictTypes /\ VerdictStory
  BY DEF VerdictInv
<1>2. /\ UNCHANGED <<v1, v3, v5, v8, v9, v10>>
      /\ v7' = [v7 EXCEPT ![s].state = "completed"] \/ v7' = [v7 EXCEPT ![s].state = "marking"]
      /\ \/ Verdict!Record(s, "launcher") /\ v7[s].state \in {"dispatching", "replaying"}
         \/ Verdict!Reaffirm(s)
  BY DEF Verdict!Dispatched, Verdict!AutoReplay, Verdict!AutoReaffirm, Verdict!Moved
<1>3. /\ v4' \in Seq(AttemptRec) /\ Len(v4') <= ReviewCap + v5' /\ v2' \in 2 .. 6
      /\ v6' \in ReviewRec \cup {Nothing} /\ (v6' # Nothing => v6'.spec = v1')
      /\ v11' \in [Reviewers -> Tally] /\ (\A t \in Reviewers : t # s => v11'[t] = v11[t])
      /\ v11'[s].pilots = v11[s].pilots
  <2>1. CASE Verdict!Record(s, "launcher") /\ v7[s].state \in {"dispatching", "replaying"}
    <3>1. v11[s].launcher = 0
      BY <1>1, <2>1 DEF VerdictStory, Unheard
    <3> QED BY <1>2, <2>1, <3>1, Recording
  <2>2. CASE Verdict!Reaffirm(s)
    <3>1. v6' = [session |-> s, spec |-> v1] /\ UNCHANGED <<v4, v2, v11>>
      BY <2>2 DEF Verdict!Reaffirm
    <3> QED BY <1>1, <1>2, <3>1 DEF VerdictTypes, ReviewRec
  <2> QED BY <1>2, <2>1, <2>2
<1>6. /\ v7' \in [Reviewers -> ReviewerRec] /\ v7'[s].state \in {"completed", "marking"}
      /\ v7'[s].adopted = v7[s].adopted /\ \A t \in Reviewers : t # s => v7'[t] = v7[t]
  <2>1. PICK a \in {"completed", "marking"} : v7' = [v7 EXCEPT ![s].state = a]
    BY <1>2
  <2> DEFINE r == [v7[s] EXCEPT !.state = a]
  <2>2. r \in ReviewerRec /\ r.state = a /\ r.adopted = v7[s].adopted
    BY <1>1 DEF VerdictTypes, ReviewerRec
  <2>3. v7' = [v7 EXCEPT ![s] = r]
    BY <2>1
  <2> HIDE DEF r
  <2> QED BY <1>1, <2>2, <2>3 DEF VerdictTypes
<1>7. VerdictTypes'
  BY <1>1, <1>2, <1>3, <1>6 DEF VerdictTypes
<1>8. \A p \in Pilots, t \in Reviewers : ReplayedBy(p, t)' <=> ReplayedBy(p, t)
  BY <1>2 DEF ReplayedBy
<1>9. \A t \in Reviewers : v11'[t].pilots = v11[t].pilots /\ v7'[t].adopted = v7[t].adopted
  BY <1>3, <1>6
<1>10. \A t \in Reviewers : v7'[t].state \in Unheard => v11'[t].launcher = 0
  BY <1>1, <1>3, <1>6 DEF VerdictStory, Unheard
<1>11. VerdictStory'
  BY <1>1, <1>2, <1>3, <1>8, <1>9, <1>10 DEF VerdictStory
<1> QED BY <1>7, <1>11 DEF VerdictInv

\* A Pilot adopts a verdict that no Pilot has adopted yet.
LEMMA PilotNext ==
  ASSUME VerdictAssumption, VerdictInv, NEW p \in Pilots, Verdict!Adoption(p)
  PROVE  VerdictInv'
<1> DEFINE s == v8[p].session
<1>1. VerdictTypes /\ VerdictStory
  BY DEF VerdictInv
<1>2. \A q \in Pilots : q = p
  BY DEF VerdictAssumption
<1>3. v8[p] # Nothing => v8[p] \in AdopterRec /\ s \in Reviewers /\ ReplayedBy(p, s)
  BY <1>1 DEF VerdictTypes, AdopterRec, ReplayedBy
<1>4. CASE \E t \in Reviewers : Verdict!Adopt(p, t)
  <2>1. PICK t \in Reviewers : Verdict!Adopt(p, t)
    BY <1>4
  <2>2. v8[p] = Nothing /\ UNCHANGED <<v1, v2, v3, v4, v5, v6, v9, v10, v11>>
    BY <2>1 DEF Verdict!Adopt, Verdict!run
  <2>4. v7[t] \in ReviewerRec
    BY <1>1 DEF VerdictTypes
  <2>6. CASE v7' = [v7 EXCEPT ![t].adopted = TRUE] /\ v8' = v8
    <3> DEFINE r == [v7[t] EXCEPT !.adopted = TRUE]
    <3>1. r \in ReviewerRec /\ r.state = v7[t].state /\ r.adopted = TRUE
      BY <2>4 DEF ReviewerRec
    <3>2. v7' = [v7 EXCEPT ![t] = r]
      BY <2>6
    <3> HIDE DEF r
    <3>3. MayFollow(r, v7[t])
      BY <3>1 DEF MayFollow
    <3>4. v7' \in [Reviewers -> ReviewerRec] /\ VerdictStory'
      BY <1>1, <2>2, <2>6, <3>1, <3>2, <3>3, ReviewerMoves DEF VerdictStory
    <3>5. VerdictTypes'
      BY <1>1, <2>2, <2>6, <3>4 DEF VerdictTypes
    <3> QED BY <3>4, <3>5 DEF VerdictInv
  <2>7. CASE /\ ~Verdict!Rebinds(t) /\ v7' = v7
             /\ v8' = [v8 EXCEPT ![p] = [session |-> t, step |-> IF Verdict!Readopts(t) THEN "readopt" ELSE "replay"]]
    <3> DEFINE r == [session |-> t, step |-> IF Verdict!Readopts(t) THEN "readopt" ELSE "replay"]
    <3>1. r \in AdopterRec /\ r.session = t /\ (r.step = "replay" => ~Verdict!Readopts(t)) /\ r.step # "mark"
      BY DEF AdopterRec
    <3>2. ~Verdict!Readopts(t) => v7[t].adopted # TRUE
      BY <2>1, <2>7 DEF Verdict!Adopt, Verdict!AdoptionRefused
    <3> HIDE DEF r
    <3>3. v8' = [v8 EXCEPT ![p] = r]
      BY <2>7 DEF r
    <3>4. v8' \in [Pilots -> AdopterRec \cup {Nothing}] /\ v8'[p] = r
      BY <1>1, <3>1, <3>3 DEF VerdictTypes
    <3>5. VerdictTypes'
      BY <1>1, <2>2, <2>7, <3>4 DEF VerdictTypes
    <3>6. \A u \in Reviewers : ~ReplayedBy(p, u)
      BY <2>2 DEF ReplayedBy
    <3>10. \A u \in Reviewers : v11[u].pilots # 0 => v7[u].adopted = TRUE
      BY <1>1, <1>2, <3>6 DEF VerdictStory
    <3>7. r.step = "replay" => v11[t].pilots = 0
      BY <3>1, <3>2, <3>10
    <3>9. \A q \in Pilots, u \in Reviewers : ReplayedBy(q, u)' /\ v8'[q].step = "replay" => v11'[u].pilots = 0
      BY <1>2, <2>2, <3>1, <3>4, <3>7 DEF ReplayedBy
    <3>11. VerdictStory'
      BY <1>1, <2>2, <2>7, <3>9, <3>10 DEF VerdictStory
    <3> QED BY <3>5, <3>11 DEF VerdictInv
  <2> QED BY <2>1, <2>6, <2>7 DEF Verdict!Adopt
<1>5. CASE /\ v8[p] # Nothing /\ v8[p].step = "replay" /\ Verdict!Record(s, "pilots")
           /\ v8' = [v8 EXCEPT ![p].step = "mark"] /\ UNCHANGED <<v1, v3, v5, v7, v9, v10>>
  <2>2. s \in Reviewers /\ v11[s].pilots = 0
    BY <1>1, <1>3, <1>5 DEF VerdictStory
  <2> HIDE DEF s
  <2>3. /\ v4' \in Seq(AttemptRec) /\ Len(v4') <= ReviewCap + v5' /\ v2' \in 2 .. 6
        /\ v6' \in ReviewRec \cup {Nothing} /\ (v6' # Nothing => v6'.spec = v1')
        /\ v11' \in [Reviewers -> Tally] /\ (\A t \in Reviewers : t # s => v11'[t] = v11[t])
        /\ v11'[s].launcher = v11[s].launcher
    BY <1>5, <2>2, Recording
  <2>6. v8' \in [Pilots -> AdopterRec \cup {Nothing}] /\ v8'[p] # Nothing /\ v8'[p].step = "mark" /\ v8'[p].session = s
    <3>1. [v8[p] EXCEPT !.step = "mark"] \in AdopterRec
      BY <1>3, <1>5 DEF AdopterRec
    <3>2. Nothing \notin AdopterRec
      BY DEF VerdictAssumption, AdopterRec
    <3>3. v8'[p] = [v8[p] EXCEPT !.step = "mark"]
      BY <1>1, <1>5 DEF VerdictTypes
    <3>4. v8'[p].step = "mark" /\ v8'[p].session = s
      BY <1>3, <1>5, <3>3 DEF AdopterRec, s
    <3> QED BY <1>1, <1>5, <3>1, <3>2, <3>3, <3>4 DEF VerdictTypes
  <2>7. VerdictTypes'
    BY <1>1, <1>5, <2>3, <2>6 DEF VerdictTypes
  <2>8. \A u \in Reviewers : (ReplayedBy(p, u)' <=> u = s) /\ (ReplayedBy(p, u) <=> u = s)
    BY <1>5, <2>6 DEF ReplayedBy, s
  <2>10. \A u \in Reviewers : v7'[u].state \in Unheard => v11'[u].launcher = 0
    BY <1>1, <1>5, <2>3 DEF VerdictStory
  <2>11. \A u \in Reviewers : v11'[u].pilots # 0 =>
           v7'[u].adopted = TRUE \/ \E q \in Pilots : ReplayedBy(q, u)' /\ v8'[q].step = "mark"
    BY <1>1, <1>2, <1>5, <2>3, <2>6, <2>8 DEF VerdictStory
  <2>12. \A q \in Pilots, u \in Reviewers : ReplayedBy(q, u)' /\ v8'[q].step = "replay" => v11'[u].pilots = 0
    BY <1>2, <2>6
  <2> QED BY <2>3, <2>7, <2>10, <2>11, <2>12, Zenon DEF VerdictInv, VerdictStory
<1>8. CASE /\ v8[p] # Nothing /\ v8[p].step = "readopt" /\ Verdict!Reaffirm(s)
           /\ v8' = [v8 EXCEPT ![p] = Nothing] /\ UNCHANGED <<v1, v3, v5, v7, v9, v10>>
  <2>1. v6' = [session |-> s, spec |-> v1] /\ UNCHANGED <<v4, v2, v11>> /\ s \in Reviewers
    BY <1>3, <1>8 DEF Verdict!Reaffirm
  <2> HIDE DEF s
  <2>2. v8' \in [Pilots -> AdopterRec \cup {Nothing}] /\ v8'[p] = Nothing
    BY <1>1, <1>8 DEF VerdictTypes
  <2>3. VerdictTypes'
    BY <1>1, <1>8, <2>1, <2>2 DEF VerdictTypes, ReviewRec
  <2>4. \A u \in Reviewers : v11[u].pilots # 0 => v7[u].adopted = TRUE
    BY <1>1, <1>2, <1>8 DEF VerdictStory
  <2>5. VerdictStory'
    BY <1>1, <1>2, <1>8, <2>1, <2>2, <2>4 DEF VerdictStory, ReplayedBy
  <2> QED BY <2>3, <2>5 DEF VerdictInv
<1>6. CASE Verdict!ReplayFails(p)
  <2>1. /\ v8[p] # Nothing /\ v8[p].step # "mark" /\ UNCHANGED <<v1, v2, v3, v4, v5, v6, v7, v9, v10, v11>>
        /\ v8' = [v8 EXCEPT ![p] = Nothing]
    BY <1>6 DEF Verdict!ReplayFails, Verdict!run
  <2>2. v8' \in [Pilots -> AdopterRec \cup {Nothing}] /\ v8'[p] = Nothing
    BY <1>1, <2>1 DEF VerdictTypes
  <2>3. VerdictTypes'
    BY <1>1, <2>1, <2>2 DEF VerdictTypes
  <2>4. \A u \in Reviewers : v11[u].pilots # 0 => v7[u].adopted = TRUE
    BY <1>1, <1>2, <2>1 DEF VerdictStory
  <2>5. VerdictStory'
    BY <1>1, <1>2, <2>1, <2>2, <2>4 DEF VerdictStory, ReplayedBy
  <2> QED BY <2>3, <2>5 DEF VerdictInv
<1>7. CASE Verdict!Mark(p)
  <2> DEFINE r == [v7[s] EXCEPT !.adopted = TRUE, !.held = IF @ = "no" THEN @ ELSE "adopted"]
  <2>1. /\ v8[p] # Nothing /\ UNCHANGED <<v1, v2, v3, v4, v5, v6, v9, v10, v11>>
        /\ v8' = [v8 EXCEPT ![p] = Nothing]
    BY <1>7 DEF Verdict!Mark, Verdict!run
  <2>2. v8' \in [Pilots -> AdopterRec \cup {Nothing}] /\ v8'[p] = Nothing
    BY <1>1, <2>1 DEF VerdictTypes
  <2>3. s \in Reviewers /\ v7[s] \in ReviewerRec /\ \A u \in Reviewers : ReplayedBy(p, u) => u = s
    BY <1>1, <1>3, <2>1 DEF ReplayedBy, VerdictTypes
  <2>4. v7' = [v7 EXCEPT ![s] = r]
    BY <1>1, <1>7, <2>3 DEF Verdict!Mark, VerdictTypes
  <2>5. r \in ReviewerRec /\ r.state = v7[s].state /\ r.adopted = TRUE
    <3>1. \E h \in {"no", "held", "adopted"} : r = [v7[s] EXCEPT !.adopted = TRUE, !.held = h]
      BY <2>3 DEF ReviewerRec
    <3> HIDE DEF r, s
    <3> QED BY <2>3, <3>1 DEF ReviewerRec
  <2> HIDE DEF r, s
  <2>6. /\ v7' \in [Reviewers -> ReviewerRec] /\ v7'[s].adopted = TRUE
        /\ \A u \in Reviewers : v7'[u].state = v7[u].state /\ (u # s => v7'[u].adopted = v7[u].adopted)
    BY <1>1, <2>3, <2>4, <2>5 DEF VerdictTypes
  <2>7. VerdictTypes'
    BY <1>1, <2>1, <2>2, <2>6 DEF VerdictTypes
  <2>8. \A u \in Reviewers : v11[u].pilots # 0 => v7'[u].adopted = TRUE
    BY <1>1, <1>2, <2>3, <2>6 DEF VerdictStory
  <2>9. VerdictStory'
    BY <1>1, <1>2, <2>1, <2>2, <2>6, <2>8 DEF VerdictStory, ReplayedBy
  <2> QED BY <2>7, <2>9 DEF VerdictInv
<1>9. Verdict!Replay(p) => \/ /\ v8[p] # Nothing /\ v8[p].step = "replay" /\ Verdict!Record(s, "pilots")
                              /\ v8' = [v8 EXCEPT ![p].step = "mark"] /\ UNCHANGED <<v1, v3, v5, v7, v9, v10>>
                           \/ /\ v8[p] # Nothing /\ v8[p].step = "readopt" /\ Verdict!Reaffirm(s)
                              /\ v8' = [v8 EXCEPT ![p] = Nothing] /\ UNCHANGED <<v1, v3, v5, v7, v9, v10>>
  BY DEF Verdict!Replay
<1> QED BY <1>4, <1>5, <1>6, <1>7, <1>8, <1>9, Zenon DEF Verdict!Adoption

\* The criteria, the phase, the cap and the pauses change.
LEMMA CriteriaNext ==
  ASSUME VerdictAssumption, VerdictInv,
         \/ \E to \in Specs : Verdict!CriterionUpdate(to)
         \/ \E to \in 2 .. 6 : Verdict!Advance(to)
         \/ Verdict!CapOverride \/ Verdict!Pause \/ Verdict!Resume
  PROVE  VerdictInv'
<1>1. VerdictTypes /\ VerdictStory
  BY DEF VerdictInv
<1>2. UNCHANGED <<v7, v8, v11>> /\ (v6' # Nothing => v6' = v6 /\ v1' = v1)
  BY DEF Verdict!CriterionUpdate, Verdict!Advance, Verdict!CapOverride, Verdict!Pause, Verdict!Resume
<1>3. VerdictStory'
  BY <1>1, <1>2 DEF VerdictStory, ReplayedBy
<1>4. VerdictTypes'
  <2>1. CASE \E to \in Specs : Verdict!CriterionUpdate(to)
    <3>1. /\ v1' \in Specs /\ v9 < MaxEdits /\ v9' = v9 + 1 /\ v4' = Verdict!AbandonStale /\ v2' = 2 /\ v6' = Nothing
          /\ UNCHANGED <<v3, v5, v7, v8, v10, v11>>
      BY <2>1 DEF Verdict!CriterionUpdate
    <3>2. v4' \in Seq(AttemptRec) /\ Len(v4') <= ReviewCap + v5'
      BY <3>1, AttemptsWithinCap
    <3>3. v2' \in 2 .. 6 /\ v9' \in 0 .. MaxEdits
      BY <1>1, <3>1 DEF VerdictTypes, VerdictAssumption
    <3> QED BY <1>1, <3>1, <3>2, <3>3 DEF VerdictTypes
  <2>2. CASE Verdict!CapOverride
    <3>1. /\ v5 < MaxOverrides /\ v5' = v5 + 1 /\ UNCHANGED <<v1, v2, v3, v4, v6, v7, v8, v9, v10, v11>>
      BY <2>2 DEF Verdict!CapOverride
    <3>2. Len(v4) \in Nat
      BY <1>1, LenProperties DEF VerdictTypes
    <3>3. v5' \in 0 .. MaxOverrides /\ Len(v4) <= ReviewCap + v5'
      BY <1>1, <3>1, <3>2 DEF VerdictTypes, VerdictAssumption
    <3> QED BY <1>1, <3>1, <3>3 DEF VerdictTypes
  <2>3. CASE (\E to \in 2 .. 6 : Verdict!Advance(to)) \/ Verdict!Pause \/ Verdict!Resume
    <3>1. /\ v2' \in 2 .. 6 \/ v2' = v2
          /\ v3' \in BOOLEAN \/ v3' = v3
          /\ (v10 < MaxPauses /\ v10' = v10 + 1) \/ v10' = v10
          /\ UNCHANGED <<v1, v4, v5, v6, v7, v8, v9, v11>>
      BY <2>3 DEF Verdict!Advance, Verdict!Pause, Verdict!Resume
    <3>2. v10' \in 0 .. MaxPauses
      BY <1>1, <3>1 DEF VerdictTypes, VerdictAssumption
    <3> QED BY <1>1, <3>1, <3>2 DEF VerdictTypes
  <2> QED BY <2>1, <2>2, <2>3
<1> QED BY <1>3, <1>4 DEF VerdictInv

LEMMA VerdictNext == ASSUME VerdictAssumption, VerdictInv, Verdict!Next PROVE VerdictInv'
<1>1. CASE \E s \in Reviewers : Verdict!LaunchReviewer(s) \/ Verdict!Launcher(s)
  BY <1>1, LauncherNext, DeliveryNext, Zenon DEF Verdict!Launcher, Verdict!Verdicts
<1>2. CASE \E p \in Pilots : Verdict!Adoption(p)
  BY <1>2, PilotNext, Zenon
<1>3. CASE \/ \E to \in Specs : Verdict!CriterionUpdate(to)
           \/ \E to \in 2 .. 6 : Verdict!Advance(to)
           \/ Verdict!CapOverride \/ Verdict!Pause \/ Verdict!Resume
  BY <1>3, CriteriaNext, Zenon
<1> QED BY <1>1, <1>2, <1>3, Zenon DEF Verdict!Next

-----------------------------------------------------------------------------
(* Fallback, with any profiles, caps and rounds.                           *)
FallbackAssumption ==
  /\ Configured \in [{"implementer", "reviewer"} -> Profiles]
  /\ Fallbacks \in [{"implementer", "reviewer"} -> Seq(Profiles)]
  /\ FailoverCap \in Nat /\ Rounds \in Nat /\ MaxSessions \in Nat /\ MaxFindings \in Nat
  /\ Nothing \notin Profiles /\ Nothing \notin {"runtime_environment", "rate_limit", "non_zero_exit", "cancelled"}

ChainRec == [role : {"implementer", "reviewer"}, profile : Profiles, state : {"live", "failed", "completed"},
             category : {"runtime_environment", "rate_limit", "non_zero_exit", "cancelled"} \cup {Nothing},
             from : 0 .. MaxSessions, quality : BOOLEAN, binding : Profiles \cup {Nothing}]
Made == 1 .. Len(v1)

FallbackTypes ==
  /\ v1 \in Seq(ChainRec) /\ Len(v1) <= MaxSessions
  /\ \A i \in Made : /\ v1[i].from < i /\ (v1[i].from # 0 => v1[v1[i].from].role = v1[i].role)
                     /\ v1[i].state = "failed" <=> v1[i].category # Nothing
                     /\ v1[i].role = "reviewer" <=> v1[i].binding # Nothing
  /\ \A i, j \in Made : i < j /\ v1[i].role = v1[j].role => v1[i].state # "live"
  /\ \A i, j \in Made : i # j /\ v1[i].from = v1[j].from => v1[i].from = 0
  /\ v2 \subseteq [of : Made, round : 0 .. MaxFindings] /\ IsFiniteSet(v2) /\ v3 \in 0 .. MaxFindings

\* What _replacement_chain returns for every one of the sessions s.
Follows(c, s) == c = [i \in DOMAIN s |-> IF s[i].from = 0 THEN <<i>> ELSE <<i>> \o c[s[i].from]]

\* The chain c of session i, among the sessions s with the findings f.
SoundChain(s, f, c, i) ==
  /\ c \in Seq(1 .. Len(s)) /\ Len(c) \in 1 .. FailoverCap + 1
  /\ \A m, n \in 1 .. Len(c) : m # n => s[c[m]].profile # s[c[n]].profile
  /\ s[i].binding = s[c[Len(c)]].binding
  /\ s[i].role = "reviewer" /\ i # c[Len(c)] => s[i].profile # s[i].binding
  /\ s[i].quality = TRUE => Cardinality({x \in f : x.of = s[i].from /\ x.round > 0}) >= Rounds

FallbackInv ==
  /\ FallbackTypes /\ Follows(Planner!Chain, v1)
  /\ \A i \in Made : SoundChain(v1, v2, Planner!Chain[i], i)

LEMMA SameCardinality == \A S : Planner!Cardinality(S) = Cardinality(S)
BY DEF Planner!Cardinality, Cardinality

LEMMA FallbackStart == ASSUME FallbackAssumption, Planner!Init PROVE FallbackInv
<1>1. v1 = <<>> /\ v2 = {} /\ v3 = 0
  BY DEF Planner!Init
<1>2. Len(v1) = 0 /\ v1 \in Seq(ChainRec) /\ Made = {} /\ DOMAIN v1 = {}
  BY <1>1 DEF Made
<1>3. FallbackTypes
  BY <1>1, <1>2, FS_EmptySet DEF FallbackTypes, FallbackAssumption
<1>4. Follows(Planner!Chain, v1)
  <2> DEFINE f == [i \in DOMAIN v1 |-> <<i>>]
  <2>1. Follows(f, v1)
    BY <1>2 DEF Follows
  <2>2. Planner!Chain = CHOOSE c : Follows(c, v1)
    BY DEF Planner!Chain, Planner!Ids, Follows
  <2> QED BY <2>1, <2>2
<1> QED BY <1>2, <1>3, <1>4 DEF FallbackInv

LEMMA FallbackStutter == ASSUME FallbackInv, UNCHANGED Shared PROVE FallbackInv'
<1>1. Planner!Chain' = Planner!Chain
  BY DEF Shared, Planner!Chain, Planner!Ids
<1>2. v1' = v1 /\ v2' = v2 /\ v3' = v3
  BY DEF Shared
<1>3. FallbackTypes'
  BY <1>2, Zenon DEF FallbackInv, FallbackTypes, Made
<1>4. Follows(Planner!Chain, v1)'
  BY <1>1, <1>2 DEF FallbackInv, Follows
<1>5. ASSUME NEW i \in Made PROVE SoundChain(v1, v2, Planner!Chain[i], i)'
  <2> DEFINE c == Planner!Chain[i]
  <2>1. c' = c
    BY <1>1
  <2>2. SoundChain(v1, v2, c, i)
    BY DEF FallbackInv
  <2> HIDE DEF c
  <2>3. SoundChain(v1, v2, c, i)'
    BY <1>2, <2>1, <2>2 DEF SoundChain, Made
  <2> QED BY <2>3 DEF c
<1>6. Made' = Made
  BY <1>2 DEF Made
<1> QED BY <1>3, <1>4, <1>5, <1>6 DEF FallbackInv

LEMMA FallbackKeeps == ASSUME FallbackAssumption, FallbackInv PROVE Planner!TypeOK /\ Planner!FallbacksAreSound
<1>1. FallbackTypes
  BY DEF FallbackInv
<1>2. Planner!Ids = Made
  BY <1>1, LenProperties DEF FallbackTypes, Made, Planner!Ids
<1>3. v1 \in Seq(Planner!Session)
  <2>1. ChainRec = Planner!Session
    BY DEF ChainRec, Planner!Session, Planner!Roles, Planner!Categories, Planner!Recoverable, Planner!Environment
  <2> QED BY <1>1, <2>1 DEF FallbackTypes
<1>4. Planner!TypeOK
  BY <1>1, <1>2, <1>3 DEF FallbackTypes, Planner!TypeOK
<1>5. ASSUME NEW i \in Made
      PROVE  LET chain == Planner!Chain[i]
                 first == chain[Len(chain)]
             IN /\ Len(chain) <= FailoverCap + 1
                /\ \A m, n \in DOMAIN chain : m # n => v1[chain[m]].profile # v1[chain[n]].profile
                /\ v1[i].role = "reviewer" /\ i # first => v1[i].profile # v1[first].binding
                /\ v1[i].quality => Cardinality({f \in v2 : f.of = v1[i].from /\ f.round > 0}) >= Rounds
  <2> DEFINE chain == Planner!Chain[i]
  <2>1. SoundChain(v1, v2, chain, i)
    BY DEF FallbackInv
  <2> HIDE DEF chain
  <2>2. DOMAIN chain = 1 .. Len(chain)
    BY <2>1, LenProperties DEF SoundChain
  <2>3. v1[i].quality \in BOOLEAN
    <3>1. v1[i] \in ChainRec
      BY <1>1, ElementOfSeq DEF FallbackTypes, Made
    <3> QED BY <3>1 DEF ChainRec
  <2>4. Len(chain) <= FailoverCap + 1
    BY <2>1 DEF SoundChain, FallbackAssumption
  <2>5. QED
    BY <2>1, <2>2, <2>3, <2>4 DEF SoundChain, chain
<1>6. Planner!FallbacksAreSound
  BY <1>2, <1>5, SameCardinality, Zenon DEF Planner!FallbacksAreSound
<1> QED BY <1>4, <1>6

-----------------------------------------------------------------------------
(* The chain is a recursive function of the sessions: it has one solution,   *)
(* and a session that is appended adds one chain and changes no other.       *)
LEMMA LessIsWellFounded == IsWellFoundedOn({p \in Nat \X Nat : p[1] < p[2]}, Nat)
BY NatLessThanWellFounded DEF OpToRel

LEMMA LeastExists ==
  ASSUME NEW S \in SUBSET Nat, S # {}
  PROVE  \E i \in S : \A j \in S : i <= j
<1> DEFINE R == {p \in Nat \X Nat : p[1] < p[2]}
<1>1. IsWellFoundedOn(R, Nat)
  BY LessIsWellFounded
<1> HIDE DEF R
<1>2. PICK i \in S : \A j \in S : ~(<<j, i>> \in R)
  BY <1>1, WFMin
<1>3. \A j \in S : <<j, i>> \in R <=> j < i
  BY DEF R
<1>4. \A j \in S : ~(j < i)
  BY <1>2, <1>3, Zenon
<1>5. \A j \in S : i <= j
  BY <1>4
<1> QED BY <1>5

LEMMA GreatestExists ==
  ASSUME NEW n \in Nat, NEW S \in SUBSET (1 .. n), S # {}
  PROVE  \E i \in S : \A j \in S : j <= i
<1> DEFINE T == {k \in Nat : n - k \in S}
<1>1. T \in SUBSET Nat /\ T # {}
  <2>1. PICK i \in S : TRUE
    OBVIOUS
  <2>2. n - i \in Nat /\ n - (n - i) = i
    BY <2>1
  <2> QED BY <2>1, <2>2
<1>2. PICK k \in T : \A l \in T : k <= l
  BY <1>1, LeastExists, Zenon
<1>3. ASSUME NEW j \in S PROVE j <= n - k
  <2>1. n - j \in Nat /\ n - (n - j) = j
    OBVIOUS
  <2>2. n - j \in T
    BY <2>1
  <2>3. k <= n - j
    BY <1>2, <2>2
  <2> QED BY <1>2, <2>1, <2>3
<1> QED BY <1>2, <1>3

LEMMA OneChain ==
  ASSUME NEW s, NEW n \in Nat, DOMAIN s = 1 .. n, \A i \in 1 .. n : s[i].from \in Nat /\ s[i].from < i,
         NEW c, NEW d, Follows(c, s), Follows(d, s)
  PROVE  c = d
<1> DEFINE Agreed == {i \in 1 .. n : c[i] = d[i]}
           Other == (1 .. n) \ Agreed
<1>1. DOMAIN c = 1 .. n /\ DOMAIN d = 1 .. n
  BY DEF Follows
<1>2. c = [i \in 1 .. n |-> c[i]] /\ d = [i \in 1 .. n |-> d[i]]
  BY DEF Follows
<1>3. SUFFICES ASSUME Other # {} PROVE FALSE
  BY <1>2
<1>4. Other \in SUBSET Nat
  OBVIOUS
<1> HIDE DEF Other
<1>5. PICK i \in Other : \A j \in Other : i <= j
  BY <1>3, <1>4, LeastExists, Zenon
<1>6. i \in 1 .. n /\ c[i] # d[i] /\ s[i].from \in Nat /\ s[i].from < i
  BY <1>5 DEF Other
<1>7. /\ c[i] = IF s[i].from = 0 THEN <<i>> ELSE <<i>> \o c[s[i].from]
      /\ d[i] = IF s[i].from = 0 THEN <<i>> ELSE <<i>> \o d[s[i].from]
  BY <1>6 DEF Follows
<1>8. CASE s[i].from = 0
  BY <1>6, <1>7, <1>8
<1>9. CASE s[i].from # 0
  <2>1. s[i].from \in 1 .. n
    BY <1>6, <1>9
  <2>2. s[i].from \notin Other
    BY <1>5, <1>6
  <2>3. c[s[i].from] = d[s[i].from]
    BY <2>1, <2>2 DEF Other
  <2> QED BY <1>6, <1>7, <1>9, <2>3
<1> QED BY <1>8, <1>9

\* Whatever solves the recursion in the next state is the next state's chain.
LEMMA ChainIs ==
  ASSUME NEW n \in Nat, DOMAIN v1' = 1 .. n, \A i \in 1 .. n : v1'[i].from \in Nat /\ v1'[i].from < i,
         NEW d, Follows(d, v1')
  PROVE  Planner!Chain' = d
<1>1. Planner!Chain' = CHOOSE c : Follows(c, v1')
  BY DEF Planner!Chain, Planner!Ids, Follows
<1>2. Follows(Planner!Chain', v1')
  BY <1>1, Zenon
<1> QED BY <1>2, OneChain, Zenon


-----------------------------------------------------------------------------
LEMMA FallbackFacts ==
  ASSUME FallbackTypes
  PROVE  /\ Len(v1) \in Nat /\ DOMAIN v1 = Made /\ Planner!Ids = Made
         /\ \A i \in Made : v1[i] \in ChainRec /\ v1[i].from \in Nat /\ v1[i].from < i
<1>1. v1 \in Seq(ChainRec)
  BY DEF FallbackTypes
<1>2. Len(v1) \in Nat /\ DOMAIN v1 = 1 .. Len(v1)
  BY <1>1, LenProperties
<1>3. ASSUME NEW i \in Made PROVE v1[i] \in ChainRec /\ v1[i].from \in Nat /\ v1[i].from < i
  <2>1. v1[i] \in ChainRec
    BY <1>1, ElementOfSeq DEF Made
  <2>2. v1[i].from \in Nat
    BY <2>1 DEF ChainRec
  <2> QED BY <2>1, <2>2 DEF FallbackTypes
<1> QED BY <1>2, <1>3 DEF Made, Planner!Ids

LEMMA LongerSeq == ASSUME NEW n \in Nat, NEW k \in Seq(1 .. n) PROVE k \in Seq(1 .. (n + 1))
<1>1. Len(k) \in Nat /\ k \in [1 .. Len(k) -> 1 .. n]
  BY LenProperties
<1>2. k \in [1 .. Len(k) -> 1 .. (n + 1)]
  BY <1>1
<1> QED BY <1>1, <1>2

LEMMA LatestIs ==
  ASSUME FallbackTypes, NEW role, \E i \in Made : v1[i].role = role
  PROVE  /\ Planner!Latest(role) \in Made /\ v1[Planner!Latest(role)].role = role
         /\ \A i \in Made : v1[i].role = role => i <= Planner!Latest(role)
<1> DEFINE S == {i \in Made : v1[i].role = role}
<1>1. S \in SUBSET (1 .. Len(v1)) /\ S # {} /\ Len(v1) \in Nat
  BY FallbackFacts DEF Made
<1>2. \E i \in S : \A j \in S : j <= i
  BY <1>1, GreatestExists, Zenon
<1>3. Planner!Latest(role) = CHOOSE i \in S : \A j \in S : j <= i
  BY FallbackFacts DEF Planner!Latest, Planner!Of
<1> HIDE DEF S
<1>4. Planner!Latest(role) \in S /\ \A j \in S : j <= Planner!Latest(role)
  BY <1>2, <1>3, Zenon
<1> QED BY <1>4 DEF S

\* A step that leaves every session's profile, role, source, binding and mark
\* alone leaves the chains alone; findings are only added.
LEMMA ChainsStay ==
  ASSUME FallbackAssumption, FallbackInv, v1' \in Seq(ChainRec), Len(v1') = Len(v1), v2 \subseteq v2', IsFiniteSet(v2'),
         \A i \in Made : /\ v1'[i].from = v1[i].from /\ v1'[i].profile = v1[i].profile /\ v1'[i].role = v1[i].role
                         /\ v1'[i].binding = v1[i].binding /\ v1'[i].quality = v1[i].quality
  PROVE  Follows(Planner!Chain, v1)' /\ \A i \in Made' : SoundChain(v1, v2, Planner!Chain[i], i)'
<1> DEFINE c == Planner!Chain
           n == Len(v1)
<1>1. FallbackTypes /\ Follows(c, v1) /\ \A i \in 1 .. n : SoundChain(v1, v2, c[i], i)
  BY DEF FallbackInv, Made
<1>2. DOMAIN v1' = 1 .. n /\ DOMAIN v1 = 1 .. n /\ n \in Nat
  BY <1>1, FallbackFacts, LenProperties DEF Made
<1>3. \A i \in 1 .. n : v1[i].from \in Nat /\ v1[i].from < i
  BY <1>1, FallbackFacts DEF Made
<1>4. \A i \in 1 .. n : v1'[i].from \in Nat /\ v1'[i].from < i
  BY <1>3 DEF Made
<1> HIDE DEF c, n
<1>5. Follows(c, v1')
  BY <1>1, <1>2 DEF Follows, Made, n
<1>6. Planner!Chain' = c
  BY <1>2, <1>4, <1>5, ChainIs, Zenon
<1>7. ASSUME NEW i \in 1 .. n PROVE SoundChain(v1', v2', c[i], i)
  <2> DEFINE k == c[i]
             F(f, x) == {y \in f : y.of = x /\ y.round > 0}
  <2>1. SoundChain(v1, v2, k, i)
    BY <1>1
  <2> HIDE DEF k
  <2>2. k \in Seq(1 .. n) /\ Len(k) \in 1 .. FailoverCap + 1
    BY <2>1 DEF SoundChain, n
  <2>3. \A m \in 1 .. Len(k) : k[m] \in 1 .. n
    BY <2>2, ElementOfSeq
  <2>4. Len(k) \in 1 .. Len(k)
    BY <2>2 DEF FallbackAssumption
  <2>5. \A j \in 1 .. n : /\ v1'[j].from = v1[j].from /\ v1'[j].profile = v1[j].profile /\ v1'[j].role = v1[j].role
                          /\ v1'[j].binding = v1[j].binding /\ v1'[j].quality = v1[j].quality
    BY DEF Made, n
  <2>6. Len(v1') = n
    BY DEF n
  <2>7. \A m1, m2 \in 1 .. Len(k) : m1 # m2 => v1'[k[m1]].profile # v1'[k[m2]].profile
    <3>1. \A m1, m2 \in 1 .. Len(k) : m1 # m2 => v1[k[m1]].profile # v1[k[m2]].profile
      BY <2>1, Zenon DEF SoundChain
    <3>2. \A m \in 1 .. Len(k) : v1'[k[m]].profile = v1[k[m]].profile
      BY <2>3, <2>5, Zenon
    <3>3. ASSUME NEW m1 \in 1 .. Len(k), NEW m2 \in 1 .. Len(k), m1 # m2
          PROVE  v1'[k[m1]].profile # v1'[k[m2]].profile
      <4>1. v1[k[m1]].profile # v1[k[m2]].profile
        BY <3>1, <3>3
      <4> QED BY <3>2, <4>1
    <3> QED BY <3>3
  <2>8. /\ v1'[i].binding = v1'[k[Len(k)]].binding
        /\ v1'[i].role = "reviewer" /\ i # k[Len(k)] => v1'[i].profile # v1'[i].binding
    BY <2>1, <2>3, <2>4, <2>5 DEF SoundChain
  <2>9. v1'[i].quality = TRUE => Cardinality({y \in v2' : y.of = v1'[i].from /\ y.round > 0}) >= Rounds
    <3>1. F(v2, v1[i].from) \subseteq F(v2', v1[i].from) /\ F(v2', v1[i].from) \subseteq v2'
      OBVIOUS
    <3> HIDE DEF F
    <3>2. IsFiniteSet(F(v2', v1[i].from))
      BY <3>1, FS_Subset
    <3>3. IsFiniteSet(F(v2, v1[i].from)) /\ Cardinality(F(v2, v1[i].from)) <= Cardinality(F(v2', v1[i].from))
      BY <3>1, <3>2, FS_Subset
    <3>4. Cardinality(F(v2, v1[i].from)) \in Nat /\ Cardinality(F(v2', v1[i].from)) \in Nat
      BY <3>2, <3>3, FS_CardinalityType
    <3>5. v1[i].quality = TRUE => Cardinality(F(v2, v1[i].from)) >= Rounds
      BY <2>1 DEF SoundChain, F
    <3>6. v1'[i].quality = v1[i].quality /\ v1'[i].from = v1[i].from
      BY <2>5
    <3>7. v1'[i].quality = TRUE => Cardinality(F(v2', v1'[i].from)) >= Rounds
      BY <3>3, <3>4, <3>5, <3>6 DEF FallbackAssumption
    <3> QED BY <3>7 DEF F
  <2>10. SoundChain(v1', v2', k, i)
    BY <2>2, <2>6, <2>7, <2>8, <2>9 DEF SoundChain
  <2> QED BY <2>10 DEF k
<1>8. Made' = 1 .. n
  BY DEF Made, n
<1> QED BY <1>5, <1>6, <1>7, <1>8

\* A session more: r, which starts a chain or continues that of i.
LEMMA ChainsGrow ==
  ASSUME FallbackAssumption, FallbackInv, NEW r \in ChainRec, v1' = Append(v1, r), v2' = v2,
         \/ r.from = 0 /\ r.quality = FALSE
         \/ /\ r.from \in Made /\ r.role = v1[r.from].role /\ r.binding = v1[r.from].binding
            /\ Len(Planner!Chain[r.from]) <= FailoverCap
            /\ \A m \in 1 .. Len(Planner!Chain[r.from]) : r.profile # v1[Planner!Chain[r.from][m]].profile
            /\ r.role = "reviewer" => r.profile # r.binding
            /\ r.quality = TRUE => Cardinality({x \in v2 : x.of = r.from /\ x.round > 0}) >= Rounds
  PROVE  Follows(Planner!Chain, v1)' /\ \A i \in Made' : SoundChain(v1, v2, Planner!Chain[i], i)'
<1> DEFINE c == Planner!Chain
           n == Len(v1)
           d == [i \in 1 .. (n + 1) |-> IF i <= n THEN c[i] ELSE IF r.from = 0 THEN <<n + 1>> ELSE <<n + 1>> \o c[r.from]]
<1>1. FallbackTypes /\ Follows(c, v1) /\ \A i \in 1 .. n : SoundChain(v1, v2, c[i], i)
  BY DEF FallbackInv, Made
<1>2. DOMAIN v1 = 1 .. n /\ n \in Nat /\ Made = 1 .. n
  BY <1>1, FallbackFacts DEF Made
<1>3. \A i \in 1 .. n : v1[i].from \in Nat /\ v1[i].from < i
  BY <1>1, FallbackFacts DEF Made
<1>4. /\ v1' \in Seq(ChainRec) /\ Len(v1') = n + 1 /\ v1'[n + 1] = r
      /\ \A i \in 1 .. n : v1'[i] = v1[i]
  BY <1>1, AppendProperties DEF FallbackTypes
<1>5. DOMAIN v1' = 1 .. (n + 1)
  BY <1>4, LenProperties
<1>6. r.from \in 0 .. n
  BY <1>2
<1>7. d = [i \in 1 .. (n + 1) |-> IF i <= n THEN c[i] ELSE IF r.from = 0 THEN <<n + 1>> ELSE <<n + 1>> \o c[r.from]]
  OBVIOUS
<1>0. (\A i \in 1 .. n : d[i] = c[i]) /\ d[n + 1] = IF r.from = 0 THEN <<n + 1>> ELSE <<n + 1>> \o c[r.from]
  BY <1>2
<1> HIDE DEF c, n, d
<1>8. Follows(d, v1')
  <2>1. ASSUME NEW i \in 1 .. (n + 1)
        PROVE  d[i] = IF v1'[i].from = 0 THEN <<i>> ELSE <<i>> \o d[v1'[i].from]
    <3>1. CASE i = n + 1
      <4>1. v1'[i].from = r.from
        BY <1>4, <3>1
      <4>2. r.from # 0 => d[r.from] = c[r.from]
        BY <1>0, <1>6
      <4> QED BY <1>0, <3>1, <4>1, <4>2
    <3>2. CASE i \in 1 .. n
      <4>1. v1'[i].from = v1[i].from /\ d[i] = c[i] /\ v1[i].from \in Nat /\ v1[i].from < i
        BY <1>0, <1>3, <1>4, <3>2
      <4>2. c[i] = IF v1[i].from = 0 THEN <<i>> ELSE <<i>> \o c[v1[i].from]
        BY <1>1, <1>2, <3>2 DEF Follows
      <4>3. v1[i].from # 0 => d[v1[i].from] = c[v1[i].from]
        BY <1>0, <1>2, <3>2, <4>1
      <4> QED BY <4>1, <4>2, <4>3
    <3> QED BY <1>2, <3>1, <3>2
  <2>2. d = [i \in 1 .. (n + 1) |-> d[i]]
    BY <1>7
  <2>3. d = [i \in 1 .. (n + 1) |-> IF v1'[i].from = 0 THEN <<i>> ELSE <<i>> \o d[v1'[i].from]]
    BY <2>1, <2>2
  <2> QED BY <1>5, <2>3 DEF Follows
<1>9. \A i \in 1 .. (n + 1) : v1'[i].from \in Nat /\ v1'[i].from < i
  BY <1>2, <1>3, <1>4, <1>6
<1>10. n + 1 \in Nat
  BY <1>2
<1>11. Planner!Chain' = d
  BY <1>5, <1>8, <1>9, <1>10, ChainIs, Zenon
<1>12. ASSUME NEW i \in 1 .. n PROVE SoundChain(v1', v2', d[i], i)
  <2> DEFINE k == c[i]
  <2>1. SoundChain(v1, v2, k, i)
    BY <1>1
  <2> HIDE DEF k
  <2>2. k \in Seq(1 .. n) /\ Len(k) \in 1 .. FailoverCap + 1
    BY <2>1 DEF SoundChain, n
  <2>3. \A m \in 1 .. Len(k) : k[m] \in 1 .. n
    BY <2>2, ElementOfSeq
  <2>4. k \in Seq(1 .. (n + 1))
    BY <1>2, <2>2, LongerSeq
  <2>5. Len(k) \in 1 .. Len(k)
    BY <2>2 DEF FallbackAssumption
  <2>6. SoundChain(v1', v2', k, i)
    <3>1. \A m1, m2 \in 1 .. Len(k) : m1 # m2 => v1[k[m1]].profile # v1[k[m2]].profile
      BY <2>1, Zenon DEF SoundChain
    <3>2. \A m \in 1 .. Len(k) : v1'[k[m]] = v1[k[m]]
      BY <1>4, <2>3, Zenon
    <3>3. \A m1, m2 \in 1 .. Len(k) : m1 # m2 => v1'[k[m1]].profile # v1'[k[m2]].profile
      <4>1. SUFFICES ASSUME NEW m1 \in 1 .. Len(k), NEW m2 \in 1 .. Len(k), m1 # m2
                     PROVE  v1'[k[m1]].profile # v1'[k[m2]].profile
        OBVIOUS
      <4>2. v1'[k[m1]] = v1[k[m1]] /\ v1'[k[m2]] = v1[k[m2]]
        BY <3>2
      <4> QED BY <3>1, <4>1, <4>2
    <3>4. v1'[i] = v1[i] /\ v1'[k[Len(k)]] = v1[k[Len(k)]] /\ v2' = v2 /\ Len(v1') = n + 1
      BY <1>4, <2>5, <3>2
    <3> QED BY <2>1, <2>2, <2>4, <3>3, <3>4 DEF SoundChain
  <2> QED BY <1>0, <2>6 DEF k
<1>13. SoundChain(v1', v2', d[n + 1], n + 1)
  <2>1. CASE r.from = 0
    <3> DEFINE k == <<n + 1>>
    <3>1. k \in Seq(1 .. (n + 1)) /\ Len(k) = 1 /\ k[1] = n + 1
      BY <1>2
    <3> HIDE DEF k
    <3>2. r.quality = FALSE
      BY <1>2, <2>1
    <3>3. SoundChain(v1', v2', k, n + 1)
      BY <1>4, <3>1, <3>2 DEF SoundChain, FallbackAssumption
    <3> QED BY <1>0, <2>1, <3>3 DEF k
  <2>2. CASE r.from # 0
    <3> DEFINE j == r.from
               h == c[j]
               k == <<n + 1>> \o h
    <3>0. /\ j \in 1 .. n /\ r.role = v1[j].role /\ r.binding = v1[j].binding
          /\ Len(h) <= FailoverCap /\ \A m \in 1 .. Len(h) : r.profile # v1[h[m]].profile
          /\ r.role = "reviewer" => r.profile # r.binding
          /\ r.quality = TRUE => Cardinality({x \in v2 : x.of = j /\ x.round > 0}) >= Rounds
      BY <1>2, <2>2 DEF c
    <3>1. SoundChain(v1, v2, h, j)
      BY <1>1, <3>0
    <3>2. h \in Seq(1 .. n) /\ Len(h) \in 1 .. FailoverCap + 1
      BY <3>1 DEF SoundChain, n
    <3> HIDE DEF h
    <3>3. \A m \in 1 .. Len(h) : h[m] \in 1 .. n
      BY <3>2, ElementOfSeq
    <3>4. h \in Seq(1 .. (n + 1)) /\ <<n + 1>> \in Seq(1 .. (n + 1)) /\ Len(<<n + 1>>) = 1 /\ <<n + 1>>[1] = n + 1
      BY <1>2, <3>2, LongerSeq
    <3>5. /\ k \in Seq(1 .. (n + 1)) /\ Len(k) = Len(<<n + 1>>) + Len(h)
          /\ \A m \in 1 .. Len(<<n + 1>>) + Len(h) :
                k[m] = IF m <= Len(<<n + 1>>) THEN <<n + 1>>[m] ELSE h[m - Len(<<n + 1>>)]
      BY <3>4, ConcatProperties
    <3> HIDE DEF k
    <3>6. Len(k) = Len(h) + 1 /\ Len(h) \in Nat /\ Len(h) >= 1
      BY <3>2, <3>4, <3>5 DEF FallbackAssumption
    <3>7. k[1] = n + 1 /\ \A m \in 2 .. Len(k) : m - 1 \in 1 .. Len(h) /\ k[m] = h[m - 1]
      BY <3>4, <3>5, <3>6
    <3>8. k[Len(k)] = h[Len(h)] /\ h[Len(h)] \in 1 .. n
      BY <3>3, <3>6, <3>7
    <3>9. Len(k) \in 1 .. FailoverCap + 1
      BY <3>0, <3>6 DEF FallbackAssumption
    <3>10. \A m1, m2 \in 1 .. Len(k) : m1 # m2 => v1'[k[m1]].profile # v1'[k[m2]].profile
      <4>1. ASSUME NEW m \in 2 .. Len(k)
            PROVE  v1'[k[m]] = v1[h[m - 1]] /\ r.profile # v1[h[m - 1]].profile
        BY <1>4, <3>0, <3>3, <3>7
      <4>2. \A m1, m2 \in 2 .. Len(k) : m1 # m2 => v1[h[m1 - 1]].profile # v1[h[m2 - 1]].profile
        <5>1. \A m1, m2 \in 1 .. Len(h) : m1 # m2 => v1[h[m1]].profile # v1[h[m2]].profile
          BY <3>1, Zenon DEF SoundChain
        <5>2. \A m1, m2 \in 2 .. Len(k) : m1 # m2 => m1 - 1 # m2 - 1
          BY <3>6
        <5> QED BY <3>7, <5>1, <5>2, Zenon
      <4>3. v1'[k[1]] = r
        BY <1>4, <3>7
      <4>4. \A m \in 1 .. Len(k) : m = 1 \/ m \in 2 .. Len(k)
        BY <3>6
      <4>5. \A m \in 2 .. Len(k) : /\ v1'[k[m]].profile = v1[h[m - 1]].profile
                                   /\ v1'[k[m]].profile # v1'[k[1]].profile
        BY <4>1, <4>3, Zenon
      <4>6. \A m1, m2 \in 2 .. Len(k) : m1 # m2 => v1'[k[m1]].profile # v1'[k[m2]].profile
        <5>1. ASSUME NEW m1 \in 2 .. Len(k), NEW m2 \in 2 .. Len(k), m1 # m2
              PROVE  v1'[k[m1]].profile # v1'[k[m2]].profile
          <6>1. v1[h[m1 - 1]].profile # v1[h[m2 - 1]].profile
            BY <4>2, <5>1
          <6> QED BY <4>5, <6>1
        <5> QED BY <5>1
      <4>7. ASSUME NEW m1 \in 1 .. Len(k), NEW m2 \in 1 .. Len(k), m1 # m2
            PROVE  v1'[k[m1]].profile # v1'[k[m2]].profile
        <5>1. CASE m1 = 1
          BY <4>4, <4>5, <4>7, <5>1
        <5>2. CASE m2 = 1
          BY <4>4, <4>5, <4>7, <5>2
        <5>3. CASE m1 # 1 /\ m2 # 1
          BY <4>4, <4>6, <4>7, <5>3
        <5> QED BY <5>1, <5>2, <5>3
      <4> QED BY <4>7
    <3>11. /\ v1'[n + 1].binding = v1'[k[Len(k)]].binding
           /\ v1'[n + 1].role = "reviewer" => v1'[n + 1].profile # v1'[n + 1].binding
      BY <1>4, <3>0, <3>1, <3>8 DEF SoundChain
    <3>12. v1'[n + 1].quality = TRUE => Cardinality({x \in v2' : x.of = v1'[n + 1].from /\ x.round > 0}) >= Rounds
      BY <1>4, <3>0
    <3>13. SoundChain(v1', v2', k, n + 1)
      BY <1>4, <3>5, <3>9, <3>10, <3>11, <3>12 DEF SoundChain
    <3> QED BY <1>0, <2>2, <3>13 DEF k, h
  <2> QED BY <2>1, <2>2
<1>14. \A i \in 1 .. (n + 1) : SoundChain(v1', v2', d[i], i)
  <2>1. \A i \in 1 .. (n + 1) : i \in 1 .. n \/ i = n + 1
    BY <1>2
  <2> QED BY <1>12, <1>13, <2>1
<1>15. Made' = 1 .. (n + 1)
  BY <1>4 DEF Made
<1> QED BY <1>8, <1>11, <1>14, <1>15

-----------------------------------------------------------------------------
LEMMA SessionsGrow ==
  ASSUME FallbackAssumption, FallbackTypes, NEW r \in ChainRec, Len(v1) < MaxSessions,
         v1' = Append(v1, r), v2' = v2, v3' = v3,
         r.from \in 0 .. Len(v1), r.from # 0 => v1[r.from].role = r.role,
         r.state = "live", r.category = Nothing, r.role = "reviewer" <=> r.binding # Nothing,
         \A i \in Made : v1[i].role = r.role => v1[i].state # "live",
         \A i \in Made : v1[i].from = r.from => r.from = 0
  PROVE  FallbackTypes'
<1> DEFINE n == Len(v1)
<1>1. n \in Nat /\ Made = 1 .. n /\ \A i \in 1 .. n : v1[i].from \in Nat /\ v1[i].from < i
  BY FallbackFacts DEF Made
<1>2. /\ v1' \in Seq(ChainRec) /\ Len(v1') = n + 1 /\ v1'[n + 1] = r
      /\ \A i \in 1 .. n : v1'[i] = v1[i]
  BY AppendProperties DEF FallbackTypes
<1>3. Made' = 1 .. (n + 1) /\ 1 .. n \subseteq 1 .. (n + 1) /\ \A i \in 1 .. (n + 1) : i \in 1 .. n \/ i = n + 1
  BY <1>1, <1>2 DEF Made
<1> HIDE DEF n
<1>4. Len(v1') <= MaxSessions
  BY <1>1, <1>2 DEF FallbackAssumption, n
<1>5. ASSUME NEW i \in 1 .. (n + 1)
      PROVE  /\ v1'[i].from < i /\ (v1'[i].from # 0 => v1'[v1'[i].from].role = v1'[i].role)
             /\ v1'[i].state = "failed" <=> v1'[i].category # Nothing
             /\ v1'[i].role = "reviewer" <=> v1'[i].binding # Nothing
  <2>1. CASE i \in 1 .. n
    <3>1. /\ v1[i].from < i /\ (v1[i].from # 0 => v1[v1[i].from].role = v1[i].role)
          /\ v1[i].state = "failed" <=> v1[i].category # Nothing
          /\ v1[i].role = "reviewer" <=> v1[i].binding # Nothing
      BY <1>1, <2>1, Zenon DEF FallbackTypes
    <3>2. v1'[i] = v1[i] /\ (v1[i].from # 0 => v1'[v1[i].from] = v1[v1[i].from])
      BY <1>1, <1>2, <2>1
    <3> QED BY <3>1, <3>2
  <2>2. CASE i = n + 1
    <3>1. v1'[i] = r /\ r.from < i /\ (r.from # 0 => v1'[r.from] = v1[r.from])
      BY <1>1, <1>2, <2>2 DEF n
    <3> QED BY <3>1
  <2> QED BY <1>3, <2>1, <2>2
<1>6. ASSUME NEW i \in 1 .. (n + 1), NEW j \in 1 .. (n + 1), i < j, v1'[i].role = v1'[j].role PROVE v1'[i].state # "live"
  <2>1. i \in 1 .. n /\ v1'[i] = v1[i]
    BY <1>1, <1>2, <1>6
  <2>2. CASE j \in 1 .. n
    <3>1. v1'[j] = v1[j]
      BY <1>2, <2>2
    <3>2. i \in Made /\ j \in Made /\ v1[i].role = v1[j].role
      BY <1>1, <1>6, <2>1, <2>2, <3>1
    <3>3. v1[i].state # "live"
      BY <1>6, <3>2 DEF FallbackTypes
    <3> QED BY <2>1, <3>3
  <2>3. CASE j = n + 1
    BY <1>1, <1>2, <1>6, <2>1, <2>3
  <2> QED BY <1>3, <2>2, <2>3
<1>7. ASSUME NEW i \in 1 .. (n + 1), NEW j \in 1 .. (n + 1), i # j, v1'[i].from = v1'[j].from PROVE v1'[i].from = 0
  <2>1. CASE i \in 1 .. n /\ j \in 1 .. n
    <3>1. v1'[i] = v1[i] /\ v1'[j] = v1[j]
      BY <1>2, <2>1
    <3>2. v1[i].from = 0
      BY <1>1, <1>7, <2>1, <3>1 DEF FallbackTypes
    <3> QED BY <3>1, <3>2
  <2>2. CASE i = n + 1 /\ j \in 1 .. n
    BY <1>1, <1>2, <1>7, <2>2
  <2>3. CASE j = n + 1 /\ i \in 1 .. n
    BY <1>1, <1>2, <1>7, <2>3
  <2> QED BY <1>3, <1>7, <2>1, <2>2, <2>3
<1>8. v2' \subseteq [of : Made', round : 0 .. MaxFindings] /\ IsFiniteSet(v2') /\ v3' \in 0 .. MaxFindings
  <2>1. v2 \subseteq [of : 1 .. n, round : 0 .. MaxFindings] /\ IsFiniteSet(v2) /\ v3 \in 0 .. MaxFindings
    BY <1>1, Zenon DEF FallbackTypes
  <2>2. [of : 1 .. n, round : 0 .. MaxFindings] \subseteq [of : 1 .. (n + 1), round : 0 .. MaxFindings]
    BY <1>3
  <2> QED BY <1>3, <2>1, <2>2
<1> QED BY <1>2, <1>3, <1>4, <1>5, <1>6, <1>7, <1>8, Zenon DEF FallbackTypes

\* A step that changes a session's state and category only.
LEMMA SessionChanges ==
  ASSUME FallbackAssumption, FallbackInv, NEW i \in Made, v1[i].state = "live", NEW t \in {"failed", "completed"},
         NEW k, t = "failed" => k \in {"runtime_environment", "rate_limit", "non_zero_exit", "cancelled"},
         t = "completed" => k = Nothing,
         v1' = [v1 EXCEPT ![i] = [v1[i] EXCEPT !.state = t, !.category = k]], v2' = v2, v3' = v3
  PROVE  FallbackInv'
<1> DEFINE n == Len(v1)
           r == [v1[i] EXCEPT !.state = t, !.category = k]
<1>1. /\ FallbackTypes /\ n \in Nat /\ Made = 1 .. n /\ v1 \in Seq(ChainRec)
      /\ \A j \in 1 .. n : v1[j] \in ChainRec /\ v1[j].from \in Nat /\ v1[j].from < j
  BY FallbackFacts DEF FallbackInv, Made, FallbackTypes
<1>2. r \in ChainRec
  BY <1>1 DEF ChainRec
<1>3. /\ r.role = v1[i].role /\ r.profile = v1[i].profile /\ r.from = v1[i].from /\ r.binding = v1[i].binding
      /\ r.quality = v1[i].quality /\ r.state = t /\ r.category = k
  BY <1>1 DEF ChainRec
<1> HIDE DEF r
<1>4. /\ v1' \in Seq(ChainRec) /\ Len(v1') = n /\ \A j \in 1 .. n : v1'[j] = IF j = i THEN r ELSE v1[j]
  <2>1. v1' = [v1 EXCEPT ![i] = r]
    BY DEF r
  <2> QED BY <1>1, <1>2, <2>1, ExceptSeq
<1>5. Made' = 1 .. n
  BY <1>4 DEF Made
<1> HIDE DEF n
<1>6. \A j \in Made : /\ v1'[j].from = v1[j].from /\ v1'[j].profile = v1[j].profile /\ v1'[j].role = v1[j].role
                      /\ v1'[j].binding = v1[j].binding /\ v1'[j].quality = v1[j].quality
                      /\ v1'[j].state = "live" => v1[j].state = "live"
  BY <1>1, <1>3, <1>4
<1>7. IsFiniteSet(v2') /\ v2 \subseteq v2'
  BY <1>1 DEF FallbackTypes
<1>8. Follows(Planner!Chain, v1)' /\ \A j \in Made' : SoundChain(v1, v2, Planner!Chain[j], j)'
  BY <1>4, <1>6, <1>7, ChainsStay DEF n
<1>9. FallbackTypes'
  <2>1. ASSUME NEW j \in 1 .. n
        PROVE  /\ v1'[j].from < j /\ (v1'[j].from # 0 => v1'[v1'[j].from].role = v1'[j].role)
               /\ v1'[j].state = "failed" <=> v1'[j].category # Nothing
               /\ v1'[j].role = "reviewer" <=> v1'[j].binding # Nothing
    <3>1. /\ v1[j].from < j /\ (v1[j].from # 0 => v1[v1[j].from].role = v1[j].role)
          /\ v1[j].state = "failed" <=> v1[j].category # Nothing
          /\ v1[j].role = "reviewer" <=> v1[j].binding # Nothing
      BY <1>1, Zenon DEF FallbackTypes
    <3>2. v1[j].from # 0 => v1[j].from \in Made
      BY <1>1
    <3>3. v1'[j].state = "failed" <=> v1'[j].category # Nothing
      BY <1>1, <1>3, <1>4, <3>1 DEF FallbackAssumption
    <3> QED BY <1>1, <1>6, <3>1, <3>2, <3>3
  <2>2. ASSUME NEW a \in 1 .. n, NEW b \in 1 .. n, a < b, v1'[a].role = v1'[b].role PROVE v1'[a].state # "live"
    BY <1>1, <1>6, <2>2 DEF FallbackTypes
  <2>3. ASSUME NEW a \in 1 .. n, NEW b \in 1 .. n, a # b, v1'[a].from = v1'[b].from PROVE v1'[a].from = 0
    BY <1>1, <1>6, <2>3 DEF FallbackTypes
  <2>4. /\ Len(v1') <= MaxSessions /\ v2' \subseteq [of : 1 .. n, round : 0 .. MaxFindings]
        /\ IsFiniteSet(v2') /\ v3' \in 0 .. MaxFindings
    BY <1>1, <1>4 DEF FallbackTypes, n
  <2> QED BY <1>4, <1>5, <2>1, <2>2, <2>3, <2>4, Zenon DEF FallbackTypes
<1> QED BY <1>8, <1>9 DEF FallbackInv

\* What a plan that selects a profile has seen to.
LEMMA PlanIs ==
  ASSUME FallbackAssumption, FallbackInv, NEW i \in Made, NEW category, Planner!Plan(i, category) # Nothing
  PROVE  /\ Planner!Plan(i, category) \in Profiles
         /\ Len(Planner!Chain[i]) <= FailoverCap
         /\ \A m \in 1 .. Len(Planner!Chain[i]) : Planner!Plan(i, category) # v1[Planner!Chain[i][m]].profile
         /\ v1[i].role = "reviewer" => Planner!Plan(i, category) # v1[i].binding
<1> DEFINE S == Planner!Candidates(i, category)
           n == CHOOSE k \in S : \A l \in S : k <= l
           ps == Fallbacks[v1[i].role]
           p == Planner!Plan(i, category)
           c == Planner!Chain[i]
<1>1. v1[i] \in ChainRec
  BY FallbackFacts DEF FallbackInv
<1>2. v1[i].role \in {"implementer", "reviewer"}
  BY <1>1 DEF ChainRec
<1>3. ps \in Seq(Profiles)
  BY <1>2 DEF FallbackAssumption
<1>4. ~ (Planner!Failovers(i) >= FailoverCap) /\ S # {} /\ p = ps[n]
  BY DEF Planner!Plan
<1>5. S \in SUBSET Nat
  BY <1>3, LenProperties DEF Planner!Candidates
<1> HIDE DEF S
<1>6. \E k \in S : \A l \in S : k <= l
  BY <1>4, <1>5, LeastExists, Zenon
<1>7. n \in S
  BY <1>6, Zenon
<1> HIDE DEF n
<1>8. n \in DOMAIN ps /\ Planner!MayReplace(i, category, ps[n])
  BY <1>7 DEF S, Planner!Candidates
<1>9. p \in Profiles
  BY <1>3, <1>4, <1>8, LenProperties, ElementOfSeq
<1>10. Planner!MayReplace(i, category, p)
  BY <1>4, <1>8
<1> HIDE DEF p, ps
<1>11. p \notin Planner!Attempted(i) /\ (v1[i].role = "reviewer" => p # v1[i].binding)
  BY <1>10, Zenon DEF Planner!MayReplace
<1>12. SoundChain(v1, v2, c, i)
  BY DEF FallbackInv
<1>13. DOMAIN c = 1 .. Len(c) /\ Len(c) \in Nat
  BY <1>12, LenProperties DEF SoundChain
<1>14. Len(c) <= FailoverCap
  BY <1>4, <1>13 DEF Planner!Failovers, FallbackAssumption
<1>15. \A m \in 1 .. Len(c) : p # v1[c[m]].profile
  BY <1>11, <1>13 DEF Planner!Attempted
<1> QED BY <1>9, <1>11, <1>14, <1>15 DEF p

-----------------------------------------------------------------------------
LEMMA LaunchKeeps ==
  ASSUME FallbackAssumption, FallbackInv, NEW role \in {"implementer", "reviewer"}, Planner!Launch(role)
  PROVE  FallbackInv'
<1> DEFINE b == IF role = "reviewer" THEN Planner!ImplementerNow ELSE Nothing
           r == [role |-> role, profile |-> Configured[role], state |-> "live", category |-> Nothing,
                 from |-> 0, quality |-> FALSE, binding |-> b]
<1>1. FallbackTypes /\ Planner!Ids = Made /\ \A i \in Made : v1[i] \in ChainRec
  BY FallbackFacts DEF FallbackInv
<1>2. Planner!ImplementerNow \in Profiles
  <2>1. CASE Planner!Of("implementer") = {}
    BY <2>1 DEF Planner!ImplementerNow, FallbackAssumption
  <2>2. CASE Planner!Of("implementer") # {}
    <3>1. \E i \in Made : v1[i].role = "implementer"
      BY <1>1, <2>2 DEF Planner!Of
    <3>2. Planner!Latest("implementer") \in Made
      BY <1>1, <3>1, LatestIs
    <3>3. v1[Planner!Latest("implementer")].profile \in Profiles
      BY <1>1, <3>2 DEF ChainRec
    <3> QED BY <2>2, <3>3 DEF Planner!ImplementerNow
  <2> QED BY <2>1, <2>2
<1>3. b \in Profiles \cup {Nothing} /\ (role = "reviewer" <=> b # Nothing)
  BY <1>2 DEF FallbackAssumption
<1>4. /\ Len(v1) < MaxSessions /\ v1' = Append(v1, r) /\ v2' = v2 /\ v3' = v3
      /\ \A i \in Planner!Of(role) : v1[i].state # "live"
  BY DEF Planner!Launch, Planner!New
<1> HIDE DEF b
<1>5. r \in ChainRec
  <2>1. Configured[role] \in Profiles /\ 0 \in 0 .. MaxSessions
    BY DEF FallbackAssumption
  <2> QED BY <1>3, <2>1 DEF ChainRec
<1>6. r.from = 0 /\ r.quality = FALSE /\ r.role = role /\ r.state = "live" /\ r.category = Nothing /\ r.binding = b
  OBVIOUS
<1>7. \A i \in Made : v1[i].role = r.role => v1[i].state # "live"
  BY <1>1, <1>4, <1>6 DEF Planner!Of
<1>8. 0 \in 0 .. Len(v1)
  BY <1>1, FallbackFacts
<1> HIDE DEF r
<1>9. FallbackTypes'
  BY <1>1, <1>3, <1>4, <1>5, <1>6, <1>7, <1>8, SessionsGrow
<1>10. Follows(Planner!Chain, v1)' /\ \A i \in Made' : SoundChain(v1, v2, Planner!Chain[i], i)'
  BY <1>4, <1>5, <1>6, ChainsGrow
<1> QED BY <1>9, <1>10 DEF FallbackInv

LEMMA ReplaceKeeps ==
  ASSUME FallbackAssumption, FallbackInv, NEW i \in Made, NEW quality \in BOOLEAN, Planner!Replace(i, quality)
  PROVE  FallbackInv'
<1> DEFINE category == IF quality THEN "non_zero_exit" ELSE v1[i].category
           p == Planner!Plan(i, category)
           r == [role |-> v1[i].role, profile |-> p, state |-> "live", category |-> Nothing,
                 from |-> i, quality |-> quality, binding |-> v1[i].binding]
<1>1. FallbackTypes /\ Len(v1) \in Nat /\ \A j \in Made : v1[j] \in ChainRec /\ v1[j].from \in Nat /\ v1[j].from < j
  BY FallbackFacts DEF FallbackInv
<1>2. /\ (quality => Planner!Eligible(i)) /\ p # Nothing
      /\ i = Planner!Latest(v1[i].role) /\ v1[i].state # "live" /\ Len(v1) < MaxSessions
      /\ v1' = Append(v1, r) /\ v2' = v2 /\ v3' = v3
  <2>1. ~(quality /\ ~Planner!Eligible(i)) /\ p # Nothing
    BY DEF Planner!Replace
  <2>2. /\ i = Planner!Latest(v1[i].role) /\ (v1[i].state = "completed" \/ v1[i].state = "failed")
        /\ Len(v1) < MaxSessions /\ v2' = v2 /\ v3' = v3
    BY DEF Planner!Replace
  <2>3. v1' = Append(v1, r)
    BY <2>1 DEF Planner!Replace, Planner!New, Planner!BindingOf
  <2> QED BY <2>1, <2>2, <2>3
<1> HIDE DEF category
<1>3. /\ p \in Profiles /\ Len(Planner!Chain[i]) <= FailoverCap
      /\ \A m \in 1 .. Len(Planner!Chain[i]) : p # v1[Planner!Chain[i][m]].profile
      /\ v1[i].role = "reviewer" => p # v1[i].binding
  BY <1>2, PlanIs
<1>4. /\ \E j \in Made : v1[j].role = v1[i].role
      /\ v1[i].role \in {"implementer", "reviewer"} /\ v1[i].binding \in Profiles \cup {Nothing} /\ i \in 0 .. MaxSessions
  <2>1. v1[i] \in ChainRec /\ i \in 1 .. Len(v1)
    BY <1>1 DEF Made
  <2> QED BY <1>1, <1>2, <2>1 DEF ChainRec, FallbackAssumption
<1> HIDE DEF p
<1>5. r \in ChainRec
  BY <1>3, <1>4 DEF ChainRec
<1>6. /\ r.role = v1[i].role /\ r.from = i /\ r.state = "live" /\ r.category = Nothing
      /\ r.binding = v1[i].binding /\ r.profile = p /\ r.quality = quality
  OBVIOUS
<1> HIDE DEF r
<1>7. \A j \in Made : v1[j].role = v1[i].role => j <= i
  BY <1>1, <1>2, <1>4, LatestIs
<1>8. \A j \in Made : v1[j].role = r.role => v1[j].state # "live"
  <2>1. ASSUME NEW j \in Made, v1[j].role = v1[i].role, j # i PROVE v1[j].state # "live"
    <3>1. j < i
      BY <1>7, <2>1 DEF Made
    <3> QED BY <1>1, <2>1, <3>1 DEF FallbackTypes
  <2> QED BY <1>2, <1>6, <2>1
<1>9. \A j \in Made : v1[j].from = r.from => r.from = 0
  <2>1. ASSUME NEW j \in Made, v1[j].from = i PROVE FALSE
    <3>1. i < j /\ i # 0
      BY <1>1, <2>1 DEF Made
    <3>2. v1[i].role = v1[j].role
      BY <1>1, <2>1, <3>1 DEF FallbackTypes
    <3>3. j <= i
      BY <1>7, <3>2
    <3> QED BY <3>1, <3>3 DEF Made
  <2> QED BY <1>6, <2>1
<1>10. r.role = "reviewer" <=> r.binding # Nothing
  BY <1>1, <1>6, Zenon DEF FallbackTypes
<1>11. r.from \in 0 .. Len(v1)
  BY <1>1, <1>6 DEF Made
<1>12. FallbackTypes'
  BY <1>1, <1>2, <1>5, <1>6, <1>8, <1>9, <1>10, <1>11, SessionsGrow
<1>13. r.quality = TRUE => Cardinality({x \in v2 : x.of = r.from /\ x.round > 0}) >= Rounds
  BY <1>2, <1>6, SameCardinality DEF Planner!Eligible
<1>14. Follows(Planner!Chain, v1)' /\ \A j \in Made' : SoundChain(v1, v2, Planner!Chain[j], j)'
  BY <1>2, <1>3, <1>5, <1>6, <1>13, ChainsGrow
<1> QED BY <1>12, <1>14 DEF FallbackInv

LEMMA FindingKeeps ==
  ASSUME FallbackAssumption, FallbackInv, v1' = v1, v3' \in 0 .. MaxFindings,
         \/ v2' = v2
         \/ \E i \in Made, n \in 0 .. MaxFindings : v2' = v2 \cup {[of |-> i, round |-> n]}
  PROVE  FallbackInv'
<1>1. FallbackTypes /\ Made' = Made
  BY DEF FallbackInv, Made
<1>2. v2 \subseteq v2' /\ IsFiniteSet(v2') /\ v2' \subseteq [of : Made, round : 0 .. MaxFindings]
  <2>1. CASE v2' = v2
    BY <1>1, <2>1 DEF FallbackTypes
  <2>2. CASE \E i \in Made, n \in 0 .. MaxFindings : v2' = v2 \cup {[of |-> i, round |-> n]}
    <3>1. PICK i \in Made, n \in 0 .. MaxFindings : v2' = v2 \cup {[of |-> i, round |-> n]}
      BY <2>2
    <3>2. IsFiniteSet(v2 \cup {[of |-> i, round |-> n]})
      BY <1>1, FS_AddElement DEF FallbackTypes
    <3> QED BY <1>1, <3>1, <3>2 DEF FallbackTypes
  <2> QED BY <2>1, <2>2
<1>3. FallbackTypes'
  <2>1. v1' \in Seq(ChainRec) /\ Len(v1') <= MaxSessions
    BY <1>1 DEF FallbackTypes
  <2> QED BY <1>1, <1>2, <2>1, Zenon DEF FallbackTypes
<1>4. v1' \in Seq(ChainRec) /\ Len(v1') = Len(v1)
  BY <1>1 DEF FallbackTypes
<1>5. Follows(Planner!Chain, v1)' /\ \A i \in Made' : SoundChain(v1, v2, Planner!Chain[i], i)'
  BY <1>2, <1>4, ChainsStay
<1> QED BY <1>3, <1>5 DEF FallbackInv

LEMMA FallbackNext == ASSUME FallbackAssumption, FallbackInv, Planner!Next PROVE FallbackInv'
<1>0. FallbackTypes /\ Planner!Ids = Made
  BY FallbackFacts DEF FallbackInv
<1>1. ASSUME NEW role \in Planner!Roles, Planner!Launch(role) PROVE FallbackInv'
  BY <1>1, LaunchKeeps DEF Planner!Roles
<1>2. ASSUME NEW i \in Made, NEW category \in Planner!Categories, Planner!Fail(i, category) PROVE FallbackInv'
  <2>1. category \in {"runtime_environment", "rate_limit", "non_zero_exit", "cancelled"}
    BY DEF Planner!Categories, Planner!Recoverable, Planner!Environment
  <2>2. /\ v1[i].state = "live" /\ v2' = v2 /\ v3' = v3
        /\ v1' = [v1 EXCEPT ![i] = [v1[i] EXCEPT !.state = "failed", !.category = category]]
    BY <1>2 DEF Planner!Fail
  <2> QED BY <2>1, <2>2, SessionChanges
<1>3. ASSUME NEW i \in Made, Planner!Complete(i) PROVE FallbackInv'
  <2>1. v1[i] \in ChainRec /\ v1[i].state = "live"
    BY <1>0, <1>3, FallbackFacts DEF Planner!Complete
  <2>2. v1[i].category = Nothing
    BY <1>0, <2>1 DEF FallbackTypes
  <2>3. [v1[i] EXCEPT !.state = "completed"] = [v1[i] EXCEPT !.state = "completed", !.category = Nothing]
    BY <2>1, <2>2 DEF ChainRec
  <2>4. v1' = [v1 EXCEPT ![i] = [v1[i] EXCEPT !.state = "completed", !.category = Nothing]] /\ v2' = v2 /\ v3' = v3
    BY <1>3, <2>3 DEF Planner!Complete
  <2> QED BY <2>1, <2>4, SessionChanges
<1>4. ASSUME NEW i \in Made, Planner!RecordFinding(i) PROVE FallbackInv'
  <2>1. v1' = v1 /\ v3' = v3 /\ v2' = v2 \cup {[of |-> i, round |-> v3]}
    BY <1>4 DEF Planner!RecordFinding
  <2>2. v3 \in 0 .. MaxFindings
    BY <1>0 DEF FallbackTypes
  <2> QED BY <2>1, <2>2, FindingKeeps
<1>5. ASSUME NEW i \in Made, NEW quality \in BOOLEAN, Planner!Replace(i, quality) PROVE FallbackInv'
  BY <1>5, ReplaceKeeps
<1>6. ASSUME Planner!NextRound PROVE FallbackInv'
  <2>1. v1' = v1 /\ v2' = v2 /\ v3 < MaxFindings /\ v3' = v3 + 1
    BY <1>6 DEF Planner!NextRound
  <2>2. v3' \in 0 .. MaxFindings
    BY <1>0, <2>1 DEF FallbackTypes, FallbackAssumption
  <2> QED BY <2>1, <2>2, FindingKeeps
<1> QED BY <1>0, <1>1, <1>2, <1>3, <1>4, <1>5, <1>6, Zenon DEF Planner!Next

-----------------------------------------------------------------------------
(* Performance, with any gates, budget and clock.                          *)
ClockAssumption ==
  /\ MaxTime \in Nat /\ ClockTroubles \in Nat /\ Budget \in Nat \ {0}
  /\ NoActor \notin Gates \cup {Watch, Pilot} /\ Watch # Pilot /\ Pilot \notin Gates

Moments  == 0 .. MaxTime
PauseRec == [from : Moments, to : {-1} \cup Moments]
CallRec  == [at : Moments, hist : Seq(Moments), block : BOOLEAN,
             step : {"idle", "write", "journal", "auto", "check", "granted"}]
ClockActors == Gates \cup {Watch, Pilot}

ClockFiles ==
  /\ v1 \in Moments /\ v10 \in 0 .. ClockTroubles /\ v7 \in BOOLEAN
  /\ v3 \in {-1} \cup Moments /\ v4 \in Moments
  /\ v2 \in Seq(PauseRec)
  /\ \A i \in 1 .. Len(v2) : v2[i].from <= v1 /\ (v2[i].to # -1 => v2[i].from <= v2[i].to /\ v2[i].to <= v1)
  /\ v5 \in Seq(Moments) /\ v6 \in Seq(Moments)

\* Who holds the project lock is in the middle of a write.
ClockHeld ==
  /\ v8 \in ClockActors \cup {NoActor} /\ v9 \in [ClockActors -> CallRec]
  /\ v8 # NoActor => v9[v8].step \in {"write", "journal"} \/ (v8 = Watch /\ v9[v8].step = "auto")

\* Every episode in a history began with the run or with a decision.
Starts(h, d) == \A i \in 1 .. Len(h) : i % 2 = 1 => h[i] <= d

HeldIn(ps, k, since) ==
  \E i \in DOMAIN ps : since <= ps[i].from /\ ps[i].from <= k /\ (ps[i].to # -1 => k < ps[i].to)
ActiveTime(ps, d, t) == {k \in d .. t - 1 : ~HeldIn(ps, k, 0)}

\* What a call carries: its own history, and how it was judged when it asked.
CallFits(a, x, d) ==
  \A i \in 1 .. Len(x.hist) : i % 2 = 1 => x.hist[i] <= d \/ (a = Pilot /\ x.step = "write" /\ x.hist[i] <= x.at)
JudgedRight(a, x, ps, d) ==
  a \in Gates /\ x.step # "idle" /\ x.block = FALSE => Cardinality(ActiveTime(ps, d, x.at)) < Budget

ClockJudged ==
  /\ Starts(v5, v4) /\ Starts(v6, v4)
  /\ \A a \in ClockActors : v9[a].at <= v1 /\ CallFits(a, v9[a], v4) /\ JudgedRight(a, v9[a], v2, v4)

ClockInv == ClockFiles /\ ClockHeld /\ ClockJudged

LEMMA ClockStart == ASSUME ClockAssumption, Clock!Init PROVE ClockInv
<1> DEFINE idle == [at |-> 0, hist |-> <<>>, block |-> FALSE, step |-> "idle"]
<1>1. /\ v1 = 0 /\ v2 = <<>> /\ v3 = -1 /\ v4 = 0 /\ v5 = <<>> /\ v6 = <<>> /\ v7 = FALSE
      /\ v8 = NoActor /\ v9 = [a \in ClockActors |-> idle] /\ v10 = 0
  BY DEF Clock!Init, Clock!NoTime, Clock!NoRecord, Clock!Actors, Clock!Idle, ClockActors
<1>2. <<>> \in Seq(Moments) /\ <<>> \in Seq(PauseRec) /\ Len(<<>>) = 0
  OBVIOUS
<1>0. idle.at = 0 /\ idle.hist = <<>> /\ idle.step = "idle"
  OBVIOUS
<1>3. idle \in CallRec /\ 0 \in Moments
  BY <1>2 DEF CallRec, Moments, ClockAssumption
<1> HIDE DEF idle
<1>4. ClockFiles
  <2>1. Len(v2) = 0 /\ 0 \in 0 .. ClockTroubles
    BY <1>1, <1>2 DEF ClockAssumption
  <2>2. \A i \in 1 .. Len(v2) : v2[i].from <= v1 /\ (v2[i].to # -1 => v2[i].from <= v2[i].to /\ v2[i].to <= v1)
    BY <2>1
  <2>3. v3 \in {-1} \cup Moments /\ v7 \in BOOLEAN
    BY <1>1
  <2> QED BY <1>1, <1>2, <1>3, <2>1, <2>2, <2>3, Zenon DEF ClockFiles
<1>5. ClockHeld
  BY <1>1, <1>3 DEF ClockHeld
<1>6. ClockJudged
  <2>1. Starts(v5, v4) /\ Starts(v6, v4)
    BY <1>1, <1>2 DEF Starts
  <2>2. ASSUME NEW a \in ClockActors PROVE v9[a].at <= v1 /\ CallFits(a, v9[a], v4) /\ JudgedRight(a, v9[a], v2, v4)
    <3>1. v9[a] = idle
      BY <1>1
    <3> QED BY <1>0, <1>1, <1>2, <3>1 DEF CallFits, JudgedRight
  <2> QED BY <2>1, <2>2 DEF ClockJudged
<1> QED BY <1>4, <1>5, <1>6 DEF ClockInv

LEMMA ClockStutter == ASSUME ClockInv, UNCHANGED Shared PROVE ClockInv'
BY DEF ClockInv, ClockFiles, ClockHeld, ClockJudged, Starts, CallFits, JudgedRight, ActiveTime, HeldIn, Shared

LEMMA ClockCounts == \A S : Clock!Cardinality(S) = Cardinality(S)
BY DEF Clock!Cardinality, Cardinality

LEMMA ClockKeeps == ASSUME ClockAssumption, ClockInv PROVE Clock!TypeOK /\ Clock!ClockNeverLooksYounger
<1>1. ClockFiles /\ ClockHeld
  BY DEF ClockInv
<1>2. Clock!Call = CallRec /\ Clock!Actors = ClockActors
  BY DEF Clock!Call, CallRec, Moments, Clock!Histories, Clock!Actors, ClockActors
<1>3. \A i \in DOMAIN v2 : v2[i].from <= v1 /\ v2[i].to \in {-1} \cup v2[i].from .. v1
  <2>1. \A seq \in Seq(PauseRec) : DOMAIN seq = 1 .. Len(seq)
    BY LenProperties
  <2>2. DOMAIN v2 = 1 .. Len(v2) /\ v2 \in Seq(PauseRec)
    BY <1>1, <2>1, Zenon DEF ClockFiles
  <2>3. ASSUME NEW i \in 1 .. Len(v2) PROVE v2[i].from <= v1 /\ v2[i].to \in {-1} \cup v2[i].from .. v1
    <3>1. v2[i] \in PauseRec
      BY <2>2, ElementOfSeq
    <3>2. v2[i].from \in Int /\ v2[i].to \in Int /\ v1 \in Int
      BY <1>1, <3>1 DEF PauseRec, Moments, ClockFiles, ClockAssumption
    <3> QED BY <1>1, <3>2 DEF ClockFiles
  <2> QED BY <2>2, <2>3
<1>4. v8 # NoActor => v9[v8].step # "idle"
  BY <1>1 DEF ClockHeld
<1>5. /\ v1 \in 0 .. MaxTime /\ v10 \in 0 .. ClockTroubles /\ v7 \in BOOLEAN
      /\ v3 \in {-1} \cup 0 .. MaxTime /\ v4 \in 0 .. MaxTime
      /\ v5 \in Clock!Histories /\ v6 \in Clock!Histories
      /\ v8 \in Clock!Actors \cup {NoActor} /\ v9 \in [Clock!Actors -> Clock!Call]
  BY <1>1, <1>2, Zenon DEF ClockFiles, ClockHeld, Moments, Clock!Histories
<1>6. Clock!TypeOK
  BY <1>3, <1>4, <1>5, Zenon DEF Clock!TypeOK, Clock!NoTime
<1>7. ASSUME NEW a \in Gates, v9[a].step \in {"check", "granted"}, ~v9[a].block PROVE Clock!Spent(v9[a].at) < Budget
  <2>1. a \in ClockActors /\ v9[a] \in CallRec
    BY <1>1 DEF ClockActors, ClockHeld
  <2>2. v9[a].block = FALSE /\ v9[a].step # "idle"
    BY <1>7, <2>1 DEF CallRec
  <2>3. Cardinality(ActiveTime(v2, v4, v9[a].at)) < Budget
    BY <2>1, <2>2 DEF ClockInv, ClockJudged, JudgedRight
  <2>4. Clock!Spent(v9[a].at) = Clock!Cardinality(ActiveTime(v2, v4, v9[a].at))
    BY DEF Clock!Spent, ActiveTime, HeldIn, Clock!Held, Clock!NoTime
  <2> QED BY <2>3, <2>4, ClockCounts
<1>8. Clock!ClockNeverLooksYounger
  BY <1>7 DEF Clock!ClockNeverLooksYounger
<1> QED BY <1>6, <1>8

-----------------------------------------------------------------------------
LEMMA ActiveFinite ==
  ASSUME NEW ps, NEW d \in Int, NEW t \in Int
  PROVE  IsFiniteSet(ActiveTime(ps, d, t)) /\ Cardinality(ActiveTime(ps, d, t)) \in Nat
<1>1. IsFiniteSet(d .. (t - 1))
  BY FS_Interval
<1>2. ActiveTime(ps, d, t) \subseteq d .. (t - 1)
  BY DEF ActiveTime
<1> QED BY <1>1, <1>2, FS_Subset, FS_CardinalityType

\* A later decision, and pauses that hold no less, leave less active time.
LEMMA LessActive ==
  ASSUME NEW ps, NEW qs, NEW d \in Int, NEW e \in Int, NEW t \in Int, d <= e,
         \A k \in e .. (t - 1) : HeldIn(ps, k, 0) => HeldIn(qs, k, 0)
  PROVE  Cardinality(ActiveTime(qs, e, t)) <= Cardinality(ActiveTime(ps, d, t))
<1>1. ActiveTime(qs, e, t) \subseteq ActiveTime(ps, d, t)
  BY DEF ActiveTime
<1> QED BY <1>1, ActiveFinite, FS_Subset

\* The code excludes the pauses that began since the episode; it counts no less.
LEMMA CountsNoLess ==
  ASSUME ClockAssumption, ClockFiles, NEW d \in Int, NEW s \in Nat, NEW t \in Int, s <= d
  PROVE  /\ Cardinality(ActiveTime(v2, d, t)) <= Clock!ActiveSince(s, t)
         /\ Clock!ActiveSince(s, t) \in Nat
<1> DEFINE S == (s .. t - 1) \ Clock!Excluded(s, t)
<1>1. ActiveTime(v2, d, t) \subseteq S
  <2>1. ASSUME NEW k \in ActiveTime(v2, d, t) PROVE k \in s .. t - 1 /\ ~Clock!Held(k, s)
    <3>1. k \in d .. t - 1 /\ ~HeldIn(v2, k, 0)
      BY <2>1 DEF ActiveTime
    <3>2. Clock!Held(k, s) => HeldIn(v2, k, s)
      BY DEF Clock!Held, HeldIn, Clock!NoTime
    <3>3. HeldIn(v2, k, s) => HeldIn(v2, k, 0)
      <4>1. \A i \in DOMAIN v2 : 0 <= v2[i].from
        <5>1. DOMAIN v2 = 1 .. Len(v2)
          BY LenProperties DEF ClockFiles
        <5>2. \A i \in 1 .. Len(v2) : v2[i] \in PauseRec
          BY ElementOfSeq DEF ClockFiles
        <5> QED BY <5>1, <5>2 DEF PauseRec, Moments, ClockAssumption
      <4> QED BY <4>1 DEF HeldIn
    <3> QED BY <3>1, <3>2, <3>3
  <2> QED BY <2>1 DEF Clock!Excluded
<1>2. IsFiniteSet(S)
  <2>1. IsFiniteSet(s .. t - 1)
    BY FS_Interval
  <2> QED BY <2>1, FS_Subset
<1>3. Clock!ActiveSince(s, t) = Cardinality(S)
  BY ClockCounts DEF Clock!ActiveSince
<1> QED BY <1>1, <1>2, <1>3, FS_Subset, FS_CardinalityType

LEMMA LaterOfTwo ==
  ASSUME ClockAssumption, NEW x \in Moments, NEW y \in Moments
  PROVE  Clock!Max({x, y}) \in Moments /\ x <= Clock!Max({x, y}) /\ y <= Clock!Max({x, y})
<1>1. \E z \in {x, y} : \A w \in {x, y} : z >= w
  BY DEF Moments, ClockAssumption
<1>2. Clock!Max({x, y}) \in {x, y}
  BY <1>1, Zenon DEF Clock!Max
<1>3. \A w \in {x, y} : Clock!Max({x, y}) >= w
  BY <1>1, Zenon DEF Clock!Max
<1> QED BY <1>2, <1>3 DEF Moments, ClockAssumption

\* One actor's call changes, and with it perhaps who holds the lock.
LEMMA HolderStays ==
  ASSUME ClockAssumption, ClockHeld, NEW a \in ClockActors, NEW x \in CallRec, v9' = [v9 EXCEPT ![a] = x],
         v8' = a \/ v8' = v8 \/ v8' = NoActor,
         v8' = a => x.step \in {"write", "journal"} \/ (a = Watch /\ x.step = "auto")
  PROVE  ClockHeld'
<1>1. v9' \in [ClockActors -> CallRec] /\ v9'[a] = x /\ \A b \in ClockActors : b # a => v9'[b] = v9[b]
  BY DEF ClockHeld
<1>2. v8' \in ClockActors \cup {NoActor}
  BY DEF ClockHeld
<1>3. ASSUME v8' # NoActor PROVE v9'[v8'].step \in {"write", "journal"} \/ (v8' = Watch /\ v9'[v8'].step = "auto")
  <2>1. CASE v8' = a
    BY <1>1, <2>1
  <2>2. CASE v8' # a
    <3>1. v8' = v8 /\ v8 \in ClockActors
      BY <1>2, <1>3, <2>2
    <3>2. v9'[v8] = v9[v8]
      BY <1>1, <2>2, <3>1
    <3> QED BY <1>3, <3>1, <3>2 DEF ClockHeld
  <2> QED BY <2>1, <2>2
<1> QED BY <1>1, <1>2, <1>3 DEF ClockHeld

LEMMA CallIs ==
  ASSUME ClockAssumption, ClockInv, NEW a \in ClockActors
  PROVE  /\ v9[a] \in CallRec /\ v9[a].at \in Moments /\ v9[a].hist \in Seq(Moments) /\ v9[a].block \in BOOLEAN
         /\ \A s \in {"idle", "write", "journal", "auto", "check", "granted"} :
               [v9[a] EXCEPT !.step = s] \in CallRec /\ [v9[a] EXCEPT !.step = s].step = s
         /\ v8 = a => v9[a].step \in {"write", "journal"} \/ (a = Watch /\ v9[a].step = "auto")
         /\ Clock!Idle \in CallRec
<1>1. v9[a] \in CallRec
  BY DEF ClockInv, ClockHeld
<1>2. a # NoActor
  BY DEF ClockActors, ClockAssumption
<1>3. v8 = a => v9[a].step \in {"write", "journal"} \/ (a = Watch /\ v9[a].step = "auto")
  BY <1>2 DEF ClockInv, ClockHeld
<1>4. Clock!Idle \in CallRec
  <2>1. <<>> \in Seq(Moments) /\ 0 \in Moments
    BY DEF Moments, ClockAssumption
  <2> QED BY <2>1 DEF Clock!Idle, Clock!NoRecord, CallRec
<1>5. \A s \in {"idle", "write", "journal", "auto", "check", "granted"} :
         [v9[a] EXCEPT !.step = s] \in CallRec /\ [v9[a] EXCEPT !.step = s].step = s
  BY <1>1 DEF CallRec
<1>6. v9[a].at \in Moments /\ v9[a].hist \in Seq(Moments) /\ v9[a].block \in BOOLEAN
  BY <1>1, Zenon DEF CallRec
<1> QED BY <1>1, <1>3, <1>4, <1>5, <1>6

\* A refresh changes its own call and, at most, the lock.
LEMMA CallChanges ==
  ASSUME ClockAssumption, ClockInv, NEW a \in ClockActors, NEW x \in CallRec, v9' = [v9 EXCEPT ![a] = x],
         v8' = a \/ v8' = v8 \/ v8' = NoActor,
         v8' = a => x.step \in {"write", "journal"} \/ (a = Watch /\ x.step = "auto"),
         v1' = v1, v2' = v2, v3' = v3, v4' \in Moments, v5' \in Seq(Moments), v6' \in Seq(Moments), v7' \in BOOLEAN,
         v10' \in 0 .. ClockTroubles,
         v4 <= v4', Starts(v5', v4'), Starts(v6', v4'), x.at <= v1, CallFits(a, x, v4'), JudgedRight(a, x, v2, v4')
  PROVE  ClockInv'
<1>1. ClockHeld'
  BY HolderStays DEF ClockInv
<1>2. ClockFiles'
  BY Zenon DEF ClockFiles, ClockInv
<1>3. ClockJudged'
  <2>1. /\ v9 \in [ClockActors -> CallRec] /\ v4 \in Moments
        /\ \A b \in ClockActors : v9[b].at <= v1 /\ CallFits(b, v9[b], v4) /\ JudgedRight(b, v9[b], v2, v4)
    BY DEF ClockInv, ClockHeld, ClockFiles, ClockJudged
  <2>2. ASSUME NEW b \in ClockActors
        PROVE  v9'[b].at <= v1' /\ CallFits(b, v9'[b], v4') /\ JudgedRight(b, v9'[b], v2', v4')
    <3>1. CASE b = a
      <4>1. v9'[b] = x
        BY <2>1, <3>1
      <4>2. CallFits(b, x, v4') /\ JudgedRight(b, x, v2, v4')
        BY <3>1
      <4>3. v2' = v2 /\ v1' = v1 /\ x.at <= v1
        OBVIOUS
      <4> QED BY <4>1, <4>2, <4>3
    <3>2. CASE b # a
      <4> DEFINE y == v9[b]
      <4>1. v9'[b] = y /\ y \in CallRec /\ y.at <= v1 /\ CallFits(b, y, v4) /\ JudgedRight(b, y, v2, v4)
        BY <2>1, <3>2
      <4> HIDE DEF y
      <4>2. y.at \in Int /\ v4 \in Int /\ v4' \in Int /\ y.hist \in Seq(Moments)
        BY <2>1, <4>1 DEF CallRec, Moments, ClockAssumption
      <4>3. \A i \in 1 .. Len(y.hist) : y.hist[i] \in Int
        <5>1. \A i \in 1 .. Len(y.hist) : y.hist[i] \in Moments
          BY <4>2, ElementOfSeq
        <5> QED BY <5>1 DEF Moments, ClockAssumption
      <4>4. CallFits(b, y, v4')
        BY <4>1, <4>2, <4>3 DEF CallFits
      <4>5. JudgedRight(b, y, v2, v4')
        <5>1. /\ Cardinality(ActiveTime(v2, v4', y.at)) <= Cardinality(ActiveTime(v2, v4, y.at))
              /\ Cardinality(ActiveTime(v2, v4', y.at)) \in Nat /\ Cardinality(ActiveTime(v2, v4, y.at)) \in Nat
          BY <4>2, LessActive, ActiveFinite
        <5> QED BY <4>1, <5>1 DEF JudgedRight, ClockAssumption
      <4>6. v2' = v2 /\ v1' = v1
        OBVIOUS
      <4> QED BY <4>1, <4>4, <4>5, <4>6
    <3> QED BY <3>1, <3>2
  <2> QED BY <2>2, Zenon DEF ClockJudged, Starts, CallFits, JudgedRight
<1> QED BY <1>1, <1>2, <1>3 DEF ClockInv

\* A call that goes on keeps the answer it got.
LEMMA AnswerStays ==
  ASSUME ClockAssumption, ClockInv, NEW a \in ClockActors, v9[a].step # "idle", v4' \in Moments, v4 <= v4',
         NEW x \in CallRec, x.at = v9[a].at, x.block = v9[a].block
  PROVE  x.at <= v1 /\ JudgedRight(a, x, v2, v4')
<1> DEFINE y == v9[a]
<1>1. y \in CallRec /\ y.at <= v1 /\ JudgedRight(a, y, v2, v4) /\ v4 \in Moments /\ y.step # "idle"
  BY DEF ClockInv, ClockHeld, ClockJudged, ClockFiles
<1> HIDE DEF y
<1>2. y.at \in Int /\ v4 \in Int /\ v4' \in Int
  BY <1>1 DEF CallRec, Moments, ClockAssumption
<1>3. /\ Cardinality(ActiveTime(v2, v4', y.at)) <= Cardinality(ActiveTime(v2, v4, y.at))
      /\ Cardinality(ActiveTime(v2, v4', y.at)) \in Nat /\ Cardinality(ActiveTime(v2, v4, y.at)) \in Nat
  BY <1>2, LessActive, ActiveFinite
<1>4. x.at = y.at /\ x.block = y.block
  BY DEF y
<1> QED BY <1>1, <1>3, <1>4 DEF JudgedRight, ClockAssumption

LEMMA IdleFits ==
  ASSUME ClockAssumption, ClockInv, NEW a, NEW ps, NEW d
  PROVE  Clock!Idle.at <= v1 /\ CallFits(a, Clock!Idle, d) /\ JudgedRight(a, Clock!Idle, ps, d)
<1>1. Clock!Idle.at = 0 /\ Clock!Idle.hist = <<>> /\ Clock!Idle.step = "idle" /\ Len(<<>>) = 0
  BY DEF Clock!Idle, Clock!NoRecord
<1>2. 0 <= v1
  BY DEF ClockInv, ClockFiles, Moments, ClockAssumption
<1> QED BY <1>1, <1>2 DEF CallFits, JudgedRight

\* A history that was paused is continued by the start of an episode.
LEMMA NextEpisode ==
  ASSUME ClockAssumption, NEW h \in Seq(Moments), NEW t \in Moments
  PROVE  /\ Append(h, t) \in Seq(Moments) /\ Len(Append(h, t)) = Len(h) + 1 /\ Len(h) \in Nat
         /\ Append(h, t)[Len(h) + 1] = t /\ \A i \in 1 .. Len(h) : Append(h, t)[i] = h[i]
         /\ \A d \in Moments, e \in Moments : Starts(h, d) /\ d <= e /\ (t <= e \/ Len(h) % 2 = 1) => Starts(Append(h, t), e)
<1> DEFINE g == Append(h, t)
<1>1. /\ g \in Seq(Moments) /\ Len(g) = Len(h) + 1 /\ Len(h) \in Nat
      /\ g[Len(h) + 1] = t /\ \A i \in 1 .. Len(h) : g[i] = h[i]
  BY AppendProperties, LenProperties
<1> HIDE DEF g
<1>2. ASSUME NEW d \in Moments, NEW e \in Moments, Starts(h, d), d <= e, t <= e \/ Len(h) % 2 = 1
      PROVE  Starts(g, e)
  <2>1. ASSUME NEW i \in 1 .. Len(g), i % 2 = 1 PROVE g[i] <= e
    <3>1. CASE i = Len(h) + 1
      <4>1. Len(h) % 2 # 1
        BY <1>1, <2>1, <3>1
      <4> QED BY <1>1, <1>2, <3>1, <4>1
    <3>2. CASE i \in 1 .. Len(h)
      <4>1. h[i] \in Moments /\ h[i] <= d
        BY <1>2, <2>1, <3>2, ElementOfSeq DEF Starts
      <4> QED BY <1>1, <1>2, <3>2, <4>1 DEF Moments, ClockAssumption
    <3> QED BY <1>1, <3>1, <3>2
  <2> QED BY <2>1 DEF Starts
<1> QED BY <1>1, <1>2 DEF g

\* What is written is as true later.
LEMMA StartsLater ==
  ASSUME ClockAssumption, NEW h \in Seq(Moments), NEW d \in Moments, NEW e \in Moments, d <= e, Starts(h, d)
  PROVE  Starts(h, e)
<1>1. \A i \in 1 .. Len(h) : h[i] \in Moments
  BY ElementOfSeq
<1> QED BY <1>1 DEF Starts, Moments, ClockAssumption

LEMMA ClockReads == ASSUME ClockAssumption, ClockInv, NEW a \in ClockActors, Clock!Read(a) PROVE ClockInv'
<1> DEFINE base == IF v5 = <<>> THEN Clock!Rebuilt(v1) ELSE v5
           h == Clock!Transitioned(base, v1)
           x == [at |-> v1, hist |-> h, block |-> Clock!Paused(h), step |-> "write"]
<1>1. ClockFiles /\ Starts(v5, v4) /\ Starts(v6, v4)
  BY DEF ClockInv, ClockJudged
<1>2. base \in Seq(Moments) /\ base # <<>> /\ Starts(base, v4)
  <2>1. <<0>> \in Seq(Moments) /\ <<0>> # <<>> /\ Starts(<<0>>, v4)
    BY <1>1 DEF Moments, ClockAssumption, Starts, ClockFiles
  <2> QED BY <1>1, <2>1 DEF ClockFiles, Clock!Rebuilt
<1>0. /\ v9' = [v9 EXCEPT ![a] = x] /\ v8' = IF a = Watch THEN Watch ELSE v8
      /\ v1' = v1 /\ v2' = v2 /\ v3' = v3 /\ v4' = v4 /\ v5' = v5 /\ v6' = v6 /\ v7' = v7 /\ v10' = v10
  BY DEF Clock!Read, Clock!files, Clock!NoRecord, base
<1> HIDE DEF base
<1>3. v1 \in Moments /\ v4 \in Moments /\ v1 \in Int /\ v4 \in Int /\ Len(base) \in Nat \ {0}
  <2>1. \A seq \in Seq(Moments) : seq # <<>> => Len(seq) \in Nat \ {0}
    BY EmptySeq
  <2> QED BY <1>1, <1>2, <2>1 DEF ClockFiles, Moments, ClockAssumption
<1>4. h \in Seq(Moments) /\ Starts(h, v4) /\ (~Clock!Paused(h) => h = base /\ Clock!ActiveSince(Clock!Last(base), v1) < Budget /\ Len(base) % 2 = 1)
  <2> DEFINE on == ~Clock!Paused(base) /\ Clock!ActiveSince(Clock!Last(base), v1) >= Budget
  <2>1. h = IF on THEN Append(base, v1) ELSE base
    BY DEF Clock!Transitioned
  <2>2. Clock!Paused(base) <=> Len(base) % 2 = 0
    BY <1>2 DEF Clock!Paused, Clock!NoRecord
  <2>3. Len(base) % 2 = 0 \/ Len(base) % 2 = 1
    BY <1>3
  <2>4. CASE on
    <3>1. h = Append(base, v1) /\ Len(base) % 2 = 1
      BY <2>1, <2>2, <2>3, <2>4
    <3>2. h \in Seq(Moments) /\ Len(h) = Len(base) + 1 /\ Starts(h, v4)
      BY <1>2, <1>3, <3>1, NextEpisode
    <3>3. Len(h) % 2 = 0 /\ h # <<>>
      BY <1>3, <3>1, <3>2
    <3>4. Clock!Paused(h)
      BY <3>3 DEF Clock!Paused, Clock!NoRecord
    <3> QED BY <3>2, <3>4
  <2>5. CASE ~on
    <3>1. h = base
      BY <2>1, <2>5
    <3>2. ASSUME ~Clock!Paused(base) PROVE Clock!ActiveSince(Clock!Last(base), v1) < Budget /\ Len(base) % 2 = 1
      <4>1. Len(base) % 2 = 1 /\ Len(base) \in 1 .. Len(base)
        BY <1>3, <2>2, <2>3, <3>2
      <4>2. base[Len(base)] \in Moments /\ base[Len(base)] <= v4
        BY <1>2, <4>1, ElementOfSeq DEF Starts
      <4>3. Clock!Last(base) \in Nat /\ Clock!Last(base) <= v4
        BY <4>2 DEF Clock!Last, Moments, ClockAssumption
      <4>4. Clock!ActiveSince(Clock!Last(base), v1) \in Nat
        BY <1>1, <1>3, <4>3, CountsNoLess
      <4> QED BY <2>5, <3>2, <4>1, <4>4 DEF ClockAssumption
    <3> QED BY <1>2, <3>1, <3>2
  <2> QED BY <2>4, <2>5
<1> HIDE DEF h
<1>5. Clock!Paused(h) \in BOOLEAN
  BY DEF Clock!Paused
<1>6. x \in CallRec /\ x.step = "write" /\ x.at = v1 /\ x.hist = h /\ x.block = Clock!Paused(h)
  BY <1>3, <1>4, <1>5 DEF CallRec
<1> HIDE DEF x
<1>7. /\ v8' = a \/ v8' = v8 \/ v8' = NoActor
      /\ v8' = a => x.step \in {"write", "journal"} \/ (a = Watch /\ x.step = "auto")
  BY <1>0, <1>6
<1>8. /\ v4' \in Moments /\ v5' \in Seq(Moments) /\ v6' \in Seq(Moments) /\ v7' \in BOOLEAN /\ v10' \in 0 .. ClockTroubles
      /\ v4 <= v4' /\ Starts(v5', v4') /\ Starts(v6', v4')
  BY <1>0, <1>1, <1>3 DEF ClockFiles
<1>9. x.at <= v1 /\ CallFits(a, x, v4')
  BY <1>0, <1>3, <1>4, <1>6 DEF CallFits, Starts
<1>10. JudgedRight(a, x, v2, v4')
  <2>1. SUFFICES ASSUME ~Clock!Paused(h) PROVE Cardinality(ActiveTime(v2, v4, v1)) < Budget
    BY <1>0, <1>6 DEF JudgedRight
  <2>2. Len(base) \in 1 .. Len(base)
    BY <1>3
  <2>3. base[Len(base)] \in Moments /\ base[Len(base)] <= v4
    BY <1>2, <1>4, <2>1, <2>2, ElementOfSeq DEF Starts
  <2>4. Clock!Last(base) \in Nat /\ Clock!Last(base) <= v4
    BY <2>3 DEF Clock!Last, Moments, ClockAssumption
  <2>5. /\ Cardinality(ActiveTime(v2, v4, v1)) <= Clock!ActiveSince(Clock!Last(base), v1)
        /\ Clock!ActiveSince(Clock!Last(base), v1) \in Nat /\ Cardinality(ActiveTime(v2, v4, v1)) \in Nat
    BY <1>1, <1>3, <2>4, CountsNoLess, ActiveFinite
  <2> QED BY <1>4, <2>1, <2>5 DEF ClockAssumption
<1> QED BY <1>0, <1>6, <1>7, <1>8, <1>9, <1>10, CallChanges

LEMMA ClockResumes == ASSUME ClockAssumption, ClockInv, Clock!Resume PROVE ClockInv'
<1> DEFINE x == [at |-> v1, hist |-> Append(v5, v1), block |-> FALSE, step |-> "write"]
<1>1. ClockFiles /\ Pilot \in ClockActors /\ Starts(v5, v4) /\ Starts(v6, v4) /\ v5 \in Seq(Moments) /\ v1 \in Moments /\ v4 \in Moments
  BY DEF ClockInv, ClockActors, ClockJudged, ClockFiles
<1>2. /\ v9' = [v9 EXCEPT ![Pilot] = x] /\ v8' = Pilot
      /\ v1' = v1 /\ v2' = v2 /\ v3' = v3 /\ v4' = v4 /\ v5' = v5 /\ v6' = v6 /\ v7' = v7 /\ v10' = v10
  BY DEF Clock!Resume, Clock!files
<1>3. /\ Append(v5, v1) \in Seq(Moments) /\ Len(Append(v5, v1)) = Len(v5) + 1 /\ Len(v5) \in Nat
      /\ Append(v5, v1)[Len(v5) + 1] = v1 /\ \A i \in 1 .. Len(v5) : Append(v5, v1)[i] = v5[i]
  BY <1>1, NextEpisode
<1>4. x \in CallRec /\ x.step = "write" /\ x.at = v1 /\ x.hist = Append(v5, v1)
  BY <1>1, <1>3 DEF CallRec
<1> HIDE DEF x
<1>5. /\ v4' \in Moments /\ v5' \in Seq(Moments) /\ v6' \in Seq(Moments) /\ v7' \in BOOLEAN /\ v10' \in 0 .. ClockTroubles
      /\ v4 <= v4' /\ Starts(v5', v4') /\ Starts(v6', v4') /\ x.at <= v1
  BY <1>1, <1>2, <1>4 DEF ClockFiles, Moments, ClockAssumption
<1>6. CallFits(Pilot, x, v4')
  <2>1. ASSUME NEW i \in 1 .. Len(x.hist), i % 2 = 1 PROVE x.hist[i] <= v4 \/ x.hist[i] <= v1
    <3>1. CASE i = Len(v5) + 1
      BY <1>1, <1>3, <1>4, <3>1 DEF Moments, ClockAssumption
    <3>2. CASE i \in 1 .. Len(v5)
      BY <1>1, <1>3, <1>4, <2>1, <3>2 DEF Starts
    <3> QED BY <1>3, <1>4, <3>1, <3>2
  <2> QED BY <1>2, <1>4, <2>1 DEF CallFits
<1>7. JudgedRight(Pilot, x, v2, v4')
  BY DEF JudgedRight, ClockAssumption
<1> QED BY <1>1, <1>2, <1>4, <1>5, <1>6, <1>7, CallChanges

\* Missing adds to the journal what it does not have yet, each moment in its place.
LEMMA MissingIs ==
  ASSUME ClockAssumption, ClockInv, NEW a \in ClockActors, Starts(v9[a].hist, v4)
  PROVE  /\ Clock!Missing(a) \in Seq(Moments)
         /\ \A n \in Nat : n <= Len(Clock!Missing(a)) =>
               /\ v6 \o SubSeq(Clock!Missing(a), 1, n) \in Seq(Moments)
               /\ Starts(v6 \o SubSeq(Clock!Missing(a), 1, n), v4)
<1> DEFINE h == v9[a].hist
           m == Clock!Missing(a)
<1>1. v6 \in Seq(Moments) /\ h \in Seq(Moments) /\ Starts(v6, v4) /\ Starts(h, v4)
  BY DEF ClockInv, ClockFiles, ClockJudged, ClockHeld, CallRec
<1>2. Len(v6) \in Nat /\ Len(h) \in Nat
  BY <1>1, LenProperties
<1>0. m = SubSeq(h, Len(v6) + 1, Len(h))
  BY DEF Clock!Missing
<1> HIDE DEF h, m
<1>3. \A i \in Len(v6) + 1 .. Len(h) : h[i] \in Moments
  <2>1. \A i \in 1 .. Len(h) : h[i] \in Moments
    BY <1>1, ElementOfSeq
  <2>2. \A i \in Len(v6) + 1 .. Len(h) : i \in 1 .. Len(h)
    BY <1>2
  <2> QED BY <2>1, <2>2
<1>4. /\ m \in Seq(Moments) /\ Len(m) = IF Len(v6) + 1 <= Len(h) THEN Len(h) - (Len(v6) + 1) + 1 ELSE 0
      /\ \A i \in 1 .. Len(h) - (Len(v6) + 1) + 1 : m[i] = h[(Len(v6) + 1) + i - 1]
  <2>1. Len(v6) + 1 \in Int /\ Len(h) \in Int
    BY <1>2
  <2> QED BY <1>0, <1>3, <2>1, SubSeqProperties
<1>5. Len(m) \in Nat /\ \A i \in 1 .. Len(m) : Len(v6) + i \in 1 .. Len(h) /\ m[i] = h[Len(v6) + i]
  <2>1. Len(m) \in Nat /\ \A i \in 1 .. Len(m) : i \in 1 .. Len(h) - (Len(v6) + 1) + 1 /\ (Len(v6) + 1) + i - 1 = Len(v6) + i /\ Len(v6) + i \in 1 .. Len(h)
    BY <1>2, <1>4
  <2> QED BY <1>4, <2>1
<1>6. ASSUME NEW n \in Nat, n <= Len(m)
      PROVE  v6 \o SubSeq(m, 1, n) \in Seq(Moments) /\ Starts(v6 \o SubSeq(m, 1, n), v4)
  <2> DEFINE s == SubSeq(m, 1, n)
             c == v6 \o s
  <2>1. \A i \in 1 .. n : m[i] \in Moments
    <3>1. \A i \in 1 .. Len(m) : m[i] \in Moments
      BY <1>4, ElementOfSeq
    <3> QED BY <1>5, <1>6, <3>1
  <2>2. s \in Seq(Moments) /\ Len(s) = (IF 1 <= n THEN n - 1 + 1 ELSE 0) /\ \A i \in 1 .. n - 1 + 1 : s[i] = m[1 + i - 1]
    BY <2>1, SubSeqProperties
  <2>3. Len(s) = n /\ \A i \in 1 .. n : s[i] = m[i]
    BY <2>2
  <2> HIDE DEF s
  <2>4. /\ c \in Seq(Moments) /\ Len(c) = Len(v6) + Len(s)
        /\ \A i \in 1 .. Len(v6) + Len(s) : c[i] = IF i <= Len(v6) THEN v6[i] ELSE s[i - Len(v6)]
    BY <1>1, <2>2, ConcatProperties
  <2> HIDE DEF c
  <2>5. ASSUME NEW i \in 1 .. Len(c), i % 2 = 1 PROVE c[i] <= v4
    <3>1. CASE i <= Len(v6)
      <4>1. i \in 1 .. Len(v6) /\ c[i] = v6[i]
        BY <1>2, <2>4, <3>1
      <4> QED BY <1>1, <2>5, <4>1 DEF Starts
    <3>2. CASE ~(i <= Len(v6))
      <4>1. i - Len(v6) \in 1 .. n /\ Len(v6) + (i - Len(v6)) = i
        BY <1>2, <2>3, <2>4, <3>2
      <4>2. i - Len(v6) \in 1 .. Len(m)
        BY <1>5, <1>6, <4>1
      <4>3. c[i] = h[i] /\ i \in 1 .. Len(h)
        BY <1>5, <2>3, <2>4, <3>2, <4>1, <4>2
      <4> QED BY <1>1, <2>5, <4>3 DEF Starts
    <3> QED BY <3>1, <3>2
  <2>6. Starts(c, v4)
    BY <2>5 DEF Starts
  <2> QED BY <2>4, <2>6 DEF c, s
<1> QED BY <1>4, <1>6 DEF m

LEMMA ClockContinues == ASSUME ClockAssumption, ClockInv, NEW a \in ClockActors, Clock!Continue(a) PROVE ClockInv'
<1> DEFINE y == v9[a]
<1>1. /\ y \in CallRec /\ y.at \in Moments /\ y.hist \in Seq(Moments) /\ y.block \in BOOLEAN
      /\ \A s \in {"idle", "write", "journal", "auto", "check", "granted"} :
            [y EXCEPT !.step = s] \in CallRec /\ [y EXCEPT !.step = s].step = s
      /\ v8 = a => y.step \in {"write", "journal"} \/ (a = Watch /\ y.step = "auto")
      /\ Clock!Idle \in CallRec
  BY CallIs
<1>2. /\ v4 \in Moments /\ v5 \in Seq(Moments) /\ v6 \in Seq(Moments) /\ v7 \in BOOLEAN /\ v10 \in 0 .. ClockTroubles
      /\ Starts(v5, v4) /\ Starts(v6, v4) /\ y.at <= v1 /\ CallFits(a, y, v4)
  BY Zenon DEF ClockInv, ClockFiles, ClockJudged
<1>3. a # NoActor /\ Watch # NoActor
  BY DEF ClockActors, ClockAssumption
<1>4. <<>> \in Seq(Moments) /\ Len(<<>>) = 0 /\ v4 <= v4 /\ v4 \in Int /\ y.at \in Int
  BY <1>1, <1>2 DEF Moments, ClockAssumption
<1>5. y.step # "write" => Starts(y.hist, v4)
  BY <1>2 DEF CallFits, Starts
<1>6. ASSUME Clock!WriteRecord(a) PROVE ClockInv'
  <2> DEFINE x == [y EXCEPT !.step = "journal"]
             top == Clock!Max({v4, y.at})
  <2>1. /\ v5' = y.hist /\ v4' = IF a = Pilot THEN top ELSE v4
        /\ v9' = [v9 EXCEPT ![a] = x] /\ y.step # "idle"
        /\ v1' = v1 /\ v2' = v2 /\ v3' = v3 /\ v6' = v6 /\ v7' = v7 /\ v8' = v8 /\ v10' = v10
    BY <1>6 DEF Clock!WriteRecord
  <2>2. x \in CallRec /\ x.step = "journal" /\ x.at = y.at /\ x.block = y.block /\ x.hist = y.hist
    BY <1>1 DEF CallRec
  <2>3. top \in Moments /\ v4 <= top /\ y.at <= top
    BY <1>1, <1>2, LaterOfTwo
  <2> HIDE DEF x, top, y
  <2>4. v4' \in Moments /\ v4 <= v4' /\ (a = Pilot => y.at <= v4')
    BY <1>2, <1>4, <2>1, <2>3
  <2>5. Starts(y.hist, v4')
    <3>1. \A i \in 1 .. Len(y.hist) : y.hist[i] \in Moments
      BY <1>1, ElementOfSeq
    <3>2. v4' \in Int
      BY <2>4 DEF Moments, ClockAssumption
    <3> QED BY <1>2, <1>4, <2>4, <3>1, <3>2 DEF CallFits, Starts, Moments, ClockAssumption
  <2>6. Starts(v6', v4')
    BY <1>2, <2>1, <2>4, StartsLater
  <2>7. v5' \in Seq(Moments) /\ v6' \in Seq(Moments) /\ v7' \in BOOLEAN /\ v10' \in 0 .. ClockTroubles /\ Starts(v5', v4')
    BY <1>1, <1>2, <2>1, <2>5
  <2>8. CallFits(a, x, v4')
    BY <2>2, <2>5 DEF CallFits, Starts
  <2>9. x.at <= v1 /\ JudgedRight(a, x, v2, v4')
    BY <2>1, <2>2, <2>4, AnswerStays DEF y
  <2> QED BY <1>1, <2>1, <2>2, <2>4, <2>6, <2>7, <2>8, <2>9, CallChanges
<1>7. ASSUME Clock!AppendJournal(a) PROVE ClockInv'
  <2> DEFINE x == IF a = Pilot THEN Clock!Idle ELSE [y EXCEPT !.step = "auto"]
             m == Clock!Missing(a)
  <2>1. /\ (v6' = v6 /\ v7' = v7) \/ (v6' = Clock!Accepts(m) /\ v7' = FALSE)
        /\ v9' = [v9 EXCEPT ![a] = x] /\ v8' = (IF a # Watch /\ v8 = a THEN NoActor ELSE v8) /\ y.step = "journal"
        /\ v1' = v1 /\ v2' = v2 /\ v3' = v3 /\ v4' = v4 /\ v5' = v5 /\ v10' = v10
    BY <1>7 DEF Clock!AppendJournal
  <2>2. x \in CallRec /\ (a = Watch => x.step = "auto")
    BY <1>1 DEF ClockAssumption
  <2>3. x.at <= v1 /\ CallFits(a, x, v4) /\ JudgedRight(a, x, v2, v4)
    <3>1. CASE a = Pilot
      BY <3>1, IdleFits
    <3>2. CASE a # Pilot
      <4>1. x.at = y.at /\ x.block = y.block /\ x.hist = y.hist /\ y.step # "idle" /\ y.step # "write"
        BY <1>1, <2>1, <3>2 DEF CallRec
      <4>2. CallFits(a, x, v4)
        BY <1>5, <4>1 DEF CallFits, Starts
      <4>3. v4' \in Moments /\ v4 <= v4'
        BY <1>2, <1>4, <2>1
      <4>4. x.at <= v1 /\ JudgedRight(a, x, v2, v4')
        BY <2>2, <4>1, <4>3, AnswerStays
      <4> QED BY <2>1, <4>2, <4>4
    <3> QED BY <3>1, <3>2
  <2> HIDE DEF x
  <2>4. Clock!Accepts(m) \in Seq(Moments) /\ Starts(Clock!Accepts(m), v4)
    <3>1. Starts(y.hist, v4)
      BY <1>5, <2>1
    <3>2. m \in Seq(Moments) /\ \A n \in Nat : n <= Len(m) => v6 \o SubSeq(m, 1, n) \in Seq(Moments) /\ Starts(v6 \o SubSeq(m, 1, n), v4)
      BY <3>1, MissingIs
    <3> HIDE DEF m
    <3>3. Len(m) \in Nat /\ Len(m) <= Len(m) /\ SubSeq(m, 1, Len(m)) = m
      BY <3>2, LenProperties, SubSeqFull
    <3>4. v6 \o m \in Seq(Moments) /\ Starts(v6 \o m, v4)
      BY <3>2, <3>3
    <3> QED BY <1>2, <3>4 DEF Clock!Accepts
  <2>5. v4' \in Moments /\ v5' \in Seq(Moments) /\ v6' \in Seq(Moments) /\ v7' \in BOOLEAN /\ v10' \in 0 .. ClockTroubles
    BY <1>2, <2>1, <2>4
  <2>6. v4 <= v4' /\ Starts(v5', v4') /\ Starts(v6', v4')
    BY <1>2, <1>4, <2>1, <2>4
  <2>7. /\ v8' = a \/ v8' = v8 \/ v8' = NoActor
        /\ v8' = a => x.step \in {"write", "journal"} \/ (a = Watch /\ x.step = "auto")
    BY <1>3, <2>1, <2>2
  <2> QED BY <2>1, <2>2, <2>3, <2>5, <2>6, <2>7, CallChanges
<1>8. ASSUME Clock!NoAutoResume(a) \/ Clock!AutoResumedByAnother(a) PROVE ClockInv'
  <2> DEFINE z == [y EXCEPT !.hist = <<>>, !.step = "check"]
             x == IF a = Watch THEN Clock!Idle ELSE z
  <2>1. /\ y.step = "auto"
        /\ v9' = [v9 EXCEPT ![a] = x] /\ v8' = IF a = Watch THEN NoActor ELSE v8
        /\ v1' = v1 /\ v2' = v2 /\ v3' = v3 /\ v4' = v4 /\ v5' = v5 /\ v6' = v6 /\ v7' = v7 /\ v10' = v10
    BY <1>8 DEF Clock!NoAutoResume, Clock!AutoResumedByAnother, Clock!files, Clock!NoRecord
  <2>2. z \in CallRec /\ z.at = y.at /\ z.block = y.block /\ z.hist = <<>>
    BY <1>1, <1>4 DEF CallRec
  <2> HIDE DEF z
  <2>3. x \in CallRec /\ x.at <= v1 /\ CallFits(a, x, v4) /\ JudgedRight(a, x, v2, v4)
    <3>1. CASE a = Watch
      BY <1>1, <3>1, IdleFits
    <3>2. CASE a # Watch
      <4>1. CallFits(a, z, v4)
        BY <1>4, <2>2 DEF CallFits
      <4>2. v4' \in Moments /\ v4 <= v4' /\ y.step # "idle"
        BY <1>2, <1>4, <2>1
      <4>3. z.at <= v1 /\ JudgedRight(a, z, v2, v4')
        BY <2>2, <4>2, AnswerStays
      <4> QED BY <2>1, <2>2, <3>2, <4>1, <4>3
    <3> QED BY <3>1, <3>2
  <2> HIDE DEF x
  <2>4. /\ v4' \in Moments /\ v5' \in Seq(Moments) /\ v6' \in Seq(Moments) /\ v7' \in BOOLEAN /\ v10' \in 0 .. ClockTroubles
        /\ v4 <= v4' /\ Starts(v5', v4') /\ Starts(v6', v4')
    BY <1>2, <1>4, <2>1
  <2>5. (v8' = a \/ v8' = v8 \/ v8' = NoActor) /\ v8' # a
    BY <1>1, <1>3, <2>1
  <2> QED BY <2>1, <2>3, <2>4, <2>5, CallChanges
<1>9. ASSUME Clock!AutoResume(a) PROVE ClockInv'
  <2> DEFINE h == Append(y.hist, y.at)
             x == [y EXCEPT !.hist = h, !.block = FALSE, !.step = "journal"]
             top == Clock!Max({v4, y.at})
  <2>1. /\ v5' = h /\ v4' = top /\ v9' = [v9 EXCEPT ![a] = x] /\ v8' = a /\ y.step = "auto"
        /\ v1' = v1 /\ v2' = v2 /\ v3' = v3 /\ v6' = v6 /\ v7' = v7 /\ v10' = v10
    BY <1>9 DEF Clock!AutoResume
  <2>2. top \in Moments /\ v4 <= top /\ y.at <= top
    BY <1>1, <1>2, LaterOfTwo
  <2>3. h \in Seq(Moments) /\ Starts(h, top)
    <3>1. Starts(y.hist, v4)
      BY <1>5, <2>1
    <3> QED BY <1>1, <1>2, <2>2, <3>1, NextEpisode
  <2> HIDE DEF h, top
  <2>4. x \in CallRec /\ x.step = "journal" /\ x.at = y.at /\ x.hist = h
    BY <1>1, <2>3 DEF CallRec
  <2> HIDE DEF x
  <2>5. /\ v4' \in Moments /\ v5' \in Seq(Moments) /\ v6' \in Seq(Moments) /\ v7' \in BOOLEAN /\ v10' \in 0 .. ClockTroubles
        /\ v4 <= v4' /\ Starts(v5', v4') /\ Starts(v6', v4') /\ x.at <= v1 /\ CallFits(a, x, v4')
    <3>1. Starts(v6, top)
      BY <1>2, <2>2, StartsLater
    <3>2. CallFits(a, x, top)
      BY <2>3, <2>4 DEF CallFits, Starts
    <3> QED BY <1>2, <2>1, <2>2, <2>3, <2>4, <3>1, <3>2
  <2>6. JudgedRight(a, x, v2, v4')
    <3>1. ActiveTime(v2, v4', x.at) = {}
      BY <1>4, <2>1, <2>2, <2>4 DEF ActiveTime, Moments, ClockAssumption
    <3> QED BY <3>1, FS_EmptySet DEF JudgedRight, ClockAssumption
  <2> QED BY <2>1, <2>4, <2>5, <2>6, CallChanges
<1>10. ASSUME Clock!Grant(a) \/ Clock!Refuse(a) PROVE ClockInv'
  <2> DEFINE z == [y EXCEPT !.step = "granted"]
             x == IF Clock!Grant(a) THEN z ELSE Clock!Idle
  <2>1. /\ y.step = "check" /\ v8' = v8
        /\ v1' = v1 /\ v2' = v2 /\ v3' = v3 /\ v4' = v4 /\ v5' = v5 /\ v6' = v6 /\ v7' = v7 /\ v10' = v10
    BY <1>10 DEF Clock!Grant, Clock!Refuse, Clock!files
  <2>2. v9' = [v9 EXCEPT ![a] = x]
    <3>1. CASE Clock!Grant(a)
      BY <3>1 DEF Clock!Grant
    <3>2. CASE ~Clock!Grant(a)
      <4>1. v9' = [v9 EXCEPT ![a] = Clock!Idle]
        BY <1>10, <3>2 DEF Clock!Refuse
      <4> QED BY <3>2, <4>1
    <3> QED BY <3>1, <3>2
  <2>3. z \in CallRec /\ z.at = y.at /\ z.block = y.block /\ z.hist = y.hist
    BY <1>1 DEF CallRec
  <2> HIDE DEF z
  <2>4. x \in CallRec /\ x.at <= v1 /\ CallFits(a, x, v4) /\ JudgedRight(a, x, v2, v4)
    <3>1. CASE x = Clock!Idle
      BY <1>1, <3>1, IdleFits
    <3>2. CASE x = z
      <4>1. CallFits(a, z, v4)
        BY <1>5, <2>1, <2>3 DEF CallFits, Starts
      <4>2. v4' \in Moments /\ v4 <= v4' /\ y.step # "idle"
        BY <1>2, <1>4, <2>1
      <4>3. z.at <= v1 /\ JudgedRight(a, z, v2, v4')
        BY <2>3, <4>2, AnswerStays
      <4> HIDE DEF x
      <4> QED BY <2>1, <2>3, <3>2, <4>1, <4>3
    <3> QED BY <3>1, <3>2
  <2> HIDE DEF x
  <2>5. /\ v4' \in Moments /\ v5' \in Seq(Moments) /\ v6' \in Seq(Moments) /\ v7' \in BOOLEAN /\ v10' \in 0 .. ClockTroubles
        /\ v4 <= v4' /\ Starts(v5', v4') /\ Starts(v6', v4')
    BY <1>2, <1>4, <2>1
  <2>6. v8' # a
    BY <1>1, <2>1
  <2> QED BY <2>1, <2>2, <2>4, <2>5, <2>6, CallChanges
<1> QED BY <1>6, <1>7, <1>8, <1>9, <1>10, Zenon DEF Clock!Continue

LEMMA ClockKilled == ASSUME ClockAssumption, ClockInv, NEW a \in ClockActors, Clock!KillInAppend(a) PROVE ClockInv'
<1> DEFINE m == Clock!Missing(a)
<1>0. Clock!Idle \in CallRec
  <2>1. <<>> \in Seq(Moments) /\ 0 \in Moments
    BY DEF Moments, ClockAssumption
  <2> QED BY <2>1 DEF Clock!Idle, Clock!NoRecord, CallRec
<1>1. /\ ClockFiles /\ CallFits(a, v9[a], v4) /\ Starts(v5, v4) /\ Starts(v6, v4)
      /\ v4 \in Moments /\ v4 \in Int
  BY DEF ClockInv, ClockJudged, ClockFiles, Moments, ClockAssumption
<1>2. /\ v10 < ClockTroubles /\ m # <<>> /\ v9[a].step = "journal" /\ \E n \in 0 .. Len(m) - 1 : v6' = v6 \o SubSeq(m, 1, n)
      /\ v7' \in BOOLEAN /\ v9' = [v9 EXCEPT ![a] = Clock!Idle] /\ v8' = IF v8 = a THEN NoActor ELSE v8
      /\ v10' = v10 + 1 /\ v1' = v1 /\ v2' = v2 /\ v3' = v3 /\ v4' = v4 /\ v5' = v5
  BY DEF Clock!KillInAppend
<1>3. PICK n \in 0 .. Len(m) - 1 : v6' = v6 \o SubSeq(m, 1, n)
  BY <1>2
<1>4. Starts(v9[a].hist, v4)
  BY <1>1, <1>2 DEF CallFits, Starts
<1>5. m \in Seq(Moments) /\ \A k \in Nat : k <= Len(m) => v6 \o SubSeq(m, 1, k) \in Seq(Moments) /\ Starts(v6 \o SubSeq(m, 1, k), v4)
  BY <1>4, MissingIs
<1> HIDE DEF m
<1>6. n \in Nat /\ n <= Len(m)
  BY <1>3, <1>5, LenProperties
<1>7. v6' \in Seq(Moments) /\ Starts(v6', v4)
  BY <1>3, <1>5, <1>6
<1>8. /\ v4' \in Moments /\ v5' \in Seq(Moments) /\ v7' \in BOOLEAN /\ v10' \in 0 .. ClockTroubles
      /\ v4 <= v4' /\ Starts(v5', v4') /\ Starts(v6', v4')
  BY <1>1, <1>2, <1>7 DEF ClockFiles, ClockAssumption
<1>9. (v8' = a \/ v8' = v8 \/ v8' = NoActor) /\ v8' # a
  BY <1>2 DEF ClockActors, ClockAssumption
<1>10. Clock!Idle.at <= v1 /\ CallFits(a, Clock!Idle, v4') /\ JudgedRight(a, Clock!Idle, v2, v4')
  BY IdleFits
<1> QED BY <1>0, <1>1, <1>2, <1>7, <1>8, <1>9, <1>10, CallChanges

\* What changes neither a call nor the lock; pauses go on at the present moment.
LEMMA CallsStay ==
  ASSUME ClockAssumption, ClockInv, v8' = v8, v9' = v9, v4' = v4, v6' = v6, v5' = v5 \/ v5' = <<>>,
         v1' \in Moments, v1 <= v1',
         \A k \in Nat : k < v1 /\ HeldIn(v2, k, 0) => HeldIn(v2', k, 0)
  PROVE  ClockHeld' /\ ClockJudged'
<1>1. ClockHeld'
  BY DEF ClockInv, ClockHeld
<1>2. Starts(v5', v4') /\ Starts(v6', v4')
  <2>1. Starts(<<>>, v4)
    BY DEF Starts
  <2> QED BY <2>1 DEF ClockInv, ClockJudged
<1>3. ASSUME NEW a \in ClockActors PROVE v9[a].at <= v1' /\ CallFits(a, v9[a], v4) /\ JudgedRight(a, v9[a], v2', v4)
  <2> DEFINE y == v9[a]
  <2>1. y \in CallRec /\ y.at <= v1 /\ CallFits(a, y, v4) /\ JudgedRight(a, y, v2, v4) /\ v4 \in Moments /\ v1 \in Moments
    BY DEF ClockInv, ClockHeld, ClockJudged, ClockFiles
  <2> HIDE DEF y
  <2>2. y.at \in Int /\ v4 \in Nat /\ v1 \in Int /\ v1' \in Int
    BY <2>1 DEF CallRec, Moments, ClockAssumption
  <2>3. \A k \in v4 .. (y.at - 1) : HeldIn(v2, k, 0) => HeldIn(v2', k, 0)
    <3>1. \A k \in v4 .. (y.at - 1) : k \in Nat /\ k < v1
      BY <2>1, <2>2
    <3> QED BY <3>1
  <2>4. v4 \in Int /\ v4 <= v4
    BY <2>2
  <2>5. /\ Cardinality(ActiveTime(v2', v4, y.at)) <= Cardinality(ActiveTime(v2, v4, y.at))
        /\ Cardinality(ActiveTime(v2', v4, y.at)) \in Nat /\ Cardinality(ActiveTime(v2, v4, y.at)) \in Nat
    BY <2>2, <2>3, <2>4, LessActive, ActiveFinite
  <2>6. JudgedRight(a, y, v2', v4)
    BY <2>1, <2>5 DEF JudgedRight, ClockAssumption
  <2>7. y.at <= v1'
    BY <2>1, <2>2
  <2> QED BY <2>1, <2>6, <2>7 DEF y
<1> QED BY <1>1, <1>2, <1>3, Zenon DEF ClockJudged, Starts, CallFits, JudgedRight

\* The file of the clock, pause by pause.
PauseFits(x, t) == x.from <= t /\ (x.to # -1 => x.from <= x.to /\ x.to <= t)

LEMMA FilesAre == ClockFiles <=>
  /\ v1 \in Moments /\ v10 \in 0 .. ClockTroubles /\ v7 \in BOOLEAN
  /\ v3 \in {-1} \cup Moments /\ v4 \in Moments
  /\ v2 \in Seq(PauseRec) /\ \A i \in 1 .. Len(v2) : PauseFits(v2[i], v1)
  /\ v5 \in Seq(Moments) /\ v6 \in Seq(Moments)
BY Zenon DEF ClockFiles, PauseFits

LEMMA PauseOpens == ASSUME ClockAssumption, ClockInv, Clock!HumanPauseStart PROVE ClockInv'
<1> DEFINE x == [from |-> v1, to |-> -1]
<1>1. /\ v1 \in Moments /\ v10 \in 0 .. ClockTroubles /\ v7 \in BOOLEAN
      /\ v3 \in {-1} \cup Moments /\ v4 \in Moments
      /\ v2 \in Seq(PauseRec) /\ \A i \in 1 .. Len(v2) : PauseFits(v2[i], v1)
      /\ v5 \in Seq(Moments) /\ v6 \in Seq(Moments)
  BY FilesAre DEF ClockInv
<1>2. /\ v2' = Append(v2, x) /\ v10 < ClockTroubles /\ v10' = v10 + 1 /\ v1' = v1 /\ v3' = v3 /\ v4' = v4
      /\ v5' = v5 /\ v6' = v6 /\ v7' = v7 /\ v8' = v8 /\ v9' = v9
  BY DEF Clock!HumanPauseStart, Clock!NoTime
<1>3. v1 \in Nat /\ v1 \in Int /\ Len(v2) \in Nat
  BY <1>1, LenProperties DEF Moments, ClockAssumption
<1>4. x \in PauseRec /\ PauseFits(x, v1)
  BY <1>1, <1>3 DEF PauseRec, PauseFits
<1> HIDE DEF x
<1>5. /\ v2' \in Seq(PauseRec) /\ Len(v2') = Len(v2) + 1
      /\ \A i \in 1 .. Len(v2) : v2'[i] = v2[i] /\ v2'[Len(v2) + 1] = x
  BY <1>1, <1>2, <1>4, AppendProperties
<1>6. ASSUME NEW i \in 1 .. Len(v2') PROVE PauseFits(v2'[i], v1)
  <2>1. i \in 1 .. Len(v2) \/ i = Len(v2) + 1
    BY <1>3, <1>5
  <2>2. v2'[Len(v2) + 1] = x
    BY <1>1, <1>2, <1>4, AppendProperties
  <2> QED BY <1>1, <1>4, <1>5, <2>1, <2>2
<1>7. v10' \in 0 .. ClockTroubles
  BY <1>1, <1>2 DEF ClockAssumption
<1>8. ClockFiles'
  BY <1>1, <1>2, <1>5, <1>6, <1>7, Zenon DEF ClockFiles, PauseFits
<1>9. DOMAIN v2 = 1 .. Len(v2) /\ DOMAIN v2' = 1 .. Len(v2') /\ \A i \in 1 .. Len(v2) : i \in 1 .. Len(v2')
  BY <1>1, <1>3, <1>5, LenProperties
<1>10. \A k \in Nat : k < v1 /\ HeldIn(v2, k, 0) => HeldIn(v2', k, 0)
  BY <1>5, <1>9 DEF HeldIn
<1>11. v1' \in Moments /\ v1 <= v1'
  BY <1>1, <1>2, <1>3
<1> QED BY <1>2, <1>8, <1>10, <1>11, CallsStay DEF ClockInv

LEMMA PauseCloses == ASSUME ClockAssumption, ClockInv, Clock!HumanPauseEnd PROVE ClockInv'
<1> DEFINE n == Len(v2)
           x == [v2[n] EXCEPT !.to = v1]
<1>1. /\ v1 \in Moments /\ v10 \in 0 .. ClockTroubles /\ v7 \in BOOLEAN
      /\ v3 \in {-1} \cup Moments /\ v4 \in Moments
      /\ v2 \in Seq(PauseRec) /\ \A i \in 1 .. Len(v2) : PauseFits(v2[i], v1)
      /\ v5 \in Seq(Moments) /\ v6 \in Seq(Moments)
  BY FilesAre DEF ClockInv
<1>2. /\ v2 # <<>> /\ v2' = [v2 EXCEPT ![n] = x] /\ v10' = v10 /\ v1' = v1 /\ v3' = v3 /\ v4' = v4
      /\ v5' = v5 /\ v6' = v6 /\ v7' = v7 /\ v8' = v8 /\ v9' = v9
  BY DEF Clock!HumanPauseEnd, Clock!OpenPause
<1>0. v2[n].to = -1
  <2>1. Clock!Last(v2) = v2[Len(v2)]
    BY DEF Clock!Last
  <2> QED BY <2>1 DEF Clock!HumanPauseEnd, Clock!OpenPause, Clock!NoTime
<1>3. v1 \in Nat /\ v1 \in Int /\ n \in Nat /\ DOMAIN v2 = 1 .. n
  BY <1>1, LenProperties DEF Moments, ClockAssumption
<1>4. n # 0
  BY <1>1, <1>2, EmptySeq
<1>5. n \in 1 .. n
  BY <1>3, <1>4
<1>6. v2[n] \in PauseRec /\ v2[n].from <= v1 /\ v2[n].from \in Int
  <2>1. v2[n] \in PauseRec
    BY <1>1, <1>5, ElementOfSeq
  <2>2. v2[n].from \in Int
    BY <2>1 DEF PauseRec, Moments, ClockAssumption
  <2> QED BY <1>1, <1>5, <2>1, <2>2 DEF PauseFits
<1>7. x \in PauseRec /\ PauseFits(x, v1) /\ x.from = v2[n].from /\ x.to = v1
  BY <1>1, <1>3, <1>6 DEF PauseRec, PauseFits
<1> HIDE DEF x
<1>8. v2' \in Seq(PauseRec) /\ Len(v2') = n /\ \A i \in 1 .. n : v2'[i] = IF i = n THEN x ELSE v2[i]
  BY <1>1, <1>2, <1>5, <1>7, ExceptSeq
<1>9. \A i \in 1 .. Len(v2') : PauseFits(v2'[i], v1)
  BY <1>1, <1>7, <1>8
<1>10. ClockFiles'
  BY <1>1, <1>2, <1>8, <1>9, Zenon DEF ClockFiles, PauseFits
<1>11. ASSUME NEW k \in Nat, k < v1, HeldIn(v2, k, 0) PROVE HeldIn(v2', k, 0)
  <2>1. DOMAIN v2' = 1 .. n
    BY <1>8, LenProperties
  <2>2. PICK i \in 1 .. n : 0 <= v2[i].from /\ v2[i].from <= k /\ (v2[i].to # -1 => k < v2[i].to)
    BY <1>3, <1>11 DEF HeldIn
  <2>3. 0 <= v2'[i].from /\ v2'[i].from <= k /\ (v2'[i].to # -1 => k < v2'[i].to)
    <3>1. CASE i = n
      BY <1>7, <1>8, <1>11, <2>2, <3>1
    <3>2. CASE i # n
      BY <1>8, <2>2, <3>2
    <3> QED BY <3>1, <3>2
  <2> QED BY <2>1, <2>2, <2>3 DEF HeldIn
<1>12. v1' \in Moments /\ v1 <= v1'
  BY <1>1, <1>2, <1>3
<1> QED BY <1>2, <1>10, <1>11, <1>12, CallsStay DEF ClockInv

\* Time, the loss of the record and the standing decision.
LEMMA ClockMoves ==
  ASSUME ClockAssumption, ClockInv, Clock!Tick \/ Clock!LoseRecord \/ \E on \in BOOLEAN : Clock!AutoResumeDecided(on)
  PROVE  ClockInv'
<1>1. /\ v1 \in Moments /\ v10 \in 0 .. ClockTroubles /\ v7 \in BOOLEAN
      /\ v3 \in {-1} \cup Moments /\ v4 \in Moments
      /\ v2 \in Seq(PauseRec) /\ \A i \in 1 .. Len(v2) : PauseFits(v2[i], v1)
      /\ v5 \in Seq(Moments) /\ v6 \in Seq(Moments)
  BY FilesAre DEF ClockInv
<1>2. v1 \in Nat /\ v1 \in Int
  BY <1>1 DEF Moments, ClockAssumption
<1>3. /\ v2' = v2 /\ v4' = v4 /\ v6' = v6 /\ v7' = v7 /\ v8' = v8 /\ v9' = v9
      /\ v5' = v5 \/ v5' = <<>>
      /\ v1' = v1 \/ (v1 < MaxTime /\ v1' = v1 + 1)
      /\ v10' = v10 \/ (v10 < ClockTroubles /\ v10' = v10 + 1)
      /\ v3' = v3 \/ v3' = v1 \/ v3' = -1
  BY DEF Clock!Tick, Clock!LoseRecord, Clock!AutoResumeDecided, Clock!files, Clock!NoRecord, Clock!NoTime
<1>4. /\ v1' \in Moments /\ v1 <= v1' /\ v1' \in Int /\ v10' \in 0 .. ClockTroubles
      /\ v3' \in {-1} \cup Moments
  BY <1>1, <1>2, <1>3 DEF Moments, ClockAssumption
<1>5. v5' \in Seq(Moments)
  <2>1. <<>> \in Seq(Moments)
    OBVIOUS
  <2> QED BY <1>1, <1>3, <2>1
<1>6. ASSUME NEW i \in 1 .. Len(v2) PROVE PauseFits(v2[i], v1')
  <2>1. v2[i] \in PauseRec /\ PauseFits(v2[i], v1)
    BY <1>1, ElementOfSeq
  <2>2. v2[i].from \in Int /\ v2[i].to \in Int
    BY <2>1 DEF PauseRec, Moments, ClockAssumption
  <2> QED BY <1>2, <1>4, <2>1, <2>2 DEF PauseFits
<1>7. ClockFiles'
  BY <1>1, <1>3, <1>4, <1>5, <1>6, Zenon DEF ClockFiles, PauseFits
<1>8. \A k \in Nat : k < v1 /\ HeldIn(v2, k, 0) => HeldIn(v2', k, 0)
  BY <1>3
<1> QED BY <1>3, <1>4, <1>7, <1>8, CallsStay DEF ClockInv

LEMMA ClockNext == ASSUME ClockAssumption, ClockInv, Clock!Next PROVE ClockInv'
<1>1. Clock!Actors = ClockActors
  BY DEF Clock!Actors, ClockActors
<1> QED BY <1>1, ClockReads, ClockContinues, ClockKilled, ClockResumes, PauseOpens, PauseCloses, ClockMoves, Zenon DEF Clock!Next

-----------------------------------------------------------------------------
(* The processes together. *)
LEMMA PartsAssumptions ==
  /\ ClockAssumption /\ VerdictAssumption /\ FallbackAssumption
  /\ TreesAssumption("Workspaces") /\ TreesAssumption("Workspace")
  /\ BoardsAssumption("Release") /\ BoardsAssumption("Judge")
<1>1. ClockAssumption /\ VerdictAssumption /\ FallbackAssumption
  BY ProcessesAssumption, Zenon DEF ClockAssumption, VerdictAssumption, FallbackAssumption
<1>2. ASSUME NEW p \in {"Workspaces", "Workspace"} PROVE TreesAssumption(p)
  BY ProcessesAssumption, Zenon DEF TreesAssumption
<1>3. ASSUME NEW p \in {"Release", "Judge"} PROVE BoardsAssumption(p)
  BY ProcessesAssumption, Zenon DEF BoardsAssumption
<1> QED BY <1>1, <1>2, <1>3

ProcessesInv ==
  /\ part \in {"Recovery", "Performance", "ReviewVerdict", "Workspaces", "Workspace", "Fallback", "Release", "Judge"}
  /\ part = "Performance"   => ClockInv
  /\ part = "ReviewVerdict" => VerdictInv
  /\ part = "Workspaces"    => TreesInv("Workspaces")
  /\ part = "Workspace"     => TreesInv("Workspace")
  /\ part = "Fallback"      => FallbackInv
  /\ part = "Release"       => BoardsInv("Release")
  /\ part = "Judge"         => BoardsInv("Judge")

\* What no step of a part may undo.
KeptStep ==
  /\ part = "Workspaces" => Trees("Workspaces")!OthersWorkKept
  /\ part = "Release" => Boards("Release")!StopsItsOwn

LEMMA ProcessesInit == FirstState => ProcessesInv /\ Init
BY PartsAssumptions, ClockStart, VerdictStart, TreesStart, FallbackStart, BoardsStart DEF FirstState, ProcessesInv

LEMMA ProcessesStutter ==
  ASSUME ProcessesInv, UNCHANGED All
  PROVE  ProcessesInv'
<1>1. UNCHANGED <<part, Shared>>
  BY DEF All
<1> QED BY <1>1, ClockStutter, VerdictStutter, TreesStutter, FallbackStutter, BoardsStutter DEF ProcessesInv

LEMMA ProcessesNext ==
  ASSUME ProcessesInv, Step
  PROVE  ProcessesInv' /\ KeptStep
<1>1. CASE part = "Recovery" /\ Next /\ UNCHANGED <<part, Shared>>
  BY <1>1 DEF ProcessesInv, KeptStep
<1>2. CASE part = "Performance" /\ Clock!Next /\ UNCHANGED <<vars, part, v11>>
  BY <1>2, PartsAssumptions, ClockNext DEF ProcessesInv, KeptStep
<1>3. CASE part = "ReviewVerdict" /\ Verdict!Next /\ UNCHANGED <<vars, part>>
  BY <1>3, PartsAssumptions, VerdictNext DEF ProcessesInv, KeptStep
<1>4. CASE part = "Workspaces" /\ Trees("Workspaces")!Next /\ UNCHANGED <<vars, part>>
  <2>1. TreesAssumption("Workspaces") /\ TreesInv("Workspaces")
    BY <1>4, PartsAssumptions DEF ProcessesInv
  <2>2. TreesInv("Workspaces")' /\ Trees("Workspaces")!OthersWorkKept
    BY <1>4, <2>1, TreesNext, TreesKeepOthers
  <2> QED BY <1>4, <2>2 DEF ProcessesInv, KeptStep
<1>5. CASE part = "Workspace" /\ Trees("Workspace")!Next /\ UNCHANGED <<vars, part>>
  <2>1. TreesAssumption("Workspace") /\ TreesInv("Workspace")
    BY <1>5, PartsAssumptions DEF ProcessesInv
  <2>2. TreesInv("Workspace")'
    BY <1>5, <2>1, TreesNext
  <2> QED BY <1>5, <2>2 DEF ProcessesInv, KeptStep
<1>6. CASE part = "Fallback" /\ Planner!Next /\ UNCHANGED <<vars, part, v4, v5, v6, v7, v8, v9, v10, v11>>
  BY <1>6, PartsAssumptions, FallbackNext DEF ProcessesInv, KeptStep
<1>7. CASE part = "Release" /\ Boards("Release")!Next /\ UNCHANGED <<vars, part>>
  <2>1. BoardsAssumption("Release") /\ BoardsInv("Release")
    BY <1>7, PartsAssumptions DEF ProcessesInv
  <2>2. BoardsInv("Release")' /\ Boards("Release")!StopsItsOwn
    BY <1>7, <2>1, BoardsNext
  <2> QED BY <1>7, <2>2 DEF ProcessesInv, KeptStep
<1>8. CASE part = "Judge" /\ Boards("Judge")!Next /\ UNCHANGED <<vars, part>>
  <2>1. BoardsAssumption("Judge") /\ BoardsInv("Judge")
    BY <1>8, PartsAssumptions DEF ProcessesInv
  <2>2. BoardsInv("Judge")'
    BY <1>8, <2>1, BoardsNext
  <2> QED BY <1>8, <2>2 DEF ProcessesInv, KeptStep
<1> QED BY <1>1, <1>2, <1>3, <1>4, <1>5, <1>6, <1>7, <1>8 DEF Step

\* What happens to a recovery beside the other parts is what happens to it alone.
LEMMA RecoveryAmongOthers == [Step]_All => [Next]_vars
<1>1. UNCHANGED All => UNCHANGED vars
  BY DEF All
<1>2. ASSUME Step PROVE Next \/ UNCHANGED vars
  BY <1>2 DEF Step
<1> QED BY <1>1, <1>2

LEMMA ProcessesInvariance == FairParts => []ProcessesInv
<1>1. ProcessesInv /\ [Step]_All => ProcessesInv'
  BY ProcessesNext, ProcessesStutter
<1> QED BY ProcessesInit, <1>1, PTL DEF FairParts

LEMMA RecoveryRuns == FairParts => Spec
BY ProcessesInit, RecoveryAmongOthers, PTL DEF FairParts, Spec

\* The state of every part is well typed, whatever sessions, hosts and people do.
THEOREM ProcessesTypeCorrect == FairParts => []TypesOK
<1>1. ProcessesInv /\ TypeOK => TypesOK
  <2>1. ASSUME ProcessesInv, TypeOK PROVE TypesOK
    BY <2>1, PartsAssumptions, ClockKeeps, VerdictKeeps, TreesKeep, FallbackKeeps, BoardsKeep DEF ProcessesInv, TypesOK
  <2> QED BY <2>1
<1> QED BY ProcessesInvariance, RecoveryRuns, TypeCorrect, <1>1, PTL

\* Whatever overlaps, fails or is answered twice, and for any bounds: a caller of
\* the clock told to go on asked within budget or after a decision; a verdict
\* closes one attempt at most and the review on record is of the criteria as they
\* are; a workspace's changes come back all together or not at all, if nobody is
\* killed; a chain of replacements tries no profile twice, stops at its cap and
\* keeps its reviewers independent; and a dashboard's death and return are each
\* told once.  (refresh_performance_state, adopt_session_result, _apply_changes,
\* plan_agent_fallback, record_dashboard_down_transition)
THEOREM SessionsAlwaysCountOnce == FairParts => []SessionsCountOnce
<1>1. ASSUME ProcessesInv PROVE SessionsCountOnce
  BY <1>1, PartsAssumptions, ClockKeeps, VerdictKeeps, TreesKeep, FallbackKeeps, BoardsKeep DEF ProcessesInv, SessionsCountOnce
<1> QED BY ProcessesInvariance, <1>1, PTL

\* No later step undoes what is settled: an ended session stays as it ended; what
\* another session brought in stays when a workspace comes back that was seeded
\* before it and during no apply, if nobody is killed; and a release stops the
\* run's own dashboard only.  (transition_agent_session,
\* apply_implementer_workspace, release_run_dashboard)
THEOREM NothingEverUndone == FairParts => NothingIsUndone
<1>1. ProcessesInv /\ [Step]_All =>
        [/\ part = "Workspaces" => Trees("Workspaces")!OthersWorkKept
         /\ part = "Release" => Boards("Release")!StopsItsOwn]_All
  BY ProcessesNext DEF KeptStep
<1>2. FairParts =>
        [][/\ part = "Workspaces" => Trees("Workspaces")!OthersWorkKept
           /\ part = "Release" => Boards("Release")!StopsItsOwn]_All
  BY ProcessesInvariance, <1>1, PTL DEF FairParts
<1>3. FairParts => EndedStays
  BY RecoveryRuns, EndedAlwaysStays, PTL
<1> QED BY <1>2, <1>3, PTL DEF NothingIsUndone
=============================================================================
