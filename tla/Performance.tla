---------------------------- MODULE Performance ----------------------------
(***************************************************************************)
(* The run-owned clock of handsoff_supervisor.py over the transitions of   *)
(* handsoff_runtime_control.py: an episode of active time that reaches its *)
(* budget is paused, a paused run starts no new work, and a decision of    *)
(* the Pilot, made once or standing, opens the next episode.               *)
(*                                                                         *)
(* An episode is its start and, once paused, its pause; a resumed episode  *)
(* keeps its pause.  A history is therefore the sequence of these moments, *)
(* start, pause, start, ...: an even length is a paused run.  The record   *)
(* file holds a history, and the append-only journal the moments that were *)
(* ever written first.  Every command refreshes the clock before it runs,  *)
(* without the project lock; performance-watch and performance-resume hold *)
(* it.  Human pauses are not active time.                                  *)
(***************************************************************************)
EXTENDS Integers, Sequences, FiniteSets, FiniteSetsExt, SequencesExt

CONSTANTS Gates,       \* commands and dashboard requests, all unlocked
          Watch,       \* the process of performance-watch
          Pilot,       \* the process of performance-resume
          NoActor,     \* nobody holds the project lock
          Budget,      \* active time of an episode (120 minutes)
          MaxTime,     \* bound: moments of the clock
          MaxTroubles  \* bound: human pauses, kills and losses of the record

NoRecord  == << >>
NoTime    == -1
Actors    == Gates \cup {Watch, Pilot}
Histories == Seq(0 .. MaxTime)

VARIABLES now,        \* the clock
          pauses,     \* human pauses in the event log: from, to
          standing,   \* when the standing auto-resume decision was made
          decided,    \* the last decision to go on, 0 for the start of the run
          record,     \* the history in the record file
          journal,    \* the moments the journal accepts
          torn,       \* the journal ends inside a line
          lock,       \* who holds the project lock
          call,       \* what each actor is doing
          troubles    \* human pauses and faults so far

vars == <<now, pauses, standing, decided, record, journal, torn, lock, call, troubles>>
files == <<pauses, standing, decided, record, journal, torn>>

Idle == [at |-> 0, hist |-> NoRecord, block |-> FALSE, step |-> "idle"]
Call == [at : 0 .. MaxTime, hist : Histories, block : BOOLEAN,
         step : {"idle", "write", "journal", "auto", "check", "granted"}]

Init ==
    /\ now = 0 /\ pauses = << >> /\ standing = NoTime /\ decided = 0
    /\ record = NoRecord /\ journal = << >> /\ torn = FALSE
    /\ lock = NoActor /\ call = [a \in Actors |-> Idle] /\ troubles = 0

-----------------------------------------------------------------------------
\* Within a human pause that began at `since` or later.
Held(k, since) ==
    \E i \in DOMAIN pauses : /\ since <= pauses[i].from /\ pauses[i].from <= k
                             /\ pauses[i].to # NoTime => k < pauses[i].to

\* Time that counts: from a start, less the human pauses that began since.
Excluded(start, t)    == {k \in start .. t - 1 : Held(k, start)}
ActiveSince(start, t) == Cardinality((start .. t - 1) \ Excluded(start, t))

Paused(h) == h # NoRecord /\ Len(h) % 2 = 0

\* A lost record is replayed from the journal, else begun at the first event.
Rebuilt(t) == IF journal # << >> THEN journal ELSE <<0>>

Transitioned(h, t) ==
    IF ~Paused(h) /\ ActiveSince(Last(h), t) >= Budget THEN Append(h, t) ELSE h

Free(a) == lock \in {NoActor, a}

-----------------------------------------------------------------------------
\* refresh_performance_state, first half: the files as they are, judged now.
Read(a) ==
    /\ a # Pilot /\ call[a].step \in {"idle", "granted"}
    /\ a = Watch => lock = NoActor
    /\ LET h == Transitioned(IF record = NoRecord THEN Rebuilt(now) ELSE record, now)
       IN  call' = [call EXCEPT ![a] = [at |-> now, hist |-> h, block |-> Paused(h), step |-> "write"]]
    /\ lock' = IF a = Watch THEN Watch ELSE lock
    /\ UNCHANGED <<now, files, troubles>>

Resume ==
    /\ call[Pilot].step = "idle" /\ lock = NoActor /\ Paused(record)
    /\ call' = [call EXCEPT ![Pilot] = [at |-> now, hist |-> Append(record, now),
                                        block |-> FALSE, step |-> "write"]]
    /\ lock' = Pilot
    /\ UNCHANGED <<now, files, troubles>>

WriteRecord(a) ==
    /\ call[a].step = "write"
    /\ record' = call[a].hist
    /\ decided' = IF a = Pilot THEN Max({decided, call[a].at}) ELSE decided
    /\ call' = [call EXCEPT ![a].step = "journal"]
    /\ UNCHANGED <<now, pauses, standing, journal, torn, lock, troubles>>

\* The first write of a moment stands; a batch behind a torn line is refused.
Missing(a)     == SubSeq(call[a].hist, Len(journal) + 1, Len(call[a].hist))
Accepts(batch) == IF torn THEN journal ELSE journal \o batch

AppendJournal(a) ==
    /\ call[a].step = "journal"
    /\ IF Missing(a) = << >>
       THEN UNCHANGED <<journal, torn>>
       ELSE /\ Free(a)
            /\ journal' = Accepts(Missing(a))
            /\ torn' = FALSE
    /\ call' = [call EXCEPT ![a] = IF a = Pilot THEN Idle ELSE [call[a] EXCEPT !.step = "auto"]]
    /\ lock' = IF a # Watch /\ lock = a THEN NoActor ELSE lock
    /\ UNCHANGED <<now, pauses, standing, decided, record, troubles>>

\* _auto_resume_performance: a pause that began under the standing decision.
StandsFor(h) == Paused(h) /\ standing # NoTime /\ standing <= Last(h)

NoAutoResume(a) ==
    /\ call[a].step = "auto" /\ ~StandsFor(call[a].hist)
    /\ call' = [call EXCEPT ![a] = IF a = Watch THEN Idle ELSE [call[a] EXCEPT !.hist = NoRecord, !.step = "check"]]
    /\ lock' = IF a = Watch THEN NoActor ELSE lock
    /\ UNCHANGED <<now, files, troubles>>

Episodes(h) == (Len(h) + 1) \div 2

AutoResume(a) ==
    /\ call[a].step = "auto" /\ StandsFor(call[a].hist) /\ Free(a)
    /\ record = NoRecord \/ Episodes(record) = Episodes(call[a].hist)
    /\ LET h == Append(call[a].hist, call[a].at)
       IN  /\ record' = h
           /\ call' = [call EXCEPT ![a] = [call[a] EXCEPT !.hist = h, !.block = FALSE, !.step = "journal"]]
    /\ decided' = Max({decided, call[a].at})
    /\ lock' = a
    /\ UNCHANGED <<now, pauses, standing, journal, torn, troubles>>

\* Another refresh resumed it first; the answer is still that of the pause.
AutoResumedByAnother(a) ==
    /\ call[a].step = "auto" /\ StandsFor(call[a].hist) /\ Free(a)
    /\ record # NoRecord /\ Episodes(record) # Episodes(call[a].hist)
    /\ call' = [call EXCEPT ![a] = IF a = Watch THEN Idle
                                   ELSE [call[a] EXCEPT !.hist = NoRecord, !.step = "check"]]
    /\ lock' = IF a = Watch THEN NoActor ELSE lock
    /\ UNCHANGED <<now, files, troubles>>

\* performance_mutation_refusal: a blocked caller asks the record once more.
Grant(a) ==
    /\ call[a].step = "check" /\ (call[a].block => ~Paused(record))
    /\ call' = [call EXCEPT ![a].step = "granted"]
    /\ UNCHANGED <<now, files, lock, troubles>>

Refuse(a) ==
    /\ call[a].step = "check" /\ call[a].block /\ Paused(record)
    /\ call' = [call EXCEPT ![a] = Idle]
    /\ UNCHANGED <<now, files, lock, troubles>>

-----------------------------------------------------------------------------
\* The commands that write the event log, each under the project lock.
OpenPause == pauses # << >> /\ Last(pauses).to = NoTime

HumanPauseStart ==
    /\ lock = NoActor /\ ~OpenPause /\ troubles < MaxTroubles
    /\ pauses' = Append(pauses, [from |-> now, to |-> NoTime])
    /\ troubles' = troubles + 1
    /\ UNCHANGED <<now, standing, decided, record, journal, torn, lock, call>>

HumanPauseEnd ==
    /\ lock = NoActor /\ OpenPause
    /\ pauses' = [pauses EXCEPT ![Len(pauses)].to = now]
    /\ UNCHANGED <<now, standing, decided, record, journal, torn, lock, call, troubles>>

AutoResumeDecided(on) ==
    /\ lock = NoActor /\ on = (standing = NoTime)
    /\ standing' = IF on THEN now ELSE NoTime
    /\ UNCHANGED <<now, pauses, decided, record, journal, torn, lock, call, troubles>>

Tick ==
    /\ now < MaxTime
    /\ now' = now + 1
    /\ UNCHANGED <<files, lock, call, troubles>>

-----------------------------------------------------------------------------
\* Faults: a kill before or inside the append leaves part of a batch behind, and
\* maybe part of a line; anywhere else a killed call is one that goes on later.
KillInAppend(a) ==
    /\ troubles < MaxTroubles /\ call[a].step = "journal" /\ Free(a)
    /\ Missing(a) # << >> /\ ~torn
    /\ \E n \in 0 .. Len(Missing(a)) - 1 : journal' = journal \o SubSeq(Missing(a), 1, n)
    /\ torn' \in BOOLEAN
    /\ call' = [call EXCEPT ![a] = Idle]
    /\ lock' = IF lock = a THEN NoActor ELSE lock
    /\ troubles' = troubles + 1
    /\ UNCHANGED <<now, pauses, standing, decided, record>>

\* The record is removed or damaged.
LoseRecord ==
    /\ troubles < MaxTroubles /\ record # NoRecord
    /\ record' = NoRecord
    /\ troubles' = troubles + 1
    /\ UNCHANGED <<now, pauses, standing, decided, journal, torn, lock, call>>

-----------------------------------------------------------------------------
Continue(a) ==
    \/ WriteRecord(a) \/ AppendJournal(a)
    \/ NoAutoResume(a) \/ AutoResume(a) \/ AutoResumedByAnother(a)
    \/ Grant(a) \/ Refuse(a)

Next ==
    \/ \E a \in Actors : Read(a) \/ Continue(a) \/ KillInAppend(a)
    \/ Resume \/ HumanPauseStart \/ HumanPauseEnd \/ Tick \/ LoseRecord
    \/ \E on \in BOOLEAN : AutoResumeDecided(on)

Spec == Init /\ [][Next]_vars

\* A call that began goes on, and performance-watch runs for the run's life.
FairSpec == Spec /\ WF_vars(Read(Watch)) /\ \A a \in Actors : WF_vars(Continue(a))

-----------------------------------------------------------------------------
\* Every file and every call is well typed; only a locked actor holds the lock
\* for longer than one step, or a gate while it resumes.
TypeOK ==
    /\ now \in 0 .. MaxTime /\ troubles \in 0 .. MaxTroubles /\ torn \in BOOLEAN
    /\ standing \in {NoTime} \cup 0 .. MaxTime /\ decided \in 0 .. MaxTime
    /\ \A i \in DOMAIN pauses : pauses[i].from <= now /\ pauses[i].to \in {NoTime} \cup pauses[i].from .. now
    /\ record \in Histories /\ journal \in Histories
    /\ lock \in Actors \cup {NoActor}
    /\ call \in [Actors -> Call]
    /\ lock # NoActor => call[lock].step # "idle"

\* Active time since the last decision to go on, outside every human pause.
Spent(t) == Cardinality({k \in decided .. t - 1 : ~Held(k, 0)})

\* Whatever refreshes overwrite each other, whatever is killed or lost: a caller
\* that is told to go on asked before the budget was spent, or after a decision.
ClockNeverLooksYounger ==
    \A a \in Gates : call[a].step \in {"check", "granted"} /\ ~call[a].block => Spent(call[a].at) < Budget

\* docs/REFERENCE.md: paused_for_performance_review bounds new work.  No caller
\* starts new work that asked over budget and with no decision to go on.
PauseBoundsWork == \A a \in Gates : call[a].step = "granted" => Spent(call[a].at) < Budget

\* A run over its budget is paused, or somebody decides to go on.
Settled         == Paused(record) \/ Spent(now) < Budget
OverrunIsPaused == []<>Settled
=============================================================================
