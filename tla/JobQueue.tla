------------------------------ MODULE JobQueue ------------------------------
(***************************************************************************)
(* The Fleet job queue as it lies on disk: a journal of hash-chained lines *)
(* split into segments, a store that caches what the journal says, and     *)
(* checkpoint snapshots.  Every call takes one exclusive lock, loads (and  *)
(* heals) both, decides, appends its lines, rewrites the store and may     *)
(* rotate the segment.  The caller may be killed between any two writes    *)
(* and in the middle of an append.                                         *)
(*                                                                         *)
(* Only the holder of the lock is between two writes, so one program       *)
(* counter is enough.  The hash chain makes a line's identity its content  *)
(* and its place, so sequence numbers are positions; a snapshot's hash is  *)
(* the snapshot.  Job ids are positions in submission order.               *)
(***************************************************************************)
EXTENDS Integers, FiniteSets, SequencesExt

CONSTANTS
  Workers, NoWorker, Keys, LeaseTicks, MaxAttempts, MaxJobs,
  SegmentLines,  \* a segment longer than this is closed (segment_bytes)
  MaxTime,       \* bound: instants of the clock
  MaxLines,      \* bound: no call is started once the journal is this long
  MaxCrashes     \* bound: callers killed in a behaviour

ASSUME JobQueueAssumption ==
  /\ NoWorker \notin Workers /\ Keys # {}
  /\ LeaseTicks \in Nat \ {0} /\ MaxAttempts \in Nat \ {0} /\ MaxJobs \in Nat
  /\ SegmentLines \in Nat \ {0} /\ MaxTime \in Nat /\ MaxLines \in Nat /\ MaxCrashes \in Nat

VARIABLES
  lines,        \* the complete lines of the journal, all segments in order
  files,        \* how many segment files exist
  torn,         \* the last segment ends in an incomplete line
  store,        \* fleet-queue.json
  checkpoints,  \* the checkpoint-NNNNNN.json snapshots
  now,          \* the clock
  pc,           \* what the holder of the lock does next; "idle": the lock is free
  pending,      \* the line bodies the current call has decided to append
  acked,        \* lines covered by calls that returned; history only
  crashes

disk == <<lines, files, torn, store, checkpoints>>
vars == <<disk, now, pc, pending, acked, crashes>>

TerminalStates == {"succeeded", "failed", "cancelled"}
States == {"queued", "leased"} \cup TerminalStates
Ops == {"submit", "claim", "heartbeat", "succeed", "fail", "expire", "cancel", "checkpoint"}
Job == [key: Keys, state: States, attempts: Nat, max_attempts: Nat \ {0}, epoch: Nat,
        worker: Workers \cup {NoWorker}, expires_at: Nat]
Store == [last_seq: Nat, jobs: Seq(Job)]
EmptyStore == [last_seq |-> 0, jobs |-> <<>>]
Phases == {"idle", "heal", "ready", "append", "store", "snapshot", "checkpoint",
           "checkpoint_store", "touch"}

-----------------------------------------------------------------------------
(* Lines and what applying one does to a store. *)

\* A line body; each operation sets the fields it carries.
Entry(op, job) ==
  [op |-> op, job |-> job, worker |-> NoWorker, epoch |-> 0, expires_at |-> 0, attempts |-> 0,
   state |-> "queued", key |-> CHOOSE k \in Keys : TRUE, max_attempts |-> 1,
   segment |-> 0, snapshot |-> EmptyStore]

\* apply_line: the one place a job changes, for calls, healing and replay alike.
ApplyLine(st, line) ==
  LET i == line.job
      with(job) == [last_seq |-> st.last_seq + 1, jobs |-> [st.jobs EXCEPT ![i] = job]]
      old == st.jobs[i]
      free == [old EXCEPT !.worker = NoWorker, !.expires_at = 0]
  IN CASE line.op = "checkpoint" -> [st EXCEPT !.last_seq = @ + 1]
       [] line.op = "submit" ->
            [last_seq |-> st.last_seq + 1,
             jobs |-> Append(st.jobs,
               [key |-> line.key, state |-> "queued", attempts |-> 0,
                max_attempts |-> line.max_attempts, epoch |-> 0,
                worker |-> NoWorker, expires_at |-> 0])]
       [] line.op = "claim" ->
            with([old EXCEPT !.state = "leased", !.epoch = line.epoch,
                             !.worker = line.worker, !.expires_at = line.expires_at])
       [] line.op = "heartbeat" -> with([old EXCEPT !.expires_at = line.expires_at])
       [] line.op \in {"fail", "expire"} ->
            with([free EXCEPT !.attempts = line.attempts, !.state = line.state])
       [] line.op = "succeed" -> with([free EXCEPT !.state = "succeeded"])
       [] line.op = "cancel" -> with([free EXCEPT !.state = "cancelled"])

\* A function of the position, and not a fold, so that it can be reasoned about.
ApplyAll(st, ls) ==
  LET after[n \in 0..Len(ls)] == IF n = 0 THEN st ELSE ApplyLine(after[n - 1], ls[n])
  IN  after[Len(ls)]
From(ls, n) == SubSeq(ls, n + 1, Len(ls))

\* replay(from_start=True)
Replay(ls) == ApplyAll(EmptyStore, ls)

\* _active_segment: the one after the last checkpoint line, else the last file.
ActiveSegment ==
  IF lines # <<>> /\ Last(lines).op = "checkpoint" THEN Last(lines).segment
  ELSE IF files = 0 THEN 1 ELSE files

LinesIn(n) == {k \in DOMAIN lines : lines[k].in = n}

\* Line k is a checkpoint that ends segment n: it names the next, and the first
\* n segments hold the lines as far as this one.
Closes(k, n) ==
  /\ lines[k].op = "checkpoint" /\ lines[k].segment = n + 1
  /\ \A j \in DOMAIN lines : lines[j].in <= n <=> j <= k

\* _read_journal and _load find nothing they must refuse as corrupt: every
\* closed segment ends with a checkpoint that names the next, a torn tail is
\* beyond everything the store has absorbed, and the store is not ahead.
JournalAccepted ==
  /\ \A n \in 1..(files - 1) : \E k \in DOMAIN lines : Closes(k, n)
  /\ torn => Len(lines) >= store.last_seq
  /\ store.last_seq <= Len(lines)

\* Variants with a plausible bug stand before the definition they alter and
\* are used nowhere.
VerifiedByNumber(c) == c.seq \in 1..Len(lines) /\ c.store.last_seq = c.seq

\* _latest_verified_checkpoint: snapshots that a checkpoint line still vouches for.
Verified(c) ==
  /\ c.seq \in 1..Len(lines)
  /\ lines[c.seq].op = "checkpoint" /\ lines[c.seq].segment = c.segment
  /\ lines[c.seq].snapshot = c.store
  /\ c.store.last_seq = c.seq

-----------------------------------------------------------------------------
Init ==
  /\ lines = <<>> /\ files = 0 /\ torn = FALSE
  /\ store = EmptyStore /\ checkpoints = {}
  /\ now = 0 /\ pc = "idle" /\ pending = <<>>
  /\ acked = 0 /\ crashes = 0

\* The call returns; what it has written is then what it promised.
Return == pc' = "idle" /\ pending' = <<>> /\ acked' = Len(lines)

OpenCutsOneMore ==
  /\ pc = "idle"
  /\ Len(lines) < MaxLines
  /\ JournalAccepted
  /\ torn' = FALSE
  /\ lines' = IF torn /\ lines # <<>> THEN Front(lines) ELSE lines
  /\ pc' = "heal"
  /\ UNCHANGED <<files, store, checkpoints, now, pending, acked, crashes>>

\* A call takes the lock and reads; an unfinished last line is cut off.
Open ==
  /\ pc = "idle"
  /\ Len(lines) < MaxLines
  /\ JournalAccepted
  /\ torn' = FALSE
  /\ pc' = "heal"
  /\ UNCHANGED <<lines, files, store, checkpoints, now, pending, acked, crashes>>

HealNothing ==
  /\ pc = "heal"
  /\ pc' = "ready"
  /\ UNCHANGED <<disk, now, pending, acked, crashes>>

\* Lines the store has not absorbed are applied and the store is rewritten.
Heal ==
  /\ pc = "heal"
  /\ store' = ApplyAll(store, From(lines, store.last_seq))
  /\ pc' = "ready"
  /\ UNCHANGED <<lines, files, torn, checkpoints, now, pending, acked, crashes>>

\* load, job, journal and replay only read.
Read ==
  /\ pc = "ready"
  /\ Return
  /\ UNCHANGED <<disk, now, crashes>>

Decide(entries) ==
  /\ pending' = entries
  /\ pc' = "append"
  /\ UNCHANGED <<disk, now, acked, crashes>>

Ids == 1..Len(store.jobs)
ExpiredJob(i) == store.jobs[i].state = "leased" /\ now >= store.jobs[i].expires_at
AttemptsLeft(i) == store.jobs[i].attempts - 1

AttemptsAfter(i) == store.jobs[i].attempts + 1
StateAfter(i) == IF AttemptsAfter(i) >= store.jobs[i].max_attempts THEN "failed" ELSE "queued"

SubmitCall(key, max) ==
  /\ pc = "ready"
  /\ \A i \in Ids : store.jobs[i].key # key
  /\ Len(store.jobs) < MaxJobs
  /\ Decide(<<[Entry("submit", Len(store.jobs) + 1) EXCEPT !.key = key, !.max_attempts = max]>>)

\* claim: jobs in submission order; every expired lease on the way is given
\* back, and the first job that is queued by then is granted.
Expiry(i) ==
  [Entry("expire", i) EXCEPT !.worker = store.jobs[i].worker, !.epoch = store.jobs[i].epoch,
                             !.attempts = AttemptsAfter(i), !.state = StateAfter(i)]
Granting(i, worker, ticks) ==
  [Entry("claim", i) EXCEPT !.worker = worker, !.epoch = store.jobs[i].epoch + 1, !.expires_at = now + ticks]
QueuedByNow(i) == store.jobs[i].state = "queued" \/ (ExpiredJob(i) /\ StateAfter(i) = "queued")

ScanOne(before, i, worker, ticks) ==
  IF before # <<>> /\ Last(before).op = "claim" THEN before
  ELSE before \o (IF ExpiredJob(i) THEN <<Expiry(i)>> ELSE <<>>)
              \o (IF QueuedByNow(i) THEN <<Granting(i, worker, ticks)>> ELSE <<>>)
Scan(worker, ticks) ==
  LET scan[i \in 0..Len(store.jobs)] == IF i = 0 THEN <<>> ELSE ScanOne(scan[i - 1], i, worker, ticks)
  IN  scan[Len(store.jobs)]

ClaimCall(worker, ticks) ==
  /\ pc = "ready"
  /\ Scan(worker, ticks) # <<>>
  /\ Decide(Scan(worker, ticks))

OwnedForever(i, worker, epoch) ==
  /\ pc = "ready"
  /\ store.jobs[i].state = "leased"
  /\ store.jobs[i].worker = worker /\ store.jobs[i].epoch = epoch

\* _owned: the same worker and epoch, and the lease has time left.
Owned(i, worker, epoch) ==
  /\ pc = "ready"
  /\ store.jobs[i].state = "leased"
  /\ store.jobs[i].worker = worker /\ store.jobs[i].epoch = epoch
  /\ now < store.jobs[i].expires_at

OwnerEntry(op, i) ==
  [Entry(op, i) EXCEPT !.worker = store.jobs[i].worker, !.epoch = store.jobs[i].epoch]

HeartbeatCall(i, worker, epoch, ticks) ==
  Owned(i, worker, epoch) /\ Decide(<<[OwnerEntry("heartbeat", i) EXCEPT !.expires_at = now + ticks]>>)
SucceedCall(i, worker, epoch) ==
  Owned(i, worker, epoch) /\ Decide(<<OwnerEntry("succeed", i)>>)
FailCall(i, worker, epoch) ==
  Owned(i, worker, epoch)
  /\ Decide(<<[OwnerEntry("fail", i) EXCEPT !.attempts = AttemptsAfter(i), !.state = StateAfter(i)]>>)
CancelCall(i) ==
  /\ pc = "ready"
  /\ store.jobs[i].state \notin TerminalStates
  /\ Decide(<<Entry("cancel", i)>>)

Call ==
  \/ \E key \in Keys, max \in 1..MaxAttempts : SubmitCall(key, max)
  \/ \E w \in Workers, ticks \in 1..LeaseTicks : ClaimCall(w, ticks)
  \/ \E i \in Ids, w \in Workers : \E e \in 1..store.jobs[i].epoch :
       \/ \E ticks \in 1..LeaseTicks : HeartbeatCall(i, w, e, ticks)
       \/ SucceedCall(i, w, e) \/ FailCall(i, w, e)
  \/ \E i \in Ids : CancelCall(i)

-----------------------------------------------------------------------------
(* _commit and _rotate *)

Larger(a, b) == IF a > b THEN a ELSE b
WithSegment(entry) ==
  [op |-> entry.op, job |-> entry.job, worker |-> entry.worker, epoch |-> entry.epoch,
   expires_at |-> entry.expires_at, attempts |-> entry.attempts, state |-> entry.state,
   key |-> entry.key, max_attempts |-> entry.max_attempts, segment |-> entry.segment,
   snapshot |-> entry.snapshot, in |-> ActiveSegment]

\* The lines of a call reach the file one after the other.
AppendLine ==
  /\ pc = "append"
  /\ lines' = Append(lines, WithSegment(Head(pending)))
  /\ files' = Larger(files, ActiveSegment)
  /\ pending' = Tail(pending)
  /\ pc' = IF Tail(pending) = <<>> THEN "store" ELSE "append"
  /\ UNCHANGED <<torn, store, checkpoints, now, acked, crashes>>

WriteStore ==
  /\ pc = "store"
  /\ store' = ApplyAll(store, From(lines, store.last_seq))
  /\ IF Cardinality(LinesIn(files)) > SegmentLines
     THEN pc' = "snapshot" /\ UNCHANGED <<pending, acked>>
     ELSE Return
  /\ UNCHANGED <<lines, files, torn, checkpoints, now, crashes>>

\* The snapshot of the store as it will be once the checkpoint line is applied.
Snapshot == [store EXCEPT !.last_seq = @ + 1]

WriteSnapshotAndTouch ==
  /\ pc = "snapshot"
  /\ checkpoints' = {c \in checkpoints : c.segment # files + 1}
                      \cup {[segment |-> files + 1, seq |-> Snapshot.last_seq, store |-> Snapshot]}
  /\ files' = files + 1
  /\ pc' = "checkpoint"
  /\ UNCHANGED <<lines, torn, store, now, pending, acked, crashes>>

WriteSnapshot ==
  /\ pc = "snapshot"
  /\ checkpoints' = {c \in checkpoints : c.segment # files + 1}
                      \cup {[segment |-> files + 1, seq |-> Snapshot.last_seq, store |-> Snapshot]}
  /\ pc' = "checkpoint"
  /\ UNCHANGED <<lines, files, torn, store, now, pending, acked, crashes>>

AppendCheckpoint ==
  /\ pc = "checkpoint"
  /\ lines' = Append(lines, WithSegment(
       [Entry("checkpoint", 0) EXCEPT !.segment = files + 1, !.snapshot = Snapshot]))
  /\ pc' = "checkpoint_store"
  /\ UNCHANGED <<files, torn, store, checkpoints, now, pending, acked, crashes>>

WriteCheckpointStore ==
  /\ pc = "checkpoint_store"
  /\ store' = ApplyAll(store, From(lines, store.last_seq))
  /\ pc' = "touch"
  /\ UNCHANGED <<lines, files, torn, checkpoints, now, pending, acked, crashes>>

TouchSegment ==
  /\ pc = "touch"
  /\ files' = Last(lines).segment
  /\ Return
  /\ UNCHANGED <<lines, torn, store, checkpoints, now, crashes>>

Continue ==
  \/ Heal \/ AppendLine \/ WriteStore \/ WriteSnapshot \/ AppendCheckpoint
  \/ WriteCheckpointStore \/ TouchSegment

-----------------------------------------------------------------------------
(* Time and death *)

\* A call reads the clock once and its lines carry that reading; nobody else
\* looks at the clock while it holds the lock.
Tick ==
  /\ now < MaxTime
  /\ pc # "append"
  /\ now' = now + 1
  /\ UNCHANGED <<disk, pc, pending, acked, crashes>>

Crash ==
  /\ pc # "idle" /\ crashes < MaxCrashes
  /\ crashes' = crashes + 1
  /\ pc' = "idle" /\ pending' = <<>>
  /\ UNCHANGED <<disk, now, acked>>

\* Killed inside an append: the segment file exists, and part of the next
\* line may be on disk, perhaps all of it but its newline.
CrashInAppend ==
  /\ pc \in {"append", "checkpoint"} /\ crashes < MaxCrashes
  /\ torn' \in BOOLEAN
  /\ files' = Larger(files, ActiveSegment)
  /\ crashes' = crashes + 1
  /\ pc' = "idle" /\ pending' = <<>>
  /\ UNCHANGED <<lines, store, checkpoints, now, acked>>

Next == Open \/ Read \/ Call \/ Continue \/ Tick \/ Crash \/ CrashInAppend

Spec == Init /\ [][Next]_vars

-----------------------------------------------------------------------------
(* Properties *)

Body == [op: Ops, job: Nat, worker: Workers \cup {NoWorker}, epoch: Nat, expires_at: Nat,
         attempts: Nat, state: States, key: Keys, max_attempts: Nat \ {0}, segment: Nat,
         snapshot: Store]
Line == [op: Ops, job: Nat, worker: Workers \cup {NoWorker}, epoch: Nat, expires_at: Nat,
         attempts: Nat, state: States, key: Keys, max_attempts: Nat \ {0}, segment: Nat,
         snapshot: Store, in: Nat]

\* Every variable holds a value of its kind.  (apply_line, _commit)
TypeOK ==
  /\ lines \in Seq(Line) /\ files \in Nat /\ torn \in BOOLEAN
  /\ store \in Store
  /\ checkpoints \subseteq [segment: Nat, seq: Nat, store: Store]
  /\ now \in Nat /\ pc \in Phases /\ pending \in Seq(Body) /\ acked \in Nat /\ crashes \in Nat

\* No sequence of calls and kills, rotations included, leaves a queue that the
\* next call refuses as corrupt.  (_read_journal, _rotate, _active_segment)
CrashesNeverCorrupt == pc = "idle" => JournalAccepted

\* The store is never anything but a prefix of the journal replayed, a call
\* decides on all of it, and replaying from any snapshot a checkpoint line
\* vouches for gives what replaying from the first segment gives.
\* (_load, apply_line, replay, _rotate)
StoreIsReplay ==
  /\ store = Replay(SubSeq(lines, 1, store.last_seq))
  /\ pc = "ready" => store.last_seq = Len(lines)
  /\ \A c \in checkpoints : Verified(c) => ApplyAll(c.store, From(lines, c.seq)) = Replay(lines)

\* Nothing a returned call wrote is ever lost or rewritten, whatever tail a
\* later load cuts off.  (_discard_torn_tail)
NothingAcknowledgedIsLost ==
  [][Len(lines') >= acked' /\ SubSeq(lines', 1, acked) = SubSeq(lines, 1, acked)]_vars

\* The journal, read as a list of jobs (the store with the lines it has not
\* absorbed, which StoreIsReplay shows to be the whole journal replayed), behaves as JobLease promises: every
\* appended line is one of its actions, whatever is killed where.
Journalled == ApplyAll(store, From(lines, store.last_seq)).jobs
LeaseOf(job) ==
  [key |-> job.key, state |-> job.state, attempts |-> job.attempts, max_attempts |-> job.max_attempts,
   epoch |-> job.epoch, worker |-> job.worker,
   left |-> IF job.state = "leased" /\ job.expires_at > now THEN job.expires_at - now ELSE 0]
AbstractJobs == [i \in DOMAIN Journalled |-> LeaseOf(Journalled[i])]
Lease == INSTANCE JobLease WITH jobs <- AbstractJobs
ImplementsJobLease == Lease!Spec

=============================================================================
