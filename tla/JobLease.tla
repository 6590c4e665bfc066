------------------------------ MODULE JobLease ------------------------------
(***************************************************************************)
(* What the Fleet job queue promises its workers, without its files: a     *)
(* list of jobs in submission order, each queued, leased to one worker for *)
(* a bounded time, or ended.  Each action is one line of the queue's       *)
(* journal, so a call that journals several lines is several actions, of   *)
(* which a crash may leave only the first ones.                            *)
(*                                                                         *)
(* A lease keeps the time it has left instead of the instant at which it   *)
(* expires: `now >= expires_at` in the code is `left = 0` here.            *)
(***************************************************************************)
EXTENDS Integers, Sequences

CONSTANTS
  Workers, NoWorker,
  Keys,          \* idempotency keys
  LeaseTicks,    \* longest lease a worker asks for
  MaxAttempts,   \* largest max_attempts a submitter asks for
  MaxJobs        \* the queue's capacity

ASSUME JobLeaseAssumption ==
  /\ NoWorker \notin Workers
  /\ LeaseTicks \in Nat \ {0} /\ MaxAttempts \in Nat \ {0} /\ MaxJobs \in Nat

TerminalStates == {"succeeded", "failed", "cancelled"}
States == {"queued", "leased"} \cup TerminalStates
Job == [key: Keys, state: States, attempts: Nat, max_attempts: Nat \ {0}, epoch: Nat,
        worker: Workers \cup {NoWorker}, left: Nat]

VARIABLE jobs    \* every job ever submitted, in order

Ids == 1..Len(jobs)
Leased(i) == jobs[i].state = "leased"
Expired(i) == Leased(i) /\ jobs[i].left = 0
Ended(i) == jobs[i].state \in TerminalStates

\* _owned: the call comes from the worker and epoch that hold a live lease.
Owns(i, w, e) == Leased(i) /\ jobs[i].worker = w /\ jobs[i].epoch = e /\ jobs[i].left > 0

\* Variants with a plausible bug stand before the definition they alter and
\* are used nowhere.
GivenBackOnceMore(job) ==
  [job EXCEPT !.attempts = @ + 1, !.worker = NoWorker, !.left = 0,
              !.state = IF job.attempts >= job.max_attempts THEN "failed" ELSE "queued"]

\* A job whose lease ends without success: back in the queue, or failed.
GivenBack(job) ==
  [job EXCEPT !.attempts = @ + 1, !.worker = NoWorker, !.left = 0,
              !.state = IF job.attempts + 1 >= job.max_attempts THEN "failed" ELSE "queued"]

Init == jobs = <<>>

SubmitAgain(key, max) ==
  /\ Len(jobs) < MaxJobs
  /\ jobs' = Append(jobs, [key |-> key, state |-> "queued", attempts |-> 0, max_attempts |-> max,
                           epoch |-> 0, worker |-> NoWorker, left |-> 0])

\* A key the queue does not know becomes a job; a known key writes nothing.
Submit(key, max) ==
  /\ Len(jobs) < MaxJobs
  /\ \A i \in Ids : jobs[i].key # key
  /\ jobs' = Append(jobs, [key |-> key, state |-> "queued", attempts |-> 0, max_attempts |-> max,
                           epoch |-> 0, worker |-> NoWorker, left |-> 0])

\* A claim scans the jobs in submission order and stops at the first one it can
\* grant, so it reaches job i only past jobs that are neither queued nor expired.
Reached(i) == \A k \in 1..(i - 1) : jobs[k].state # "queued" /\ ~Expired(k)

\* A claim finds a lease that ran out.
Expire(i) ==
  /\ Expired(i) /\ Reached(i)
  /\ jobs' = [jobs EXCEPT ![i] = GivenBack(@)]

GrantLeased(i, w, ticks) ==
  /\ ~Ended(i) /\ Reached(i)
  /\ jobs' = [jobs EXCEPT ![i].state = "leased", ![i].epoch = @ + 1,
                          ![i].worker = w, ![i].left = ticks]

\* A claim grants the first queued job for as long as the worker asks.
Grant(i, w, ticks) ==
  /\ jobs[i].state = "queued" /\ Reached(i)
  /\ jobs' = [jobs EXCEPT ![i].state = "leased", ![i].epoch = @ + 1,
                          ![i].worker = w, ![i].left = ticks]

\* The owner sets its lease to run from now; that may shorten it.
Heartbeat(i, w, e, ticks) ==
  /\ Owns(i, w, e)
  /\ jobs' = [jobs EXCEPT ![i].left = ticks]

Succeed(i, w, e) ==
  /\ Owns(i, w, e)
  /\ jobs' = [jobs EXCEPT ![i].state = "succeeded", ![i].worker = NoWorker, ![i].left = 0]

Fail(i, w, e) ==
  /\ Owns(i, w, e)
  /\ jobs' = [jobs EXCEPT ![i] = GivenBack(@)]

Cancel(i) ==
  /\ ~Ended(i)
  /\ jobs' = [jobs EXCEPT ![i].state = "cancelled", ![i].worker = NoWorker, ![i].left = 0]

TickPastZero ==
  /\ \E i \in Ids : Leased(i) /\ jobs[i].left > 0
  /\ jobs' = [i \in Ids |-> IF Leased(i) THEN [jobs[i] EXCEPT !.left = @ - 1] ELSE jobs[i]]

\* One unit of time passes for every lease.
Tick ==
  /\ \E i \in Ids : Leased(i) /\ jobs[i].left > 0
  /\ jobs' = [i \in Ids |-> IF jobs[i].left > 0 THEN [jobs[i] EXCEPT !.left = @ - 1] ELSE jobs[i]]

ClaimWithoutExpiry(w) == \E i \in Ids, ticks \in 1..LeaseTicks : Grant(i, w, ticks)

Claim(w) == \E i \in Ids : Expire(i) \/ \E ticks \in 1..LeaseTicks : Grant(i, w, ticks)
OwnerCall(i, w, e) ==
  \/ \E ticks \in 1..LeaseTicks : Heartbeat(i, w, e, ticks)
  \/ Succeed(i, w, e) \/ Fail(i, w, e)

Next ==
  \/ \E key \in Keys, max \in 1..MaxAttempts : Submit(key, max)
  \/ \E w \in Workers : Claim(w)
  \/ \E i \in Ids, w \in Workers : \E e \in 1..jobs[i].epoch : OwnerCall(i, w, e)
  \/ \E i \in Ids : Cancel(i)
  \/ Tick

Spec == Init /\ [][Next]_jobs

\* Somebody keeps claiming and time passes; an owner need never come back.
FairSpec == Spec /\ WF_jobs(\E w \in Workers : Claim(w)) /\ WF_jobs(Tick)

-----------------------------------------------------------------------------
(* Properties *)

\* Every job is a well-formed job.  (apply_line)
TypeOK == jobs \in Seq(Job)

\* A job is granted once per attempt and never again after its last one: the
\* epoch counts the attempts that ended badly plus the grant that is open, and
\* stays within max_attempts whatever mix of expiries, failures and stale
\* calls the workers produce.  (claim, fail)
GrantsBounded ==
  \A i \in Ids :
    /\ jobs[i].state = "queued" => jobs[i].epoch = jobs[i].attempts
    /\ jobs[i].state \in {"leased", "succeeded"} => jobs[i].epoch = jobs[i].attempts + 1
    /\ jobs[i].state = "failed" <=> jobs[i].attempts = jobs[i].max_attempts
    /\ jobs[i].epoch <= jobs[i].max_attempts

\* No two jobs answer to one idempotency key, however often it is submitted.  (submit)
KeysUnique == \A i, k \in Ids : jobs[i].key = jobs[k].key => i = k

\* What a later state may do to a job: it never disappears or changes its key,
\* an ended job never changes again, its epoch never goes back, and a worker
\* whose lease still has time keeps it unless its own call or a cancellation
\* ends it: nobody else is granted the job meanwhile.  (the fencing token)
Fenced ==
  [][\A i \in Ids :
       /\ i \in DOMAIN jobs' /\ jobs'[i].key = jobs[i].key
       /\ Ended(i) => jobs'[i] = jobs[i]
       /\ jobs'[i].epoch >= jobs[i].epoch
       /\ (jobs[i].left > 0 /\ jobs'[i].state = "leased") =>
            jobs'[i].worker = jobs[i].worker /\ jobs'[i].epoch = jobs[i].epoch]_jobs

\* Time and again every submitted job has ended, unless some owner keeps renewing
\* a lease for ever: leases of dead workers run out, and nothing stays behind in
\* the queue.
SomeHeartbeat ==
  \E i \in Ids, w \in Workers, ticks \in 1..LeaseTicks : Heartbeat(i, w, jobs[i].epoch, ticks)
AllEnded == \A i \in Ids : Ended(i)
EveryJobEnds == []<>AllEnded \/ []<><<SomeHeartbeat>>_jobs

=============================================================================
