--------------------------- MODULE JobLeaseProofs ---------------------------
(***************************************************************************)
(* Proofs about JobLease: every job stays well formed, the number of       *)
(* grants is bounded by max_attempts, idempotency keys stay unique, and    *)
(* the fencing promise holds of every step.  All four follow from TypeOK,  *)
(* GrantsBounded and KeysUnique together, which is inductive.              *)
(***************************************************************************)
EXTENDS JobLease, TLAPS

\* What any one step can do to a list of jobs: add one, or change one.
LEMMA Replaced ==
  ASSUME TypeOK, NEW i \in Ids, NEW job \in Job, jobs' = [jobs EXCEPT ![i] = job]
  PROVE  /\ TypeOK'
         /\ Ids' = Ids
         /\ \A k \in Ids : jobs'[k] = IF k = i THEN job ELSE jobs[k]
  BY DEF TypeOK, Ids

LEMMA Added ==
  ASSUME TypeOK, NEW job \in Job, jobs' = Append(jobs, job)
  PROVE  /\ TypeOK'
         /\ Ids' = Ids \cup {Len(jobs) + 1}
         /\ \A k \in Ids : jobs'[k] = jobs[k]
         /\ jobs'[Len(jobs) + 1] = job
  BY DEF TypeOK, Ids

LEMMA Aged ==
  ASSUME TypeOK, Tick
  PROVE  /\ TypeOK'
         /\ Ids' = Ids
         /\ \A k \in Ids :
              jobs'[k] = IF jobs[k].left > 0 THEN [jobs[k] EXCEPT !.left = @ - 1] ELSE jobs[k]
<1> DEFINE aged(k) == IF jobs[k].left > 0 THEN [jobs[k] EXCEPT !.left = @ - 1] ELSE jobs[k]
<1>1. Len(jobs) \in Nat /\ \A k \in Ids : jobs[k] \in Job
  BY DEF TypeOK, Ids
<1>2. \A k \in Ids : aged(k) \in Job
  <2> SUFFICES ASSUME NEW k \in Ids PROVE aged(k) \in Job
    OBVIOUS
  <2>1. CASE jobs[k].left > 0
    <3>1. jobs[k].left - 1 \in Nat
      BY <1>1, <2>1 DEF Job
    <3> QED BY <1>1, <2>1, <3>1 DEF Job
  <2>2. CASE ~(jobs[k].left > 0)
    BY <1>1, <2>2
  <2> QED BY <2>1, <2>2
<1>3. jobs' = [k \in 1..Len(jobs) |-> aged(k)]
  BY DEF Tick, Ids
<1> HIDE DEF aged
<1>4. jobs' \in Seq(Job) /\ Len(jobs') = Len(jobs)
  BY <1>1, <1>2, <1>3 DEF Ids
<1>5. \A k \in Ids : jobs'[k] = aged(k)
  BY <1>3 DEF Ids
<1> QED BY <1>4, <1>5 DEF TypeOK, Ids, aged

-----------------------------------------------------------------------------
\* The shape of the job each action leaves at the place it touches.
After(i, job) == jobs' = [jobs EXCEPT ![i] = job]

LEMMA GrantShape ==
  ASSUME JobLeaseAssumption, TypeOK, NEW i \in Ids, NEW w \in Workers, NEW ticks \in 1..LeaseTicks,
         Grant(i, w, ticks)
  PROVE  LET job == [jobs[i] EXCEPT !.state = "leased", !.epoch = @ + 1, !.worker = w, !.left = ticks]
         IN job \in Job /\ After(i, job)
<1>1. jobs[i] \in Job
  BY DEF TypeOK, Ids
<1>2. jobs[i].epoch + 1 \in Nat /\ ticks \in Nat
  BY <1>1 DEF Job, JobLeaseAssumption
<1> QED BY <1>1, <1>2 DEF Grant, After, Job, States, Ids, TypeOK

LEMMA HeartbeatShape ==
  ASSUME JobLeaseAssumption, TypeOK, NEW i \in Ids, NEW w \in Workers, NEW e, NEW ticks \in 1..LeaseTicks,
         Heartbeat(i, w, e, ticks)
  PROVE  LET job == [jobs[i] EXCEPT !.left = ticks] IN job \in Job /\ After(i, job)
<1>1. jobs[i] \in Job /\ ticks \in Nat
  BY DEF TypeOK, Ids, JobLeaseAssumption
<1> QED BY <1>1 DEF Heartbeat, After, Job, Ids, TypeOK

LEMMA EndShape ==
  ASSUME TypeOK, NEW i \in Ids, NEW s \in {"succeeded", "cancelled"},
         jobs' = [jobs EXCEPT ![i].state = s, ![i].worker = NoWorker, ![i].left = 0]
  PROVE  LET job == [jobs[i] EXCEPT !.state = s, !.worker = NoWorker, !.left = 0]
         IN job \in Job /\ After(i, job)
<1>1. jobs[i] \in Job
  BY DEF TypeOK, Ids
<1> QED BY <1>1 DEF After, Job, States, TerminalStates, Ids, TypeOK

LEMMA GivenBackShape ==
  ASSUME TypeOK, NEW i \in Ids
  PROVE  GivenBack(jobs[i]) \in Job
<1>1. jobs[i] \in Job
  BY DEF TypeOK, Ids
<1>2. jobs[i].attempts + 1 \in Nat
  BY <1>1 DEF Job
<1> QED BY <1>1, <1>2 DEF GivenBack, Job, States, TerminalStates

LEMMA SubmitShape ==
  ASSUME JobLeaseAssumption, TypeOK, NEW key \in Keys, NEW max \in 1..MaxAttempts
  PROVE  [key |-> key, state |-> "queued", attempts |-> 0, max_attempts |-> max,
          epoch |-> 0, worker |-> NoWorker, left |-> 0] \in Job
<1>1. max \in Nat \ {0}
  BY DEF JobLeaseAssumption
<1> QED BY <1>1 DEF Job, States, TerminalStates

-----------------------------------------------------------------------------
(* The invariant, one job at a time. *)

Bounded(job) ==
  /\ job.state = "queued" => job.epoch = job.attempts
  /\ job.state \in {"leased", "succeeded"} => job.epoch = job.attempts + 1
  /\ job.state = "failed" <=> job.attempts = job.max_attempts
  /\ job.epoch <= job.max_attempts

\* A lease that has run out has no time left, and only a lease has any.
Timed(job) == job.left > 0 => job.state = "leased"

\* What Fenced says of one job.
Follows(new, old) ==
  /\ new.key = old.key
  /\ old.state \in TerminalStates => new = old
  /\ new.epoch >= old.epoch
  /\ (old.left > 0 /\ new.state = "leased") => new.worker = old.worker /\ new.epoch = old.epoch

Inv == TypeOK /\ KeysUnique /\ \A i \in Ids : Bounded(jobs[i]) /\ Timed(jobs[i])
Good == Inv' /\ \A i \in Ids : i \in DOMAIN jobs' /\ Follows(jobs'[i], jobs[i])

\* A step that changes one job is good if that job's change is.
LEMMA ReplacedGood ==
  ASSUME Inv, NEW i \in Ids, NEW job \in Job, After(i, job),
         Bounded(job), Timed(job), Follows(job, jobs[i])
  PROVE  Good
<1>1. /\ TypeOK' /\ Ids' = Ids
      /\ \A k \in Ids : jobs'[k] = IF k = i THEN job ELSE jobs[k]
  BY Replaced DEF Inv, After
<1>2. \A k \in Ids : jobs[k] \in Job
  BY DEF Inv, TypeOK, Ids
<1>3. \A k \in Ids : Bounded(jobs'[k]) /\ Timed(jobs'[k])
  BY <1>1 DEF Inv
<1>4. \A k \in Ids : Follows(jobs'[k], jobs[k])
  BY <1>1, <1>2 DEF Follows, Job
<1>5. \A k \in Ids : jobs'[k].key = jobs[k].key
  BY <1>4 DEF Follows
<1>6. KeysUnique'
  BY <1>1, <1>5 DEF Inv, KeysUnique
<1>7. \A k \in Ids : k \in DOMAIN jobs'
  BY <1>1 DEF TypeOK, Ids
<1> QED BY <1>1, <1>3, <1>4, <1>6, <1>7 DEF Good, Inv

LEMMA SubmitGood ==
  ASSUME JobLeaseAssumption, Inv, NEW key \in Keys, NEW max \in 1..MaxAttempts, Submit(key, max)
  PROVE  Good
<1> DEFINE job == [key |-> key, state |-> "queued", attempts |-> 0, max_attempts |-> max,
                   epoch |-> 0, worker |-> NoWorker, left |-> 0]
<1>1. job \in Job
  BY SubmitShape DEF Inv
<1>2. jobs' = Append(jobs, job)
  BY DEF Submit
<1>3. Bounded(job) /\ Timed(job) /\ job.key = key
  <2>1. max \in Nat /\ max >= 1
    BY DEF JobLeaseAssumption
  <2> QED BY <2>1 DEF Bounded, Timed
<1> HIDE DEF job
<1>4. /\ TypeOK' /\ Ids' = Ids \cup {Len(jobs) + 1}
      /\ \A k \in Ids : jobs'[k] = jobs[k]
      /\ jobs'[Len(jobs) + 1] = job
  BY <1>1, <1>2, Added DEF Inv
<1>5. \A k \in Ids : jobs[k] \in Job
  BY DEF Inv, TypeOK, Ids
<1>6. (\A k \in Ids : Bounded(jobs[k]) /\ Timed(jobs[k]))'
  BY <1>3, <1>4 DEF Inv
<1>7. KeysUnique'
  <2>1. \A k \in Ids : jobs[k].key # key
    BY DEF Submit
  <2> QED BY <1>3, <1>4, <2>1 DEF Inv, KeysUnique
<1>8. \A k \in Ids : Follows(jobs'[k], jobs[k])
  BY <1>4, <1>5 DEF Follows, Job
<1>9. \A k \in Ids : k \in DOMAIN jobs'
  BY <1>4 DEF TypeOK, Ids
<1> QED BY <1>4, <1>6, <1>7, <1>8, <1>9 DEF Good, Inv

LEMMA GivenBackGood ==
  ASSUME Inv, NEW i \in Ids, Leased(i), jobs' = [jobs EXCEPT ![i] = GivenBack(@)]
  PROVE  Good
<1>1. jobs[i] \in Job /\ GivenBack(jobs[i]) \in Job
  BY GivenBackShape DEF Inv, TypeOK, Ids
<1>2. After(i, GivenBack(jobs[i]))
  BY DEF After, Inv, TypeOK, Ids
<1>3. Bounded(jobs[i])
  BY DEF Inv
<1>4. Bounded(GivenBack(jobs[i])) /\ Timed(GivenBack(jobs[i]))
  BY <1>1, <1>3 DEF GivenBack, Bounded, Timed, Leased, Job
<1>5. Follows(GivenBack(jobs[i]), jobs[i])
  BY <1>1 DEF GivenBack, Follows, Leased, Job, TerminalStates
<1> QED BY <1>1, <1>2, <1>4, <1>5, ReplacedGood

LEMMA GrantGood ==
  ASSUME JobLeaseAssumption, Inv, NEW i \in Ids, NEW w \in Workers, NEW ticks \in 1..LeaseTicks,
         Grant(i, w, ticks)
  PROVE  Good
<1> DEFINE job == [jobs[i] EXCEPT !.state = "leased", !.epoch = @ + 1, !.worker = w, !.left = ticks]
<1>1. job \in Job /\ After(i, job)
  BY GrantShape DEF Inv
<1>2. jobs[i] \in Job /\ Bounded(jobs[i]) /\ Timed(jobs[i]) /\ jobs[i].state = "queued"
  BY DEF Inv, TypeOK, Ids, Grant
<1>3. jobs[i].attempts < jobs[i].max_attempts
  BY <1>2 DEF Bounded, Job
<1>4. Bounded(job) /\ Timed(job)
  BY <1>2, <1>3 DEF Bounded, Timed, Job
<1>5. Follows(job, jobs[i])
  BY <1>2 DEF Follows, Timed, Job, TerminalStates
<1> QED BY <1>1, <1>4, <1>5, ReplacedGood

LEMMA HeartbeatGood ==
  ASSUME JobLeaseAssumption, Inv, NEW i \in Ids, NEW w \in Workers, NEW e, NEW ticks \in 1..LeaseTicks,
         Heartbeat(i, w, e, ticks)
  PROVE  Good
<1> DEFINE job == [jobs[i] EXCEPT !.left = ticks]
<1>1. job \in Job /\ After(i, job)
  BY HeartbeatShape DEF Inv
<1>2. jobs[i] \in Job /\ Bounded(jobs[i]) /\ jobs[i].state = "leased"
  BY DEF Inv, TypeOK, Ids, Heartbeat, Owns, Leased
<1>3. Bounded(job) /\ Timed(job)
  BY <1>2 DEF Bounded, Timed, Job
<1>4. Follows(job, jobs[i])
  BY <1>2 DEF Follows, Job, TerminalStates
<1> QED BY <1>1, <1>3, <1>4, ReplacedGood

LEMMA EndGood ==
  ASSUME Inv, NEW i \in Ids, NEW s \in {"succeeded", "cancelled"},
         ~Ended(i), s = "succeeded" => Leased(i),
         jobs' = [jobs EXCEPT ![i].state = s, ![i].worker = NoWorker, ![i].left = 0]
  PROVE  Good
<1> DEFINE job == [jobs[i] EXCEPT !.state = s, !.worker = NoWorker, !.left = 0]
<1>1. job \in Job /\ After(i, job)
  BY EndShape DEF Inv
<1>2. jobs[i] \in Job /\ Bounded(jobs[i])
  BY DEF Inv, TypeOK, Ids
<1>3. Bounded(job) /\ Timed(job)
  BY <1>2 DEF Bounded, Timed, Job, Ended, Leased, TerminalStates
<1>4. Follows(job, jobs[i])
  BY <1>2 DEF Follows, Job, Ended, TerminalStates
<1> QED BY <1>1, <1>3, <1>4, ReplacedGood

LEMMA TickGood ==
  ASSUME Inv, Tick
  PROVE  Good
<1>1. /\ TypeOK' /\ Ids' = Ids
      /\ \A k \in Ids :
           jobs'[k] = IF jobs[k].left > 0 THEN [jobs[k] EXCEPT !.left = @ - 1] ELSE jobs[k]
  BY Aged DEF Inv
<1>2. \A k \in Ids : jobs[k] \in Job /\ Bounded(jobs[k]) /\ Timed(jobs[k])
  BY DEF Inv, TypeOK, Ids
<1>3. \A k \in Ids : Bounded(jobs'[k]) /\ Timed(jobs'[k]) /\ Follows(jobs'[k], jobs[k])
  <2> SUFFICES ASSUME NEW k \in Ids
               PROVE  Bounded(jobs'[k]) /\ Timed(jobs'[k]) /\ Follows(jobs'[k], jobs[k])
    OBVIOUS
  <2>1. CASE jobs[k].left > 0
    <3>1. jobs'[k] = [jobs[k] EXCEPT !.left = jobs[k].left - 1] /\ jobs[k].state = "leased"
      BY <1>1, <1>2, <2>1 DEF Timed
    <3>2. Bounded(jobs'[k]) /\ Timed(jobs'[k])
      BY <1>2, <3>1 DEF Bounded, Timed, Job
    <3>3. Follows(jobs'[k], jobs[k])
      BY <1>2, <3>1 DEF Follows, Job, TerminalStates
    <3> QED BY <3>2, <3>3
  <2>2. CASE ~(jobs[k].left > 0)
    <3>1. jobs'[k] = jobs[k]
      BY <1>1, <2>2
    <3> QED BY <1>2, <3>1 DEF Follows, Job
  <2> QED BY <2>1, <2>2
<1>4. \A k \in Ids : jobs'[k].key = jobs[k].key
  BY <1>3 DEF Follows
<1>5. KeysUnique'
  BY <1>1, <1>4 DEF Inv, KeysUnique
<1>6. \A k \in Ids : k \in DOMAIN jobs'
  BY <1>1 DEF TypeOK, Ids
<1> QED BY <1>1, <1>3, <1>5, <1>6 DEF Good, Inv

-----------------------------------------------------------------------------
LEMMA NextGood ==
  ASSUME JobLeaseAssumption, Inv, Next
  PROVE  Good
<1>1. CASE \E key \in Keys, max \in 1..MaxAttempts : Submit(key, max)
  BY <1>1, SubmitGood
<1>2. CASE \E w \in Workers : Claim(w)
  <2>1. PICK w \in Workers, i \in Ids : Expire(i) \/ \E ticks \in 1..LeaseTicks : Grant(i, w, ticks)
    BY <1>2 DEF Claim
  <2>2. CASE Expire(i)
    BY <2>2, GivenBackGood DEF Expire, Expired
  <2>3. CASE \E ticks \in 1..LeaseTicks : Grant(i, w, ticks)
    BY <2>3, GrantGood
  <2> QED BY <2>1, <2>2, <2>3
<1>3. CASE \E i \in Ids, w \in Workers : \E e \in 1..jobs[i].epoch : OwnerCall(i, w, e)
  <2>1. PICK i \in Ids, w \in Workers : \E e \in 1..jobs[i].epoch : OwnerCall(i, w, e)
    BY <1>3
  <2>0. PICK e \in 1..jobs[i].epoch : OwnerCall(i, w, e)
    BY <2>1
  <2>2. CASE \E ticks \in 1..LeaseTicks : Heartbeat(i, w, e, ticks)
    BY <2>2, HeartbeatGood
  <2>3. CASE Succeed(i, w, e)
    BY <2>3, EndGood DEF Succeed, Owns, Leased, Ended, TerminalStates
  <2>4. CASE Fail(i, w, e)
    BY <2>4, GivenBackGood DEF Fail, Owns
  <2> QED BY <2>0, <2>2, <2>3, <2>4 DEF OwnerCall
<1>4. CASE \E i \in Ids : Cancel(i)
  BY <1>4, EndGood DEF Cancel
<1>5. CASE Tick
  BY <1>5, TickGood
<1> QED BY <1>1, <1>2, <1>3, <1>4, <1>5 DEF Next

LEMMA InitInv == Init => Inv
<1> SUFFICES ASSUME Init PROVE Inv
  OBVIOUS
<1>1. jobs \in Seq(Job) /\ Ids = {}
  BY DEF Init, Ids
<1> QED BY <1>1 DEF Inv, TypeOK, KeysUnique

LEMMA StutterInv == Inv /\ UNCHANGED jobs => Inv'
BY DEF Inv, TypeOK, KeysUnique, Ids, Bounded, Timed

LEMMA Invariance == Spec => []Inv
<1>1. Inv /\ [Next]_jobs => Inv'
  BY NextGood, StutterInv, JobLeaseAssumption DEF Good
<1> QED BY InitInv, <1>1, PTL DEF Spec

\* Every job of every reachable queue is well formed, for any number of
\* workers, keys and jobs.  (apply_line)
THEOREM TypeCorrect == Spec => []TypeOK
<1>1. Inv => TypeOK
  BY DEF Inv
<1> QED BY Invariance, <1>1, PTL

\* No job is ever granted more often than its max_attempts, and the epoch
\* counts the grants exactly.  (claim, fail)
THEOREM GrantsAlwaysBounded == Spec => []GrantsBounded
<1>1. Inv => GrantsBounded
  BY DEF Inv, GrantsBounded, Bounded
<1> QED BY Invariance, <1>1, PTL

\* An idempotency key names at most one job.  (submit)
THEOREM KeysAlwaysUnique == Spec => []KeysUnique
<1>1. Inv => KeysUnique
  BY DEF Inv
<1> QED BY Invariance, <1>1, PTL

\* A lease with time left is never granted to anybody else, an ended job never
\* changes and no job ever goes back to an earlier epoch.  (claim, _owned)
THEOREM AlwaysFenced == Spec => Fenced
<1> DEFINE A == \A i \in Ids :
       /\ i \in DOMAIN jobs' /\ jobs'[i].key = jobs[i].key
       /\ Ended(i) => jobs'[i] = jobs[i]
       /\ jobs'[i].epoch >= jobs[i].epoch
       /\ (jobs[i].left > 0 /\ jobs'[i].state = "leased") =>
            jobs'[i].worker = jobs[i].worker /\ jobs'[i].epoch = jobs[i].epoch
<1>1. Inv /\ [Next]_jobs => [A]_jobs
  BY NextGood, JobLeaseAssumption DEF Good, Follows, Ended
<1> QED BY Invariance, <1>1, PTL DEF Spec, Fenced
=============================================================================
