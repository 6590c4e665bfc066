--------------------------- MODULE JobQueueProofs ---------------------------
(***************************************************************************)
(* Machine-checked facts about JobQueue, for any number of workers, jobs,  *)
(* lines, segments and kills: every value is of its kind, no sequence of   *)
(* calls and kills leaves a journal the next call refuses, the store is a  *)
(* replay of the journal, what was acknowledged stays, and the queue       *)
(* implements JobLease.                                                    *)
(*                                                                         *)
(* What a replay computes is a recursive function of the journal's length. *)
(* The library's induction theorems take an operator, which the provers    *)
(* cannot instantiate, so the first section proves induction for a set of  *)
(* numbers from the theorem that a well-founded set has minimal elements,  *)
(* and uses it to show that the recursion has a solution, that two of them *)
(* agree as far as their lines do, and that a replay can be cut in two.    *)
(***************************************************************************)
EXTENDS JobQueue, SequenceTheorems, WellFoundedInduction, TLAPS

-----------------------------------------------------------------------------
(* Induction, and what applying lines one by one comes to. *)

LEMMA LessIsWellFounded == IsWellFoundedOn({p \in Nat \X Nat : p[1] < p[2]}, Nat)
  BY NatLessThanWellFounded DEF OpToRel

LEMMA SetInduction ==
  ASSUME NEW S, 0 \in S, \A n \in Nat : n \in S => n + 1 \in S
  PROVE  Nat \subseteq S
<1> DEFINE R == {p \in Nat \X Nat : p[1] < p[2]}
           T == Nat \ S
<1> SUFFICES ASSUME T # {} PROVE FALSE
  OBVIOUS
<1>1. IsWellFoundedOn(R, Nat) /\ T \subseteq Nat
  BY LessIsWellFounded
<1> HIDE DEF R, T
<1>2. PICK x \in T : \A y \in T : ~(<<y, x>> \in R)
  BY <1>1, WFMin
<1>3. x \in Nat /\ x # 0 /\ x \notin S
  BY <1>2 DEF T
<1>4. x - 1 \in Nat /\ <<x - 1, x>> \in R
  BY <1>3 DEF R
<1>5. x - 1 \in S
  BY <1>2, <1>4 DEF T
<1>6. (x - 1) + 1 \in S
  BY <1>4, <1>5
<1> QED BY <1>3, <1>6

\* f applies the first n lines of ls to st, one after the other.
Applies(f, st, ls, n) == f = [k \in 0..n |-> IF k = 0 THEN st ELSE ApplyLine(f[k - 1], ls[k])]

LEMMA AppliesExists ==
  ASSUME NEW st, NEW ls, NEW n \in Nat
  PROVE  \E f : Applies(f, st, ls, n)
<1> DEFINE S == {m \in Nat : \E f : Applies(f, st, ls, m)}
<1>1. 0 \in S
  <2> DEFINE f == [k \in 0..0 |-> st]
  <2>1. f = [k \in 0..0 |-> IF k = 0 THEN st ELSE ApplyLine(f[k - 1], ls[k])]
    OBVIOUS
  <2>2. Applies(f, st, ls, 0)
    BY <2>1 DEF Applies
  <2> QED BY <2>2
<1>2. \A m \in Nat : m \in S => m + 1 \in S
  <2> SUFFICES ASSUME NEW m \in Nat, m \in S PROVE m + 1 \in S
    OBVIOUS
  <2>1. PICK f : Applies(f, st, ls, m)
    OBVIOUS
  <2> DEFINE g == [k \in 0..(m + 1) |-> IF k = m + 1 THEN ApplyLine(f[m], ls[k]) ELSE f[k]]
  <2>2. \A k \in 0..m : f[k] = IF k = 0 THEN st ELSE ApplyLine(f[k - 1], ls[k])
    BY <2>1 DEF Applies
  <2>3. \A k \in 0..(m + 1) : g[k] = IF k = 0 THEN st ELSE ApplyLine(g[k - 1], ls[k])
    BY <2>2
  <2>4. g = [k \in 0..(m + 1) |-> g[k]]
    OBVIOUS
  <2> HIDE DEF g
  <2>5. Applies(g, st, ls, m + 1)
    BY <2>3, <2>4 DEF Applies
  <2> QED BY <2>5
<1> HIDE DEF S
<1>3. n \in S
  BY <1>1, <1>2, SetInduction
<1> QED BY <1>3 DEF S

\* What the definition's recursive function is.
Applied(st, ls) == CHOOSE f : Applies(f, st, ls, Len(ls))

LEMMA ApplyAllIs ==
  ASSUME NEW st, NEW ls, Len(ls) \in Nat
  PROVE  /\ ApplyAll(st, ls) = Applied(st, ls)[Len(ls)]
         /\ Applies(Applied(st, ls), st, ls, Len(ls))
<1>1. ApplyAll(st, ls) = Applied(st, ls)[Len(ls)]
  BY DEF ApplyAll, Applied, Applies
<1>2. Applies(Applied(st, ls), st, ls, Len(ls))
  BY AppliesExists DEF Applied
<1> QED BY <1>1, <1>2

\* Two such functions agree as far as their lines do.
LEMMA AppliesAgree ==
  ASSUME NEW st, NEW ls, NEW ms, NEW n \in Nat, NEW m \in Nat, NEW f, NEW g,
         Applies(f, st, ls, n), Applies(g, st, ms, m),
         NEW p \in Nat, p <= n, p <= m, \A k \in 1..p : ls[k] = ms[k]
  PROVE  f[p] = g[p]
<1> DEFINE S == {k \in Nat : k <= p => f[k] = g[k]}
<1>0. /\ \A k \in 0..n : f[k] = IF k = 0 THEN st ELSE ApplyLine(f[k - 1], ls[k])
      /\ \A k \in 0..m : g[k] = IF k = 0 THEN st ELSE ApplyLine(g[k - 1], ms[k])
  BY DEF Applies
<1>1. 0 \in S
  BY <1>0
<1>2. \A k \in Nat : k \in S => k + 1 \in S
  <2> SUFFICES ASSUME NEW k \in Nat, k \in S, k + 1 <= p PROVE f[k + 1] = g[k + 1]
    OBVIOUS
  <2>1. f[k] = g[k] /\ ls[k + 1] = ms[k + 1]
    OBVIOUS
  <2>2. f[k + 1] = ApplyLine(f[k], ls[k + 1]) /\ g[k + 1] = ApplyLine(g[k], ms[k + 1])
    BY <1>0
  <2> QED BY <2>1, <2>2
<1> HIDE DEF S
<1>3. p \in S
  BY <1>1, <1>2, SetInduction
<1> QED BY <1>3 DEF S

LEMMA ApplyNone == ASSUME NEW st PROVE ApplyAll(st, <<>>) = st
<1>1. Len(<<>>) = 0
  OBVIOUS
<1> QED BY <1>1, ApplyAllIs DEF Applies

\* A prefix of the lines leaves what the function has there.
LEMMA ApplyPrefix ==
  ASSUME NEW st, NEW ls, Len(ls) \in Nat, NEW ms, Len(ms) \in Nat, Len(ms) <= Len(ls),
         \A k \in 1..Len(ms) : ms[k] = ls[k]
  PROVE  ApplyAll(st, ms) = Applied(st, ls)[Len(ms)]
<1> DEFINE f == Applied(st, ls)
           g == Applied(st, ms)
           m == Len(ms)
           n == Len(ls)
<1>1. Applies(f, st, ls, n) /\ Applies(g, st, ms, m) /\ ApplyAll(st, ms) = g[m]
  BY ApplyAllIs
<1>2. m \in Nat /\ n \in Nat /\ m <= n /\ \A k \in 1..m : ms[k] = ls[k]
  OBVIOUS
<1> HIDE DEF f, g, m, n
<1>3. g[m] = f[m]
  BY <1>1, <1>2, AppliesAgree
<1> QED BY <1>1, <1>3 DEF f, m

LEMMA ApplyOneMore ==
  ASSUME NEW st, NEW S, NEW ls \in Seq(S), NEW l \in S
  PROVE  ApplyAll(st, Append(ls, l)) = ApplyLine(ApplyAll(st, ls), l)
<1> DEFINE ms == Append(ls, l)
           f == Applied(st, ms)
<1>1. Len(ls) \in Nat /\ Len(ms) = Len(ls) + 1 /\ ms[Len(ms)] = l /\ \A k \in 1..Len(ls) : ls[k] = ms[k]
  OBVIOUS
<1> HIDE DEF ms
<1>2. ApplyAll(st, ls) = f[Len(ls)]
  BY <1>1, ApplyPrefix
<1>3. ApplyAll(st, ms) = f[Len(ms)] /\ Applies(f, st, ms, Len(ms))
  BY <1>1, ApplyAllIs
<1> HIDE DEF f
<1>4. f[Len(ms)] = ApplyLine(f[Len(ms) - 1], ms[Len(ms)])
  BY <1>1, <1>3 DEF Applies
<1> QED BY <1>1, <1>2, <1>3, <1>4 DEF ms

LEMMA FromIs ==
  ASSUME NEW S, NEW ls \in Seq(S), NEW n \in 0..Len(ls)
  PROVE  /\ From(ls, n) \in Seq(S) /\ Len(From(ls, n)) = Len(ls) - n
         /\ \A k \in 1..(Len(ls) - n) : From(ls, n)[k] = ls[n + k]
         /\ SubSeq(ls, 1, n) \in Seq(S) /\ Len(SubSeq(ls, 1, n)) = n
         /\ \A k \in 1..n : SubSeq(ls, 1, n)[k] = ls[k]
  BY DEF From

\* Applying the first n lines and then the others is applying them all.
LEMMA ApplyInTwo ==
  ASSUME NEW st, NEW S, NEW ls \in Seq(S), NEW n \in 0..Len(ls)
  PROVE  ApplyAll(ApplyAll(st, SubSeq(ls, 1, n)), From(ls, n)) = ApplyAll(st, ls)
<1> DEFINE us == From(ls, n)
           vs == SubSeq(ls, 1, n)
<1>1. /\ Len(ls) \in Nat /\ n \in Nat /\ n <= Len(ls) /\ Len(us) = Len(ls) - n /\ Len(us) \in Nat
      /\ \A k \in 1..(Len(ls) - n) : us[k] = ls[n + k]
  <2>1. Len(ls) \in Nat /\ n \in Nat /\ n <= Len(ls)
    BY LenProperties
  <2>2. Len(us) = Len(ls) - n
    BY FromIs
  <2>3. \A k \in 1..(Len(ls) - n) : us[k] = ls[n + k]
    BY FromIs
  <2> HIDE DEF us
  <2> QED BY <2>1, <2>2, <2>3
<1>2. Len(vs) = n /\ \A k \in 1..n : vs[k] = ls[k]
  BY FromIs
<1> HIDE DEF us, vs
<1> DEFINE f == Applied(st, ls)
           g == Applied(f[n], us)
           T == {k \in Nat : k <= Len(ls) - n => g[k] = f[n + k]}
<1>10. ApplyAll(st, vs) = f[n]
  BY <1>1, <1>2, ApplyPrefix
<1>3. ApplyAll(st, ls) = f[Len(ls)] /\ Applies(f, st, ls, Len(ls))
  BY <1>1, ApplyAllIs
<1>4. ApplyAll(f[n], us) = g[Len(us)] /\ Applies(g, f[n], us, Len(us))
  BY <1>1, ApplyAllIs
<1> HIDE DEF f, g
<1>5. /\ \A k \in 0..Len(ls) : f[k] = IF k = 0 THEN st ELSE ApplyLine(f[k - 1], ls[k])
      /\ \A k \in 0..Len(us) : g[k] = IF k = 0 THEN f[n] ELSE ApplyLine(g[k - 1], us[k])
  BY <1>3, <1>4 DEF Applies
<1>6. 0 \in T
  BY <1>1, <1>5
<1>7. \A k \in Nat : k \in T => k + 1 \in T
  <2> SUFFICES ASSUME NEW k \in Nat, k \in T, k + 1 <= Len(ls) - n PROVE g[k + 1] = f[n + (k + 1)]
    OBVIOUS
  <2>1. g[k] = f[n + k] /\ us[k + 1] = ls[n + (k + 1)]
    BY <1>1
  <2>2. g[k + 1] = ApplyLine(g[k], us[k + 1])
    BY <1>1, <1>5
  <2>3. n + (k + 1) \in 0..Len(ls) /\ n + (k + 1) # 0 /\ (n + (k + 1)) - 1 = n + k
    BY <1>1
  <2>4. f[n + (k + 1)] = ApplyLine(f[n + k], ls[n + (k + 1)])
    BY <1>5, <2>3
  <2> QED BY <2>1, <2>2, <2>4
<1> HIDE DEF T
<1>8. Len(ls) - n \in T
  BY <1>1, <1>6, <1>7, SetInduction
<1>9. g[Len(us)] = f[Len(ls)]
  BY <1>1, <1>8 DEF T
<1> QED BY <1>10, <1>3, <1>4, <1>9 DEF us, vs

-----------------------------------------------------------------------------
(* What a line does to a store, and where the store stands in the journal. *)

\* The values ApplyLine can make of one job.
LEMMA ElementReplaced ==
  ASSUME NEW S, NEW s \in Seq(S), NEW i, NEW e, i \in DOMAIN s => e \in S
  PROVE  /\ [s EXCEPT ![i] = e] \in Seq(S) /\ Len([s EXCEPT ![i] = e]) = Len(s)
         /\ DOMAIN [s EXCEPT ![i] = e] = 1..Len(s)
<1> DEFINE r == [s EXCEPT ![i] = e]
<1>1. Len(s) \in Nat /\ DOMAIN s = 1..Len(s) /\ \A k \in 1..Len(s) : s[k] \in S
  OBVIOUS
<1>2. r = [k \in 1..Len(s) |-> IF k = i THEN e ELSE s[k]]
  <2>1. r = [k \in DOMAIN s |-> IF k = i THEN e ELSE s[k]]
    BY Zenon
  <2> QED BY <1>1, <2>1
<1>3. \A k \in 1..Len(s) : (IF k = i THEN e ELSE s[k]) \in S
  BY <1>1
<1> HIDE DEF r
<1>4. r \in Seq(S)
  BY <1>1, <1>2, <1>3
<1>5. DOMAIN r = 1..Len(s)
  BY <1>2
<1>6. Len(r) = Len(s)
  BY <1>1, <1>4, <1>5
<1> QED BY <1>4, <1>5, <1>6 DEF r

LEMMA JobsReplaced ==
  ASSUME NEW st \in Store, NEW i, NEW job, i \in DOMAIN st.jobs => job \in Job
  PROVE  [last_seq |-> st.last_seq + 1, jobs |-> [st.jobs EXCEPT ![i] = job]] \in Store
<1>1. st.last_seq \in Nat /\ st.jobs \in Seq(Job)
  BY DEF Store
<1>2. [st.jobs EXCEPT ![i] = job] \in Seq(Job)
  BY <1>1, ElementReplaced
<1> HIDE DEF Job
<1> QED BY <1>1, <1>2 DEF Store

LEMMA ApplyLineType ==
  ASSUME NEW st \in Store, NEW l \in Line
  PROVE  ApplyLine(st, l) \in Store /\ ApplyLine(st, l).last_seq = st.last_seq + 1
<1> DEFINE i == l.job
           old == st.jobs[i]
<1>1. /\ st.last_seq \in Nat /\ st.jobs \in Seq(Job) /\ (i \in DOMAIN st.jobs => old \in Job)
      /\ l.op \in Ops /\ l.key \in Keys /\ l.max_attempts \in Nat \ {0} /\ l.epoch \in Nat
      /\ l.worker \in Workers \cup {NoWorker} /\ l.expires_at \in Nat /\ l.attempts \in Nat
      /\ l.state \in States /\ l.job = i
  BY DEF Store, Line
<1> HIDE DEF old, i
<1>2. CASE l.op = "checkpoint"
  <2>1. ApplyLine(st, l) = [st EXCEPT !.last_seq = @ + 1]
    BY <1>2 DEF ApplyLine
  <2> HIDE DEF Job
  <2> QED BY <2>1, <1>1 DEF Store
<1>3. CASE l.op = "submit"
  <2> DEFINE new == [key |-> l.key, state |-> "queued", attempts |-> 0, max_attempts |-> l.max_attempts,
                     epoch |-> 0, worker |-> NoWorker, expires_at |-> 0]
  <2>1. ApplyLine(st, l) = [last_seq |-> st.last_seq + 1, jobs |-> Append(st.jobs, new)]
    BY <1>3 DEF ApplyLine
  <2>2. new \in Job
    BY <1>1 DEF Job, States
  <2> HIDE DEF new, Job
  <2> QED BY <2>1, <2>2, <1>1 DEF Store
<1>4. CASE l.op \in Ops \ {"checkpoint", "submit"}
  <2> SUFFICES \E job : /\ i \in DOMAIN st.jobs => job \in Job
                        /\ ApplyLine(st, l) = [last_seq |-> st.last_seq + 1, jobs |-> [st.jobs EXCEPT ![i] = job]]
    BY JobsReplaced
  <2> DEFINE free == [old EXCEPT !.worker = NoWorker, !.expires_at = 0]
  <2>1. i \in DOMAIN st.jobs => free \in Job
    BY <1>1 DEF Job
  <2>2. CASE l.op = "claim"
    <3> DEFINE job == [old EXCEPT !.state = "leased", !.epoch = l.epoch,
                             !.worker = l.worker, !.expires_at = l.expires_at]
    <3>1. ApplyLine(st, l) = [last_seq |-> st.last_seq + 1, jobs |-> [st.jobs EXCEPT ![i] = job]]
      BY <2>2, <1>1 DEF ApplyLine, old
    <3>2. i \in DOMAIN st.jobs => job \in Job
      BY <1>1 DEF Job, States
    <3> QED BY <3>1, <3>2
  <2>3. CASE l.op = "heartbeat"
    <3> DEFINE job == [old EXCEPT !.expires_at = l.expires_at]
    <3>1. ApplyLine(st, l) = [last_seq |-> st.last_seq + 1, jobs |-> [st.jobs EXCEPT ![i] = job]]
      BY <2>3, <1>1 DEF ApplyLine, old
    <3>2. i \in DOMAIN st.jobs => job \in Job
      BY <1>1 DEF Job
    <3> QED BY <3>1, <3>2
  <2>4. CASE l.op \in {"fail", "expire"}
    <3> DEFINE job == [free EXCEPT !.attempts = l.attempts, !.state = l.state]
    <3>1. ApplyLine(st, l) = [last_seq |-> st.last_seq + 1, jobs |-> [st.jobs EXCEPT ![i] = job]]
      BY <2>4, <1>1 DEF ApplyLine, old
    <3> HIDE DEF free
    <3>2. i \in DOMAIN st.jobs => job \in Job
      BY <1>1, <2>1 DEF Job
    <3> QED BY <3>1, <3>2
  <2>5. CASE l.op = "succeed"
    <3> DEFINE job == [free EXCEPT !.state = "succeeded"]
    <3>1. ApplyLine(st, l) = [last_seq |-> st.last_seq + 1, jobs |-> [st.jobs EXCEPT ![i] = job]]
      BY <2>5, <1>1 DEF ApplyLine, old
    <3> HIDE DEF free
    <3>2. i \in DOMAIN st.jobs => job \in Job
      BY <2>1 DEF Job, States, TerminalStates
    <3> QED BY <3>1, <3>2
  <2>6. CASE l.op = "cancel"
    <3> DEFINE job == [free EXCEPT !.state = "cancelled"]
    <3>1. ApplyLine(st, l) = [last_seq |-> st.last_seq + 1, jobs |-> [st.jobs EXCEPT ![i] = job]]
      BY <2>6, <1>1 DEF ApplyLine, old
    <3> HIDE DEF free
    <3>2. i \in DOMAIN st.jobs => job \in Job
      BY <2>1 DEF Job, States, TerminalStates
    <3> QED BY <3>1, <3>2
  <2> QED BY <1>4, <2>2, <2>3, <2>4, <2>5, <2>6 DEF Ops
<1> QED BY <1>1, <1>2, <1>3, <1>4

LEMMA ApplyAllType ==
  ASSUME NEW st \in Store, NEW ls \in Seq(Line)
  PROVE  ApplyAll(st, ls) \in Store /\ ApplyAll(st, ls).last_seq = st.last_seq + Len(ls)
<1> DEFINE f == Applied(st, ls)
           n == Len(ls)
           T == {k \in Nat : k <= n => f[k] \in Store /\ f[k].last_seq = st.last_seq + k}
<1>1. n \in Nat /\ \A k \in 1..n : ls[k] \in Line
  OBVIOUS
<1>2. ApplyAll(st, ls) = f[n] /\ Applies(f, st, ls, n)
  BY <1>1, ApplyAllIs
<1>3. st.last_seq \in Nat
  BY DEF Store
<1> HIDE DEF f, n
<1>4. \A k \in 0..n : f[k] = IF k = 0 THEN st ELSE ApplyLine(f[k - 1], ls[k])
  BY <1>2 DEF Applies
<1>5. 0 \in T
  BY <1>1, <1>3, <1>4
<1>6. \A k \in Nat : k \in T => k + 1 \in T
  <2> SUFFICES ASSUME NEW k \in Nat, k \in T, k + 1 <= n
               PROVE  f[k + 1] \in Store /\ f[k + 1].last_seq = st.last_seq + (k + 1)
    OBVIOUS
  <2>1. f[k] \in Store /\ f[k].last_seq = st.last_seq + k
    BY <1>1
  <2>2. f[k + 1] = ApplyLine(f[k], ls[k + 1]) /\ ls[k + 1] \in Line
    BY <1>1, <1>4
  <2>3. f[k + 1] \in Store /\ f[k + 1].last_seq = f[k].last_seq + 1
    BY <2>1, <2>2, ApplyLineType
  <2> QED BY <2>1, <2>3, <1>3
<1> HIDE DEF T
<1>7. n \in T
  BY <1>1, <1>5, <1>6, SetInduction
<1> QED BY <1>1, <1>2, <1>7 DEF T, n

LEMMA ReplayType ==
  ASSUME NEW ls \in Seq(Line)
  PROVE  Replay(ls) \in Store /\ Replay(ls).last_seq = Len(ls)
<1>1. EmptyStore \in Store /\ EmptyStore.last_seq = 0
  <2>1. <<>> \in Seq(Job)
    OBVIOUS
  <2> QED BY <2>1 DEF EmptyStore, Store
<1>2. ApplyAll(EmptyStore, ls) \in Store /\ ApplyAll(EmptyStore, ls).last_seq = EmptyStore.last_seq + Len(ls)
  BY <1>1, ApplyAllType
<1> QED BY <1>1, <1>2 DEF Replay

LEMMA WholeSequence ==
  ASSUME NEW S, NEW ls \in Seq(S)
  PROVE  SubSeq(ls, 1, Len(ls)) = ls
  OBVIOUS

LEMMA PrefixOfAppend ==
  ASSUME NEW S, NEW ls \in Seq(S), NEW l \in S
  PROVE  \A n \in 0..Len(ls) : SubSeq(Append(ls, l), 1, n) = SubSeq(ls, 1, n)
  OBVIOUS

-----------------------------------------------------------------------------
(* The inductive invariant. *)

\* The store is what the lines it has absorbed give.
Replayed ==
  /\ store.last_seq \in 0..Len(lines)
  /\ store = Replay(SubSeq(lines, 1, store.last_seq))

\* A checkpoint line carries what the lines as far as itself give.
Vouched == \A k \in DOMAIN lines : lines[k].op = "checkpoint" => lines[k].snapshot = Replay(SubSeq(lines, 1, k))

\* Every segment but the last is closed, and a last line that is a checkpoint
\* names the last segment or, until the file is there, the next.
Segmented ==
  /\ \A k \in DOMAIN lines : lines[k].in \in 1..files
  /\ \A n \in 1..(files - 1) : \E k \in DOMAIN lines : Closes(k, n)
  /\ lines # <<>> /\ Last(lines).op = "checkpoint" => Last(lines).segment \in {files, files + 1}

\* What the holder of the lock has done so far.
Holding ==
  /\ acked <= Len(lines)
  /\ pc = "append" => pending # <<>> /\ \A n \in DOMAIN pending : pending[n].op # "checkpoint"
  /\ pc \in {"ready", "snapshot", "checkpoint", "touch"} => store.last_seq = Len(lines)
  /\ pc \in {"store", "snapshot", "checkpoint"} => lines # <<>> /\ Last(lines).op # "checkpoint"
  /\ pc \in {"checkpoint_store", "touch"} =>
       lines # <<>> /\ Last(lines).op = "checkpoint" /\ Last(lines).segment = files + 1

Inv == TypeOK /\ Replayed /\ Vouched /\ Segmented /\ Holding

\* A list of lines that a claim may still append to a journal that gives jobs
\* js: leases that ran out, in order and up to the first that comes back into
\* the queue, and then a grant of the first job that is queued.
Lapsed(job) == job.state = "leased" /\ now >= job.expires_at
After(job) == IF job.attempts + 1 >= job.max_attempts THEN "failed" ELSE "queued"
Until(t) == \E ticks \in 1..LeaseTicks : t = now + ticks

ScanEntry(js, p, n) ==
  /\ p[n].job \in DOMAIN js
  /\ \/ /\ p[n].op = "expire" /\ Lapsed(js[p[n].job])
        /\ p[n].attempts = js[p[n].job].attempts + 1 /\ p[n].state = After(js[p[n].job])
     \/ /\ p[n].op = "claim" /\ n = Len(p)
        /\ p[n].worker \in Workers /\ p[n].epoch = js[p[n].job].epoch + 1 /\ Until(p[n].expires_at)
        /\ js[p[n].job].state = "queued" \/ \E m \in 1..(n - 1) : p[m].job = p[n].job
  /\ \A k \in 1..(p[n].job - 1) :
        js[k].state # "queued" /\ (Lapsed(js[k]) => \E m \in 1..(n - 1) : p[m].job = k)
  /\ \A m \in 1..(n - 1) :
        /\ p[m].op = "expire"
        /\ \/ p[m].job < p[n].job /\ p[m].state = "failed"
           \/ p[m].job = p[n].job /\ p[m].state = "queued" /\ p[n].op = "claim"

\* A line that any other call may append.
Mine(job) == job.state = "leased" /\ now < job.expires_at /\ job.worker \in Workers /\ job.epoch >= 1

OwnEntry(js, e) ==
  \/ /\ e.op = "submit" /\ Len(js) < MaxJobs /\ e.max_attempts \in 1..MaxAttempts
     /\ \A k \in 1..Len(js) : js[k].key # e.key
  \/ e.job \in DOMAIN js /\ e.op = "heartbeat" /\ Mine(js[e.job]) /\ Until(e.expires_at)
  \/ e.job \in DOMAIN js /\ e.op = "succeed" /\ Mine(js[e.job])
  \/ /\ e.job \in DOMAIN js /\ e.op = "fail" /\ Mine(js[e.job])
     /\ e.attempts = js[e.job].attempts + 1 /\ e.state = After(js[e.job])
  \/ e.job \in DOMAIN js /\ e.op = "cancel" /\ js[e.job].state \notin TerminalStates

MayFollow(js, p) ==
  \/ Workers # {} /\ \A n \in DOMAIN p : ScanEntry(js, p, n)
  \/ Len(p) = 1 /\ OwnEntry(js, p[1])

DecisionStands == pc = "append" => MayFollow(Journalled, pending)

-----------------------------------------------------------------------------
(* What a call decides to append. *)

LEMMA EntryType ==
  ASSUME NEW op \in Ops, NEW job \in Nat
  PROVE  Entry(op, job) \in Body
<1>1. (CHOOSE k \in Keys : TRUE) \in Keys
  BY JobQueueAssumption
<1>2. EmptyStore \in Store
  <2>1. <<>> \in Seq(Job)
    OBVIOUS
  <2> QED BY <2>1 DEF EmptyStore, Store
<1> QED BY <1>1, <1>2 DEF Entry, Body, States

LEMMA JobTypes ==
  ASSUME TypeOK, NEW i \in Ids
  PROVE  /\ Ids = DOMAIN store.jobs /\ i \in Nat \ {0} /\ Len(store.jobs) \in Nat
         /\ store.jobs[i] \in Job
         /\ AttemptsAfter(i) = store.jobs[i].attempts + 1 /\ AttemptsAfter(i) \in Nat
         /\ StateAfter(i) = After(store.jobs[i]) /\ StateAfter(i) \in {"queued", "failed"}
         /\ ExpiredJob(i) <=> Lapsed(store.jobs[i])
<1>1. store.jobs \in Seq(Job)
  BY DEF TypeOK, Store
<1>2. Ids = DOMAIN store.jobs /\ i \in Nat \ {0} /\ Len(store.jobs) \in Nat /\ store.jobs[i] \in Job
  <2> HIDE DEF Job
  <2> QED BY <1>1 DEF Ids
<1>3. AttemptsAfter(i) = store.jobs[i].attempts + 1 /\ AttemptsAfter(i) \in Nat
  BY <1>2 DEF Job, AttemptsAfter
<1>4. StateAfter(i) = After(store.jobs[i]) /\ StateAfter(i) \in {"queued", "failed"}
  BY DEF StateAfter, After, AttemptsAfter
<1>5. ExpiredJob(i) <=> Lapsed(store.jobs[i])
  BY DEF ExpiredJob, Lapsed
<1> QED BY <1>2, <1>3, <1>4, <1>5

LEMMA ExpiryIs ==
  ASSUME TypeOK, NEW i \in Ids
  PROVE  /\ Expiry(i) \in Body /\ Expiry(i).op = "expire" /\ Expiry(i).job = i
         /\ Expiry(i).attempts = store.jobs[i].attempts + 1 /\ Expiry(i).state = After(store.jobs[i])
<1>1. /\ i \in Nat /\ store.jobs[i] \in Job /\ AttemptsAfter(i) = store.jobs[i].attempts + 1
      /\ AttemptsAfter(i) \in Nat /\ StateAfter(i) = After(store.jobs[i]) /\ StateAfter(i) \in {"queued", "failed"}
  BY JobTypes
<1>2. store.jobs[i].worker \in Workers \cup {NoWorker} /\ store.jobs[i].epoch \in Nat
  BY <1>1 DEF Job
<1>3. Entry("expire", i) \in Body /\ Entry("expire", i).op = "expire" /\ Entry("expire", i).job = i
  <2>1. Entry("expire", i) \in Body
    BY <1>1, EntryType DEF Ops
  <2>2. Entry("expire", i).op = "expire" /\ Entry("expire", i).job = i
    BY DEF Entry
  <2> QED BY <2>1, <2>2
<1> HIDE DEF Entry, AttemptsAfter, StateAfter, After
<1> QED BY <1>1, <1>2, <1>3 DEF Expiry, Body, States, TerminalStates

LEMMA GrantingIs ==
  ASSUME TypeOK, NEW i \in Ids, NEW w \in Workers, NEW ticks \in 1..LeaseTicks
  PROVE  /\ Granting(i, w, ticks) \in Body /\ Granting(i, w, ticks).op = "claim"
         /\ Granting(i, w, ticks).job = i /\ Granting(i, w, ticks).worker = w
         /\ Granting(i, w, ticks).epoch = store.jobs[i].epoch + 1 /\ Until(Granting(i, w, ticks).expires_at)
<1>1. i \in Nat /\ store.jobs[i] \in Job
  BY JobTypes
<1>2. store.jobs[i].epoch \in Nat /\ now + ticks \in Nat /\ Until(now + ticks)
  BY <1>1 DEF Job, TypeOK, Until
<1>3. Entry("claim", i) \in Body /\ Entry("claim", i).op = "claim" /\ Entry("claim", i).job = i
  <2>1. Entry("claim", i) \in Body
    BY <1>1, EntryType DEF Ops
  <2>2. Entry("claim", i).op = "claim" /\ Entry("claim", i).job = i
    BY DEF Entry
  <2> QED BY <2>1, <2>2
<1> DEFINE e == Entry("claim", i)
           g == Granting(i, w, ticks)
<1>4. g = [e EXCEPT !.worker = w, !.epoch = store.jobs[i].epoch + 1, !.expires_at = now + ticks]
  BY DEF Granting
<1>5. e \in Body /\ e.op = "claim" /\ e.job = i
  BY <1>3
<1> HIDE DEF e, g, Until, Body
<1>6. g \in Body
  <2>1. \A x \in Nat, y \in Nat :
          [e EXCEPT !.worker = w, !.epoch = x, !.expires_at = y] \in Body
    BY <1>5 DEF Body
  <2>2. store.jobs[i].epoch + 1 \in Nat /\ now + ticks \in Nat
    BY <1>2
  <2> QED BY <1>4, <2>1, <2>2
<1>7. g.op = "claim" /\ g.job = i /\ g.worker = w /\ g.epoch = store.jobs[i].epoch + 1
      /\ g.expires_at = now + ticks
  BY <1>4, <1>5 DEF Body
<1> QED BY <1>2, <1>6, <1>7 DEF g

\* s is what a claim has decided once it is past the first i jobs.
Found(i, s) ==
  /\ s \in Seq(Body)
  /\ \A n \in DOMAIN s : s[n].job <= i /\ s[n].op \in {"expire", "claim"} /\ ScanEntry(store.jobs, s, n)
  /\ \/ s # <<>> /\ Last(s).op = "claim"
     \/ /\ \A n \in DOMAIN s : s[n].op = "expire" /\ s[n].state = "failed"
        /\ \A k \in 1..i : store.jobs[k].state # "queued"
                           /\ (Lapsed(store.jobs[k]) => \E m \in DOMAIN s : s[m].job = k)

\* An expiry's place in the scan depends on what stands before it only.
LEMMA ScanEntryKept ==
  ASSUME NEW js, NEW s \in Seq(Body), NEW e \in Body, NEW n \in 1..Len(s), s[n].op = "expire", ScanEntry(js, s, n)
  PROVE  ScanEntry(js, Append(s, e), n)
<1> DEFINE p == Append(s, e)
<1>1. Len(s) \in Nat /\ n \in 1..Len(s) /\ \A m \in 1..Len(s) : p[m] = s[m]
  OBVIOUS
<1> HIDE DEF p
<1>2. p[n] = s[n] /\ \A m \in 1..(n - 1) : p[m] = s[m]
  BY <1>1
<1> HIDE DEF Body
<1> SUFFICES ScanEntry(js, p, n)
  BY DEF p
<1>3. s[n].op # "claim"
  OBVIOUS
<1>4. ScanEntry(js, s, n)
  OBVIOUS
<1> QED BY <1>2, <1>3, <1>4 DEF ScanEntry

LEMMA FoundExpiry ==
  ASSUME TypeOK, NEW i \in Nat, i + 1 \in Ids, Lapsed(store.jobs[i + 1]), NEW s, Found(i, s),
         ~(s # <<>> /\ Last(s).op = "claim")
  PROVE  LET p == Append(s, Expiry(i + 1)) IN
           /\ p \in Seq(Body) /\ Len(p) = Len(s) + 1 /\ p[Len(p)] = Expiry(i + 1)
           /\ \A m \in 1..Len(s) : p[m] = s[m] /\ s[m].op = "expire" /\ s[m].state = "failed" /\ s[m].job <= i
           /\ \A n \in DOMAIN p : p[n].job <= i + 1 /\ p[n].op = "expire" /\ ScanEntry(store.jobs, p, n)
<1> DEFINE e == Expiry(i + 1)
           p == Append(s, e)
           js == store.jobs
<1>1. /\ e \in Body /\ e.op = "expire" /\ e.job = i + 1 /\ e.attempts = js[i + 1].attempts + 1
      /\ e.state = After(js[i + 1])
  BY ExpiryIs
<1>2. i + 1 \in DOMAIN js
  BY JobTypes
<1>3. /\ s \in Seq(Body) /\ \A n \in DOMAIN s : s[n].job <= i /\ ScanEntry(js, s, n)
      /\ \A n \in DOMAIN s : s[n].op = "expire" /\ s[n].state = "failed"
      /\ \A k \in 1..i : js[k].state # "queued" /\ (Lapsed(js[k]) => \E m \in DOMAIN s : s[m].job = k)
  BY DEF Found
<1>4. Lapsed(js[i + 1])
  OBVIOUS
<1> HIDE DEF e, js, Body, Lapsed
<1>5. p \in Seq(Body) /\ Len(p) = Len(s) + 1 /\ p[Len(p)] = e /\ DOMAIN s = 1..Len(s) /\ Len(s) \in Nat
      /\ DOMAIN p = 1..(Len(s) + 1) /\ \A m \in 1..Len(s) : p[m] = s[m]
  BY <1>1, <1>3
<1>6. \A n \in 1..Len(s) : p[n].job <= i + 1 /\ p[n].op = "expire" /\ ScanEntry(js, p, n)
  <2> TAKE n \in 1..Len(s)
  <2>1. s[n] \in Body /\ s[n].op = "expire" /\ s[n].job <= i /\ ScanEntry(js, s, n)
    BY <1>3, <1>5
  <2>2. ScanEntry(js, p, n)
    BY <1>1, <1>3, <2>1, ScanEntryKept
  <2>3. s[n].job \in Nat
    BY <2>1 DEF Body
  <2> QED BY <1>5, <2>1, <2>2, <2>3
<1>7. ScanEntry(js, p, Len(s) + 1)
  <2> DEFINE n == Len(s) + 1
  <2>1. p[n] = e /\ \A m \in 1..(n - 1) : p[m] = s[m] /\ m \in DOMAIN s
    BY <1>5
  <2>2. n - 1 = Len(s) /\ (i + 1) - 1 = i
    BY <1>5
  <2> HIDE DEF n, p
  <2>3. p[n].job \in DOMAIN js
    BY <1>1, <1>2, <2>1
  <2>4. /\ p[n].op = "expire" /\ Lapsed(js[p[n].job])
        /\ p[n].attempts = js[p[n].job].attempts + 1 /\ p[n].state = After(js[p[n].job])
    BY <1>1, <1>4, <2>1
  <2>5. \A k \in 1..(p[n].job - 1) :
          js[k].state # "queued" /\ (Lapsed(js[k]) => \E m \in 1..(n - 1) : p[m].job = k)
    BY <1>1, <1>3, <1>5, <2>1, <2>2
  <2>6. \A m \in 1..(n - 1) : p[m].op = "expire" /\ p[m].job < p[n].job /\ p[m].state = "failed"
    <3> TAKE m \in 1..(n - 1)
    <3>1. p[m] = s[m] /\ s[m] \in Body
      BY <1>3, <2>1
    <3>2. s[m].job \in Nat
      BY <3>1 DEF Body
    <3> QED BY <3>1, <3>2, <1>1, <1>3, <2>1
  <2>7. ScanEntry(js, p, n)
    BY <2>3, <2>4, <2>5, <2>6 DEF ScanEntry
  <2> QED BY <2>7 DEF n
<1>8. \A n \in DOMAIN p : p[n].job <= i + 1 /\ p[n].op = "expire" /\ ScanEntry(js, p, n)
  <2> HIDE DEF p
  <2> QED BY <1>1, <1>5, <1>6, <1>7
<1> HIDE DEF p
<1> QED BY <1>3, <1>5, <1>8 DEF p, e, js

\* The grant that ends a scan.
LEMMA GrantFollows ==
  ASSUME NEW js, NEW s \in Seq(Body), NEW g \in Body, NEW j \in Nat, j \in DOMAIN js,
         g.op = "claim", g.job = j, g.worker \in Workers, g.epoch = js[j].epoch + 1, Until(g.expires_at),
         js[j].state = "queued" \/ \E m \in 1..Len(s) : s[m].job = j,
         \A k \in 1..(j - 1) : js[k].state # "queued" /\ (Lapsed(js[k]) => \E m \in 1..Len(s) : s[m].job = k),
         \A m \in 1..Len(s) : /\ s[m].op = "expire" /\ ScanEntry(js, s, m)
                              /\ \/ s[m].job < j /\ s[m].state = "failed"
                                 \/ s[m].job = j /\ s[m].state = "queued"
  PROVE  \A n \in DOMAIN Append(s, g) : ScanEntry(js, Append(s, g), n)
<1> DEFINE p == Append(s, g)
<1>1. /\ Len(s) \in Nat /\ Len(p) = Len(s) + 1 /\ p[Len(s) + 1] = g /\ DOMAIN p = 1..(Len(s) + 1)
      /\ \A m \in 1..Len(s) : p[m] = s[m]
  OBVIOUS
<1> HIDE DEF Body, Lapsed, Until
<1>2. \A n \in 1..Len(s) : ScanEntry(js, p, n)
  BY ScanEntryKept
<1> HIDE DEF p
<1>3. ScanEntry(js, p, Len(s) + 1)
  <2> DEFINE n == Len(s) + 1
  <2>1. p[n] = g /\ n = Len(p) /\ n - 1 = Len(s) /\ \A m \in 1..(n - 1) : p[m] = s[m]
    BY <1>1
  <2> HIDE DEF n
  <2>2. /\ p[n].job \in DOMAIN js /\ p[n].op = "claim" /\ n = Len(p)
        /\ p[n].worker \in Workers /\ p[n].epoch = js[p[n].job].epoch + 1 /\ Until(p[n].expires_at)
    BY <2>1
  <2>3. js[p[n].job].state = "queued" \/ \E m \in 1..(n - 1) : p[m].job = p[n].job
    BY <2>1
  <2>4. \A k \in 1..(p[n].job - 1) :
          js[k].state # "queued" /\ (Lapsed(js[k]) => \E m \in 1..(n - 1) : p[m].job = k)
    <3>1. \A k \in 1..(j - 1) : js[k].state # "queued" /\ (Lapsed(js[k]) => \E m \in 1..(n - 1) : p[m].job = k)
      BY <2>1
    <3>2. p[n].job = j
      BY <2>1
    <3> QED BY <3>1, <3>2
  <2>5. \A m \in 1..(n - 1) :
          /\ p[m].op = "expire"
          /\ \/ p[m].job < p[n].job /\ p[m].state = "failed"
             \/ p[m].job = p[n].job /\ p[m].state = "queued" /\ p[n].op = "claim"
    BY <2>1
  <2>6. ScanEntry(js, p, n)
    BY <2>2, <2>3, <2>4, <2>5 DEF ScanEntry
  <2> QED BY <2>6 DEF n
<1>4. \A n \in 1..(Len(s) + 1) : n \in 1..Len(s) \/ n = Len(s) + 1
  BY <1>1
<1> QED BY <1>1, <1>2, <1>3, <1>4 DEF p

LEMMA FoundNone == Found(0, <<>>)
  BY DEF Found

LEMMA FoundGranted ==
  ASSUME NEW i, NEW js, js = store.jobs, NEW s \in Seq(Body), s # <<>>, Last(s).op = "claim",
         \A n \in DOMAIN s : s[n].job <= i, \A n \in DOMAIN s : s[n].op \in {"expire", "claim"},
         \A n \in DOMAIN s : ScanEntry(js, s, n)
  PROVE  Found(i, s)
  BY Zenon DEF Found

LEMMA FoundFailing ==
  ASSUME NEW i, NEW js, js = store.jobs, NEW s \in Seq(Body),
         \A n \in DOMAIN s : s[n].job <= i, \A n \in DOMAIN s : s[n].op = "expire",
         \A n \in DOMAIN s : s[n].state = "failed", \A n \in DOMAIN s : ScanEntry(js, s, n),
         \A k \in 1..i : js[k].state # "queued",
         \A k \in 1..i : Lapsed(js[k]) => \E m \in DOMAIN s : s[m].job = k
  PROVE  Found(i, s)
<1>1. \A n \in DOMAIN s : s[n].op \in {"expire", "claim"}
  OBVIOUS
<1> QED BY <1>1, Zenon DEF Found

\* One step of the scan.
LEMMA FoundOne ==
  ASSUME TypeOK, NEW w \in Workers, NEW ticks \in 1..LeaseTicks,
         NEW i \in Nat, i + 1 \in Ids, NEW s, Found(i, s)
  PROVE  Found(i + 1, ScanOne(s, i + 1, w, ticks))
<1> DEFINE j == i + 1
           js == store.jobs
           e == Expiry(j)
           g == Granting(j, w, ticks)
           p == Append(s, e)
           r == ScanOne(s, j, w, ticks)
<1> SUFFICES Found(j, r)
  OBVIOUS
<1>0. js = store.jobs
  OBVIOUS
<1>1. /\ j \in Nat /\ j \in DOMAIN js /\ (ExpiredJob(j) <=> Lapsed(js[j]))
      /\ StateAfter(j) = After(js[j]) /\ After(js[j]) \in {"queued", "failed"}
  BY JobTypes
<1>2. e \in Body /\ e.op = "expire" /\ e.job = j /\ e.state = After(js[j])
  BY ExpiryIs
<1>3. g \in Body /\ g.op = "claim" /\ g.job = j /\ g.worker = w /\ g.epoch = js[j].epoch + 1 /\ Until(g.expires_at)
  BY GrantingIs
<1>4. s \in Seq(Body) /\ \A n \in DOMAIN s : s[n].job <= i /\ s[n].op \in {"expire", "claim"} /\ ScanEntry(js, s, n)
  BY DEF Found
<1>5. QueuedByNow(j) <=> js[j].state = "queued" \/ (ExpiredJob(j) /\ StateAfter(j) = "queued")
  BY DEF QueuedByNow
<1>6. Lapsed(js[j]) => js[j].state = "leased"
  BY DEF Lapsed
<1>7. s \in Seq(Body)
  BY <1>4
<1>8. \A n \in DOMAIN s : s[n].job \in Nat
  <2>1. \A b \in Body : b.job \in Nat
    BY DEF Body
  <2> HIDE DEF Body
  <2> QED BY <1>4, <2>1
<1>9. CASE s # <<>> /\ Last(s).op = "claim"
  <2>1. r = s
    BY <1>9 DEF ScanOne
  <2>2. \A n \in DOMAIN s : s[n].job <= j
    BY <1>4, <1>8
  <2>3. \A n \in DOMAIN s : s[n].op \in {"expire", "claim"}
    BY <1>4
  <2>4. \A n \in DOMAIN s : ScanEntry(js, s, n)
    BY <1>4
  <2> HIDE DEF r, Body
  <2> QED BY <1>0, <1>7, <1>9, <2>1, <2>2, <2>3, <2>4, FoundGranted
<1>10. CASE ~(s # <<>> /\ Last(s).op = "claim")
  <2>1. /\ \A n \in DOMAIN s : s[n].op = "expire" /\ s[n].state = "failed"
        /\ \A k \in 1..i : js[k].state # "queued" /\ (Lapsed(js[k]) => \E m \in DOMAIN s : s[m].job = k)
    BY <1>10 DEF Found
  <2>2. r = s \o (IF ExpiredJob(j) THEN <<e>> ELSE <<>>) \o (IF QueuedByNow(j) THEN <<g>> ELSE <<>>)
    BY <1>10 DEF ScanOne
  <2>3. s \o <<>> = s /\ s \o <<e>> = p /\ s \o <<g>> = Append(s, g)
    BY <1>2, <1>3, <1>4
  <2>4. DOMAIN s = 1..Len(s) /\ Len(s) \in Nat /\ j - 1 = i
    BY <1>4
  <2> HIDE DEF e, g, js, r, Body, Until, Lapsed
  <2>5. CASE ~ExpiredJob(j) /\ ~QueuedByNow(j)
    <3>1. r = s
      BY <2>2, <2>3, <2>5
    <3>2. \A k \in 1..j : js[k].state # "queued" /\ (Lapsed(js[k]) => \E m \in DOMAIN s : s[m].job = k)
      <4> TAKE k \in 1..j
      <4>1. CASE k \in 1..i
        BY <4>1, <2>1
      <4>2. CASE k = j
        BY <4>2, <2>5, <1>1, <1>5
      <4> QED BY <4>1, <4>2
    <3>3. \A n \in DOMAIN s : s[n].job <= j
      BY <1>4, <1>8
    <3>4. \A n \in DOMAIN s : ScanEntry(js, s, n)
      BY <1>4
    <3> QED BY <1>0, <1>7, <2>1, <3>1, <3>2, <3>3, <3>4, FoundFailing
  <2>6. CASE ~ExpiredJob(j) /\ QueuedByNow(j)
    <3> DEFINE q == Append(s, g)
    <3>1. r = q
      BY <2>2, <2>3, <2>6
    <3>2. js[j].state = "queued"
      BY <2>6, <1>5
    <3>3. \A m \in 1..Len(s) : s[m].op = "expire" /\ ScanEntry(js, s, m) /\ s[m].job < j /\ s[m].state = "failed"
      BY <1>4, <1>8, <2>1, <2>4
    <3>9. \A k \in 1..(j - 1) : js[k].state # "queued" /\ (Lapsed(js[k]) => \E m \in 1..Len(s) : s[m].job = k)
      BY <2>1, <2>4
    <3>4. \A n \in DOMAIN q : ScanEntry(js, q, n)
      BY <1>1, <1>3, <1>7, <3>2, <3>3, <3>9, GrantFollows
    <3>5. q \in Seq(Body) /\ q # <<>> /\ Last(q) = g /\ DOMAIN q = 1..(Len(s) + 1) /\ q[Len(s) + 1] = g
          /\ \A m \in 1..Len(s) : q[m] = s[m]
      BY <1>3, <1>7 DEF Last
    <3> HIDE DEF q
    <3>6. \A n \in DOMAIN q : q[n].job <= j /\ q[n].op \in {"expire", "claim"}
      <4> TAKE n \in DOMAIN q
      <4>1. n \in 1..Len(s) \/ n = Len(s) + 1
        BY <3>5, <2>4
      <4> QED BY <4>1, <3>3, <3>5, <1>3, <1>8, <2>4
    <3> QED BY <1>0, <1>3, <3>1, <3>4, <3>5, <3>6, FoundGranted
  <2>7. CASE ExpiredJob(j)
    <3>1. Lapsed(js[j])
      BY <1>1, <2>7
    <3>2. /\ p \in Seq(Body) /\ Len(p) = Len(s) + 1 /\ p[Len(p)] = e
          /\ \A m \in 1..Len(s) : p[m] = s[m] /\ s[m].op = "expire" /\ s[m].state = "failed" /\ s[m].job <= i
          /\ \A n \in DOMAIN p : p[n].job <= j /\ p[n].op = "expire" /\ ScanEntry(js, p, n)
      BY <1>10, <3>1, FoundExpiry DEF js, e
    <3> HIDE DEF p
    <3>3. DOMAIN p = 1..(Len(s) + 1) /\ Len(p) \in Nat /\ p[Len(s) + 1] = e
      BY <3>2, <2>4
    <3>4. \A k \in 1..j : Lapsed(js[k]) => \E m \in 1..Len(p) : p[m].job = k
      <4> SUFFICES ASSUME NEW k \in 1..j, Lapsed(js[k]) PROVE \E m \in 1..Len(p) : p[m].job = k
        OBVIOUS
      <4>1. CASE k \in 1..i
        <5>1. PICK m \in 1..Len(s) : s[m].job = k
          BY <4>1, <2>1, <2>4
        <5>2. m \in 1..Len(p) /\ p[m] = s[m]
          BY <2>4, <3>2
        <5> QED BY <5>1, <5>2
      <4>2. CASE k = j
        <5>1. Len(s) + 1 \in 1..Len(p)
          BY <2>4, <3>2
        <5> QED BY <4>2, <3>3, <1>2, <5>1
      <4> QED BY <4>1, <4>2
    <3>5. CASE After(js[j]) = "failed"
      <4>1. ~QueuedByNow(j)
        BY <3>5, <1>1, <1>5, <1>6, <3>1
      <4>2. p \o <<>> = p
        BY <3>2
      <4>3. r = p
        BY <4>1, <4>2, <2>2, <2>3, <2>7
      <4>4. \A k \in 1..j : js[k].state # "queued"
        <5> TAKE k \in 1..j
        <5>1. CASE k \in 1..i
          BY <5>1, <2>1
        <5>2. CASE k = j
          BY <5>2, <3>1, <1>6
        <5> QED BY <5>1, <5>2
      <4>5. \A n \in DOMAIN p : p[n].state = "failed"
        <5> TAKE n \in DOMAIN p
        <5>1. n \in 1..Len(s) \/ n = Len(s) + 1
          BY <3>3, <2>4
        <5> QED BY <5>1, <3>2, <3>3, <3>5, <1>2
      <4>6. DOMAIN p = 1..Len(p)
        BY <3>2, <3>3
      <4> QED BY <1>0, <3>2, <3>4, <4>3, <4>4, <4>5, <4>6, FoundFailing
    <3>6. CASE After(js[j]) = "queued"
      <4> DEFINE q == Append(p, g)
      <4>1. QueuedByNow(j)
        BY <3>6, <1>1, <1>5, <2>7
      <4>2. p \o <<g>> = q
        BY <3>2, <1>3
      <4>3. r = q
        BY <4>1, <4>2, <2>2, <2>3, <2>7
      <4>4. \A m \in 1..Len(p) : /\ p[m].op = "expire" /\ ScanEntry(js, p, m)
                                 /\ \/ p[m].job < j /\ p[m].state = "failed"
                                    \/ p[m].job = j /\ p[m].state = "queued"
        <5> TAKE m \in 1..Len(p)
        <5>1. p[m].op = "expire" /\ ScanEntry(js, p, m)
          BY <3>2, <3>3
        <5>2. CASE m \in 1..Len(s)
          BY <5>1, <5>2, <3>2, <1>8, <2>4
        <5>3. CASE m = Len(s) + 1
          BY <5>1, <5>3, <3>3, <3>6, <1>2
        <5> QED BY <5>2, <5>3, <3>2, <2>4
      <4>5. \A k \in 1..(j - 1) : js[k].state # "queued" /\ (Lapsed(js[k]) => \E m \in 1..Len(p) : p[m].job = k)
        BY <2>1, <2>4, <3>4
      <4>6. \E m \in 1..Len(p) : p[m].job = j
        BY <3>1, <3>4
      <4>7. \A n \in DOMAIN q : ScanEntry(js, q, n)
        BY <1>1, <1>3, <3>2, <4>4, <4>5, <4>6, GrantFollows
      <4>8. q \in Seq(Body) /\ q # <<>> /\ Last(q) = g /\ DOMAIN q = 1..(Len(p) + 1) /\ q[Len(p) + 1] = g
            /\ \A m \in 1..Len(p) : q[m] = p[m]
        BY <1>3, <3>2 DEF Last
      <4> HIDE DEF q
      <4>9. \A n \in DOMAIN q : q[n].job <= j /\ q[n].op \in {"expire", "claim"}
        <5> TAKE n \in DOMAIN q
        <5>1. n \in 1..Len(p) \/ n = Len(p) + 1
          BY <4>8, <3>3
        <5>2. DOMAIN p = 1..Len(p)
          BY <3>2
        <5> QED BY <5>1, <5>2, <3>2, <4>8, <1>3
      <4> QED BY <1>0, <1>3, <4>3, <4>7, <4>8, <4>9, FoundGranted
    <3> QED BY <1>1, <3>5, <3>6
  <2> QED BY <2>5, <2>6, <2>7
<1> QED BY <1>9, <1>10

\* f is the scan of the first n jobs.
Scans(f, w, ticks, n) == f = [i \in 0..n |-> IF i = 0 THEN <<>> ELSE ScanOne(f[i - 1], i, w, ticks)]

LEMMA ScansExists ==
  ASSUME NEW w, NEW ticks, NEW n \in Nat
  PROVE  \E f : Scans(f, w, ticks, n)
<1> DEFINE S == {m \in Nat : \E f : Scans(f, w, ticks, m)}
<1>1. 0 \in S
  <2> DEFINE f == [k \in 0..0 |-> <<>>]
  <2>1. f = [k \in 0..0 |-> IF k = 0 THEN <<>> ELSE ScanOne(f[k - 1], k, w, ticks)]
    OBVIOUS
  <2>2. Scans(f, w, ticks, 0)
    BY <2>1 DEF Scans
  <2> QED BY <2>2
<1>2. \A m \in Nat : m \in S => m + 1 \in S
  <2> SUFFICES ASSUME NEW m \in Nat, m \in S PROVE m + 1 \in S
    OBVIOUS
  <2>1. PICK f : Scans(f, w, ticks, m)
    OBVIOUS
  <2> DEFINE g == [k \in 0..(m + 1) |-> IF k = m + 1 THEN ScanOne(f[m], k, w, ticks) ELSE f[k]]
  <2>2. \A k \in 0..m : f[k] = IF k = 0 THEN <<>> ELSE ScanOne(f[k - 1], k, w, ticks)
    BY <2>1 DEF Scans
  <2>3. \A k \in 0..(m + 1) : g[k] = IF k = 0 THEN <<>> ELSE ScanOne(g[k - 1], k, w, ticks)
    BY <2>2
  <2>4. g = [k \in 0..(m + 1) |-> g[k]]
    OBVIOUS
  <2> HIDE DEF g
  <2>5. Scans(g, w, ticks, m + 1)
    BY <2>3, <2>4 DEF Scans
  <2> QED BY <2>5
<1> HIDE DEF S
<1>3. n \in S
  BY <1>1, <1>2, SetInduction
<1> QED BY <1>3 DEF S

\* What a claim decides, whatever jobs there are.
LEMMA ScanFinds ==
  ASSUME TypeOK, NEW w \in Workers, NEW ticks \in 1..LeaseTicks
  PROVE  Found(Len(store.jobs), Scan(w, ticks))
<1> DEFINE n == Len(store.jobs)
           f == CHOOSE h : Scans(h, w, ticks, n)
           T == {i \in Nat : i <= n => Found(i, f[i])}
<1>1. n \in Nat /\ \A i \in 1..n : i \in Ids
  <2>1. store.jobs \in Seq(Job)
    BY DEF TypeOK, Store
  <2> QED BY <2>1 DEF Ids
<1>2. Scan(w, ticks) = f[n]
  BY DEF Scan, Scans
<1> HIDE DEF n
<1>3. Scans(f, w, ticks, n)
  BY <1>1, ScansExists
<1> HIDE DEF f
<1>4. \A i \in 0..n : f[i] = IF i = 0 THEN <<>> ELSE ScanOne(f[i - 1], i, w, ticks)
  BY <1>3 DEF Scans
<1>5. 0 \in T
  BY <1>1, <1>4, FoundNone
<1>6. \A i \in Nat : i \in T => i + 1 \in T
  <2> SUFFICES ASSUME NEW i \in Nat, i \in T, i + 1 <= n PROVE Found(i + 1, f[i + 1])
    OBVIOUS
  <2>1. Found(i, f[i]) /\ i + 1 \in Ids
    BY <1>1
  <2>2. f[i + 1] = ScanOne(f[i], i + 1, w, ticks)
    BY <1>1, <1>4
  <2>3. Found(i + 1, ScanOne(f[i], i + 1, w, ticks))
    BY <2>1, FoundOne
  <2> QED BY <2>2, <2>3
<1> HIDE DEF T
<1>7. n \in T
  BY <1>1, <1>5, <1>6, SetInduction
<1> QED BY <1>1, <1>2, <1>7 DEF T, n

\* What the other calls decide is one line.
LEMMA OwnerEntryIs ==
  ASSUME TypeOK, NEW i \in Ids, NEW op \in Ops
  PROVE  OwnerEntry(op, i) \in Body /\ OwnerEntry(op, i).op = op /\ OwnerEntry(op, i).job = i
<1> DEFINE e == Entry(op, i)
<1>1. i \in Nat /\ store.jobs[i].worker \in Workers \cup {NoWorker} /\ store.jobs[i].epoch \in Nat
  BY JobTypes DEF Job
<1>2. e \in Body
  BY <1>1, EntryType
<1>3. e.op = op /\ e.job = i
  BY DEF Entry
<1>4. OwnerEntry(op, i) = [e EXCEPT !.worker = store.jobs[i].worker, !.epoch = store.jobs[i].epoch]
  BY DEF OwnerEntry
<1> HIDE DEF e, Body
<1>5. \A w \in Workers \cup {NoWorker}, n \in Nat :
        [e EXCEPT !.worker = w, !.epoch = n] \in Body
  BY <1>2 DEF Body
<1>6. OwnerEntry(op, i).op = op /\ OwnerEntry(op, i).job = i
  BY <1>2, <1>3, <1>4 DEF Body
<1> QED BY <1>1, <1>4, <1>5, <1>6

LEMMA HeartbeatEntry ==
  ASSUME NEW e \in Body, NEW t \in Nat
  PROVE  LET r == [e EXCEPT !.expires_at = t]
         IN  r \in Body /\ r.op = e.op /\ r.job = e.job /\ r.expires_at = t
  BY DEF Body

\* Whatever call is made, its lines are well formed and may be appended.
Decided(p) == p \in Seq(Body) /\ p # <<>> /\ \A n \in DOMAIN p : p[n].op # "checkpoint"

LEMMA OneLine ==
  ASSUME NEW js, NEW e \in Body, e.op # "checkpoint", OwnEntry(js, e)
  PROVE  Decided(<<e>>) /\ MayFollow(js, <<e>>)
<1>1. <<e>> \in Seq(Body) /\ <<e>> # <<>> /\ DOMAIN <<e>> = {1} /\ Len(<<e>>) = 1 /\ <<e>>[1] = e
  OBVIOUS
<1> QED BY <1>1 DEF Decided, MayFollow

LEMMA OwnerIsMine ==
  ASSUME TypeOK, NEW i \in Ids, NEW w \in Workers, NEW e \in 1..store.jobs[i].epoch, Owned(i, w, e)
  PROVE  Mine(store.jobs[i]) /\ i \in DOMAIN store.jobs
<1>1. i \in DOMAIN store.jobs /\ store.jobs[i].epoch \in Nat
  BY JobTypes DEF Job
<1> QED BY <1>1 DEF Owned, Mine

LEMMA CallDecides ==
  ASSUME TypeOK, Call
  PROVE  /\ pc = "ready" /\ pc' = "append" /\ UNCHANGED <<disk, now, acked, crashes>>
         /\ Decided(pending') /\ MayFollow(store.jobs, pending')
<1> DEFINE js == store.jobs
           Goal == /\ pc = "ready" /\ pc' = "append" /\ UNCHANGED <<disk, now, acked, crashes>>
                   /\ Decided(pending') /\ MayFollow(js, pending')
<1> SUFFICES Goal
  OBVIOUS
<1>1. ASSUME NEW key \in Keys, NEW max \in 1..MaxAttempts, SubmitCall(key, max) PROVE Goal
  <2> DEFINE b == Entry("submit", Len(js) + 1)
             e == [b EXCEPT !.key = key, !.max_attempts = max]
  <2>1. /\ pc = "ready" /\ Len(js) < MaxJobs /\ \A i \in Ids : js[i].key # key
        /\ pending' = <<e>> /\ pc' = "append" /\ UNCHANGED <<disk, now, acked, crashes>>
    BY <1>1 DEF SubmitCall, Decide
  <2>2. b \in Body /\ b.op = "submit"
    <3>1. Len(js) + 1 \in Nat
      <4>1. js \in Seq(Job)
        BY DEF TypeOK, Store
      <4> QED BY <4>1
    <3>2. b \in Body
      BY <3>1, EntryType DEF Ops
    <3>3. b.op = "submit"
      BY DEF Entry
    <3> QED BY <3>2, <3>3
  <2>3. max \in Nat \ {0}
    BY JobQueueAssumption
  <2> HIDE DEF b
  <2>4. e \in Body /\ e.op = "submit" /\ e.key = key /\ e.max_attempts = max
    BY <2>2, <2>3 DEF Body
  <2> HIDE DEF e, js, Body
  <2>5. OwnEntry(js, e)
    BY <2>1, <2>4 DEF OwnEntry, Ids, js
  <2> QED BY <2>1, <2>4, <2>5, OneLine
<1>2. ASSUME NEW w \in Workers, NEW ticks \in 1..LeaseTicks, ClaimCall(w, ticks) PROVE Goal
  <2> DEFINE s == Scan(w, ticks)
  <2>1. /\ pc = "ready" /\ s # <<>> /\ pending' = s /\ pc' = "append" /\ UNCHANGED <<disk, now, acked, crashes>>
    BY <1>2 DEF ClaimCall, Decide
  <2>2. Found(Len(js), s)
    BY ScanFinds
  <2> HIDE DEF s
  <2>3. s \in Seq(Body) /\ \A n \in DOMAIN s : s[n].op \in {"expire", "claim"} /\ ScanEntry(js, s, n)
    BY <2>2 DEF Found
  <2>4. Decided(s)
    BY <2>1, <2>3 DEF Decided
  <2>5. MayFollow(js, s)
    BY <2>3 DEF MayFollow
  <2> QED BY <2>1, <2>4, <2>5
<1>3. ASSUME NEW i \in Ids, NEW w \in Workers, NEW e \in 1..js[i].epoch, NEW ticks \in 1..LeaseTicks,
             HeartbeatCall(i, w, e, ticks)
      PROVE  Goal
  <2> DEFINE b == OwnerEntry("heartbeat", i)
             r == [b EXCEPT !.expires_at = now + ticks]
  <2>1. Owned(i, w, e) /\ pending' = <<r>> /\ pc' = "append" /\ UNCHANGED <<disk, now, acked, crashes>>
    BY <1>3 DEF HeartbeatCall, Decide
  <2>2. b \in Body /\ b.op = "heartbeat" /\ b.job = i
    BY OwnerEntryIs DEF Ops
  <2>3. now + ticks \in Nat /\ Until(now + ticks)
    BY JobQueueAssumption DEF TypeOK, Until
  <2>4. Mine(js[i]) /\ i \in DOMAIN js /\ pc = "ready"
    BY <2>1, OwnerIsMine DEF Owned
  <2> HIDE DEF b, Body
  <2>5. r \in Body /\ r.op = "heartbeat" /\ r.job = i /\ r.expires_at = now + ticks
    BY <2>2, <2>3, HeartbeatEntry
  <2> HIDE DEF r, js, Until
  <2>6. OwnEntry(js, r)
    BY <2>3, <2>4, <2>5 DEF OwnEntry
  <2> QED BY <2>1, <2>4, <2>5, <2>6, OneLine
<1>4. ASSUME NEW i \in Ids, NEW w \in Workers, NEW e \in 1..js[i].epoch, SucceedCall(i, w, e) PROVE Goal
  <2> DEFINE r == OwnerEntry("succeed", i)
  <2>1. Owned(i, w, e) /\ pending' = <<r>> /\ pc' = "append" /\ UNCHANGED <<disk, now, acked, crashes>>
    BY <1>4 DEF SucceedCall, Decide
  <2>2. r \in Body /\ r.op = "succeed" /\ r.job = i
    BY OwnerEntryIs DEF Ops
  <2>4. Mine(js[i]) /\ i \in DOMAIN js /\ pc = "ready"
    BY <2>1, OwnerIsMine DEF Owned
  <2> HIDE DEF r, Body, js
  <2>6. OwnEntry(js, r)
    BY <2>2, <2>4 DEF OwnEntry
  <2> QED BY <2>1, <2>2, <2>4, <2>6, OneLine
<1>5. ASSUME NEW i \in Ids, NEW w \in Workers, NEW e \in 1..js[i].epoch, FailCall(i, w, e) PROVE Goal
  <2> DEFINE b == OwnerEntry("fail", i)
             r == [b EXCEPT !.attempts = AttemptsAfter(i), !.state = StateAfter(i)]
  <2>1. Owned(i, w, e) /\ pending' = <<r>> /\ pc' = "append" /\ UNCHANGED <<disk, now, acked, crashes>>
    BY <1>5 DEF FailCall, Decide
  <2>2. b \in Body /\ b.op = "fail" /\ b.job = i
    BY OwnerEntryIs DEF Ops
  <2>3. /\ AttemptsAfter(i) = js[i].attempts + 1 /\ AttemptsAfter(i) \in Nat
        /\ StateAfter(i) = After(js[i]) /\ StateAfter(i) \in States
    <3>1. StateAfter(i) \in {"queued", "failed"}
      BY JobTypes
    <3> QED BY <3>1, JobTypes DEF States, TerminalStates
  <2>4. Mine(js[i]) /\ i \in DOMAIN js /\ pc = "ready"
    BY <2>1, OwnerIsMine DEF Owned
  <2> HIDE DEF b, Body
  <2>5. r \in Body /\ r.op = "fail" /\ r.job = i /\ r.attempts = AttemptsAfter(i) /\ r.state = StateAfter(i)
    BY <2>2, <2>3 DEF Body
  <2> HIDE DEF r, js
  <2>6. OwnEntry(js, r)
    BY <2>3, <2>4, <2>5 DEF OwnEntry
  <2> QED BY <2>1, <2>4, <2>5, <2>6, OneLine
<1>6. ASSUME NEW i \in Ids, CancelCall(i) PROVE Goal
  <2> DEFINE r == Entry("cancel", i)
  <2>1. /\ pc = "ready" /\ js[i].state \notin TerminalStates /\ pending' = <<r>> /\ pc' = "append"
        /\ UNCHANGED <<disk, now, acked, crashes>>
    BY <1>6 DEF CancelCall, Decide
  <2>2. i \in Nat /\ i \in DOMAIN js
    BY JobTypes
  <2>3. r \in Body
    BY <2>2, EntryType DEF Ops
  <2>4. r.op = "cancel" /\ r.job = i
    BY DEF Entry
  <2> HIDE DEF r, Body, js
  <2>5. OwnEntry(js, r)
    BY <2>1, <2>2, <2>4 DEF OwnEntry
  <2> QED BY <2>1, <2>3, <2>4, <2>5, OneLine
<1> HIDE DEF Goal
<1> QED BY <1>1, <1>2, <1>3, <1>4, <1>5, <1>6 DEF Call, js

-----------------------------------------------------------------------------
(* What each kind of write does to the parts of the invariant. *)

\* Applying what the store lacks makes it a replay of the whole journal.
LEMMA CaughtUp ==
  ASSUME TypeOK, Replayed
  PROVE  /\ ApplyAll(store, From(lines, store.last_seq)) = Replay(lines)
         /\ Replay(lines) \in Store /\ Replay(lines).last_seq = Len(lines)
         /\ SubSeq(lines, 1, Len(lines)) = lines /\ Len(lines) \in Nat
<1>1. lines \in Seq(Line) /\ store.last_seq \in 0..Len(lines)
  BY DEF TypeOK, Replayed
<1>2. ApplyAll(ApplyAll(EmptyStore, SubSeq(lines, 1, store.last_seq)), From(lines, store.last_seq))
        = ApplyAll(EmptyStore, lines)
  BY <1>1, ApplyInTwo
<1>3. store = ApplyAll(EmptyStore, SubSeq(lines, 1, store.last_seq))
  BY DEF Replayed, Replay
<1>4. Replay(lines) \in Store /\ Replay(lines).last_seq = Len(lines)
  BY <1>1, ReplayType
<1>5. SubSeq(lines, 1, Len(lines)) = lines /\ Len(lines) \in Nat
  <2>1. SubSeq(lines, 1, Len(lines)) = lines
    BY <1>1, WholeSequence
  <2>2. Len(lines) \in Nat
    BY <1>1
  <2> QED BY <2>1, <2>2
<1>6. ApplyAll(store, From(lines, store.last_seq)) = Replay(lines)
  BY <1>2, <1>3 DEF Replay
<1> QED BY <1>4, <1>5, <1>6

LEMMA StoreWritten ==
  ASSUME TypeOK, Replayed, lines' = lines, store' = ApplyAll(store, From(lines, store.last_seq))
  PROVE  Replayed' /\ store' \in Store /\ store'.last_seq = Len(lines)
<1>1. store' = Replay(lines) /\ store' \in Store /\ store'.last_seq = Len(lines)
  BY CaughtUp
<1>2. SubSeq(lines, 1, Len(lines)) = lines /\ Len(lines) \in Nat
  BY CaughtUp
<1>3. SubSeq(lines', 1, store'.last_seq) = lines
  BY <1>1, <1>2
<1>4. store' = Replay(SubSeq(lines', 1, store'.last_seq))
  BY <1>1, <1>3
<1>5. store'.last_seq \in 0..Len(lines')
  BY <1>1, <1>2
<1> QED BY <1>1, <1>4, <1>5 DEF Replayed

\* A line more leaves everything before it.
LEMMA LineAppended ==
  ASSUME TypeOK, Replayed, Vouched, NEW l \in Line, lines' = Append(lines, l), store' = store,
         l.op = "checkpoint" => l.snapshot = Replay(Append(lines, l))
  PROVE  /\ lines' \in Seq(Line) /\ Len(lines') = Len(lines) + 1 /\ lines' # <<>> /\ Last(lines') = l
         /\ lines'[Len(lines) + 1] = l /\ DOMAIN lines' = 1..(Len(lines) + 1)
         /\ \A k \in DOMAIN lines : lines'[k] = lines[k]
         /\ Replayed' /\ Vouched'
<1>1. lines \in Seq(Line)
  BY DEF TypeOK
<1> HIDE DEF Line
<1>2. /\ lines' \in Seq(Line) /\ Len(lines') = Len(lines) + 1 /\ lines' # <<>> /\ Last(lines') = l
      /\ lines'[Len(lines) + 1] = l /\ DOMAIN lines' = 1..(Len(lines) + 1)
      /\ \A k \in DOMAIN lines : lines'[k] = lines[k]
  BY <1>1 DEF Last
<1>3. Len(lines) \in Nat /\ DOMAIN lines = 1..Len(lines)
  BY <1>1
<1>4. \A n \in 0..Len(lines) : SubSeq(lines', 1, n) = SubSeq(lines, 1, n)
  BY <1>1, PrefixOfAppend
<1>5. SubSeq(lines', 1, Len(lines) + 1) = lines'
  BY <1>2, WholeSequence
<1>6. Replayed'
  <2>1. store.last_seq \in 0..Len(lines)
    BY DEF Replayed
  <2>2. SubSeq(lines', 1, store.last_seq) = SubSeq(lines, 1, store.last_seq)
    BY <1>4, <2>1
  <2>3. store' = Replay(SubSeq(lines', 1, store'.last_seq))
    BY <2>2 DEF Replayed
  <2>4. store'.last_seq \in 0..Len(lines')
    BY <2>1, <1>2, <1>3
  <2> QED BY <2>3, <2>4 DEF Replayed
<1>7. Vouched'
  <2> SUFFICES ASSUME NEW k \in DOMAIN lines', lines'[k].op = "checkpoint"
               PROVE  lines'[k].snapshot = Replay(SubSeq(lines', 1, k))
    BY DEF Vouched
  <2>1. CASE k \in DOMAIN lines
    <3>1. SubSeq(lines', 1, k) = SubSeq(lines, 1, k)
      BY <1>3, <1>4, <2>1
    <3>2. lines'[k] = lines[k]
      BY <1>2, <2>1
    <3> QED BY <3>1, <3>2, <2>1 DEF Vouched
  <2>2. CASE k = Len(lines) + 1
    BY <2>2, <1>2, <1>5
  <2> QED BY <2>1, <2>2, <1>2, <1>3
<1> QED BY <1>2, <1>6, <1>7

LEMMA ActiveIs ==
  ASSUME TypeOK, Segmented
  PROVE  /\ ActiveSegment \in Nat \ {0} /\ ActiveSegment \in {files, files + 1} /\ files \in Nat
         /\ ActiveSegment = files + 1 =>
              files = 0 \/ (lines # <<>> /\ Last(lines).op = "checkpoint" /\ Last(lines).segment = files + 1)
         /\ lines # <<>> => files # 0 /\ Len(lines) \in DOMAIN lines /\ Last(lines) = lines[Len(lines)]
         /\ Len(lines) \in Nat /\ DOMAIN lines = 1..Len(lines)
         /\ Larger(files, ActiveSegment) = ActiveSegment
         /\ \A k \in DOMAIN lines : lines[k] \in Line /\ lines[k].in \in Nat
<1>1. lines \in Seq(Line) /\ files \in Nat
  BY DEF TypeOK
<1>9. \A l \in Line : l.in \in Nat
  BY DEF Line
<1> HIDE DEF Line
<1>2. Len(lines) \in Nat /\ DOMAIN lines = 1..Len(lines) /\ \A k \in DOMAIN lines : lines[k] \in Line
  BY <1>1
<1>3. lines # <<>> => Len(lines) \in DOMAIN lines /\ Last(lines) = lines[Len(lines)]
  BY <1>1 DEF Last
<1>4. lines # <<>> => files # 0
  BY <1>1, <1>3 DEF Segmented
<1>5. ActiveSegment \in {files, files + 1} /\ ActiveSegment \in Nat \ {0}
  BY <1>1, <1>4 DEF ActiveSegment, Segmented
<1>6. ActiveSegment = files + 1 =>
        files = 0 \/ (lines # <<>> /\ Last(lines).op = "checkpoint" /\ Last(lines).segment = files + 1)
  BY <1>1 DEF ActiveSegment
<1>7. Larger(files, ActiveSegment) = ActiveSegment
  BY <1>1, <1>5 DEF Larger
<1> QED BY <1>1, <1>2, <1>3, <1>4, <1>5, <1>6, <1>7, <1>9

\* Opening the active segment's file keeps every closed segment closed.
LEMMA SegmentOpened ==
  ASSUME TypeOK, Segmented, lines' = lines, files' = ActiveSegment
  PROVE  Segmented'
<1>1. /\ ActiveSegment \in {files, files + 1} /\ files \in Nat
      /\ ActiveSegment = files + 1 =>
           files = 0 \/ (lines # <<>> /\ Last(lines).op = "checkpoint" /\ Last(lines).segment = files + 1)
      /\ lines # <<>> => files # 0 /\ Len(lines) \in DOMAIN lines /\ Last(lines) = lines[Len(lines)]
      /\ Len(lines) \in Nat /\ DOMAIN lines = 1..Len(lines) /\ \A k \in DOMAIN lines : lines[k].in \in Nat
  BY ActiveIs
<1>2. \A k \in DOMAIN lines : lines[k].in \in 1..files
  BY DEF Segmented
<1>3. \A k \in DOMAIN lines' : lines'[k].in \in 1..files'
  BY <1>1, <1>2
<1>4. \A n \in 1..(files' - 1) : \E k \in DOMAIN lines : Closes(k, n)
  <2> TAKE n \in 1..(files' - 1)
  <2>1. CASE n \in 1..(files - 1)
    BY <2>1 DEF Segmented
  <2>2. CASE n = files
    <3>1. ActiveSegment = files + 1 /\ files # 0
      BY <2>2, <1>1
    <3>2. lines # <<>> /\ lines[Len(lines)].op = "checkpoint" /\ lines[Len(lines)].segment = files + 1
      BY <3>1, <1>1
    <3>3. \A j \in DOMAIN lines : lines[j].in <= n <=> j <= Len(lines)
      BY <1>1, <1>2, <2>2
    <3>4. Closes(Len(lines), n)
      BY <2>2, <3>2, <3>3 DEF Closes
    <3> QED BY <3>2, <3>4, <1>1
  <2> QED BY <2>1, <2>2, <1>1
<1>5. \A n \in 1..(files' - 1) : \E k \in DOMAIN lines' : Closes(k, n)'
  BY <1>4 DEF Closes
<1>6. lines # <<>> /\ Last(lines).op = "checkpoint" => Last(lines).segment \in {files', files' + 1}
  BY <1>1 DEF Segmented, ActiveSegment
<1> QED BY <1>3, <1>5, <1>6 DEF Segmented

\* A line in the last segment leaves the segments before it closed.
LEMMA SegmentExtended ==
  ASSUME TypeOK, Segmented, NEW l \in Line, lines' = Append(lines, l), files' = ActiveSegment, l.in = ActiveSegment,
         l.op = "checkpoint" => l.segment = files' + 1
  PROVE  Segmented'
<1>1. /\ ActiveSegment \in {files, files + 1} /\ files \in Nat /\ ActiveSegment \in Nat \ {0}
      /\ ActiveSegment = files + 1 =>
           files = 0 \/ (lines # <<>> /\ Last(lines).op = "checkpoint" /\ Last(lines).segment = files + 1)
      /\ lines # <<>> => files # 0 /\ Len(lines) \in DOMAIN lines /\ Last(lines) = lines[Len(lines)]
      /\ Len(lines) \in Nat /\ DOMAIN lines = 1..Len(lines) /\ \A k \in DOMAIN lines : lines[k].in \in Nat
  BY ActiveIs
<1>2. /\ lines' # <<>> /\ Last(lines') = l /\ lines'[Len(lines) + 1] = l /\ DOMAIN lines' = 1..(Len(lines) + 1)
      /\ \A k \in DOMAIN lines : lines'[k] = lines[k]
  <2>1. lines \in Seq(Line)
    BY DEF TypeOK
  <2> HIDE DEF Line
  <2> QED BY <2>1 DEF Last
<1>3. \A k \in DOMAIN lines : lines[k].in \in 1..files
  BY DEF Segmented
<1>4. \A k \in DOMAIN lines' : lines'[k].in \in 1..files'
  <2> TAKE k \in DOMAIN lines'
  <2>1. k \in DOMAIN lines \/ k = Len(lines) + 1
    BY <1>1, <1>2
  <2> QED BY <2>1, <1>1, <1>2, <1>3
<1>5. \A n \in 1..(files' - 1), k \in DOMAIN lines : Closes(k, n) => Closes(k, n)'
  <2> SUFFICES ASSUME NEW n \in 1..(files' - 1), NEW k \in DOMAIN lines, Closes(k, n) PROVE Closes(k, n)'
    OBVIOUS
  <2>1. \A j \in DOMAIN lines' : lines'[j].in <= n <=> j <= k
    <3> TAKE j \in DOMAIN lines'
    <3>1. CASE j \in DOMAIN lines
      BY <3>1, <1>2 DEF Closes
    <3>2. CASE j = Len(lines) + 1
      BY <3>2, <1>1, <1>2
    <3> QED BY <3>1, <3>2, <1>1, <1>2
  <2>2. lines'[k].op = "checkpoint" /\ lines'[k].segment = n + 1
    BY <1>2 DEF Closes
  <2> QED BY <2>1, <2>2 DEF Closes
<1>6. \A n \in 1..(files' - 1) : \E k \in DOMAIN lines : Closes(k, n)
  <2> TAKE n \in 1..(files' - 1)
  <2>1. CASE n \in 1..(files - 1)
    BY <2>1 DEF Segmented
  <2>2. CASE n = files
    <3>1. ActiveSegment = files + 1 /\ files # 0
      BY <2>2, <1>1
    <3>2. lines # <<>> /\ lines[Len(lines)].op = "checkpoint" /\ lines[Len(lines)].segment = files + 1
      BY <3>1, <1>1
    <3>3. \A j \in DOMAIN lines : lines[j].in <= n <=> j <= Len(lines)
      BY <1>1, <1>3, <2>2
    <3>4. Closes(Len(lines), n)
      BY <2>2, <3>2, <3>3 DEF Closes
    <3> QED BY <3>2, <3>4, <1>1
  <2> QED BY <2>1, <2>2, <1>1
<1>7. \A n \in 1..(files' - 1) : \E k \in DOMAIN lines' : Closes(k, n)'
  <2> TAKE n \in 1..(files' - 1)
  <2>1. PICK k \in DOMAIN lines : Closes(k, n)
    BY <1>6
  <2>2. k \in DOMAIN lines' /\ Closes(k, n)'
    BY <2>1, <1>1, <1>2, <1>5
  <2> QED BY <2>2
<1>8. Last(lines').op = "checkpoint" => Last(lines').segment = files' + 1
  BY <1>2
<1> QED BY <1>4, <1>7, <1>8 DEF Segmented

-----------------------------------------------------------------------------
(* The invariant, action by action. *)

LEMMA InitInv == Init => Inv
<1> SUFFICES ASSUME Init PROVE Inv
  OBVIOUS
<1>1. /\ lines = <<>> /\ files = 0 /\ torn = FALSE /\ store = EmptyStore /\ checkpoints = {} /\ now = 0
      /\ pc = "idle" /\ pending = <<>> /\ acked = 0 /\ crashes = 0
  BY DEF Init
<1>9. Len(lines) = 0 /\ lines \in Seq(Line) /\ pending \in Seq(Body) /\ DOMAIN lines = {}
  BY <1>1
<1>2. EmptyStore \in Store /\ EmptyStore.last_seq = 0
  <2>1. <<>> \in Seq(Job)
    OBVIOUS
  <2> QED BY <2>1 DEF EmptyStore, Store
<1>3. TypeOK
  BY <1>1, <1>2, <1>9 DEF TypeOK, Phases
<1>4. Replayed
  <2>1. SubSeq(<<>>, 1, 0) = <<>>
    OBVIOUS
  <2>2. Replay(<<>>) = EmptyStore
    BY ApplyNone DEF Replay
  <2>3. SubSeq(lines, 1, store.last_seq) = <<>>
    BY <1>1, <1>2, <2>1
  <2>4. store = Replay(SubSeq(lines, 1, store.last_seq))
    BY <1>1, <2>2, <2>3
  <2>5. store.last_seq \in 0..Len(lines)
    BY <1>1, <1>2, <1>9
  <2> QED BY <2>4, <2>5 DEF Replayed
<1>5. Vouched /\ Segmented
  BY <1>1, <1>9 DEF Vouched, Segmented
<1>6. Holding
  BY <1>1, <1>9 DEF Holding
<1> QED BY <1>3, <1>4, <1>5, <1>6 DEF Inv

\* The actions that leave the journal, the store and the segments alone.
LEMMA QuietInv ==
  ASSUME Inv, UNCHANGED <<lines, files, store>>, TypeOK', Holding'
  PROVE  Inv'
<1>1. Replayed'
  BY DEF Inv, Replayed
<1>2. Vouched'
  BY DEF Inv, Vouched
<1>3. Segmented'
  BY DEF Inv, Segmented, Closes
<1> QED BY <1>1, <1>2, <1>3 DEF Inv

LEMMA OpenInv == Inv /\ Open => Inv'
<1> SUFFICES ASSUME Inv, Open PROVE Inv'
  OBVIOUS
<1>1. UNCHANGED <<lines, files, store>>
  BY DEF Open
<1>2. TypeOK'
  BY DEF Inv, Open, TypeOK, Phases
<1>3. Holding'
  BY DEF Inv, Open, Holding
<1> QED BY <1>1, <1>2, <1>3, QuietInv

LEMMA ReadInv == Inv /\ Read => Inv'
<1> SUFFICES ASSUME Inv, Read PROVE Inv'
  OBVIOUS
<1>1. /\ UNCHANGED <<lines, files, torn, store, checkpoints, now, crashes>>
      /\ pc' = "idle" /\ pending' = <<>> /\ acked' = Len(lines)
  BY DEF Read, Return, disk
<1>2. <<>> \in Seq(Body) /\ Len(lines) \in Nat
  BY DEF Inv, TypeOK
<1>3. TypeOK'
  BY <1>1, <1>2 DEF Inv, TypeOK, Phases
<1>4. Holding'
  BY <1>1, <1>2 DEF Holding
<1> QED BY <1>1, <1>3, <1>4, QuietInv

LEMMA CallInv == Inv /\ Call => Inv'
<1> SUFFICES ASSUME Inv, Call PROVE Inv'
  OBVIOUS
<1>1. /\ UNCHANGED <<lines, files, torn, store, checkpoints, now, acked, crashes>>
      /\ pc' = "append" /\ Decided(pending')
  BY CallDecides DEF Inv, disk
<1>2. TypeOK'
  BY <1>1 DEF Inv, TypeOK, Phases, Decided
<1>3. Holding'
  BY <1>1 DEF Inv, Holding, Decided
<1> QED BY <1>1, <1>2, <1>3, QuietInv

LEMMA HealInv == Inv /\ Heal => Inv'
<1> SUFFICES ASSUME Inv, Heal PROVE Inv'
  OBVIOUS
<1>1. /\ UNCHANGED <<lines, files, torn, checkpoints, now, pending, acked, crashes>> /\ pc' = "ready"
      /\ store' = ApplyAll(store, From(lines, store.last_seq))
  BY DEF Heal
<1>2. Replayed' /\ store' \in Store /\ store'.last_seq = Len(lines)
  BY <1>1, StoreWritten DEF Inv
<1>3. TypeOK'
  BY <1>1, <1>2 DEF Inv, TypeOK, Phases
<1>4. Vouched' /\ Segmented'
  BY <1>1 DEF Inv, Vouched, Segmented, Closes
<1>5. Holding'
  BY <1>1, <1>2 DEF Inv, Holding
<1> QED BY <1>2, <1>3, <1>4, <1>5 DEF Inv

LEMMA WriteStoreInv == Inv /\ WriteStore => Inv'
<1> SUFFICES ASSUME Inv, WriteStore PROVE Inv'
  OBVIOUS
<1>1. /\ UNCHANGED <<lines, files, torn, checkpoints, now, crashes>> /\ pc = "store"
      /\ store' = ApplyAll(store, From(lines, store.last_seq))
      /\ \/ pc' = "snapshot" /\ UNCHANGED <<pending, acked>>
         \/ pc' = "idle" /\ pending' = <<>> /\ acked' = Len(lines)
  BY DEF WriteStore, Return
<1>2. Replayed' /\ store' \in Store /\ store'.last_seq = Len(lines)
  BY <1>1, StoreWritten DEF Inv
<1>3. <<>> \in Seq(Body) /\ Len(lines) \in Nat
  BY DEF Inv, TypeOK
<1>4. TypeOK'
  BY <1>1, <1>2, <1>3 DEF Inv, TypeOK, Phases
<1>5. Vouched' /\ Segmented'
  BY <1>1 DEF Inv, Vouched, Segmented, Closes
<1>6. Holding'
  BY <1>1, <1>2, <1>3 DEF Inv, Holding
<1> QED BY <1>2, <1>4, <1>5, <1>6 DEF Inv

LEMMA WriteCheckpointStoreInv == Inv /\ WriteCheckpointStore => Inv'
<1> SUFFICES ASSUME Inv, WriteCheckpointStore PROVE Inv'
  OBVIOUS
<1>1. /\ UNCHANGED <<lines, files, torn, checkpoints, now, pending, acked, crashes>>
      /\ pc = "checkpoint_store" /\ pc' = "touch"
      /\ store' = ApplyAll(store, From(lines, store.last_seq))
  BY DEF WriteCheckpointStore
<1>2. Replayed' /\ store' \in Store /\ store'.last_seq = Len(lines)
  BY <1>1, StoreWritten DEF Inv
<1>3. TypeOK'
  BY <1>1, <1>2 DEF Inv, TypeOK, Phases
<1>4. Vouched' /\ Segmented'
  BY <1>1 DEF Inv, Vouched, Segmented, Closes
<1>5. Holding'
  BY <1>1, <1>2 DEF Inv, Holding
<1> QED BY <1>2, <1>3, <1>4, <1>5 DEF Inv

\* A body with the segment it goes to is a line.
LEMMA LineIs ==
  ASSUME NEW b \in Body, ActiveSegment \in Nat
  PROVE  /\ WithSegment(b) \in Line /\ WithSegment(b).in = ActiveSegment
         /\ WithSegment(b).op = b.op /\ WithSegment(b).segment = b.segment /\ WithSegment(b).snapshot = b.snapshot
<1> HIDE DEF ActiveSegment, Store, States, Ops
<1>1. WithSegment(b) \in Line
  BY DEF WithSegment, Line, Body
<1> QED BY <1>1 DEF WithSegment

LEMMA AppendLineInv == Inv /\ AppendLine => Inv'
<1> SUFFICES ASSUME Inv, AppendLine PROVE Inv'
  OBVIOUS
<1> DEFINE b == Head(pending)
           l == WithSegment(b)
<1>1. /\ pc = "append" /\ lines' = Append(lines, l) /\ files' = Larger(files, ActiveSegment)
      /\ pending' = Tail(pending) /\ pc' = IF Tail(pending) = <<>> THEN "store" ELSE "append"
      /\ UNCHANGED <<torn, store, checkpoints, now, acked, crashes>>
  BY DEF AppendLine
<1>2. pending \in Seq(Body) /\ pending # <<>> /\ \A n \in DOMAIN pending : pending[n].op # "checkpoint"
  BY <1>1 DEF Inv, TypeOK, Holding
<1>3. /\ b \in Body /\ b.op # "checkpoint" /\ Tail(pending) \in Seq(Body)
      /\ \A n \in DOMAIN Tail(pending) : Tail(pending)[n].op # "checkpoint"
  <2> HIDE DEF Body
  <2>1. /\ b = pending[1] /\ 1 \in DOMAIN pending /\ Tail(pending) \in Seq(Body) /\ b \in Body
        /\ \A n \in DOMAIN Tail(pending) : Tail(pending)[n] = pending[n + 1] /\ n + 1 \in DOMAIN pending
    BY <1>2
  <2> QED BY <1>2, <2>1
<1>4. /\ ActiveSegment \in Nat \ {0} /\ Larger(files, ActiveSegment) = ActiveSegment /\ Len(lines) \in Nat
  BY ActiveIs DEF Inv
<1> HIDE DEF b
<1>5. l \in Line /\ l.in = ActiveSegment /\ l.op # "checkpoint"
  BY <1>3, <1>4, LineIs
<1> HIDE DEF l
<1>6. lines' \in Seq(Line) /\ Len(lines') = Len(lines) + 1 /\ lines' # <<>> /\ Last(lines') = l /\ Replayed' /\ Vouched'
  BY <1>1, <1>5, LineAppended DEF Inv
<1>7. Segmented'
  BY <1>1, <1>4, <1>5, SegmentExtended DEF Inv
<1>8. TypeOK'
  BY <1>1, <1>3, <1>4, <1>6 DEF Inv, TypeOK, Phases
<1>9. Holding'
  BY <1>1, <1>3, <1>4, <1>5, <1>6 DEF Inv, Holding, TypeOK
<1> QED BY <1>6, <1>7, <1>8, <1>9 DEF Inv

\* The snapshot is what the checkpoint line leaves.
LEMMA SnapshotIs ==
  ASSUME Inv, pc \in {"snapshot", "checkpoint"}
  PROVE  /\ Snapshot \in Store /\ Snapshot.last_seq = Len(lines) + 1
         /\ \A l \in Line : l.op = "checkpoint" => Replay(Append(lines, l)) = Snapshot
<1>1. store.last_seq = Len(lines) /\ store \in Store /\ lines \in Seq(Line)
  BY DEF Inv, Holding, TypeOK
<1>2. store = Replay(lines)
  BY <1>1, CaughtUp DEF Inv, Replayed
<1>3. Snapshot \in Store /\ Snapshot.last_seq = Len(lines) + 1
  <2> HIDE DEF Job
  <2> QED BY <1>1 DEF Store, Snapshot
<1>4. ASSUME NEW l \in Line, l.op = "checkpoint" PROVE Replay(Append(lines, l)) = Snapshot
  <2>1. Replay(Append(lines, l)) = ApplyLine(Replay(lines), l)
    BY <1>1, ApplyOneMore DEF Replay
  <2>2. ApplyLine(store, l) = [store EXCEPT !.last_seq = @ + 1]
    BY <1>4 DEF ApplyLine
  <2> QED BY <1>2, <2>1, <2>2 DEF Snapshot
<1> QED BY <1>3, <1>4

LEMMA WriteSnapshotInv == Inv /\ WriteSnapshot => Inv'
<1> SUFFICES ASSUME Inv, WriteSnapshot PROVE Inv'
  OBVIOUS
<1> DEFINE c == [segment |-> files + 1, seq |-> Snapshot.last_seq, store |-> Snapshot]
<1>1. /\ pc = "snapshot" /\ pc' = "checkpoint" /\ checkpoints' = {d \in checkpoints : d.segment # files + 1} \cup {c}
      /\ UNCHANGED <<lines, files, torn, store, now, pending, acked, crashes>>
  BY DEF WriteSnapshot
<1>2. c \in [segment: Nat, seq: Nat, store: Store]
  <2>1. Snapshot \in Store /\ Snapshot.last_seq \in Nat /\ files + 1 \in Nat
    BY <1>1, SnapshotIs DEF Store, Inv, TypeOK
  <2> QED BY <2>1
<1> HIDE DEF c
<1>3. TypeOK'
  <2>1. checkpoints' \subseteq [segment: Nat, seq: Nat, store: Store]
    BY <1>1, <1>2 DEF Inv, TypeOK
  <2> QED BY <1>1, <2>1 DEF Inv, TypeOK, Phases
<1>4. Holding'
  BY <1>1 DEF Inv, Holding
<1> QED BY <1>1, <1>3, <1>4, QuietInv

LEMMA AppendCheckpointInv == Inv /\ AppendCheckpoint => Inv'
<1> SUFFICES ASSUME Inv, AppendCheckpoint PROVE Inv'
  OBVIOUS
<1> DEFINE e == Entry("checkpoint", 0)
           b == [e EXCEPT !.segment = files + 1, !.snapshot = Snapshot]
           l == WithSegment(b)
<1>1. /\ pc = "checkpoint" /\ pc' = "checkpoint_store" /\ lines' = Append(lines, l)
      /\ UNCHANGED <<files, torn, store, checkpoints, now, pending, acked, crashes>>
  BY DEF AppendCheckpoint
<1>2. e \in Body /\ e.op = "checkpoint"
  <2>1. e \in Body
    BY EntryType DEF Ops
  <2>2. e.op = "checkpoint"
    BY DEF Entry
  <2> QED BY <2>1, <2>2
<1>3. Snapshot \in Store /\ files \in Nat /\ \A k \in Line : k.op = "checkpoint" => Replay(Append(lines, k)) = Snapshot
  BY <1>1, SnapshotIs DEF Inv, TypeOK
<1>4. lines # <<>> /\ Last(lines).op # "checkpoint" /\ Len(lines) \in Nat
  BY <1>1, ActiveIs DEF Inv, Holding
<1>5. ActiveSegment = files /\ ActiveSegment \in Nat
  BY <1>4, ActiveIs DEF Inv
<1> HIDE DEF e
<1>6. b \in Body /\ b.op = "checkpoint" /\ b.segment = files + 1 /\ b.snapshot = Snapshot
  <2>1. \A x \in Nat, s \in Store : [e EXCEPT !.segment = x, !.snapshot = s] \in Body
    BY <1>2 DEF Body
  <2>2. files + 1 \in Nat /\ Snapshot \in Store
    BY <1>3
  <2>3. b \in Body
    BY <2>1, <2>2
  <2> HIDE DEF Snapshot
  <2>4. b.op = "checkpoint" /\ b.segment = files + 1 /\ b.snapshot = Snapshot
    BY <1>2 DEF Body
  <2> QED BY <2>3, <2>4
<1> HIDE DEF b
<1>7. l \in Line /\ l.in = ActiveSegment /\ l.op = "checkpoint" /\ l.segment = files + 1 /\ l.snapshot = Snapshot
  BY <1>5, <1>6, LineIs
<1> HIDE DEF l
<1>8. l.snapshot = Replay(Append(lines, l))
  BY <1>3, <1>7
<1>9. lines' \in Seq(Line) /\ Len(lines') = Len(lines) + 1 /\ lines' # <<>> /\ Last(lines') = l /\ Replayed' /\ Vouched'
  BY <1>1, <1>7, <1>8, LineAppended DEF Inv
<1>10. Segmented'
  BY <1>1, <1>5, <1>7, SegmentExtended DEF Inv
<1>11. TypeOK'
  BY <1>1, <1>9 DEF Inv, TypeOK, Phases
<1>12. Holding'
  BY <1>1, <1>4, <1>7, <1>9 DEF Inv, Holding, TypeOK
<1> QED BY <1>9, <1>10, <1>11, <1>12 DEF Inv

LEMMA TouchSegmentInv == Inv /\ TouchSegment => Inv'
<1> SUFFICES ASSUME Inv, TouchSegment PROVE Inv'
  OBVIOUS
<1>1. /\ pc = "touch" /\ files' = Last(lines).segment /\ pc' = "idle" /\ pending' = <<>> /\ acked' = Len(lines)
      /\ UNCHANGED <<lines, torn, store, checkpoints, now, crashes>>
  BY DEF TouchSegment, Return
<1>2. lines # <<>> /\ Last(lines).op = "checkpoint" /\ Last(lines).segment = files + 1
  BY <1>1 DEF Inv, Holding
<1>3. ActiveSegment = files + 1 /\ files \in Nat /\ Len(lines) \in Nat
  BY <1>2, ActiveIs DEF ActiveSegment, Inv
<1>4. Segmented'
  BY <1>1, <1>2, <1>3, SegmentOpened DEF Inv
<1>5. Replayed' /\ Vouched'
  BY <1>1 DEF Inv, Replayed, Vouched
<1>6. <<>> \in Seq(Body)
  OBVIOUS
<1>7. TypeOK'
  BY <1>1, <1>2, <1>3, <1>6 DEF Inv, TypeOK, Phases
<1>8. Holding'
  <2>1. acked' <= Len(lines')
    BY <1>1, <1>3
  <2> QED BY <1>1, <2>1 DEF Holding
<1> QED BY <1>4, <1>5, <1>7, <1>8 DEF Inv

LEMMA TickInv == Inv /\ Tick => Inv'
<1> SUFFICES ASSUME Inv, Tick PROVE Inv'
  OBVIOUS
<1>1. UNCHANGED <<lines, files, torn, store, checkpoints, pc, pending, acked, crashes>> /\ now' = now + 1
  BY DEF Tick, disk
<1>2. TypeOK'
  BY <1>1 DEF Inv, TypeOK
<1>3. Holding'
  BY <1>1 DEF Inv, Holding
<1> QED BY <1>1, <1>2, <1>3, QuietInv

LEMMA CrashInv == Inv /\ Crash => Inv'
<1> SUFFICES ASSUME Inv, Crash PROVE Inv'
  OBVIOUS
<1>1. /\ UNCHANGED <<lines, files, torn, store, checkpoints, now, acked>>
      /\ pc' = "idle" /\ pending' = <<>> /\ crashes' = crashes + 1
  BY DEF Crash, disk
<1>2. <<>> \in Seq(Body)
  OBVIOUS
<1>3. TypeOK'
  BY <1>1, <1>2 DEF Inv, TypeOK, Phases
<1>4. Holding'
  BY <1>1 DEF Inv, Holding
<1> QED BY <1>1, <1>3, <1>4, QuietInv

LEMMA CrashInAppendInv == Inv /\ CrashInAppend => Inv'
<1> SUFFICES ASSUME Inv, CrashInAppend PROVE Inv'
  OBVIOUS
<1>1. /\ UNCHANGED <<lines, store, checkpoints, now, acked>> /\ torn' \in BOOLEAN
      /\ files' = Larger(files, ActiveSegment) /\ pc' = "idle" /\ pending' = <<>> /\ crashes' = crashes + 1
  BY DEF CrashInAppend
<1>2. Larger(files, ActiveSegment) = ActiveSegment /\ ActiveSegment \in Nat
  BY ActiveIs DEF Inv
<1>3. Segmented'
  BY <1>1, <1>2, SegmentOpened DEF Inv
<1>4. Replayed' /\ Vouched'
  BY <1>1 DEF Inv, Replayed, Vouched
<1>5. <<>> \in Seq(Body)
  OBVIOUS
<1>6. TypeOK'
  BY <1>1, <1>2, <1>5 DEF Inv, TypeOK, Phases
<1>7. Holding'
  BY <1>1 DEF Inv, Holding
<1> QED BY <1>3, <1>4, <1>6, <1>7 DEF Inv

LEMMA NextInv == Inv /\ [Next]_vars => Inv'
<1> SUFFICES ASSUME Inv, [Next]_vars PROVE Inv'
  OBVIOUS
<1>1. CASE Next
  BY <1>1, OpenInv, ReadInv, CallInv, HealInv, AppendLineInv, WriteStoreInv, WriteSnapshotInv,
     AppendCheckpointInv, WriteCheckpointStoreInv, TouchSegmentInv, TickInv, CrashInv, CrashInAppendInv
     DEF Next, Continue
<1>2. CASE UNCHANGED vars
  <2>1. UNCHANGED <<lines, files, torn, store, checkpoints, now, pc, pending, acked, crashes>>
    BY <1>2 DEF vars, disk
  <2>2. TypeOK' /\ Holding'
    BY <2>1 DEF Inv, TypeOK, Holding
  <2> QED BY <2>1, <2>2, QuietInv
<1> QED BY <1>1, <1>2

\* Files, journal, checkpoints, store and the call under way always fit together
\* as the parts of Inv say.  (_load, _commit, _rotate)
THEOREM QueueInvariant == Spec => []Inv
  BY InitInv, NextInv, PTL DEF Spec

-----------------------------------------------------------------------------
(* What the invariant says of the queue. *)

\* Every variable holds a value of its kind; in particular no replay of any
\* journal a history can leave produces an ill-formed job.  (apply_line, _commit)
THEOREM EverythingIsWellFormed == Spec => []TypeOK
<1>1. Inv => TypeOK
  BY DEF Inv
<1> QED BY <1>1, QueueInvariant, PTL

\* However calls, rotations and kills follow each other, the next call accepts
\* the journal.  (_read_journal, _rotate, _active_segment)
THEOREM NextCallAccepts == Spec => []CrashesNeverCorrupt
<1>1. Inv => CrashesNeverCorrupt
  <2> SUFFICES ASSUME Inv PROVE JournalAccepted
    BY DEF CrashesNeverCorrupt
  <2>1. Len(lines) \in Nat /\ store.last_seq \in 0..Len(lines)
    BY ActiveIs DEF Inv, Replayed
  <2> QED BY <2>1 DEF Inv, Segmented, JournalAccepted
<1> QED BY <1>1, QueueInvariant, PTL

\* The store is a prefix of the journal replayed, a call decides on the whole
\* of it, and a replay may start from any snapshot a checkpoint line vouches
\* for.  (_load, apply_line, replay, _rotate)
THEOREM StoreReplaysJournal == Spec => []StoreIsReplay
<1>1. Inv => StoreIsReplay
  <2> SUFFICES ASSUME Inv PROVE StoreIsReplay
    OBVIOUS
  <2>1. store = Replay(SubSeq(lines, 1, store.last_seq)) /\ (pc = "ready" => store.last_seq = Len(lines))
    BY DEF Inv, Replayed, Holding
  <2>2. ASSUME NEW c \in checkpoints, Verified(c)
        PROVE  ApplyAll(c.store, From(lines, c.seq)) = Replay(lines)
    <3>1. lines \in Seq(Line) /\ Len(lines) \in Nat /\ DOMAIN lines = 1..Len(lines)
      BY ActiveIs DEF Inv, TypeOK
    <3>2. c.seq \in DOMAIN lines /\ lines[c.seq].op = "checkpoint" /\ lines[c.seq].snapshot = c.store
      BY <2>2, <3>1 DEF Verified
    <3>3. c.store = ApplyAll(EmptyStore, SubSeq(lines, 1, c.seq))
      BY <3>2 DEF Inv, Vouched, Replay
    <3>4. c.seq \in 0..Len(lines)
      BY <3>1, <3>2
    <3>5. ApplyAll(ApplyAll(EmptyStore, SubSeq(lines, 1, c.seq)), From(lines, c.seq)) = ApplyAll(EmptyStore, lines)
      BY <3>1, <3>4, ApplyInTwo
    <3> QED BY <3>3, <3>5 DEF Replay
  <2> QED BY <2>1, <2>2 DEF StoreIsReplay
<1> QED BY <1>1, QueueInvariant, PTL

\* No step shortens or rewrites what a returned call wrote, and no call returns
\* before its lines are there.  (_commit, _discard_torn_tail)
THEOREM AcknowledgedStays == Spec => NothingAcknowledgedIsLost
<1> DEFINE A == Len(lines') >= acked' /\ SubSeq(lines', 1, acked) = SubSeq(lines, 1, acked)
<1>1. Inv /\ Inv' /\ [Next]_vars => [A]_vars
  <2> SUFFICES ASSUME Inv, Inv', [Next]_vars PROVE A
    OBVIOUS
  <2>1. Len(lines') >= acked'
    <3>1. acked' <= Len(lines') /\ acked' \in Nat /\ lines' \in Seq(Line)
      BY DEF Inv, Holding, TypeOK
    <3>2. Len(lines') \in Nat
      <4> HIDE DEF Line
      <4> QED BY <3>1
    <3> QED BY <3>1, <3>2
  <2>2. lines' = lines \/ \E l \in Line : lines' = Append(lines, l)
    <3>1. CASE AppendLine \/ AppendCheckpoint
      <4>1. \E l : lines' = Append(lines, l)
        BY <3>1 DEF AppendLine, AppendCheckpoint
      <4>2. PICK l : lines' = Append(lines, l)
        BY <4>1
      <4>3. lines \in Seq(Line) /\ lines' \in Seq(Line)
        BY DEF Inv, TypeOK
      <4>4. l \in Line
        <5> HIDE DEF Line
        <5>1. Len(lines') = Len(lines) + 1 /\ Len(lines) \in Nat /\ lines'[Len(lines) + 1] = l
          BY <4>2, <4>3
        <5> QED BY <4>3, <5>1
      <4> QED BY <4>2, <4>4
    <3>2. CASE Next /\ ~(AppendLine \/ AppendCheckpoint)
      <4>1. Call => lines' = lines
        BY CallDecides DEF Inv, disk
      <4> QED BY <3>2, <4>1 DEF Next, Continue, Open, Read, Heal, WriteStore, WriteSnapshot, WriteCheckpointStore,
                 TouchSegment, Tick, Crash, CrashInAppend, disk
    <3>3. CASE UNCHANGED vars
      BY <3>3 DEF vars, disk
    <3> QED BY <3>1, <3>2, <3>3
  <2>3. acked \in 0..Len(lines) /\ lines \in Seq(Line)
    BY ActiveIs DEF Inv, Holding, TypeOK
  <2>4. SubSeq(lines', 1, acked) = SubSeq(lines, 1, acked)
    <3>1. CASE lines' = lines
      BY <3>1
    <3>2. ASSUME NEW l \in Line, lines' = Append(lines, l)
          PROVE  SubSeq(lines', 1, acked) = SubSeq(lines, 1, acked)
      BY <2>3, <3>2, PrefixOfAppend
    <3> QED BY <2>2, <3>1, <3>2
  <2> QED BY <2>1, <2>4
<1> QED BY <1>1, QueueInvariant, PTL DEF Spec, NothingAcknowledgedIsLost

-----------------------------------------------------------------------------
(* What a call has decided still may follow when part of it is written. *)

JournalIsReplay ==
  /\ Journalled = Replay(lines).jobs /\ Journalled \in Seq(Job)
  /\ pc = "ready" => Journalled = store.jobs

LEMMA JournalledIs == Inv => JournalIsReplay
<1> SUFFICES ASSUME Inv PROVE JournalIsReplay
  OBVIOUS
<1>1. Journalled = Replay(lines).jobs /\ Replay(lines) \in Store
  BY CaughtUp DEF Inv, Journalled
<1>2. ASSUME pc = "ready" PROVE Journalled = store.jobs
  <2>1. store = Replay(lines)
    BY <1>2, CaughtUp DEF Inv, Replayed, Holding
  <2> QED BY <1>1, <2>1
<1> QED BY <1>1, <1>2 DEF JournalIsReplay, Store

LEMMA JournalledNext == Inv' => JournalIsReplay'
  BY JournalledIs, PTL

\* The job a line makes of the one it names.
Changed(job, l) ==
  LET free == [job EXCEPT !.worker = NoWorker, !.expires_at = 0]
  IN CASE l.op = "claim" ->
            [job EXCEPT !.state = "leased", !.epoch = l.epoch, !.worker = l.worker, !.expires_at = l.expires_at]
       [] l.op = "heartbeat" -> [job EXCEPT !.expires_at = l.expires_at]
       [] l.op \in {"fail", "expire"} -> [free EXCEPT !.attempts = l.attempts, !.state = l.state]
       [] l.op = "succeed" -> [free EXCEPT !.state = "succeeded"]
       [] l.op = "cancel" -> [free EXCEPT !.state = "cancelled"]

Submitted(l) ==
  [key |-> l.key, state |-> "queued", attempts |-> 0, max_attempts |-> l.max_attempts, epoch |-> 0,
   worker |-> NoWorker, expires_at |-> 0]

LEMMA LineChanges ==
  ASSUME NEW st \in Store, NEW l
  PROVE  /\ l.op = "checkpoint" => ApplyLine(st, l).jobs = st.jobs
         /\ l.op = "submit" => ApplyLine(st, l).jobs = Append(st.jobs, Submitted(l))
         /\ l.op \in {"claim", "heartbeat", "fail", "expire", "succeed", "cancel"} =>
              ApplyLine(st, l).jobs = [st.jobs EXCEPT ![l.job] = Changed(st.jobs[l.job], l)]
  BY DEF ApplyLine, Submitted, Changed, Store

\* Only an appended line changes what the journal says of the jobs.
LEMMA JournalKept ==
  ASSUME Inv, Inv', lines' = lines
  PROVE  Journalled' = Journalled
<1>1. Journalled = Replay(lines).jobs
  BY JournalledIs DEF JournalIsReplay
<1>2. Journalled' = Replay(lines').jobs
  BY JournalledNext DEF JournalIsReplay
<1> QED BY <1>1, <1>2

LEMMA JournalGrows ==
  ASSUME Inv, Inv', NEW l \in Line, lines' = Append(lines, l)
  PROVE  Journalled' = ApplyLine(Replay(lines), l).jobs /\ Journalled = Replay(lines).jobs /\ Replay(lines) \in Store
<1>1. Journalled = Replay(lines).jobs /\ Replay(lines) \in Store
  BY JournalledIs, CaughtUp DEF JournalIsReplay, Inv
<1>2. Journalled' = Replay(lines').jobs
  BY JournalledNext DEF JournalIsReplay
<1>3. Replay(Append(lines, l)) = ApplyLine(Replay(lines), l)
  BY ApplyOneMore DEF Inv, TypeOK, Replay
<1> QED BY <1>1, <1>2, <1>3

LEMMA CheckpointKeepsJobs ==
  ASSUME Inv, Inv', AppendCheckpoint
  PROVE  Journalled' = Journalled
<1> DEFINE e == Entry("checkpoint", 0)
           b == [e EXCEPT !.segment = files + 1, !.snapshot = Snapshot]
           l == WithSegment(b)
<1>1. lines' = Append(lines, l)
  BY DEF AppendCheckpoint
<1>2. e \in Body /\ e.op = "checkpoint"
  <2>1. e \in Body
    BY EntryType DEF Ops
  <2>2. e.op = "checkpoint"
    BY DEF Entry
  <2> QED BY <2>1, <2>2
<1> HIDE DEF e
<1>3. b.op = "checkpoint"
  BY <1>2 DEF Body
<1> HIDE DEF b
<1>4. l.op = "checkpoint"
  BY <1>3 DEF WithSegment
<1> HIDE DEF l
<1>5. l \in Line
  <2>1. lines \in Seq(Line) /\ lines' \in Seq(Line)
    BY DEF Inv, TypeOK
  <2> HIDE DEF Line
  <2>2. Len(lines') = Len(lines) + 1 /\ Len(lines) \in Nat /\ lines'[Len(lines) + 1] = l
    BY <1>1, <2>1
  <2> QED BY <2>1, <2>2
<1>6. /\ Journalled' = ApplyLine(Replay(lines), l).jobs /\ Journalled = Replay(lines).jobs /\ Replay(lines) \in Store
  BY <1>1, <1>5, JournalGrows
<1> QED BY <1>4, <1>6, LineChanges

\* The line that AppendLine writes changes one job, or adds one.
LEMMA LineJournalled ==
  ASSUME Inv, Inv', AppendLine, NEW b, b = Head(pending)
  PROVE  /\ b.op = "submit" => Journalled' = Append(Journalled, Submitted(b))
         /\ b.op \in {"claim", "heartbeat", "fail", "expire", "succeed", "cancel"} =>
              Journalled' = [Journalled EXCEPT ![b.job] = Changed(Journalled[b.job], b)]
<1> DEFINE l == WithSegment(b)
<1>1. lines' = Append(lines, l)
  BY DEF AppendLine
<1>2. /\ l.op = b.op /\ l.job = b.job /\ l.key = b.key /\ l.max_attempts = b.max_attempts
      /\ l.state = b.state /\ l.attempts = b.attempts
      /\ l.worker = b.worker /\ l.epoch = b.epoch /\ l.expires_at = b.expires_at
  BY DEF WithSegment
<1> HIDE DEF l
<1>3. l \in Line
  <2>1. lines \in Seq(Line) /\ lines' \in Seq(Line)
    BY DEF Inv, TypeOK
  <2> HIDE DEF Line
  <2>2. Len(lines') = Len(lines) + 1 /\ Len(lines) \in Nat /\ lines'[Len(lines) + 1] = l
    BY <1>1, <2>1
  <2> QED BY <2>1, <2>2
<1>4. /\ Journalled' = ApplyLine(Replay(lines), l).jobs /\ Journalled = Replay(lines).jobs /\ Replay(lines) \in Store
  BY <1>1, <1>3, JournalGrows
<1>5. Submitted(l) = Submitted(b)
  BY <1>2 DEF Submitted
<1>6. \A job : Changed(job, l) = Changed(job, b)
  BY <1>2, Zenon DEF Changed
<1> QED BY <1>2, <1>4, <1>5, <1>6, LineChanges

\* A lease given back keeps the job's epoch and takes the state the line carries.
LEMMA GivenBackIs ==
  ASSUME NEW job \in Job, NEW l, l.op \in {"fail", "expire"}
  PROVE  Changed(job, l).state = l.state /\ Changed(job, l).epoch = job.epoch
<1> DEFINE free == [job EXCEPT !.worker = NoWorker, !.expires_at = 0]
           r == [free EXCEPT !.attempts = l.attempts, !.state = l.state]
<1>1. Changed(job, l) = r
  BY DEF Changed
<1>2. \A k \in {"state", "epoch", "attempts"} : k \in DOMAIN free /\ free[k] = job[k]
  BY DEF Job
<1>3. free.epoch = job.epoch /\ "state" \in DOMAIN free /\ "attempts" \in DOMAIN free
  BY <1>2
<1> HIDE DEF free
<1>4. r.state = l.state /\ r.epoch = free.epoch
  BY <1>2
<1> QED BY <1>1, <1>3, <1>4

\* Once the first of several lines is written the others still may follow.
LEMMA RestMayFollow ==
  ASSUME NEW js \in Seq(Job), NEW ks \in Seq(Job), NEW p \in Seq(Body), p # <<>>, Tail(p) # <<>>, MayFollow(js, p),
         p[1].op = "expire" => ks = [js EXCEPT ![p[1].job] = Changed(js[p[1].job], p[1])]
  PROVE  p[1].op = "expire" /\ MayFollow(ks, Tail(p))
<1> DEFINE q == Tail(p)
           j == p[1].job
<1>1. /\ Len(p) \in Nat /\ Len(p) >= 2 /\ q \in Seq(Body) /\ Len(q) = Len(p) - 1 /\ DOMAIN q = 1..(Len(p) - 1)
      /\ \A n \in 1..(Len(p) - 1) : q[n] = p[n + 1]
      /\ DOMAIN p = 1..Len(p)
  OBVIOUS
<1>2. Workers # {} /\ \A n \in DOMAIN p : ScanEntry(js, p, n)
  BY <1>1 DEF MayFollow
<1>3. \A n \in DOMAIN p : p[n].job \in Nat
  <2>1. \A b \in Body : b.job \in Nat
    BY DEF Body
  <2> HIDE DEF Body
  <2> QED BY <2>1
<1>4. DOMAIN js = 1..Len(js) /\ \A i \in DOMAIN js : js[i] \in Job
  OBVIOUS
<1>5. p[1].op = "expire" /\ j \in DOMAIN js /\ Lapsed(js[j]) /\ p[1].state = After(js[j])
  BY <1>1, <1>2 DEF ScanEntry
<1>6. ks = [js EXCEPT ![j] = Changed(js[j], p[1])] /\ DOMAIN ks = DOMAIN js
  BY <1>5
<1>7. \A i \in DOMAIN js : i # j => ks[i] = js[i]
  BY <1>6
<1>8. ks[j] = Changed(js[j], p[1])
  BY <1>5, <1>6
<1>9. ks[j].state = p[1].state /\ ks[j].epoch = js[j].epoch
  BY <1>4, <1>5, <1>8, GivenBackIs
<1>10. js[j].state = "leased"
  BY <1>5 DEF Lapsed
<1> HIDE DEF q, j, Body, Job
<1>11. ASSUME NEW n \in 1..(Len(p) - 1) PROVE ScanEntry(ks, q, n)
  <2> DEFINE i == q[n].job
  <2>1. /\ n + 1 \in DOMAIN p /\ q[n] = p[n + 1] /\ ScanEntry(js, p, n + 1) /\ i \in Nat /\ p[n + 1].job = i
        /\ (n + 1) - 1 = n /\ n \in Nat /\ 1 \in 1..n
    BY <1>1, <1>2, <1>3
  <2>2. \A m \in 1..(n - 1) : q[m] = p[m + 1] /\ m + 1 \in 1..n
    BY <1>1
  <2> HIDE DEF i
  <2>3. i \in DOMAIN js /\ i \in DOMAIN ks
    BY <2>1, <1>6 DEF ScanEntry
  <2>4. \/ j < i /\ p[1].state = "failed"
        \/ j = i /\ p[1].state = "queued" /\ p[n + 1].op = "claim"
    BY <2>1 DEF ScanEntry, j
  <2>5. \A m \in 1..n : m = 1 \/ (m - 1 \in 1..(n - 1) /\ p[m] = q[m - 1])
    <3> TAKE m \in 1..n
    <3>1. CASE m # 1
      <4>1. m - 1 \in 1..(n - 1) /\ (m - 1) + 1 = m
        BY <3>1, <2>1
      <4> QED BY <4>1, <2>2
    <3> QED BY <3>1
  <2>6. \/ /\ q[n].op = "expire" /\ Lapsed(ks[i]) /\ q[n].attempts = ks[i].attempts + 1 /\ q[n].state = After(ks[i])
        \/ /\ q[n].op = "claim" /\ n = Len(q)
           /\ q[n].worker \in Workers /\ q[n].epoch = ks[i].epoch + 1 /\ Until(q[n].expires_at)
           /\ ks[i].state = "queued" \/ \E m \in 1..(n - 1) : q[m].job = i
    <3>1. CASE p[n + 1].op = "claim"
      <4>1. /\ n + 1 = Len(p) /\ p[n + 1].worker \in Workers /\ p[n + 1].epoch = js[i].epoch + 1
            /\ Until(p[n + 1].expires_at)
            /\ js[i].state = "queued" \/ \E m \in 1..n : p[m].job = i
        BY <2>1, <3>1 DEF ScanEntry
      <4>2. ks[i].epoch = js[i].epoch
        BY <1>7, <1>9, <2>3
      <4>3. ks[i].state = "queued" \/ \E m \in 1..(n - 1) : q[m].job = i
        <5>1. CASE i = j
          <6>1. p[1].state = "queued"
            BY <5>1, <2>1, <2>4
          <6> QED BY <5>1, <6>1, <1>9
        <5>2. CASE i # j
          <6>1. CASE js[i].state = "queued"
            BY <5>2, <6>1, <1>7, <2>3
          <6>2. CASE \E m \in 1..n : p[m].job = i
            <7>1. PICK m \in 1..n : p[m].job = i
              BY <6>2
            <7>2. m # 1
              BY <7>1, <5>2 DEF j
            <7> QED BY <7>1, <7>2, <2>5
          <6> QED BY <4>1, <6>1, <6>2
        <5> QED BY <5>1, <5>2
      <4>4. n = Len(q)
        BY <4>1, <1>1, <2>1
      <4> QED BY <4>1, <4>2, <4>3, <4>4, <3>1, <2>1
    <3>2. CASE p[n + 1].op # "claim"
      <4>1. i # j
        BY <3>2, <2>1, <2>4
      <4>2. ks[i] = js[i]
        BY <4>1, <1>7, <2>3
      <4>3. /\ p[n + 1].op = "expire" /\ Lapsed(js[i])
            /\ p[n + 1].attempts = js[i].attempts + 1 /\ p[n + 1].state = After(js[i])
        BY <2>1, <3>2 DEF ScanEntry
      <4> QED BY <4>2, <4>3, <2>1
    <3> QED BY <3>1, <3>2
  <2>7. \A k \in 1..(i - 1) : ks[k].state # "queued" /\ (Lapsed(ks[k]) => \E m \in 1..(n - 1) : q[m].job = k)
    <3> TAKE k \in 1..(i - 1)
    <3>1. k \in DOMAIN js
      BY <1>4, <2>1, <2>3
    <3>2. js[k].state # "queued" /\ (Lapsed(js[k]) => \E m \in 1..n : p[m].job = k)
      BY <2>1 DEF ScanEntry
    <3>3. CASE k = j
      <4>1. p[1].state = "failed"
        BY <3>3, <2>1, <2>4
      <4>2. ks[k].state = "failed"
        BY <4>1, <3>3, <1>9
      <4> QED BY <4>2 DEF Lapsed
    <3>4. CASE k # j
      <4>1. ks[k] = js[k]
        BY <3>1, <3>4, <1>7
      <4>2. ASSUME Lapsed(js[k]) PROVE \E m \in 1..(n - 1) : q[m].job = k
        <5>1. PICK m \in 1..n : p[m].job = k
          BY <4>2, <3>2
        <5>2. m # 1
          BY <5>1, <3>4 DEF j
        <5> QED BY <5>1, <5>2, <2>5
      <4> QED BY <4>1, <4>2, <3>2
    <3> QED BY <3>3, <3>4
  <2>8. \A m \in 1..(n - 1) :
          /\ q[m].op = "expire"
          /\ \/ q[m].job < i /\ q[m].state = "failed"
             \/ q[m].job = i /\ q[m].state = "queued" /\ q[n].op = "claim"
    <3> TAKE m \in 1..(n - 1)
    <3>1. q[m] = p[m + 1] /\ m + 1 \in 1..n
      BY <2>2
    <3>2. /\ p[m + 1].op = "expire"
          /\ \/ p[m + 1].job < i /\ p[m + 1].state = "failed"
             \/ p[m + 1].job = i /\ p[m + 1].state = "queued" /\ p[n + 1].op = "claim"
      BY <2>1, <3>1 DEF ScanEntry
    <3> QED BY <3>1, <3>2, <2>1
  <2> QED BY <2>3, <2>6, <2>7, <2>8 DEF ScanEntry, i
<1>12. \A n \in DOMAIN q : ScanEntry(ks, q, n)
  BY <1>1, <1>11
<1> QED BY <1>2, <1>5, <1>12 DEF MayFollow, q

\* Nothing in a decision looks past the clock its call has read.
LEMMA FollowsNext ==
  ASSUME now' = now, MayFollow(Journalled', pending')
  PROVE  MayFollow(Journalled, pending)'
<1>1. \A job : Lapsed(job)' <=> Lapsed(job)
  BY DEF Lapsed
<1> QED BY <1>1 DEF MayFollow, ScanEntry, OwnEntry, Mine, Until, Lapsed, After

LEMMA DecisionNext ==
  ASSUME Inv, Inv', DecisionStands, [Next]_vars
  PROVE  DecisionStands'
<1>1. CASE AppendLine
  <2> SUFFICES ASSUME pc' = "append" PROVE MayFollow(Journalled, pending)'
    BY DEF DecisionStands
  <2> DEFINE b == Head(pending)
  <2>1. /\ pc = "append" /\ pending' = Tail(pending) /\ Tail(pending) # <<>> /\ now' = now
    BY <1>1 DEF AppendLine
  <2>2. pending \in Seq(Body) /\ pending # <<>> /\ MayFollow(Journalled, pending)
    BY <2>1 DEF Inv, TypeOK, Holding, DecisionStands
  <2>3. b = pending[1]
    <3> HIDE DEF Body
    <3> QED BY <2>2
  <2>4. Journalled \in Seq(Job) /\ Journalled' \in Seq(Job)
    BY JournalledIs, JournalledNext DEF JournalIsReplay
  <2>5. b.op = "expire" => Journalled' = [Journalled EXCEPT ![b.job] = Changed(Journalled[b.job], b)]
    BY <1>1, LineJournalled
  <2> HIDE DEF b
  <2>6. MayFollow(Journalled', Tail(pending))
    BY <2>1, <2>2, <2>3, <2>4, <2>5, RestMayFollow
  <2> QED BY <2>1, <2>6, FollowsNext
<1>2. CASE Call
  <2>1. pc = "ready" /\ UNCHANGED <<lines, now>> /\ MayFollow(store.jobs, pending')
    BY <1>2, CallDecides DEF Inv, disk
  <2>2. Journalled' = Journalled /\ Journalled = store.jobs
    BY <2>1, JournalKept, JournalledIs DEF JournalIsReplay
  <2>3. MayFollow(Journalled', pending')
    BY <2>1, <2>2
  <2> QED BY <2>1, <2>3, FollowsNext DEF DecisionStands
<1>3. CASE UNCHANGED vars
  <2>1. UNCHANGED <<lines, now, pc, pending>>
    BY <1>3 DEF vars, disk
  <2>2. Journalled' = Journalled
    BY <2>1, JournalKept
  <2> SUFFICES ASSUME pc' = "append" PROVE MayFollow(Journalled, pending)'
    BY DEF DecisionStands
  <2>3. MayFollow(Journalled', pending')
    BY <2>1, <2>2 DEF DecisionStands
  <2> QED BY <2>1, <2>3, FollowsNext
<1>4. CASE Next /\ ~AppendLine /\ ~Call
  <2>1. pc' # "append"
    BY <1>4 DEF Next, Continue, Open, Read, Return, Heal, WriteStore, WriteSnapshot, AppendCheckpoint, WriteCheckpointStore,
       TouchSegment, Tick, Crash, CrashInAppend
  <2> QED BY <2>1 DEF DecisionStands
<1> QED BY <1>1, <1>2, <1>3, <1>4

LEMMA DecisionsStand == Spec => [](Inv /\ DecisionStands)
<1>1. Init => DecisionStands
  BY DEF Init, DecisionStands
<1>2. Inv /\ Inv' /\ DecisionStands /\ [Next]_vars => DecisionStands'
  BY DecisionNext
<1> QED BY <1>1, <1>2, QueueInvariant, PTL DEF Spec

-----------------------------------------------------------------------------
(* The queue implements JobLease. *)

LEMMA AbstractIs ==
  ASSUME Inv
  PROVE  /\ Len(AbstractJobs) = Len(Journalled) /\ Len(Journalled) \in Nat
         /\ DOMAIN AbstractJobs = DOMAIN Journalled /\ DOMAIN Journalled = 1..Len(Journalled)
         /\ \A i \in DOMAIN Journalled : AbstractJobs[i] = LeaseOf(Journalled[i]) /\ Journalled[i] \in Job
<1>1. Journalled \in Seq(Job)
  BY JournalledIs DEF JournalIsReplay
<1> HIDE DEF Job, Journalled
<1>2. Len(Journalled) \in Nat /\ DOMAIN Journalled = 1..Len(Journalled)
      /\ \A i \in DOMAIN Journalled : Journalled[i] \in Job
  BY <1>1
<1>3. AbstractJobs = [i \in 1..Len(Journalled) |-> LeaseOf(Journalled[i])]
  BY <1>2 DEF AbstractJobs
<1>4. Len(AbstractJobs) = Len(Journalled)
  BY <1>2, <1>3
<1> QED BY <1>2, <1>3, <1>4

LEMMA AbstractChanged ==
  ASSUME Inv, now' = now, NEW i \in DOMAIN Journalled, NEW job,
         Journalled' = [Journalled EXCEPT ![i] = job]
  PROVE  AbstractJobs' = [AbstractJobs EXCEPT ![i] = LeaseOf(job)]
<1>1. /\ DOMAIN AbstractJobs = DOMAIN Journalled
      /\ \A k \in DOMAIN Journalled : AbstractJobs[k] = LeaseOf(Journalled[k])
  BY AbstractIs
<1>2. AbstractJobs' = [k \in DOMAIN Journalled' |-> LeaseOf(Journalled'[k])]
  BY DEF AbstractJobs, LeaseOf
<1>3. DOMAIN Journalled' = DOMAIN Journalled
      /\ \A k \in DOMAIN Journalled : Journalled'[k] = IF k = i THEN job ELSE Journalled[k]
  OBVIOUS
<1> HIDE DEF Journalled, AbstractJobs, LeaseOf
<1>4. AbstractJobs' = [k \in DOMAIN Journalled |-> IF k = i THEN LeaseOf(job) ELSE AbstractJobs[k]]
  BY <1>1, <1>2, <1>3
<1>5. [AbstractJobs EXCEPT ![i] = LeaseOf(job)]
        = [k \in DOMAIN Journalled |-> IF k = i THEN LeaseOf(job) ELSE AbstractJobs[k]]
  BY <1>1
<1> QED BY <1>4, <1>5

\* A lease by its fields.
Lent(key, state, attempts, max, epoch, worker, left) ==
  [key |-> key, state |-> state, attempts |-> attempts, max_attempts |-> max, epoch |-> epoch,
   worker |-> worker, left |-> left]

LEMMA LeaseIsLent ==
  ASSUME NEW job
  PROVE  LeaseOf(job) = Lent(job.key, job.state, job.attempts, job.max_attempts, job.epoch, job.worker,
                             IF job.state = "leased" /\ job.expires_at > now THEN job.expires_at - now ELSE 0)
  BY DEF LeaseOf, Lent

LEMMA GivenBackLease ==
  ASSUME NEW job \in Job, NEW l, l.op \in {"fail", "expire"}, l.attempts = job.attempts + 1, l.state = After(job)
  PROVE  LeaseOf(Changed(job, l)) = Lease!GivenBack(LeaseOf(job))
<1> DEFINE free == [job EXCEPT !.worker = NoWorker, !.expires_at = 0]
           r == [free EXCEPT !.attempts = l.attempts, !.state = l.state]
           a == LeaseOf(job)
           new == [key |-> job.key, state |-> After(job), attempts |-> job.attempts + 1,
                   max_attempts |-> job.max_attempts, epoch |-> job.epoch, worker |-> NoWorker, left |-> 0]
<1>1. Changed(job, l) = r
  BY DEF Changed
<1>2. DOMAIN job = {"key", "state", "attempts", "max_attempts", "epoch", "worker", "expires_at"}
  BY DEF Job
<1>3. /\ DOMAIN free = DOMAIN job /\ free.worker = NoWorker /\ free.expires_at = 0
      /\ free.key = job.key /\ free.max_attempts = job.max_attempts /\ free.epoch = job.epoch
  BY <1>2
<1> HIDE DEF free
<1>4. /\ r.attempts = l.attempts /\ r.state = l.state /\ r.worker = NoWorker
      /\ r.key = job.key /\ r.max_attempts = job.max_attempts /\ r.epoch = job.epoch
  BY <1>2, <1>3
<1>5. After(job) # "leased"
  BY DEF After
<1> HIDE DEF r
<1>6. LeaseOf(r) = new
  BY <1>4, <1>5 DEF LeaseOf
<1>7. Lease!GivenBack(a) =
        [a EXCEPT !.attempts = @ + 1, !.worker = NoWorker, !.left = 0,
                  !.state = IF a.attempts + 1 >= a.max_attempts THEN "failed" ELSE "queued"]
  BY DEF Lease!GivenBack
<1>8. a.attempts = job.attempts /\ a.max_attempts = job.max_attempts
  BY DEF LeaseOf
<1>9. [a EXCEPT !.attempts = a.attempts + 1, !.worker = NoWorker, !.left = 0, !.state = After(job)] = new
  <2> DEFINE a1 == [a EXCEPT !.attempts = a.attempts + 1]
             a2 == [a1 EXCEPT !.worker = NoWorker]
             a3 == [a2 EXCEPT !.left = 0]
  <2>1. PICK x : a = Lent(job.key, job.state, job.attempts, job.max_attempts, job.epoch, job.worker, x)
    BY LeaseIsLent
  <2> HIDE DEF a
  <2>2. a1 = Lent(job.key, job.state, job.attempts + 1, job.max_attempts, job.epoch, job.worker, x)
    BY <1>8, <2>1 DEF Lent
  <2> HIDE DEF a1
  <2>3. a2 = Lent(job.key, job.state, job.attempts + 1, job.max_attempts, job.epoch, NoWorker, x)
    BY <2>2 DEF Lent
  <2> HIDE DEF a2
  <2>4. a3 = Lent(job.key, job.state, job.attempts + 1, job.max_attempts, job.epoch, NoWorker, 0)
    BY <2>3 DEF Lent
  <2> HIDE DEF a3
  <2>5. [a3 EXCEPT !.state = After(job)] = new
    BY <2>4 DEF Lent
  <2> QED BY <2>5 DEF a3, a2, a1
<1>10. (IF a.attempts + 1 >= a.max_attempts THEN "failed" ELSE "queued") = After(job)
  BY <1>8 DEF After
<1> HIDE DEF a, new
<1> QED BY <1>1, <1>6, <1>7, <1>9, <1>10 DEF a

LEMMA GrantedLease ==
  ASSUME NEW job \in Job, NEW l, l.op = "claim", l.epoch = job.epoch + 1, NEW ticks \in 1..LeaseTicks,
         now \in Nat, l.expires_at = now + ticks
  PROVE  LeaseOf(Changed(job, l)) = Lent(job.key, "leased", job.attempts, job.max_attempts, job.epoch + 1, l.worker, ticks)
<1> DEFINE r == [job EXCEPT !.state = "leased", !.epoch = l.epoch, !.worker = l.worker, !.expires_at = l.expires_at]
<1>1. Changed(job, l) = r
  BY DEF Changed
<1>2. DOMAIN job = {"key", "state", "attempts", "max_attempts", "epoch", "worker", "expires_at"}
  BY DEF Job
<1>3. /\ r.state = "leased" /\ r.epoch = l.epoch /\ r.worker = l.worker /\ r.expires_at = l.expires_at
      /\ r.key = job.key /\ r.max_attempts = job.max_attempts /\ r.attempts = job.attempts
  BY <1>2
<1> HIDE DEF r
<1>4. ticks \in Nat /\ l.expires_at > now /\ l.expires_at - now = ticks
  BY JobQueueAssumption
<1> QED BY <1>1, <1>3, <1>4 DEF LeaseOf, Lent

LEMMA HeartbeatLease ==
  ASSUME NEW job \in Job, job.state = "leased", NEW l, l.op = "heartbeat", NEW ticks \in 1..LeaseTicks,
         now \in Nat, l.expires_at = now + ticks
  PROVE  LeaseOf(Changed(job, l)) = [LeaseOf(job) EXCEPT !.left = ticks]
<1> DEFINE r == [job EXCEPT !.expires_at = l.expires_at]
           new == [key |-> job.key, state |-> job.state, attempts |-> job.attempts,
                   max_attempts |-> job.max_attempts, epoch |-> job.epoch, worker |-> job.worker, left |-> ticks]
<1>1. Changed(job, l) = r
  BY DEF Changed
<1>2. /\ r.state = job.state /\ r.epoch = job.epoch /\ r.worker = job.worker /\ r.expires_at = l.expires_at
      /\ r.key = job.key /\ r.max_attempts = job.max_attempts /\ r.attempts = job.attempts
  BY DEF Job
<1> HIDE DEF r
<1>3. ticks \in Nat /\ l.expires_at > now /\ l.expires_at - now = ticks
  BY JobQueueAssumption
<1>4. LeaseOf(r) = new
  BY <1>2, <1>3 DEF LeaseOf
<1>5. [LeaseOf(job) EXCEPT !.left = ticks] = new
  BY DEF LeaseOf
<1> QED BY <1>1, <1>4, <1>5

LEMMA EndedLease ==
  ASSUME NEW job \in Job, NEW l,
         NEW s, (l.op = "succeed" /\ s = "succeeded") \/ (l.op = "cancel" /\ s = "cancelled")
  PROVE  LeaseOf(Changed(job, l)) = Lent(job.key, s, job.attempts, job.max_attempts, job.epoch, NoWorker, 0)
<1> DEFINE free == [job EXCEPT !.worker = NoWorker, !.expires_at = 0]
           r == [free EXCEPT !.state = s]
<1>1. Changed(job, l) = r
  BY DEF Changed
<1>2. DOMAIN job = {"key", "state", "attempts", "max_attempts", "epoch", "worker", "expires_at"}
  BY DEF Job
<1>3. /\ DOMAIN free = DOMAIN job /\ free.worker = NoWorker /\ free.expires_at = 0 /\ free.attempts = job.attempts
      /\ free.key = job.key /\ free.max_attempts = job.max_attempts /\ free.epoch = job.epoch
  BY <1>2
<1> HIDE DEF free
<1>4. /\ r.attempts = job.attempts /\ r.state = s /\ r.worker = NoWorker
      /\ r.key = job.key /\ r.max_attempts = job.max_attempts /\ r.epoch = job.epoch
  BY <1>2, <1>3
<1>5. s # "leased"
  OBVIOUS
<1> HIDE DEF r
<1> QED BY <1>1, <1>4, <1>5 DEF LeaseOf, Lent

LEMMA LeaseLeft ==
  ASSUME NEW job \in Job, now \in Nat
  PROVE  /\ LeaseOf(job).key = job.key /\ LeaseOf(job).state = job.state /\ LeaseOf(job).epoch = job.epoch
         /\ LeaseOf(job).worker = job.worker /\ LeaseOf(job).left \in Nat
         /\ job.state = "leased" => (LeaseOf(job).left = 0 <=> Lapsed(job))
         /\ Mine(job) => LeaseOf(job).left > 0
         /\ job.state # "leased" => LeaseOf(job).left = 0
<1>1. job.expires_at \in Nat
  BY DEF Job
<1> QED BY <1>1 DEF LeaseOf, Lapsed, Mine

\* The line of a claim: a lease that ran out, or a grant.
LEMMA ClaimLine ==
  ASSUME Inv, Inv', AppendLine, Workers # {}, ScanEntry(Journalled, pending, 1)
  PROVE  Lease!Next
<1> DEFINE js == Journalled
           b == Head(pending)
           i == b.job
           a == AbstractJobs
<1>1. now' = now /\ now \in Nat /\ pending \in Seq(Body) /\ pending # <<>>
  BY DEF AppendLine, Inv, TypeOK, Holding
<1>2. b = pending[1] /\ b \in Body
  <2> HIDE DEF Body
  <2> QED BY <1>1
<1>3. /\ DOMAIN a = DOMAIN js /\ DOMAIN js = 1..Len(js) /\ Len(a) = Len(js)
      /\ \A k \in DOMAIN js : a[k] = LeaseOf(js[k]) /\ js[k] \in Job
  BY AbstractIs
<1>4. b.op \in {"claim", "expire"} => js' = [js EXCEPT ![i] = Changed(js[i], b)]
  BY LineJournalled
<1> HIDE DEF b, js, a, Body, Job
<1>5. i \in DOMAIN js /\ i \in 1..Len(a) /\ js[i] \in Job /\ a[i] = LeaseOf(js[i])
  BY <1>2, <1>3 DEF ScanEntry, js
<1>6. \A k \in 1..(i - 1) : js[k].state # "queued" /\ ~Lapsed(js[k])
  BY <1>2 DEF ScanEntry, js
<1>7. Lease!Reached(i)
  <2> SUFFICES ASSUME NEW k \in 1..(i - 1) PROVE a[k].state # "queued" /\ ~(a[k].state = "leased" /\ a[k].left = 0)
    BY DEF Lease!Reached, Lease!Expired, Lease!Leased, a
  <2>1. k \in DOMAIN js
    BY <1>3, <1>5
  <2>2. a[k] = LeaseOf(js[k]) /\ js[k] \in Job
    BY <1>3, <2>1
  <2> QED BY <2>2, <1>1, <1>6, LeaseLeft
<1>8. CASE b.op = "expire"
  <2>1. Lapsed(js[i]) /\ b.attempts = js[i].attempts + 1 /\ b.state = After(js[i])
    BY <1>2, <1>8 DEF ScanEntry, js
  <2>2. a' = [a EXCEPT ![i] = LeaseOf(Changed(js[i], b))]
    BY <1>1, <1>4, <1>5, <1>8, AbstractChanged DEF js, a
  <2>3. LeaseOf(Changed(js[i], b)) = Lease!GivenBack(a[i])
    BY <1>5, <1>8, <2>1, GivenBackLease
  <2>4. a[i].state = "leased" /\ a[i].left = 0
    BY <1>1, <1>5, <2>1, LeaseLeft DEF Lapsed
  <2>5. Lease!Expire(i)
    BY <1>7, <2>2, <2>3, <2>4 DEF Lease!Expire, Lease!Expired, Lease!Leased, a
  <2>6. i \in Lease!Ids
    BY <1>5 DEF Lease!Ids, a
  <2> QED BY <2>5, <2>6 DEF Lease!Next, Lease!Claim
<1>9. CASE b.op = "claim"
  <2>1. /\ js[i].state = "queued" /\ b.worker \in Workers /\ b.epoch = js[i].epoch + 1 /\ Until(b.expires_at)
    BY <1>2, <1>9 DEF ScanEntry, js
  <2>2. PICK ticks \in 1..LeaseTicks : b.expires_at = now + ticks
    BY <2>1 DEF Until
  <2>3. a' = [a EXCEPT ![i] = LeaseOf(Changed(js[i], b))]
    BY <1>1, <1>4, <1>5, <1>9, AbstractChanged DEF js, a
  <2>4. a[i].epoch = js[i].epoch /\ a[i].state = "queued"
    BY <1>1, <1>5, <2>1, LeaseLeft
  <2> DEFINE job == js[i]
             new == Lent(job.key, "leased", job.attempts, job.max_attempts, job.epoch + 1, b.worker, ticks)
  <2>5. LeaseOf(Changed(job, b)) = new
    BY <1>1, <1>5, <1>9, <2>1, <2>2, GrantedLease
  <2>6. Lease!Grant(i, b.worker, ticks)
    <3> DEFINE a1 == [a EXCEPT ![i].state = "leased"]
               a2 == [a1 EXCEPT ![i].epoch = @ + 1]
               a3 == [a2 EXCEPT ![i].worker = b.worker]
               a4 == [a3 EXCEPT ![i].left = ticks]
    <3>1. PICK x : a[i] = Lent(job.key, job.state, job.attempts, job.max_attempts, job.epoch, job.worker, x)
      BY <1>5, LeaseIsLent
    <3>0. i \in DOMAIN a
      BY <1>3, <1>5
    <3> HIDE DEF job
    <3>2. a1 = [a EXCEPT ![i] = Lent(job.key, "leased", job.attempts, job.max_attempts, job.epoch, job.worker, x)] /\ a1[i] = Lent(job.key, "leased", job.attempts, job.max_attempts, job.epoch, job.worker, x)
      <4> DEFINE l == a[i]
                 m == [l EXCEPT !.state = "leased"]
      <4>1. a1 = [a EXCEPT ![i] = m]
        OBVIOUS
      <4>2. l = Lent(job.key, job.state, job.attempts, job.max_attempts, job.epoch, job.worker, x)
        BY <3>1
      <4> HIDE DEF l
      <4>3. m = Lent(job.key, "leased", job.attempts, job.max_attempts, job.epoch, job.worker, x)
        BY <4>2 DEF Lent
      <4> HIDE DEF m, a1
      <4> QED BY <3>0, <3>1, <4>1, <4>3
    <3> HIDE DEF a1
    <3>3. a2 = [a EXCEPT ![i] = Lent(job.key, "leased", job.attempts, job.max_attempts, job.epoch + 1, job.worker, x)] /\ a2[i] = Lent(job.key, "leased", job.attempts, job.max_attempts, job.epoch + 1, job.worker, x)
      <4> DEFINE l == a1[i]
                 m == [l EXCEPT !.epoch = l.epoch + 1]
      <4>1. a2 = [a1 EXCEPT ![i] = m]
        OBVIOUS
      <4>2. l = Lent(job.key, "leased", job.attempts, job.max_attempts, job.epoch, job.worker, x)
        BY <3>2
      <4> HIDE DEF l
      <4>3. m = Lent(job.key, "leased", job.attempts, job.max_attempts, job.epoch + 1, job.worker, x)
        BY <4>2 DEF Lent
      <4> HIDE DEF m, a2
      <4> QED BY <3>0, <3>2, <4>1, <4>3
    <3> HIDE DEF a2
    <3>4. a3 = [a EXCEPT ![i] = Lent(job.key, "leased", job.attempts, job.max_attempts, job.epoch + 1, b.worker, x)] /\ a3[i] = Lent(job.key, "leased", job.attempts, job.max_attempts, job.epoch + 1, b.worker, x)
      <4> DEFINE l == a2[i]
                 m == [l EXCEPT !.worker = b.worker]
      <4>1. a3 = [a2 EXCEPT ![i] = m]
        OBVIOUS
      <4>2. l = Lent(job.key, "leased", job.attempts, job.max_attempts, job.epoch + 1, job.worker, x)
        BY <3>3
      <4> HIDE DEF l
      <4>3. m = Lent(job.key, "leased", job.attempts, job.max_attempts, job.epoch + 1, b.worker, x)
        BY <4>2 DEF Lent
      <4> HIDE DEF m, a3
      <4> QED BY <3>0, <3>3, <4>1, <4>3
    <3> HIDE DEF a3
    <3>5. a4 = [a EXCEPT ![i] = Lent(job.key, "leased", job.attempts, job.max_attempts, job.epoch + 1, b.worker, ticks)] /\ a4[i] = Lent(job.key, "leased", job.attempts, job.max_attempts, job.epoch + 1, b.worker, ticks)
      <4> DEFINE l == a3[i]
                 m == [l EXCEPT !.left = ticks]
      <4>1. a4 = [a3 EXCEPT ![i] = m]
        OBVIOUS
      <4>2. l = Lent(job.key, "leased", job.attempts, job.max_attempts, job.epoch + 1, b.worker, x)
        BY <3>4
      <4> HIDE DEF l
      <4>3. m = Lent(job.key, "leased", job.attempts, job.max_attempts, job.epoch + 1, b.worker, ticks)
        BY <4>2 DEF Lent
      <4> HIDE DEF m, a4
      <4> QED BY <3>0, <3>4, <4>1, <4>3
    <3> HIDE DEF a4
    <3>6. a' = a4
      BY <2>3, <2>5, <3>5 DEF job
    <3>7. Lease!Grant(i, b.worker, ticks) <=> a[i].state = "queued" /\ Lease!Reached(i) /\ a' = a4
      BY DEF Lease!Grant, a, a4, a3, a2, a1
    <3> QED BY <1>7, <2>4, <3>6, <3>7
  <2>7. i \in Lease!Ids
    BY <1>5 DEF Lease!Ids, a
  <2> QED BY <2>1, <2>6, <2>7 DEF Lease!Next, Lease!Claim
<1> QED BY <1>2, <1>8, <1>9 DEF ScanEntry

\* The line of any other call.
LEMMA OwnLine ==
  ASSUME Inv, Inv', AppendLine, OwnEntry(Journalled, pending[1])
  PROVE  Lease!Next
<1> DEFINE js == Journalled
           b == Head(pending)
           i == b.job
           a == AbstractJobs
           job == js[i]
<1>1. now' = now /\ now \in Nat /\ pending \in Seq(Body) /\ pending # <<>>
  BY DEF AppendLine, Inv, TypeOK, Holding
<1>2. b = pending[1] /\ b \in Body
  <2> HIDE DEF Body
  <2> QED BY <1>1
<1>3. /\ DOMAIN a = DOMAIN js /\ DOMAIN js = 1..Len(js) /\ Len(a) = Len(js) /\ Len(js) \in Nat
      /\ \A k \in DOMAIN js : a[k] = LeaseOf(js[k]) /\ js[k] \in Job
  BY AbstractIs
<1>4. /\ b.op = "submit" => js' = Append(js, Submitted(b))
      /\ b.op \in {"heartbeat", "fail", "succeed", "cancel"} => js' = [js EXCEPT ![i] = Changed(job, b)]
  BY LineJournalled
<1>5. js \in Seq(Job)
  BY JournalledIs DEF JournalIsReplay
<1> HIDE DEF b, js, a, Body, Job, job
<1>6. OwnEntry(js, b)
  BY <1>2 DEF js
<1>7. ASSUME i \in DOMAIN js, b.op \in {"heartbeat", "fail", "succeed", "cancel"}
      PROVE  /\ job \in Job /\ a[i] = LeaseOf(job) /\ i \in Lease!Ids
             /\ a' = [a EXCEPT ![i] = LeaseOf(Changed(job, b))]
  <2>1. job \in Job /\ a[i] = LeaseOf(job)
    BY <1>3, <1>7 DEF job
  <2>2. i \in Lease!Ids
    BY <1>3, <1>7 DEF Lease!Ids, a
  <2>3. js' = [js EXCEPT ![i] = Changed(job, b)]
    BY <1>4, <1>7
  <2>4. a' = [a EXCEPT ![i] = LeaseOf(Changed(job, b))]
    BY <1>1, <1>7, <2>3, AbstractChanged DEF js, a
  <2> QED BY <2>1, <2>2, <2>4
<1>8. ASSUME i \in DOMAIN js, b.op \in {"heartbeat", "fail", "succeed", "cancel"}, Mine(job)
      PROVE  /\ Lease!Owns(i, job.worker, job.epoch) /\ job.worker \in Workers
             /\ job.epoch \in 1..a[i].epoch /\ job.state = "leased"
  <2>1. job \in Job /\ a[i] = LeaseOf(job)
    BY <1>7, <1>8
  <2>2. /\ a[i].state = job.state /\ a[i].worker = job.worker /\ a[i].epoch = job.epoch /\ a[i].left > 0
    BY <1>1, <1>8, <2>1, LeaseLeft
  <2>3. job.state = "leased" /\ job.worker \in Workers /\ job.epoch >= 1 /\ job.epoch \in Nat
    BY <1>8, <2>1 DEF Mine, Job
  <2>4. Lease!Owns(i, job.worker, job.epoch)
    BY <2>2, <2>3 DEF Lease!Owns, Lease!Leased, a
  <2> QED BY <2>2, <2>3, <2>4
<1>9. ASSUME i \in DOMAIN js, b.op \in {"heartbeat", "fail", "succeed", "cancel"}, Mine(job),
             Lease!OwnerCall(i, job.worker, job.epoch)
      PROVE  Lease!Next
  <2>1. i \in Lease!Ids /\ job.worker \in Workers /\ job.epoch \in 1..a[i].epoch
    BY <1>7, <1>8, <1>9
  <2> QED BY <2>1, <1>9 DEF Lease!Next, a
<1>10. CASE b.op = "submit"
  <2>1. Len(js) < MaxJobs /\ b.max_attempts \in 1..MaxAttempts /\ \A k \in 1..Len(js) : js[k].key # b.key
    BY <1>6, <1>10 DEF OwnEntry
  <2>2. b.key \in Keys
    BY <1>2 DEF Body
  <2> DEFINE new == Submitted(b)
             lent == [key |-> b.key, state |-> "queued", attempts |-> 0, max_attempts |-> b.max_attempts,
                      epoch |-> 0, worker |-> NoWorker, left |-> 0]
  <2>3. LeaseOf(new) = lent
    BY DEF LeaseOf, Submitted
  <2> HIDE DEF new, lent
  <2>4. a' = [k \in DOMAIN js' |-> LeaseOf(js'[k])]
    BY <1>1 DEF AbstractJobs, LeaseOf, a, js
  <2>5. js' = Append(js, new)
    BY <1>4, <1>10 DEF new
  <2>6. DOMAIN js' = 1..(Len(js) + 1) /\ js'[Len(js) + 1] = new /\ \A k \in 1..Len(js) : js'[k] = js[k]
    <3>1. \E S : js \in Seq(S) /\ new \in S
      <4>1. js \in Seq(Job \cup {new})
        BY <1>5
      <4> QED BY <4>1
    <3> HIDE DEF LeaseOf
    <3> QED BY <2>5, <3>1
  <2>7. a' = Append(a, lent)
    <3>1. a = [k \in 1..Len(js) |-> LeaseOf(js[k])]
      BY <1>3 DEF AbstractJobs, a, js
    <3>2. Append(a, lent) = [k \in 1..(Len(js) + 1) |-> IF k = Len(js) + 1 THEN lent ELSE a[k]]
      <4> DEFINE S == {a[k] : k \in 1..Len(js)} \cup {lent}
                 r == Append(a, lent)
      <4>1. a = [k \in 1..Len(js) |-> a[k]] /\ \A k \in 1..Len(js) : a[k] \in S
        BY <1>3, <3>1
      <4>2. lent \in S
        OBVIOUS
      <4> HIDE DEF S
      <4>3. a \in Seq(S)
        BY <1>3, <4>1
      <4>4. DOMAIN r = 1..(Len(js) + 1) /\ r[Len(js) + 1] = lent /\ \A k \in 1..Len(js) : r[k] = a[k]
        BY <1>3, <4>2, <4>3
      <4>5. r \in Seq(S)
        BY <4>2, <4>3
      <4> HIDE DEF r
      <4>6. r = [k \in 1..(Len(js) + 1) |-> r[k]]
        BY <4>4, <4>5
      <4>7. \A k \in 1..(Len(js) + 1) : r[k] = IF k = Len(js) + 1 THEN lent ELSE a[k]
        BY <1>3, <4>4
      <4>8. r = [k \in 1..(Len(js) + 1) |-> IF k = Len(js) + 1 THEN lent ELSE a[k]]
        BY <4>6, <4>7
      <4> QED BY <4>8 DEF r
    <3>3. \A k \in 1..(Len(js) + 1) : LeaseOf(js'[k]) = IF k = Len(js) + 1 THEN lent ELSE a[k]
      BY <1>3, <2>3, <2>6
    <3> QED BY <2>4, <2>6, <3>2, <3>3
  <2>8. \A k \in Lease!Ids : a[k].key # b.key
    <3> SUFFICES ASSUME NEW k \in 1..Len(js) PROVE a[k].key # b.key
      BY <1>3 DEF Lease!Ids, a
    <3> QED BY <1>1, <1>3, <2>1, LeaseLeft
  <2>9. Lease!Submit(b.key, b.max_attempts)
    BY <1>3, <2>1, <2>7, <2>8 DEF Lease!Submit, a, lent
  <2> QED BY <2>1, <2>2, <2>9 DEF Lease!Next
<1>11. CASE b.op = "heartbeat"
  <2>1. i \in DOMAIN js /\ Mine(job) /\ Until(b.expires_at)
    BY <1>6, <1>11 DEF OwnEntry, job
  <2>2. PICK ticks \in 1..LeaseTicks : b.expires_at = now + ticks
    BY <2>1 DEF Until
  <2> DEFINE new == LeaseOf(Changed(job, b))
  <2>3. new = [a[i] EXCEPT !.left = ticks]
    <3>1. job \in Job /\ job.state = "leased" /\ a[i] = LeaseOf(job)
      BY <1>7, <1>8, <1>11, <2>1
    <3>2. new = [LeaseOf(job) EXCEPT !.left = ticks]
      BY <3>1, <1>1, <1>11, <2>2, HeartbeatLease
    <3> QED BY <3>1, <3>2
  <2>4. a' = [a EXCEPT ![i] = new]
    BY <1>7, <1>11, <2>1
  <2> HIDE DEF new
  <2>5. a' = [a EXCEPT ![i].left = ticks]
    BY <2>3, <2>4
  <2>6. Lease!Heartbeat(i, job.worker, job.epoch, ticks)
    BY <1>8, <1>11, <2>1, <2>5 DEF Lease!Heartbeat, a
  <2> QED BY <1>9, <1>11, <2>1, <2>6 DEF Lease!OwnerCall
<1>12. CASE b.op = "fail"
  <2>1. i \in DOMAIN js /\ Mine(job) /\ b.attempts = job.attempts + 1 /\ b.state = After(job)
    BY <1>6, <1>12 DEF OwnEntry, job
  <2>2. LeaseOf(Changed(job, b)) = Lease!GivenBack(a[i])
    BY <1>7, <1>12, <2>1, GivenBackLease
  <2>3. a' = [a EXCEPT ![i] = Lease!GivenBack(a[i])]
    BY <1>7, <1>12, <2>1, <2>2
  <2>4. Lease!Fail(i, job.worker, job.epoch)
    BY <1>8, <1>12, <2>1, <2>3 DEF Lease!Fail, a
  <2> QED BY <1>9, <1>12, <2>1, <2>4 DEF Lease!OwnerCall
<1>13. ASSUME NEW s, (b.op = "succeed" /\ s = "succeeded") \/ (b.op = "cancel" /\ s = "cancelled"), i \in DOMAIN js
       PROVE  a' = [a EXCEPT ![i].state = s, ![i].worker = NoWorker, ![i].left = 0]
  <2> DEFINE a1 == [a EXCEPT ![i].state = s]
             a2 == [a1 EXCEPT ![i].worker = NoWorker]
             a3 == [a2 EXCEPT ![i].left = 0]
             x == IF job.state = "leased" /\ job.expires_at > now THEN job.expires_at - now ELSE 0
  <2>1. i \in DOMAIN a /\ job \in Job /\ a[i] = LeaseOf(job) /\ a' = [a EXCEPT ![i] = LeaseOf(Changed(job, b))]
    BY <1>3, <1>7, <1>13
  <2>2. LeaseOf(Changed(job, b)) = Lent(job.key, s, job.attempts, job.max_attempts, job.epoch, NoWorker, 0)
    BY <1>13, <2>1, EndedLease
  <2>3. a[i] = Lent(job.key, job.state, job.attempts, job.max_attempts, job.epoch, job.worker, x)
    BY <2>1, LeaseIsLent
  <2> HIDE DEF x
  <2>4. /\ a1 = [a EXCEPT ![i] = Lent(job.key, s, job.attempts, job.max_attempts, job.epoch, job.worker, x)]
        /\ a1[i] = Lent(job.key, s, job.attempts, job.max_attempts, job.epoch, job.worker, x)
    <3> DEFINE l == a[i]
               m == [l EXCEPT !.state = s]
    <3>1. a1 = [a EXCEPT ![i] = m]
      OBVIOUS
    <3>2. l = Lent(job.key, job.state, job.attempts, job.max_attempts, job.epoch, job.worker, x)
      BY <2>3
    <3> HIDE DEF l
    <3>3. m = Lent(job.key, s, job.attempts, job.max_attempts, job.epoch, job.worker, x)
      BY <3>2 DEF Lent
    <3> HIDE DEF m, a1
    <3> QED BY <2>1, <3>1, <3>3
  <2> HIDE DEF a1
  <2>5. /\ a2 = [a EXCEPT ![i] = Lent(job.key, s, job.attempts, job.max_attempts, job.epoch, NoWorker, x)]
        /\ a2[i] = Lent(job.key, s, job.attempts, job.max_attempts, job.epoch, NoWorker, x)
    <3> DEFINE l == a1[i]
               m == [l EXCEPT !.worker = NoWorker]
    <3>1. a2 = [a1 EXCEPT ![i] = m]
      OBVIOUS
    <3>2. l = Lent(job.key, s, job.attempts, job.max_attempts, job.epoch, job.worker, x)
      BY <2>4
    <3> HIDE DEF l
    <3>3. m = Lent(job.key, s, job.attempts, job.max_attempts, job.epoch, NoWorker, x)
      BY <3>2 DEF Lent
    <3> HIDE DEF m, a2
    <3> QED BY <2>1, <2>4, <3>1, <3>3
  <2> HIDE DEF a2
  <2>6. a3 = [a EXCEPT ![i] = Lent(job.key, s, job.attempts, job.max_attempts, job.epoch, NoWorker, 0)]
    <3> DEFINE l == a2[i]
               m == [l EXCEPT !.left = 0]
    <3>1. a3 = [a2 EXCEPT ![i] = m]
      OBVIOUS
    <3>2. l = Lent(job.key, s, job.attempts, job.max_attempts, job.epoch, NoWorker, x)
      BY <2>5
    <3> HIDE DEF l
    <3>3. m = Lent(job.key, s, job.attempts, job.max_attempts, job.epoch, NoWorker, 0)
      BY <3>2 DEF Lent
    <3> HIDE DEF m, a3
    <3> QED BY <2>1, <2>5, <3>1, <3>3
  <2> HIDE DEF a3
  <2>7. a' = a3
    BY <2>1, <2>2, <2>6
  <2> QED BY <2>7, Zenon DEF a3, a2, a1
<1>14. CASE b.op = "succeed"
  <2>1. i \in DOMAIN js /\ Mine(job)
    BY <1>6, <1>14 DEF OwnEntry, job
  <2>2. a' = [a EXCEPT ![i].state = "succeeded", ![i].worker = NoWorker, ![i].left = 0]
    BY <1>13, <1>14, <2>1
  <2>3. Lease!Succeed(i, job.worker, job.epoch)
    BY <1>8, <1>14, <2>1, <2>2 DEF Lease!Succeed, a
  <2> QED BY <1>9, <1>14, <2>1, <2>3 DEF Lease!OwnerCall
<1>15. CASE b.op = "cancel"
  <2>1. i \in DOMAIN js /\ job.state \notin TerminalStates
    BY <1>6, <1>15 DEF OwnEntry, job
  <2>2. a' = [a EXCEPT ![i].state = "cancelled", ![i].worker = NoWorker, ![i].left = 0]
    BY <1>13, <1>15, <2>1
  <2>3. a[i].state = job.state /\ i \in Lease!Ids
    BY <1>1, <1>7, <1>15, <2>1, LeaseLeft
  <2>4. Lease!Cancel(i)
    BY <2>1, <2>2, <2>3 DEF Lease!Cancel, Lease!Ended, Lease!TerminalStates, TerminalStates, a
  <2> QED BY <2>3, <2>4 DEF Lease!Next
<1> QED BY <1>6, <1>10, <1>11, <1>12, <1>14, <1>15 DEF OwnEntry

\* Time takes one tick off every lease that has any left.
LEMMA LeaseTicked ==
  ASSUME NEW job \in Job, now \in Nat, now' = now + 1
  PROVE  LeaseOf(job)' = IF LeaseOf(job).left > 0 THEN [LeaseOf(job) EXCEPT !.left = @ - 1] ELSE LeaseOf(job)
<1> DEFINE x == IF job.state = "leased" /\ job.expires_at > now THEN job.expires_at - now ELSE 0
           y == IF job.state = "leased" /\ job.expires_at > now' THEN job.expires_at - now' ELSE 0
           a == LeaseOf(job)
<1>1. job.expires_at \in Nat
  BY DEF Job
<1>2. x \in Nat /\ y = IF x > 0 THEN x - 1 ELSE x
  BY <1>1
<1>3. a' = Lent(job.key, job.state, job.attempts, job.max_attempts, job.epoch, job.worker, y)
  BY DEF LeaseOf, Lent
<1>4. a = Lent(job.key, job.state, job.attempts, job.max_attempts, job.epoch, job.worker, x)
  BY LeaseIsLent
<1> HIDE DEF x, y, a
<1>5. a.left = x
  BY <1>4 DEF Lent
<1>6. [a EXCEPT !.left = a.left - 1] = Lent(job.key, job.state, job.attempts, job.max_attempts, job.epoch, job.worker, x - 1)
  BY <1>4, <1>5 DEF Lent
<1>7. a' = IF a.left > 0 THEN [a EXCEPT !.left = a.left - 1] ELSE a
  BY <1>2, <1>3, <1>4, <1>5, <1>6
<1> QED BY <1>7 DEF a

LEMMA TickLease ==
  ASSUME Inv, Inv', Tick
  PROVE  Lease!Next \/ UNCHANGED AbstractJobs
<1> DEFINE a == AbstractJobs
           js == Journalled
<1>1. lines' = lines /\ now \in Nat /\ now' = now + 1
  BY DEF Tick, disk, Inv, TypeOK
<1>2. js' = js
  BY <1>1, JournalKept
<1>3. /\ DOMAIN a = DOMAIN js /\ DOMAIN js = 1..Len(js) /\ Len(a) = Len(js)
      /\ \A k \in DOMAIN js : a[k] = LeaseOf(js[k]) /\ js[k] \in Job
  BY AbstractIs
<1>4. a = [k \in DOMAIN js |-> LeaseOf(js[k])]
  BY DEF AbstractJobs
<1>5. a' = [k \in DOMAIN js' |-> LeaseOf(js[k])']
  BY DEF AbstractJobs
<1> HIDE DEF a, js, Job
<1>6. ASSUME NEW k \in DOMAIN js
      PROVE  LeaseOf(js[k])' = IF a[k].left > 0 THEN [a[k] EXCEPT !.left = @ - 1] ELSE a[k]
  <2> DEFINE job == js[k]
  <2>1. job \in Job /\ a[k] = LeaseOf(job) /\ js'[k] = job
    BY <1>2, <1>3, <1>6
  <2>2. LeaseOf(js[k])' = [key |-> job.key, state |-> job.state, attempts |-> job.attempts,
          max_attempts |-> job.max_attempts, epoch |-> job.epoch, worker |-> job.worker,
          left |-> IF job.state = "leased" /\ job.expires_at > now' THEN job.expires_at - now' ELSE 0]
    BY <2>1 DEF LeaseOf
  <2> HIDE DEF job
  <2>3. ASSUME NEW j \in Job
        PROVE  [key |-> j.key, state |-> j.state, attempts |-> j.attempts,
                max_attempts |-> j.max_attempts, epoch |-> j.epoch, worker |-> j.worker,
                left |-> IF j.state = "leased" /\ j.expires_at > now' THEN j.expires_at - now' ELSE 0]
               = IF LeaseOf(j).left > 0 THEN [LeaseOf(j) EXCEPT !.left = @ - 1] ELSE LeaseOf(j)
    BY <1>1, LeaseTicked DEF LeaseOf
  <2> QED BY <2>1, <2>2, <2>3
<1>7. a' = [k \in DOMAIN js |-> IF a[k].left > 0 THEN [a[k] EXCEPT !.left = @ - 1] ELSE a[k]]
  BY <1>2, <1>5, <1>6
<1>8. CASE \E k \in DOMAIN js : a[k].left > 0
  <2>1. PICK k \in DOMAIN js : a[k].left > 0
    BY <1>8
  <2>2. a[k].state = "leased"
    <3>1. a[k] = LeaseOf(js[k]) /\ js[k] \in Job
      BY <1>3
    <3>2. js[k].state # "leased" => LeaseOf(js[k]).left = 0
      BY <1>1, <3>1, LeaseLeft
    <3> QED BY <1>1, <2>1, <3>1, <3>2, LeaseLeft
  <2>3. Lease!Ids = DOMAIN js
    BY <1>3 DEF Lease!Ids, a
  <2>4. Lease!Tick
    BY <1>7, <2>1, <2>2, <2>3 DEF Lease!Tick, Lease!Leased, a
  <2> QED BY <2>4 DEF Lease!Next
<1>9. CASE ~\E k \in DOMAIN js : a[k].left > 0
  <2>1. \A k \in DOMAIN js : (IF a[k].left > 0 THEN [a[k] EXCEPT !.left = @ - 1] ELSE a[k]) = LeaseOf(js[k])
    BY <1>3, <1>9
  <2>2. a' = a
    BY <1>4, <1>7, <2>1
  <2> QED BY <2>2 DEF a
<1> QED BY <1>8, <1>9

\* A step that writes no job line leaves the jobs and their leases alone.
LEMMA QuietLease ==
  ASSUME Inv, Inv', now' = now, Journalled' = Journalled
  PROVE  UNCHANGED AbstractJobs
  BY DEF AbstractJobs, LeaseOf

LEMMA StepIsLease ==
  ASSUME Inv, Inv', DecisionStands, [Next]_vars
  PROVE  Lease!Next \/ UNCHANGED AbstractJobs
<1>1. CASE AppendLine
  <2>1. pc = "append" /\ pending \in Seq(Body) /\ pending # <<>>
    BY <1>1 DEF AppendLine, Inv, TypeOK, Holding
  <2>2. 1 \in DOMAIN pending
    <3> HIDE DEF Body
    <3> QED BY <2>1
  <2>3. MayFollow(Journalled, pending)
    BY <2>1 DEF DecisionStands
  <2>4. CASE Workers # {} /\ \A n \in DOMAIN pending : ScanEntry(Journalled, pending, n)
    BY <1>1, <2>2, <2>4, ClaimLine
  <2>5. CASE OwnEntry(Journalled, pending[1])
    BY <1>1, <2>5, OwnLine
  <2> QED BY <2>3, <2>4, <2>5 DEF MayFollow
<1>2. CASE Tick
  BY <1>2, TickLease
<1>3. CASE AppendCheckpoint
  <2>1. now' = now
    BY <1>3 DEF AppendCheckpoint
  <2> QED BY <1>3, <2>1, CheckpointKeepsJobs, QuietLease
<1>4. CASE Call
  <2>1. lines' = lines /\ now' = now
    BY <1>4, CallDecides DEF Inv, disk
  <2> QED BY <2>1, JournalKept, QuietLease
<1>5. CASE (Next /\ ~AppendLine /\ ~Tick /\ ~AppendCheckpoint /\ ~Call) \/ UNCHANGED vars
  <2>1. lines' = lines /\ now' = now
    BY <1>5 DEF Next, Continue, Open, Read, Heal, WriteStore, WriteSnapshot, WriteCheckpointStore,
       TouchSegment, Crash, CrashInAppend, disk, vars
  <2> QED BY <2>1, JournalKept, QuietLease
<1> QED BY <1>1, <1>2, <1>3, <1>4, <1>5

\* Read as a list of jobs, the journal behaves as JobLease promises: every line
\* a call writes is one of its actions, of which a kill leaves the first ones,
\* and nothing else changes a job.  (submit, claim, heartbeat, succeed, fail,
\* cancel, _commit, _load)
THEOREM ImplementsLease == Spec => ImplementsJobLease
<1>1. Init => Lease!Init
  <2> SUFFICES ASSUME Init PROVE AbstractJobs = <<>>
    BY DEF Lease!Init
  <2>1. Inv /\ lines = <<>>
    BY InitInv DEF Init
  <2>2. Journalled = Replay(<<>>).jobs
    BY <2>1, JournalledIs DEF JournalIsReplay
  <2>3. Replay(<<>>) = EmptyStore
    BY ApplyNone DEF Replay
  <2>4. Journalled = <<>>
    BY <2>2, <2>3 DEF EmptyStore
  <2> QED BY <2>4 DEF AbstractJobs
<1>2. Inv /\ Inv' /\ DecisionStands /\ [Next]_vars => [Lease!Next]_AbstractJobs
  BY StepIsLease
<1> QED BY <1>1, <1>2, DecisionsStand, PTL DEF Spec, ImplementsJobLease, Lease!Spec

(* What JobLease proves therefore holds of the journal. *)

Facts == INSTANCE JobLeaseProofs WITH jobs <- AbstractJobs

LEMMA SameStart == Lease!Init <=> Facts!Init
BY DEF Lease!Init, Facts!Init

LEMMA SameStep == Lease!Next => Facts!Next
BY DEF Lease!Next, Facts!Next, Lease!Submit, Facts!Submit, Lease!Claim, Facts!Claim,
       Lease!OwnerCall, Facts!OwnerCall, Lease!Cancel, Facts!Cancel, Lease!Tick, Facts!Tick,
       Lease!Expire, Facts!Expire, Lease!Grant, Facts!Grant, Lease!Heartbeat, Facts!Heartbeat,
       Lease!Succeed, Facts!Succeed, Lease!Fail, Facts!Fail, Lease!Ids, Facts!Ids,
       Lease!Expired, Facts!Expired, Lease!Reached, Facts!Reached, Lease!Leased, Facts!Leased,
       Lease!Ended, Facts!Ended, Lease!Owns, Facts!Owns, Lease!GivenBack, Facts!GivenBack,
       Lease!TerminalStates, Facts!TerminalStates

\* Read from the files, through rotations, snapshots, kills and torn tails: a
\* lease with time left is never granted to anybody else, an ended job never
\* changes and no epoch goes back.  (claim, _owned, _load)
THEOREM JournalFenced == Spec => Facts!Fenced
<1>1. Facts!JobLeaseAssumption
  BY JobQueueAssumption DEF Facts!JobLeaseAssumption, JobQueueAssumption
<1>2. Facts!Spec => Facts!Fenced
  BY <1>1, Facts!AlwaysFenced
<1>3. Lease!Init => Facts!Init
  BY SameStart
<1>4. [Lease!Next]_AbstractJobs => [Facts!Next]_AbstractJobs
  BY SameStep
<1>5. ImplementsJobLease => Facts!Spec
  BY <1>3, <1>4, PTL DEF ImplementsJobLease, Lease!Spec, Facts!Spec
<1> QED BY <1>2, <1>5, ImplementsLease, PTL

=============================================================================
