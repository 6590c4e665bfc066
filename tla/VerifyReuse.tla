------------------------------ MODULE VerifyReuse ------------------------------
(***************************************************************************)
(* Concurrent verifies of one checkout: each binds the commands of the     *)
(* criteria it names to the tree and the specs it read, takes the in-flight*)
(* locks of those bindings in sorted order, re-reads the ledger, reuses    *)
(* what already passed, runs the rest and appends one record per           *)
(* criterion, at the end or, when it runs commands concurrently, as soon as*)
(* it has heard of the last command of a criterion.                        *)
(*                                                                         *)
(* A binding is the command, the tree and the specs of the criteria it is  *)
(* run for; the order of the digests, in which the locks are taken, is that*)
(* of the commands.  Left out: scoped digests, repeat criteria, baselines, *)
(* pauses (Performance), the symptom and review retention (Delivery), and  *)
(* the refusals: unknown criteria, a launched regression, a broken ledger. *)
(* Each command ends, because it is killed when its time is over.          *)
(***************************************************************************)
EXTENDS Naturals, Sequences, FiniteSets, SequencesExt

CONSTANTS Verifies, Pool,     \* invocations, and those run with check_concurrency > 1
          NoCache,            \* those given --no-cache
          Criteria, Tests,    \* the commands of each criterion, naturals in lock order
          Long,               \* commands with more output than a result keeps
          Nothing, MaxEdits, MaxKills   \* bounds

VARIABLES tree, spec,         \* version of the checkout, and of each criterion
          lock,               \* verify in-flight locks: binding -> holder
          at, named, bound,   \* per verify: where it is, its criteria, tree and specs
          reused, result,     \* per verify: commands reused, results of the others
          heard,              \* per verify: commands whose on_result was called
          written,            \* per verify: criteria already recorded
          ledger,             \* verification records
          edits, kills

vars == <<tree, spec, lock, at, named, bound, reused, result, heard, written, ledger, edits, kills>>
local == <<named, bound, reused, result, heard, written>>

Commands == UNION {Tests[k] : k \in Criteria}
Needed(v) == UNION {Tests[k] : k \in named[v]}

\* verification_binding.
Binding(v, cmd) ==
    [command |-> cmd, tree |-> bound[v].tree,
     specs |-> {<<k, bound[v].spec[k]>> : k \in {j \in named[v] : cmd \in Tests[j]}}]
Bindings == {Binding(v, cmd) : v \in Verifies, cmd \in Commands}

\* reusable_check_record: a passed record that ran every command it is about,
\* with no output truncated.
Reusable(cmd, binding) ==
    \E i \in DOMAIN ledger : /\ ledger[i].ok /\ ledger[i].executed /\ ledger[i].whole
                             /\ cmd \in Tests[ledger[i].criterion]
                             /\ ledger[i].binding[cmd] = binding

Init ==
    /\ tree = 1 /\ spec = [k \in Criteria |-> 1] /\ lock = <<>>
    /\ at = [v \in Verifies |-> "idle"]
    /\ named = [v \in Verifies |-> {}]
    /\ bound = [v \in Verifies |-> [tree |-> tree, spec |-> spec]]
    /\ reused = [v \in Verifies |-> {}]
    /\ result = [v \in Verifies |-> [cmd \in Commands |-> Nothing]]
    /\ heard = [v \in Verifies |-> {}] /\ written = [v \in Verifies |-> {}]
    /\ ledger = <<>> /\ edits = 0 /\ kills = 0

-----------------------------------------------------------------------------
\* The first section under the project lock.
Begin(v) ==
    /\ at[v] = "idle" /\ at' = [at EXCEPT ![v] = "waiting"]
    /\ \E ks \in SUBSET Criteria \ {{}} : named' = [named EXCEPT ![v] = ks]
    /\ bound' = [bound EXCEPT ![v] = [tree |-> tree, spec |-> spec]]
    /\ UNCHANGED <<tree, spec, lock, reused, result, heard, written, ledger, edits, kills>>

\* verify_inflight_lock: one binding at a time, in sorted order.
Held(v)    == {b \in DOMAIN lock : lock[b] = v}
WithoutLocks(v) == {}
Missing(v) == {cmd \in Needed(v) : Binding(v, cmd) \notin Held(v)}
InAnyOrder(v) == Missing(v)
NextMissing(v) == {cmd \in Missing(v) : \A other \in Missing(v) : cmd <= other}

TakeLock(v) ==
    /\ at[v] = "waiting"
    /\ \E cmd \in NextMissing(v) :
        /\ Binding(v, cmd) \notin DOMAIN lock
        /\ lock' = [b \in DOMAIN lock \cup {Binding(v, cmd)} |->
                       IF b \in DOMAIN lock THEN lock[b] ELSE v]
    /\ UNCHANGED <<tree, spec, at, local, ledger, edits, kills>>

Released(v) == [b \in DOMAIN lock \ Held(v) |-> lock[b]]

\* The ledger is read again under the binding locks.
Cached(v) == {cmd \in Needed(v) : v \notin NoCache /\ Reusable(cmd, Binding(v, cmd))}

Reread(v) ==
    /\ at[v] = "waiting" /\ Missing(v) = {}
    /\ at' = [at EXCEPT ![v] = "running"]
    /\ reused' = [reused EXCEPT ![v] = Cached(v)]
    /\ UNCHANGED <<tree, spec, lock, named, bound, result, heard, written, ledger, edits, kills>>

-----------------------------------------------------------------------------
Launched(v)   == Needed(v) \ reused[v]
Concurrent(v) == v \in Pool /\ Cardinality(Launched(v)) > 1
Changed(v, ks) == \E k \in ks : spec[k] # bound[v].spec[k]

\* run_checks: in the order of the configuration, or in any order from a pool.
\* A command that fails does not stop the others.
RunOne(v, cmd, ok) ==
    /\ at[v] = "running" /\ cmd \in Launched(v) /\ result[v][cmd] = Nothing
    /\ Concurrent(v) \/ \A other \in Launched(v) : other < cmd => result[v][other] # Nothing
    /\ result' = [result EXCEPT ![v][cmd] = [ok |-> ok, tree |-> tree]]
    /\ UNCHANGED <<tree, spec, lock, at, named, bound, reused, heard, written, ledger, edits, kills>>

\* write_record: executed only if every command of the criterion ran here.
Record(v, k) ==
    LET ran == Tests[k] \ reused[v] IN
    [criterion |-> k, by |-> v,
     ok |-> \A cmd \in ran : result[v][cmd].ok, whole |-> ran \cap Long = {},
     executed |-> Tests[k] \cap reused[v] = {},
     binding |-> [cmd \in Tests[k] |-> Binding(v, cmd)],
     ran |-> {<<cmd, result[v][cmd].tree>> : cmd \in ran}]
Records(v, ks) == SetToSeq({Record(v, k) : k \in ks})

\* record_completed, called in the verify's own thread as each command of a pool
\* has finished: the criteria that are complete now are recorded, unless one of
\* them has changed.
Ready(v, cmds) == {k \in named[v] \ written[v] : Tests[k] \subseteq reused[v] \cup cmds}

RecordCompleted(v, cmd) ==
    /\ at[v] = "running" /\ Concurrent(v)
    /\ cmd \in Launched(v) \ heard[v] /\ result[v][cmd] # Nothing
    /\ heard' = [heard EXCEPT ![v] = @ \cup {cmd}]
    /\ LET ready == Ready(v, heard[v] \cup {cmd})
       IN  IF Changed(v, ready) THEN UNCHANGED <<written, ledger>>
           ELSE /\ ledger' = ledger \o Records(v, ready)
                /\ written' = [written EXCEPT ![v] = @ \cup ready]
    /\ UNCHANGED <<tree, spec, lock, at, named, bound, reused, result, edits, kills>>

\* The process is gone: its locks are free and its memory is lost.
Exit(v) ==
    /\ at' = [at EXCEPT ![v] = "ended"] /\ lock' = Released(v)
    /\ named' = [named EXCEPT ![v] = {}] /\ reused' = [reused EXCEPT ![v] = {}]
    /\ result' = [result EXCEPT ![v] = [cmd \in Commands |-> Nothing]]
    /\ heard' = [heard EXCEPT ![v] = {}] /\ written' = [written EXCEPT ![v] = {}]

\* The last section, under the project lock; then the bindings are released.
Finish(v) ==
    /\ at[v] = "running" /\ \A cmd \in Launched(v) : result[v][cmd] # Nothing
    /\ Concurrent(v) => heard[v] = Launched(v)
    /\ ledger' = IF Changed(v, named[v]) THEN ledger ELSE ledger \o Records(v, named[v] \ written[v])
    /\ Exit(v)
    /\ UNCHANGED <<tree, spec, bound, edits, kills>>

\* A killed verify leaves its locks to the operating system.
Kill(v) ==
    /\ at[v] \in {"waiting", "running"} /\ kills < MaxKills /\ kills' = kills + 1
    /\ Exit(v)
    /\ UNCHANGED <<tree, spec, bound, ledger, edits>>

\* Somebody edits the checkout, takes the edit back, or respecifies a criterion.
Edit ==
    /\ edits < MaxEdits /\ edits' = edits + 1
    /\ \/ tree' \in (1 .. MaxEdits + 1) \ {tree} /\ UNCHANGED spec
       \/ /\ \E k \in Criteria, n \in 1 .. MaxEdits + 1 : n # spec[k] /\ spec' = [spec EXCEPT ![k] = n]
          /\ UNCHANGED tree
    /\ UNCHANGED <<lock, at, local, ledger, kills>>

Step(v) ==
    \/ TakeLock(v) \/ Reread(v) \/ Finish(v)
    \/ \E cmd \in Commands : RecordCompleted(v, cmd) \/ \E ok \in BOOLEAN : RunOne(v, cmd, ok)

Next == Edit \/ \E v \in Verifies : Begin(v) \/ Step(v) \/ Kill(v)

Spec == Init /\ [][Next]_vars
FairSpec == Spec /\ \A v \in Verifies : WF_vars(Step(v))

-----------------------------------------------------------------------------
TypeOK ==
    /\ tree \in 1 .. MaxEdits + 1 /\ spec \in [Criteria -> 1 .. MaxEdits + 1]
    /\ \A b \in DOMAIN lock : b \in Bindings /\ lock[b] \in Verifies
    /\ at \in [Verifies -> {"idle", "waiting", "running", "ended"}]
    /\ named \in [Verifies -> SUBSET Criteria] /\ written \in [Verifies -> SUBSET Criteria]
    /\ reused \in [Verifies -> SUBSET Commands] /\ heard \in [Verifies -> SUBSET Commands]
    /\ result \in [Verifies -> [Commands -> [ok : BOOLEAN, tree : 1 .. MaxEdits + 1] \cup {Nothing}]]
    /\ edits \in 0 .. MaxEdits /\ kills \in 0 .. MaxKills

\* A command is paid for once per binding: of two verifies that use the cache,
\* only one runs it to a record others may reuse (#43).
Sources(i, cmd) ==
    ledger[i].ok /\ ledger[i].executed /\ ledger[i].whole /\ cmd \in Tests[ledger[i].criterion]
EachBindingRunsOnce ==
    \A i, j \in DOMAIN ledger : \A cmd \in Commands :
        /\ Sources(i, cmd) /\ Sources(j, cmd)
        /\ {ledger[i].by, ledger[j].by} \cap NoCache = {}
        /\ ledger[i].binding[cmd] = ledger[j].binding[cmd]
        => ledger[i].by = ledger[j].by

\* Verifies that wait for each other's bindings all end.
NoneWaits   == \A v \in Verifies : at[v] \in {"idle", "ended"}
VerifiesEnd == []<>NoneWaits

\* A record's tree is the tree its commands ran against.
RanWhereItSays ==
    \A i \in DOMAIN ledger : \A pair \in ledger[i].ran :
        pair[2] = ledger[i].binding[pair[1]].tree
=============================================================================
