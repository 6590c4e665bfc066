----------------------------- MODULE Regression ----------------------------
(***************************************************************************)
(* The gated full regression: a request bound to the tree it is for, the   *)
(* Pilot's decision, a runner that collects the tests, deals them to       *)
(* shards, runs each in its own copy of the project outside the lock, and  *)
(* records the outcome if it is still the launch on record.  While it runs *)
(* it publishes to one progress file, owned by the execution that wrote it *)
(* last and worth nothing once its heartbeat is old.                       *)
(*                                                                         *)
(* A content of the tree stands for all a request is bound to; an edit may *)
(* bring back a content the tree had before.  Left out: several commands   *)
(* of a group (they run one after another), the wall clock of a deadline,  *)
(* node tests, and what the page shows of the progress.                    *)
(***************************************************************************)
EXTENDS Naturals, Sequences

CONSTANTS Runners, AdHoc, \* regression-run processes, a battery run by hand
          Nothing,
          Tests, Shards,  \* how many of each
          Versions,       \* the contents a tree can have, but for the first
          History,        \* MAX_REGRESSION_REQUESTS
          MaxRequests, MaxEdits, MaxTroubles   \* bounds

VARIABLES tree,      \* what the project is: its content
          requests, asked,
          runner,
          progress,  \* the progress file: its owner, and whether it is fresh
          troubles, edits

vars == <<tree, requests, asked, runner, progress, troubles, edits>>

LiveStates == {"awaiting_approval", "accepted", "launched"}
Trees   == 0 .. Versions
States  == LiveStates \cup {"declined", "cancelled", "expired", "invalidated", "completed", "failed"}
Request == [id : 1 .. MaxRequests, state : States, on : Trees, nonce : Runners \cup {Nothing}]
Running == {"starting", "collecting", "running", "recording"}
Ran     == {"queued", "running", "whole", "short", "failed"}
Runner  == [pc : Running \cup {"none", "over", "superseded", "killed"}, id : 0 .. MaxRequests,
            serial : BOOLEAN,          \* the tests are not known: one shard runs the command
            shard : [1 .. Shards -> Ran], trees : SUBSET Trees, exit : {0, 1},
            edits : 0 .. 2]            \* the edits it has run through: none, one, more

Idle == [pc |-> "none", id |-> 0, serial |-> FALSE, shard |-> [k \in 1 .. Shards |-> "queued"],
         trees |-> {}, exit |-> 1, edits |-> 0]

Init ==
    /\ tree = 0 /\ requests = <<>> /\ asked = 0
    /\ runner = [r \in Runners |-> Idle]
    /\ progress = [owner |-> Nothing, fresh |-> FALSE, over |-> TRUE]
    /\ troubles = 0 /\ edits = 0

-----------------------------------------------------------------------------
\* The inventory is dealt to the shards in slices that differ by one at most.
First(k) == (k - 1) * (Tests \div Shards) + (IF k - 1 < Tests % Shards THEN k - 1 ELSE Tests % Shards)
Dealt(k) == {t \in 0 .. Tests - 1 : First(k) <= t /\ t < First(k + 1)}
Exact    == \A t \in 0 .. Tests - 1 : \E k \in 1 .. Shards : \A j \in 1 .. Shards : t \in Dealt(j) <=> j = k

\* The exit code of a shard: its process, and every test dealt accounted for,
\* if it was dealt any.
Code(n, k) == IF n.shard[k] \in {"whole"} \cup (IF n.serial THEN {"short"} ELSE {}) THEN 0 ELSE 1
Used(n)    == IF n.serial THEN {1} ELSE 1 .. Shards

Last   == requests[Len(requests)]
LiveOne == requests # <<>> /\ Last.state \in LiveStates
Becomes(to) == requests' = [requests EXCEPT ![Len(requests)].state = to]

-----------------------------------------------------------------------------
\* A full history loses its oldest request: all of them are over.
RegressionRequest ==
    /\ ~LiveOne /\ asked < MaxRequests /\ asked' = asked + 1
    /\ requests' = Append(IF Len(requests) >= History THEN Tail(requests) ELSE requests,
                          [id |-> asked + 1, state |-> "awaiting_approval", on |-> tree, nonce |-> Nothing])
    /\ UNCHANGED <<tree, runner, progress, troubles, edits>>

RegressionDecide(accept, late) ==
    /\ LiveOne /\ Last.state = "awaiting_approval"
    /\ Becomes(CASE late -> "expired" [] ~late /\ Last.on # tree -> "invalidated"
                 [] OTHER -> IF accept THEN "accepted" ELSE "declined")
    /\ UNCHANGED <<tree, asked, runner, progress, troubles, edits>>

RegressionCancel ==
    /\ LiveOne /\ Last.state \in {"awaiting_approval", "accepted"}
    /\ Becomes("cancelled")
    /\ UNCHANGED <<tree, asked, runner, progress, troubles, edits>>

RegressionRun(r, late) ==
    /\ LiveOne /\ Last.state = "accepted" /\ runner[r].pc = "none"
    /\ IF late \/ Last.on # tree
       THEN Becomes(IF late THEN "expired" ELSE "invalidated") /\ UNCHANGED runner
       ELSE /\ requests' = [requests EXCEPT ![Len(requests)].state = "launched",
                                            ![Len(requests)].nonce = r]
            /\ runner' = [runner EXCEPT ![r].pc = "starting", ![r].id = Last.id]
    /\ UNCHANGED <<tree, asked, progress, troubles, edits>>

\* The Pilot gives up on a launch whose runner seems gone.
RegressionFinalize ==
    /\ LiveOne /\ Last.state = "launched" /\ Becomes("failed")
    /\ UNCHANGED <<tree, asked, runner, progress, troubles, edits>>

-----------------------------------------------------------------------------
\* A runner that is gone leaves nothing but its id; what it ran is kept with a
\* request that it completed.
Gone(r, how) == [Idle EXCEPT !.pc = how, !.id = runner[r].id]

\* The progress file.  Whoever starts owns it; a writer that is not the owner
\* any more, or that let it go stale, gives its execution up.
Owns(r)    == progress.owner = r /\ progress.fresh
Step(r, next) == runner' = [runner EXCEPT ![r] = IF Owns(r) THEN next ELSE Gone(r, "superseded")]
Publish(r, over) == progress' = IF Owns(r) THEN [progress EXCEPT !.over = over] ELSE progress

StartProgress(o) == progress' = [owner |-> o, fresh |-> TRUE, over |-> FALSE]

StartBattery(r) ==
    /\ runner[r].pc = "starting" /\ StartProgress(r)
    /\ runner' = [runner EXCEPT ![r].pc = "collecting"]
    /\ UNCHANGED <<tree, requests, asked, troubles, edits>>

Trouble == troubles < MaxTroubles /\ troubles' = troubles + 1

\* handsoff_regress run by hand in the same project.
RunByHand ==
    /\ Trouble /\ StartProgress(AdHoc)
    /\ UNCHANGED <<tree, requests, asked, runner, edits>>

\* The exact ids, a command whose tests cannot be named, or a failure that ends
\* the battery: never a part of the ids.
Collected == {"exact", "ambiguous", "failure"}

CollectInventory(r, found) ==
    /\ runner[r].pc = "collecting"
    /\ Step(r, [runner[r] EXCEPT !.pc = IF found = "failure" THEN "recording" ELSE "running",
                                 !.serial = found = "ambiguous"])
    /\ Publish(r, found = "failure")
    /\ UNCHANGED <<tree, requests, asked, troubles, edits>>

CompleteEmptyShard(r, k) ==
    /\ runner[r].pc = "running" /\ runner[r].shard[k] = "queued" /\ ~runner[r].serial /\ Dealt(k) = {}
    /\ Step(r, [runner[r] EXCEPT !.shard[k] = "whole"]) /\ Publish(r, FALSE)
    /\ UNCHANGED <<tree, requests, asked, troubles, edits>>

\* _run_worker: the copy is taken when the shard starts.
RunShard(r, k) ==
    /\ runner[r].pc = "running" /\ runner[r].shard[k] = "queued"
    /\ IF runner[r].serial THEN k = 1 ELSE Dealt(k) # {}
    /\ runner' = [runner EXCEPT ![r].shard[k] = "running", ![r].trees = @ \cup {tree}]
    /\ UNCHANGED <<tree, requests, asked, progress, troubles, edits>>

EndShard(r, k, ran) ==
    /\ runner[r].pc = "running" /\ runner[r].shard[k] = "running"
    /\ Step(r, [runner[r] EXCEPT !.shard[k] = ran]) /\ Publish(r, FALSE)
    /\ UNCHANGED <<tree, requests, asked, troubles, edits>>

MergeShards(r) ==
    /\ runner[r].pc = "running" /\ \A k \in Used(runner[r]) : runner[r].shard[k] \notin {"queued", "running"}
    /\ Step(r, [runner[r] EXCEPT !.pc = "recording",
                                 !.exit = IF \A k \in Used(runner[r]) : Code(runner[r], k) = 0 THEN 0 ELSE 1])
    /\ Publish(r, TRUE)
    /\ UNCHANGED <<tree, requests, asked, troubles, edits>>

\* The outcome, if it is still of the launch on record.  A variant with a
\* plausible bug, used nowhere: the bindings of the launch do.
OutcomeAsLaunched(r) == IF runner[r].exit = 0 THEN "completed" ELSE "failed"
Outcome(r) == IF Last.on # tree THEN "invalidated" ELSE IF runner[r].exit = 0 THEN "completed" ELSE "failed"

RecordResult(r) ==
    /\ runner[r].pc = "recording"
    /\ IF LiveOne /\ Last.id = runner[r].id /\ Last.nonce = r /\ Last.state = "launched"
       THEN /\ Becomes(Outcome(r))
            /\ runner' = [runner EXCEPT ![r] = IF Outcome(r) = "completed" THEN [@ EXCEPT !.pc = "over"]
                                                                          ELSE Gone(r, "over")]
       ELSE UNCHANGED requests /\ runner' = [runner EXCEPT ![r] = Gone(r, "over")]
    /\ UNCHANGED <<tree, asked, progress, troubles, edits>>

\* The host sleeps past the heartbeat; a heartbeat makes the file fresh again.
Stall ==
    /\ Trouble /\ progress' = [progress EXCEPT !.fresh = FALSE]
    /\ UNCHANGED <<tree, requests, asked, runner, edits>>

Heartbeat(r) ==
    /\ runner[r].pc \in {"collecting", "running"} /\ progress.owner = r /\ ~progress.over
    /\ progress' = [progress EXCEPT !.fresh = TRUE]
    /\ UNCHANGED <<tree, requests, asked, runner, troubles, edits>>

Edit(content) ==
    /\ edits < MaxEdits /\ edits' = edits + 1
    /\ content # tree /\ tree' = content
    /\ runner' = [r \in Runners |-> IF runner[r].pc \in Running /\ runner[r].edits < 2
                                    THEN [runner[r] EXCEPT !.edits = @ + 1] ELSE runner[r]]
    /\ UNCHANGED <<requests, asked, progress, troubles>>

Kill(r) ==
    /\ Trouble /\ runner[r].pc \in Running
    /\ runner' = [runner EXCEPT ![r] = Gone(r, "killed")]
    /\ UNCHANGED <<tree, requests, asked, progress, edits>>

Ending(r) ==
    \/ StartBattery(r) \/ MergeShards(r) \/ RecordResult(r)
    \/ \E found \in Collected : CollectInventory(r, found)
    \/ \E k \in 1 .. Shards : \/ CompleteEmptyShard(r, k) \/ RunShard(r, k)
                              \/ \E ran \in {"whole", "short", "failed"} : EndShard(r, k, ran)

Next ==
    \/ RegressionRequest \/ RegressionCancel \/ RegressionFinalize
    \/ \E late \in BOOLEAN : \/ \E accept \in BOOLEAN : RegressionDecide(accept, late)
                             \/ \E r \in Runners : RegressionRun(r, late)
    \/ \E r \in Runners : Ending(r) \/ Heartbeat(r) \/ Kill(r)
    \/ \E content \in Trees : Edit(content)
    \/ RunByHand \/ Stall

Spec     == Init /\ [][Next]_vars
FairSpec == Spec /\ \A r \in Runners : WF_vars(Ending(r))

-----------------------------------------------------------------------------
\* The records are well typed; one request is live at most, and it is the last.
TypeOK ==
    /\ requests \in Seq(Request) /\ Len(requests) <= History /\ asked \in 0 .. MaxRequests
    /\ \A i \in 1 .. Len(requests) - 1 : requests[i].state \notin LiveStates
    /\ runner \in [Runners -> Runner] /\ Exact
    /\ progress.owner \in Runners \cup {AdHoc, Nothing}

\* cmd_regression_run, run_battery_results: a request that completed ran every
\* test of the inventory in every shard (the whole command, where the tests could
\* not be named), and on no tree but the one it was approved for, unless that was
\* changed and changed back while it ran: one edit is never missed, whatever was
\* finalized or started meanwhile.
CompletedIsWhole ==
    \A i \in 1 .. Len(requests) :
        requests[i].state = "completed" =>
            \E r \in Runners :
                /\ runner[r].id = requests[i].id
                /\ IF runner[r].serial THEN runner[r].shard[1] \in {"whole", "short"}
                                       ELSE \A k \in 1 .. Shards : runner[r].shard[k] = "whole"
                /\ runner[r].edits < 2 => runner[r].trees \subseteq {requests[i].on}

\* What the reference says of it, that any change of the content invalidates the
\* acceptance (no run checks it): a change that is undone before the end does not.
CompletedOnItsTree ==
    \A i \in 1 .. Len(requests), r \in Runners :
        requests[i].state = "completed" /\ runner[r].id = requests[i].id =>
            runner[r].trees \subseteq {requests[i].on}

\* _run_worker's timer, _complete_empty_shard: every runner ends: it records its
\* outcome, or finds that it was superseded, or is killed.
NoneRuns   == \A r \in Runners : runner[r].pc \notin Running
RunnersEnd == []<>NoneRuns
=============================================================================
