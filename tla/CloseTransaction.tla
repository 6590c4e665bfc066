---------------------------- MODULE CloseTransaction ----------------------------
(***************************************************************************)
(* run-close: closing one run as an ordered transaction that can be taken  *)
(* up again (src/bin/handsoff_close_transaction.py, and _run_close_        *)
(* transaction of src/bin/handsoff_supervisor.py).                         *)
(*                                                                         *)
(* Every operation, of the run or of one of its issues, goes through       *)
(* CloseTransaction.reconcile: save the intent, observe, adopt or act,     *)
(* save that it acted, read back, save the outcome.  A call keeps a copy   *)
(* of the record and writes all of it at every save.  No lock spans a      *)
(* call: the project lock is taken and let go inside single operations.    *)
(***************************************************************************)
EXTENDS Naturals, Sequences, FiniteSets, Functions

CONSTANTS
    Issues,      \* the issue work items of the run
    Callers,     \* processes that may be running run-close
    NoItem,      \* "this operation is one of the run, not of an issue"
    NoRecord,    \* the transaction has no file yet
    MaxReopens,  \* bound: how often the Pilot reopens the run (each is one of the troubles)
    MaxTroubles  \* bound: kills, failing commands, lost answers, failing reads, and
                 \* what people and other programs do meanwhile

ASSUME CloseAssumption ==
    /\ IsFiniteSet(Issues) /\ IsFiniteSet(Callers)
    /\ NoItem \notin Issues
    /\ {MaxReopens, MaxTroubles} \subseteq Nat

VARIABLES
    run,       \* the status file: [closed, delivered, reopens]
    head,      \* the head of the event log, an identity that every event renews
    reported,  \* the last report event since the transaction was created
    listed,    \* issues that report_posted events list as closed
    issue,     \* GitHub: [open, by, reports, ownClose, parent] of every issue
    registry,  \* the Fleet register's state of this root
    dash,      \* who owns the run's dashboard
    config,    \* handsoff.toml's overridden value: [value, override]
    archive,   \* the close archive that belongs to the present token
    rec,       \* the transaction file that belongs to the present token
    caller,    \* the calls under way
    troubles,
    disturbed  \* history: operations whose resource somebody else changed

vars == <<run, head, reported, listed, issue, registry, dash, config, archive,
          rec, caller, troubles, disturbed>>
world == <<run, head, reported, listed, issue, registry, dash, config, archive>>

-----------------------------------------------------------------------------
(* The record. *)

\* TEARDOWN_STEPS without optional_analysis, which is always skipped.
TeardownSteps == <<"prepare", "final_report_post", "archive", "fleet_unregister",
                   "dashboard_shutdown", "config_restore">>
Steps == Range(TeardownSteps)
ItemOps == <<"commented", "closed", "ticked">>
TerminalStates == {"complete", "skipped"}
Row == {"pending", "intent"} \cup TerminalStates
\* acted_at is read of closures only.
Item == [ops : [Range(ItemOps) -> Row], acted : BOOLEAN, unpostable : BOOLEAN]
Record == [state : {"open", "complete"}, steps : [Steps -> Row],
           items : [Issues -> Item], decided : BOOLEAN]
Tokens == 0..MaxReopens

ASSUME NoRecordAssumption == NoRecord \notin Record

NewRecord == [state |-> "open", steps |-> [s \in Steps |-> "pending"],
              items |-> [i \in Issues |-> [ops |-> [n \in Range(ItemOps) |-> "pending"],
                                           acted |-> FALSE, unpostable |-> FALSE]],
              decided |-> FALSE]

RowOf(m, i, n) == IF i = NoItem THEN m.steps[n] ELSE m.items[i].ops[n]

WithRow(m, i, n, r) == IF i = NoItem THEN [m EXCEPT !.steps[n] = r]
                                     ELSE [m EXCEPT !.items[i].ops[n] = r]

\* The operations of the run, or of issue i, in their order, and the places of
\* those that are not in a terminal state.
Ops(i) == IF i = NoItem THEN TeardownSteps ELSE ItemOps
Unfinished(m, i) == {n \in DOMAIN Ops(i) : RowOf(m, i, Ops(i)[n]) \notin TerminalStates}

\* _report_item_complete, or settled as somebody else's closure.
ItemSettled(m, i) == m.items[i].unpostable \/ Unfinished(m, i) = {}

\* The close archive, whose content is the items as the record has them.
ArchiveOf(m) == [state |-> "whole", items |-> m.items]
NoArchive == [state |-> "absent", items |-> NewRecord.items]

-----------------------------------------------------------------------------
(* The calls. *)

\* "enter" is the top of reconcile for the first unfinished operation, "items"
\* the loop over the issues inside the action of final_report_post.
Pcs == {"idle", "enter", "observe", "act", "writing", "items", "acted", "readback"}
Closers == {"nobody", "run", "pull_request", "person"}
View == [open : BOOLEAN, report : BOOLEAN, by : Closers]
Heads == 0..(2 * Cardinality(Issues) + Cardinality(Callers) + 1)
Idle == [pc |-> "idle", token |-> 0, mem |-> NewRecord, posts |-> FALSE, item |-> NoItem,
         todo |-> {}, head |-> 0, view |-> [open |-> TRUE, report |-> FALSE, by |-> "nobody"]]

CallerState ==
    [pc : Pcs, token : Tokens, mem : Record, posts : BOOLEAN, item : Issues \cup {NoItem},
     todo : SUBSET Issues, head : Heads, view : View]

TypeOK ==
    /\ run \in [closed : BOOLEAN, delivered : BOOLEAN, reopens : Tokens]
    /\ head \in Heads
    /\ reported \in {"none", "posted", "not_posted"}
    /\ listed \subseteq Issues
    /\ issue \in [Issues -> [open : BOOLEAN, by : Closers, reports : Seq(Heads), ownClose : BOOLEAN,
                             parent : {"none", "unticked", "ticked", "nobox"}]]
    /\ registry \in {"open", "closed"}
    /\ dash \in {"absent", "owned", "stale", "foreign"}
    /\ archive \in [state : {"absent", "partial", "whole"}, items : [Issues -> Item]]
    /\ config \in [value : {"original", "written", "edited"}, override : BOOLEAN]
    /\ rec \in Record \cup {NoRecord}
    /\ caller \in [Callers -> CallerState]
    /\ troubles \in 0..MaxTroubles
    /\ disturbed \subseteq Steps \cup Range(ItemOps)

Init ==
    /\ run \in [closed : {FALSE}, delivered : BOOLEAN, reopens : {0}]
    /\ head = 0 /\ reported = "none" /\ listed = {}
    /\ \E p \in {"unticked", "nobox"} :
          issue = [i \in Issues |-> [open |-> TRUE, by |-> "nobody", reports |-> <<>>,
                                     ownClose |-> FALSE, parent |-> p]]
    /\ registry = "open" /\ dash = "owned"
    /\ config = [value |-> "original", override |-> FALSE]
    /\ archive = NoArchive
    /\ rec = NoRecord
    /\ caller = [c \in Callers |-> Idle]
    /\ troubles = 0 /\ disturbed = {}

\* An event gives the log a head that nothing remembers.
HeadsInUse == {head} \cup UNION {Range(issue[i].reports) : i \in Issues}
                     \cup {caller[c].head : c \in Callers}
NewHead == \E h \in Heads \ HeadsInUse : head' = h /\ \A g \in Heads \ HeadsInUse : h <= g

Trouble == troubles < MaxTroubles /\ troubles' = troubles + 1

\* The operation a call stands at.
Op(c) ==
    LET left == Unfinished(caller[c].mem, caller[c].item)
    IN  Ops(caller[c].item)[CHOOSE n \in left : \A other \in left : n <= other]
At(c, pc) == caller[c].pc = pc

Goes(c, pc, m) == caller' = [caller EXCEPT ![c] = [@ EXCEPT !.pc = pc, !.mem = m]]

\* A reopened run has another token and other files; what a call of the former
\* token still writes is read by nobody.
Stale(c) == caller[c].token # run.reopens
Saves(c, m) == rec' = IF Stale(c) THEN rec ELSE m
Turns(c, pc) == Goes(c, pc, caller[c].mem) /\ UNCHANGED rec

(* An error.  Inside an issue it is caught by the loop; otherwise the call ends. *)
Raises(c, m) ==
    /\ Saves(c, m)
    /\ caller' = [caller EXCEPT ![c] =
          IF @.item = NoItem THEN Idle
          ELSE [@ EXCEPT !.pc = "items", !.item = NoItem, !.view = Idle.view, !.mem = m]]

-----------------------------------------------------------------------------
(* What the operations observe and do. *)

\* report_state
ReportDone(m) == reported = "posted" /\ \A i \in Issues : ItemSettled(m, i)

\* resource_ownership: what no longer is this run's needs no release.
DashboardReleased == dash \in {"absent", "foreign"}

Satisfied(c) ==
    LET k == caller[c] IN
    CASE Op(c) = "prepare" -> run.closed
      [] Op(c) = "final_report_post" -> ReportDone(k.mem)
      [] Op(c) = "archive" -> archive = ArchiveOf(k.mem)
      [] Op(c) = "fleet_unregister" -> registry = "closed"
      [] Op(c) = "dashboard_shutdown" -> DashboardReleased
      [] Op(c) = "config_restore" -> config.override => k.mem.decided
      [] Op(c) = "commented" -> issue[k.item].reports # <<>>
      [] Op(c) = "closed" -> ~issue[k.item].open
      [] OTHER -> issue[k.item].parent \in {"none", "ticked"}

\* A variant: a comment is posted without looking for one.
ObservedNoComment(c) == Op(c) # "commented" /\ Satisfied(c)

\* The first observation of a comment or a closure is the read that was
\* checkpointed when the issue's turn came.
SatisfiedAtFirst(c) ==
    CASE Op(c) = "commented" -> caller[c].view.report
      [] Op(c) = "closed" -> ~caller[c].view.open
      [] OTHER -> Satisfied(c)

(* What an action changes when it is one call of GitHub or one locked section. *)

\* close_run: nothing more when the run is closed already.
CloseRun ==
    /\ run' = [run EXCEPT !.closed = TRUE]
    /\ IF run.closed THEN UNCHANGED head ELSE NewHead
    /\ UNCHANGED <<reported, listed, issue, registry, dash, config, archive>>

\* note_registry_state
MarkRegister ==
    /\ registry' = "closed"
    /\ UNCHANGED <<run, head, reported, listed, issue, dash, config, archive>>

\* _release_owned_dashboard: an owned server is shut down, a stale pointer removed.
ReleaseDashboard ==
    /\ IF dash \in {"owned", "stale"} THEN dash' = "absent" /\ NewHead
                                      ELSE UNCHANGED <<dash, head>>
    /\ UNCHANGED <<run, reported, listed, issue, registry, config, archive>>

\* Comment, closure and tick; gh leaves a closed issue as it is.
CommentOn(i, h) == issue' = [issue EXCEPT ![i].reports = Append(@, h)]
CloseIssue(i, h) ==
    issue' = IF ~issue[i].open THEN issue
             ELSE [issue EXCEPT ![i] = [issue[i] EXCEPT
                      !.open = FALSE, !.by = "run",
                      !.ownClose = @ \/ h \in Range(issue[i].reports)]]
TickParent(i) == issue' = [issue EXCEPT ![i].parent = "ticked"]

Effect(c) ==
    \/ Op(c) = "prepare" /\ CloseRun
    \/ Op(c) = "fleet_unregister" /\ MarkRegister
    \/ Op(c) = "dashboard_shutdown" /\ ReleaseDashboard
    \/ /\ \/ Op(c) = "commented" /\ CommentOn(caller[c].item, caller[c].head)
          \/ Op(c) = "closed" /\ CloseIssue(caller[c].item, caller[c].head)
          \/ Op(c) = "ticked" /\ TickParent(caller[c].item)
       /\ UNCHANGED <<run, head, reported, listed, registry, dash, config, archive>>

SimpleOps == {"prepare", "fleet_unregister", "dashboard_shutdown"} \cup Range(ItemOps)

\* tick() raises when the parent has no open box for the issue.
Doable(c) == Op(c) = "ticked" => issue[caller[c].item].parent = "unticked"

-----------------------------------------------------------------------------
(* reconcile *)

Start(c, posts) ==
    LET t == run.reopens
        m == IF rec = NoRecord THEN NewRecord ELSE rec
    IN  /\ At(c, "idle")
        /\ rec' = m
        /\ caller' = [caller EXCEPT ![c] =
              IF m.state = "complete" THEN Idle
              ELSE [Idle EXCEPT !.pc = "enter", !.token = t, !.mem = m,
                                !.posts = posts /\ run.delivered]]
        /\ reported' = IF rec = NoRecord THEN "none" ELSE reported
        /\ UNCHANGED <<run, head, listed, issue, registry, dash, config, archive, troubles, disturbed>>

\* The run was reopened meanwhile: _close_transaction_identity gives another
\* token, and revalidate raises CloseConflict.  This does not happen inside an
\* issue: those wait for the delivery, after which no run is reopened.
Conflict(c) ==
    /\ At(c, "enter") /\ Stale(c)
    /\ caller' = [caller EXCEPT ![c] = Idle]
    /\ UNCHANGED <<world, rec, troubles, disturbed>>

\* A variant: an operation whose intent was saved is thought to be under way.
EnterPending(c) ==
    LET k == caller[c] IN
    /\ At(c, "enter") /\ ~Stale(c) /\ Unfinished(k.mem, k.item) # {}
    /\ RowOf(k.mem, k.item, Op(c)) = "pending"
    /\ IF Op(c) = "final_report_post" /\ ~k.posts
       THEN LET m == WithRow(k.mem, NoItem, Op(c), "skipped")
            IN  Saves(c, m) /\ Goes(c, "enter", m)
       ELSE LET m == WithRow(k.mem, k.item, Op(c), "intent")
            IN  Saves(c, m) /\ Goes(c, "observe", m)
    /\ UNCHANGED <<world, troubles, disturbed>>

\* reconcile as far as the saved intent; a report nobody asked for, or that
\* would claim an unverified delivery, is skipped.
Enter(c) ==
    LET k == caller[c] IN
    /\ At(c, "enter") /\ ~Stale(c) /\ Unfinished(k.mem, k.item) # {}
    /\ IF Op(c) = "final_report_post" /\ ~k.posts
       THEN LET m == WithRow(k.mem, NoItem, Op(c), "skipped")
            IN  Saves(c, m) /\ Goes(c, "enter", m)
       ELSE LET m == WithRow(k.mem, k.item, Op(c), "intent")
            IN  Saves(c, m) /\ Goes(c, "observe", m)
    /\ UNCHANGED <<world, troubles, disturbed>>

Observe(c) ==
    LET k == caller[c] IN
    /\ At(c, "observe")
    /\ IF SatisfiedAtFirst(c)
       THEN LET m == WithRow(k.mem, k.item, Op(c), "complete")
            IN  Saves(c, m) /\ Goes(c, "enter", m)
       ELSE Turns(c, "act")
    /\ UNCHANGED <<world, troubles, disturbed>>

ObserveFails(c) ==
    /\ At(c, "observe") /\ Op(c) \notin {"commented", "closed"} /\ Trouble
    /\ Raises(c, WithRow(caller[c].mem, caller[c].item, Op(c), "pending"))
    /\ UNCHANGED <<world, disturbed>>

Act(c) ==
    /\ At(c, "act") /\ Op(c) \in SimpleOps /\ Doable(c)
    /\ Effect(c)
    /\ Turns(c, "acted")
    /\ UNCHANGED <<troubles, disturbed>>

\* The answer is lost: what was asked for has happened, but the call sees an error.
ActLosesAnswer(c) ==
    /\ At(c, "act") /\ Op(c) \in SimpleOps /\ Doable(c) /\ Trouble
    /\ Effect(c)
    /\ Turns(c, "readback")
    /\ UNCHANGED disturbed

\* The action raises and changes nothing.
ActFails(c) ==
    /\ At(c, "act")
    /\ IF Doable(c) THEN Trouble ELSE UNCHANGED troubles
    /\ Turns(c, "readback")
    /\ UNCHANGED <<world, disturbed>>

SaveActed(c) ==
    LET k == caller[c]
        m == IF Op(c) = "closed" THEN [k.mem EXCEPT !.items[k.item].acted = TRUE] ELSE k.mem
    IN  /\ At(c, "acted")
        /\ Saves(c, m) /\ Goes(c, "readback", m)
        /\ UNCHANGED <<world, troubles, disturbed>>

\* A variant: recording an operation as done on the word of its action.
ReadBackNothing(c) ==
    LET k == caller[c]
        m == WithRow(k.mem, k.item, Op(c), "complete")
    IN  /\ At(c, "readback")
        /\ Saves(c, m) /\ Goes(c, "enter", m)
        /\ UNCHANGED <<world, troubles, disturbed>>

ReadBack(c) ==
    LET k == caller[c] IN
    /\ At(c, "readback")
    /\ IF Satisfied(c)
       THEN LET m == WithRow(k.mem, k.item, Op(c), "complete")
            IN  Saves(c, m) /\ Goes(c, "enter", m)
       ELSE Raises(c, WithRow(k.mem, k.item, Op(c), "pending"))
    /\ UNCHANGED <<world, troubles, disturbed>>

ReadBackFails(c) ==
    /\ At(c, "readback") /\ Trouble
    /\ Raises(c, WithRow(caller[c].mem, caller[c].item, Op(c), "pending"))
    /\ UNCHANGED <<world, disturbed>>

\* reconcile_item is through with an issue.
ItemDone(c) ==
    /\ At(c, "enter") /\ caller[c].item # NoItem /\ ~Stale(c)
    /\ Unfinished(caller[c].mem, caller[c].item) = {}
    /\ caller' = [caller EXCEPT ![c] = [@ EXCEPT !.pc = "items", !.item = NoItem, !.view = Idle.view]]
    /\ UNCHANGED <<world, rec, troubles, disturbed>>

Finish(c) ==
    /\ At(c, "enter") /\ caller[c].item = NoItem
    /\ Unfinished(caller[c].mem, NoItem) = {}
    /\ Saves(c, [caller[c].mem EXCEPT !.state = "complete"])
    /\ caller' = [caller EXCEPT ![c] = Idle]
    /\ UNCHANGED <<world, troubles, disturbed>>

-----------------------------------------------------------------------------
(* The actions of the run that are more than one step. *)

\* prepare_final_report: the head is read here, and names this posting.
PrepareReport(c) ==
    /\ At(c, "act") /\ Op(c) = "final_report_post"
    /\ caller' = [caller EXCEPT ![c] = [@ EXCEPT !.pc = "items", !.todo = Issues, !.head = head]]
    /\ UNCHANGED <<world, rec, troubles, disturbed>>

\* gh is not logged in, or a credential survived redaction.
ReportRefused(c) ==
    /\ At(c, "act") /\ Op(c) = "final_report_post" /\ Trouble
    /\ reported' = "not_posted" /\ NewHead
    /\ Turns(c, "acted")
    /\ UNCHANGED <<run, listed, issue, registry, dash, config, archive, disturbed>>

\* A variant: an issue the run had begun with is taken for its own.
OursOnceBegun(k, i) ==
    issue[i].ownClose \/ k.mem.items[i].ops["commented"] # "pending"

\* _issue_closure_snapshot: a closure is the run's when the record or the
\* issue's comments say so, or a merged pull request of the run made it.
Ours(k, i) ==
    \/ k.mem.items[i].acted
    \/ k.mem.items[i].ops["closed"] = "complete"
    \/ issue[i].ownClose
    \/ i \in listed /\ issue[i].reports # <<>>

\* The issue's state is checkpointed, and the issue left alone when somebody
\* else closed it.
ReadIssue(c, i) ==
    LET k == caller[c]
        mine == issue[i].open \/ Ours(k, i) \/ issue[i].by = "pull_request"
        m == [k.mem EXCEPT !.items[i].unpostable = ~mine]
    IN  /\ At(c, "items") /\ i \in k.todo
        /\ Saves(c, m)
        /\ caller' = [caller EXCEPT ![c] =
              IF mine
              THEN [k EXCEPT !.pc = "enter", !.item = i, !.todo = @ \ {i}, !.mem = m,
                             !.view = [open |-> issue[i].open, report |-> issue[i].reports # <<>>,
                                       by |-> issue[i].by]]
              ELSE [k EXCEPT !.todo = @ \ {i}, !.mem = m]]
        /\ UNCHANGED <<world, troubles, disturbed>>

ReadIssueFails(c, i) ==
    /\ At(c, "items") /\ i \in caller[c].todo /\ Trouble
    /\ caller' = [caller EXCEPT ![c].todo = @ \ {i}]
    /\ UNCHANGED <<world, rec, disturbed>>

\* _record_report: the event report_posted, with what was closed.
RecordReport(c) ==
    LET k == caller[c]
        done(i, n) == k.mem.items[i].ops[n] = "complete"
    IN  /\ At(c, "items") /\ k.todo = {}
        /\ reported' = "posted" /\ NewHead
        /\ listed' = listed \cup {i \in Issues : ~k.mem.items[i].unpostable
                                       /\ done(i, "commented") /\ done(i, "closed")}
        /\ Turns(c, "acted")
        /\ UNCHANGED <<run, issue, registry, dash, config, archive, troubles, disturbed>>

\* write_archive_once: the file is made exclusively, then written.
OpenArchive(c) ==
    /\ At(c, "act") /\ Op(c) = "archive" /\ ~Stale(c) /\ archive.state = "absent"
    /\ archive' = [archive EXCEPT !.state = "partial"]
    /\ Turns(c, "writing")
    /\ UNCHANGED <<run, head, reported, listed, issue, registry, dash, config, troubles, disturbed>>

WriteArchive(c) ==
    /\ At(c, "writing") /\ Op(c) = "archive"
    /\ archive' = IF Stale(c) THEN archive ELSE ArchiveOf(caller[c].mem)
    /\ Turns(c, "acted")
    /\ UNCHANGED <<run, head, reported, listed, issue, registry, dash, config, troubles, disturbed>>

\* The write fails and the file is taken away again.
WriteArchiveFails(c) ==
    /\ At(c, "writing") /\ Op(c) = "archive" /\ Trouble
    /\ archive' = IF Stale(c) THEN archive ELSE NoArchive
    /\ Turns(c, "readback")
    /\ UNCHANGED <<run, head, reported, listed, issue, registry, dash, config, disturbed>>

\* A file that is there and is another: a conflict, never overwritten.
ArchiveConflict(c) ==
    /\ At(c, "act") /\ Op(c) = "archive" /\ (Stale(c) \/ archive.state # "absent")
    /\ Turns(c, IF archive = ArchiveOf(caller[c].mem)
                THEN "acted" ELSE "readback")
    /\ UNCHANGED <<world, troubles, disturbed>>

\* config_restore_decision under the project lock: restore, adopt or preserve;
\* the decision is saved a step later.
RestoreConfig(c) ==
    /\ At(c, "act") /\ Op(c) = "config_restore"
    /\ config' = [config EXCEPT !.value = IF @ = "written" THEN "original" ELSE @]
    /\ Turns(c, "writing")
    /\ UNCHANGED <<run, head, reported, listed, issue, registry, dash, archive,
                   troubles, disturbed>>

SaveDecision(c) ==
    LET m == [caller[c].mem EXCEPT !.decided = TRUE]
    IN  /\ At(c, "writing") /\ Op(c) = "config_restore"
        /\ Saves(c, m) /\ Goes(c, "acted", m)
        /\ UNCHANGED <<world, troubles, disturbed>>

-----------------------------------------------------------------------------
(* Everybody else. *)

\* A kill at any moment: the record stays as the last save left it.
Kill(c) ==
    /\ ~At(c, "idle") /\ Trouble
    /\ caller' = [caller EXCEPT ![c] = Idle]
    /\ UNCHANGED <<world, rec, disturbed>>

\* A variant: one reopening too many.
ReopenOnceMore ==
    /\ run.closed /\ ~run.delivered /\ run.reopens <= MaxReopens /\ Trouble
    /\ run' = [run EXCEPT !.closed = FALSE, !.reopens = @ + 1] /\ NewHead
    /\ rec' = NoRecord /\ archive' = NoArchive
    /\ UNCHANGED <<reported, listed, issue, registry, dash, config, caller, disturbed>>

\* run-reopen; the register is not told.
Reopen ==
    /\ run.closed /\ ~run.delivered /\ run.reopens < MaxReopens /\ Trouble
    /\ run' = [run EXCEPT !.closed = FALSE, !.reopens = @ + 1] /\ NewHead
    /\ rec' = NoRecord /\ archive' = NoArchive
    /\ UNCHANGED <<reported, listed, issue, registry, dash, config, caller, disturbed>>

\* The open run gets through Phase 8.
Deliver ==
    /\ ~run.closed /\ ~run.delivered
    /\ run' = [run EXCEPT !.delivered = TRUE] /\ NewHead
    /\ UNCHANGED <<reported, listed, issue, registry, dash, config, archive, rec, caller,
                   troubles, disturbed>>

\* config-override: the first original is kept.
Override ==
    /\ ~run.closed /\ ~config.override
    /\ config' = [value |-> "written", override |-> TRUE] /\ NewHead
    /\ UNCHANGED <<run, reported, listed, issue, registry, dash, archive, rec, caller,
                   troubles, disturbed>>

Elsewhere(ops) == disturbed' = disturbed \cup ops /\ UNCHANGED <<rec, caller>>

PersonTurnsIssue(i) ==
    /\ Trouble /\ Elsewhere({"closed"})
    /\ issue' = [issue EXCEPT ![i].open = ~@, ![i].by = IF issue[i].open THEN "person" ELSE "nobody"]
    /\ UNCHANGED <<run, head, reported, listed, registry, dash, config, archive>>

PullRequestCloses(i) ==
    /\ issue[i].open /\ Trouble /\ Elsewhere({})
    /\ issue' = [issue EXCEPT ![i].open = FALSE, ![i].by = "pull_request"]
    /\ UNCHANGED <<run, head, reported, listed, registry, dash, config, archive>>

EditConfig ==
    /\ config.value # "edited" /\ Trouble /\ Elsewhere({})
    /\ config' = [config EXCEPT !.value = "edited"]
    /\ UNCHANGED <<run, head, reported, listed, issue, registry, dash, archive>>

DashboardTurns ==
    /\ Trouble /\ Elsewhere({"dashboard_shutdown"})
    /\ dash' \in {"owned", "stale", "foreign"} \ {dash}
    /\ UNCHANGED <<run, head, reported, listed, issue, registry, config, archive>>

\* Any other command of the run that appends an event.
OtherEvent ==
    /\ Trouble /\ Elsewhere({}) /\ NewHead
    /\ UNCHANGED <<run, reported, listed, issue, registry, dash, config, archive>>

-----------------------------------------------------------------------------
Continue(c) ==
    \/ Conflict(c) \/ Enter(c) \/ Observe(c) \/ Act(c) \/ SaveActed(c) \/ ReadBack(c)
    \/ ItemDone(c) \/ Finish(c) \/ PrepareReport(c) \/ RecordReport(c)
    \/ OpenArchive(c) \/ WriteArchive(c) \/ ArchiveConflict(c)
    \/ RestoreConfig(c) \/ SaveDecision(c) \/ ActFails(c)
    \/ \E i \in Issues : ReadIssue(c, i)

Disturb(c) ==
    \/ ObserveFails(c) \/ ActLosesAnswer(c) \/ ReadBackFails(c) \/ ReportRefused(c)
    \/ WriteArchiveFails(c) \/ Kill(c)
    \/ \E i \in Issues : ReadIssueFails(c, i)

Next ==
    \/ \E c \in Callers, p \in BOOLEAN : Start(c, p)
    \/ \E c \in Callers : Continue(c) \/ Disturb(c)
    \/ Reopen \/ Deliver \/ Override \/ EditConfig \/ DashboardTurns \/ OtherEvent
    \/ \E i \in Issues : PersonTurnsIssue(i) \/ PullRequestCloses(i)

Spec == Init /\ [][Next]_vars

\* A call goes on until it ends or is killed, and somebody keeps closing the run.
FairSpec ==
    /\ Spec
    /\ \A c \in Callers : WF_vars(Continue(c)) /\ WF_vars(Start(c, TRUE))

-----------------------------------------------------------------------------
(* What should be true. *)

\* HAZARD: a kill or a lost answer between an action and the save that records it.
\* Whatever is cut short and taken up again, an issue never carries two reports
\* (REFERENCE.md: one comment per issue; reconcile's observation before its action).
OneReportEach == \A i \in Issues : Len(issue[i].reports) <= 1

\* HAZARD: the record outlives the call that wrote it, and the world it describes.
\* An operation the record calls complete is so, unless somebody else undid it.
CompleteIsSo ==
    rec # NoRecord =>
        LET done(n) == rec.steps[n] = "complete" /\ n \notin disturbed
            itemDone(i, n) == rec.items[i].ops[n] = "complete" /\ n \notin disturbed
        IN  /\ done("prepare") => run.closed
            /\ done("final_report_post") => ReportDone(rec)
            /\ done("archive") => archive = ArchiveOf(rec)
            /\ done("fleet_unregister") => registry = "closed"
            /\ done("dashboard_shutdown") => DashboardReleased
            /\ done("config_restore") /\ config.override => config.value # "written"
            /\ \A i \in Issues :
                  /\ itemDone(i, "commented") => issue[i].reports # <<>>
                  /\ itemDone(i, "closed") => ~issue[i].open
                  /\ itemDone(i, "ticked") => issue[i].parent \in {"none", "ticked"}

\* HAZARD: an attempt that was cut short must not make the next one take a
\* person's closure for the run's own.  Whoever posts a report on an issue had
\* not found it closed by a person when its turn came.
PersonsClosureStands ==
    [][\A c \in Callers, i \in Issues :
          issue'[i].reports # issue[i].reports /\ caller'[c] # caller[c]
              => caller[c].item = i /\ (caller[c].view.open \/ caller[c].view.by # "person")]_vars

\* HAZARD: an operation that fails or is killed must not be stuck for ever.
\* A run that is closed again and again is closed in the end, unless its archive
\* was torn or a parent issue has no box to tick.
Done == rec # NoRecord /\ rec.state = "complete"
NoBox == run.delivered /\ \E i \in Issues : issue[i].parent = "nobox"
CloseEnds == <>[](Done \/ NoBox \/ archive.state = "partial")

\* The module calls itself crash-safe, and run-close a resumable transaction:
\* a kill may delay the end of a close, not prevent it.
CloseSurvivesKills == <>[](Done \/ NoBox)

\* REFERENCE.md: an issue a person closed is recorded unpostable.  So an issue
\* that the run itself closed is not.
OwnClosureAdopted ==
    \A i \in Issues : rec # NoRecord /\ rec.items[i].unpostable => issue[i].by # "run"

=============================================================================
