# Handsoff in TLA+

Handsoff drives one feature of a project from an acceptance registry to a live
verification, with agents that design, implement and review, gates between eight
phases, and a human (the Pilot) who approves. Its engine is a set of Python
commands in `src/bin/` that share files under a project root. There is no server
that owns the state: every command is a process that takes a lock, reads,
validates, writes and ends. What is hard about it is therefore what can happen
*between* the writes of one command and *between* the commands: kills, edits by
hand, checks that run for minutes outside the lock, workers that come back late.

This directory holds TLA+ models of that core, TLC configurations that check
them on small instances, and proofs that the TLA+ proof system checks.

## Inventory

| Component | Source (`src/bin/`) | State | Operations | Hard behaviour | What makes it correct |
|---|---|---|---|---|---|
| Run ledger | `handsoff_core`, `handsoff_ledger`, `handsoff_agent_runtime` 1685-1803, `handsoff_workflow` 318-403 | status file, acceptance registry, hash-chained event log and its head file, verification ledger anchored in the status, write-ahead journal, project lock | `commit`, `append_event`, `append_verification`, the audits | kills between and inside writes, writers outside the lock | every content on disk is described by the log or announced by the journal |
| Doctor | `handsoff_supervisor` 7189-7316 | none of its own | prune, recover, refuse | telling an interrupted commit from an edit | finishes what it can prove, never launders an edit |
| Delivery gates | `handsoff_workflow`, `handsoff_supervisor` | criteria and their evidence, verification records, phase, decisions with the hashes they were given for | registry, design, advance, verify, review, deployment, live verification | state read before checks and used after them; decisions that outlive their object | what is built, reviewed and shipped is what was approved |
| Fleet job queue | `handsoff_queue` | journal segments, checkpoints, store | submit, claim, heartbeat, succeed, fail, cancel, replay | leases of dead workers, kills while journaling or rotating | bounded grants, fencing, nothing acknowledged is lost |
| Release transaction | `handsoff_release_transaction`, `handsoff_release_runtime`, `handsoff_supervisor` 3120-3214 | record of six steps, install marker, release lock; the release plan in the status | release-plan, release-reconcile, the gate of Phase 8 | lost answers, eventual consistency, kills, calls with different wheels, changes by others | the record never claims more than there is, nothing is made unannounced, a planned release ends |
| Close transaction | `handsoff_close_transaction`, `handsoff_supervisor` 7328-7847 | one record per run token: operations, their intents, receipts; comments, boxes and issues at GitHub, archive, dashboard | run-close, its operations | kills inside an operation, lost answers, a reopened run or issue, two calls | each operation takes effect once, complete means done |
| Managed sessions and recovery | `handsoff_agent`, `handsoff_agent_runtime`, `handsoff_lib` 3545-3790, 4438-4620, 8641-8913 | sessions per role, failures, replacements, recovery attempts and their lease | launch, finish, replace, recover, reconcile, close | launcher outside the lock, silence of a live worker, kills of hosts | one live session per role, one worker, valid commits |
| Fallback planner | `handsoff_lib` 3482-3791, 7337-7502 | the chain of sessions of a role | plan | who failed, who reviews whom | vendors and caps as configured, an independent reviewer |
| Performance clock | `handsoff_runtime_control`, `handsoff_supervisor` 213-676, 7025-7090, 7884-7986 | episodes of active time, standing decision, append-only journal | refresh, watch, resume | refreshed outside the lock, a kill between journal and record | a budget that is used up pauses the run |
| Review attempts and verdicts | `handsoff_agent` 579-631, 1934-2755, `handsoff_agent_runtime`, `handsoff_supervisor` 5046-5803 | attempts, cap and overrides, results on sessions | launch, record, adopt, override | a verdict in flight while criteria move, replays | counts once, reviews what it approves |
| Implementer workspaces | `handsoff_agent_runtime` 572-1295, `handsoff_supervisor` 5467-5833 | worktrees, base, disposition | seed, apply, discard, remove | host and sessions write the same paths, kills inside an apply | nobody's work is overwritten; all of a change or nothing |
| Amendments | `handsoff_lib` 4969-5294, `handsoff_supervisor` 4252-4702, 6306-6776 | the open amendment, the registry it began from | open, edit, review, revise, approve, withdraw, escalate | a change inside a change | what is in force was reviewed and approved as a whole |
| Design reviews, questions, holds | `handsoff_lib` 4268-4350, 9074-9350, `handsoff_agent` 388-499, 800-1013, `handsoff_supervisor` 4252-4867 | proposal, budget, grants and reservations, questions, one `status` field they all hold the run by | propose, launch, review, grant, ask, answer | holds that lift each other, a reservation of a dead session | no round nobody granted, no block without a reason |
| Work items and tranches | `handsoff_supervisor` 2750-3117, `handsoff_workflow` 845-912, 1293-1316, `handsoff_ledger` 573-867 | derived and persisted registry, tombstones, tranche | sync, tag, remove, activate, approve | the same registry derived three ways | decisions are about the scope that stands |
| Verification reuse | `handsoff_lib` 5974-6275, `handsoff_supervisor` 3424-3746 | in-flight lock files, records | lock, look up again, run, append | two verifies of overlapping commands, kills | no deadlock, a binding is paid for once |
| Regression requests | `handsoff_regress`, `handsoff_supervisor` 2683-2721, 3217-3421 | requests, one progress file | ask, decide, launch, run, finalize | the tree moves while it runs, late and killed runners | a result counts for its tree and its launch only |
| Mutation proof | `handsoff_mutation`, `handsoff_supervisor` 4080-4217 | proof records | prove | edits during minutes of runs, flaky tests | a proof is of the source it names |
| Mission Control | `handsoff_dashboard` 699-1200, 2022-2446 | a page; handler threads | fourteen buttons | run moves between display, check and command | a late click does what its page showed or nothing |
| Orchestration loop | `handsoff_dashboard` 1703-1770, 2210-2247, `handsoff_lib` 4147-4350 | none; decides from the status | advance, launch | decides under the lock, acts after it | launches follow news |
| Dashboard ownership | `handsoff_lib` 8337-8618, `handsoff_dashboard` 1590-1939 | owner file; servers on ports | start, release, judge, report | ports and files reused by another server | stops its own server only, reports a death once |
| Fleet collector | `handsoff_fleet_signals` | cache with cursors in memory and on disk | pass, restart | pages, second-precision times, failing reads | no update is missed |
| Fleet registry and ticket lock | `handsoff_fleet` 68-600, 1162-1195 | one register of roots for all runs of a user | claim, note an end, register, forget, synchronise | the register is written before and after the status it speaks of, under another lock | one run per ticket |
| Monitors, broker, Fleet board server, configuration, schemas, projections, routing, adapters, CLI, web boards | the remaining files | views, parsing and child I/O | | | see *Not modelled* |

The components meet in the run's files: every command of Delivery, the sessions,
the questions and the amendments goes through `commit` under the project lock. The
queue has files and a lock of its own. A release call takes the project lock at its
beginning and at its end only, and a release lock of its own in between. A close call
takes no lock of its own at all. Hosts, watchdogs, dashboards and collectors are
processes that outlive commands: they decide from one reading of the files and act
after it.

## Modules

| Module | What it is |
|---|---|
| `Ledger` | the run's files and every write of `commit`, `append_event`, `append_verification` and `doctor` |
| `LedgerProofs` | type correctness; a status never anchors a record that does not exist; what kills, edits and doctor leave of the files; audited commands continue what was logged |
| `Delivery` | one run of the workflow: registry, evidence, decisions, phases |
| `DeliveryProofs` | from Phase 3 on the registry is what was reviewed and approved; evidence behind what passes, decisions of the present claims, review by another, completion, the review's registry and tree |
| `JobLease` | what the queue promises its workers, without files |
| `JobLeaseProofs` | type correctness, bounded grants, unique keys, fencing |
| `JobQueue` | the queue on disk; implements `JobLease` |
| `JobQueueProofs` | well-formed jobs, an accepted journal, replay, nothing acknowledged lost, the refinement of `JobLease` |
| `ReleaseTransaction` | publishing a version in six recorded steps, its provider, and the missions around it |
| `ReleaseTransactionProofs` | type correctness; the lock; the record is the truth about an undisturbed world; a report claims what is so |
| `CloseTransaction` | run-close: its operations over the run, its issues and their parents, archive and dashboard |
| `Recovery` | the sessions of one role, their hosts and watchdogs |
| `Fallback` | which profile replaces a failed session |
| `Performance` | the run's clock, its pause and the decisions that continue it |
| `ReviewVerdict` | from the launch of a reviewer to its verdict on record |
| `Workspace` | worktrees of implementers and what comes back from them |
| `Amendment` | edits of the criteria before and after approval |
| `DesignReview` | rounds of design review, questions, and the holds they share |
| `WorkItems` | the registry of promised items, its scope, the tranche |
| `VerifyReuse` | concurrent verifies and their in-flight locks |
| `Regression` | a full regression from its request to its result |
| `MutationProof` | a proof that a test notices a neutralised symbol |
| `MissionControl` | pages, clicks and the commands behind them |
| `Handoff` | the dashboard's loop that launches roles |
| `DashboardOwner` | the owner file, and who may stop or report a server |
| `FleetCollector` | the incremental reading of issues and commits |
| `TicketLock` | the register of roots, and the ticket that several runs want |
| `Workers` | `JobLease`, `VerifyReuse`, `Regression`, `FleetCollector` and `TicketLock` side by side, see *Runs* |
| `WorkersProofs` | what is paid for once, what counts as completed, who holds a ticket, what the collector sees; types |
| `Pilot` | `CloseTransaction`, `Amendment`, `DesignReview`, `WorkItems`, `MutationProof`, `MissionControl` and `Handoff` side by side |
| `PilotProofs` | of a close: type correctness; a person's closure stands; with one call at a time one report per issue and a record that is so. Of every part: types, decisions about what is there, nothing that nobody asked for |
| `Processes` | `Recovery`, `Performance`, `ReviewVerdict`, `Workspace`, `Fallback` and `DashboardOwner` side by side |
| `ProcessesProofs` | of recovery: type correctness, one live session, one worker, valid commits, ended sessions. Of every part: types, what counts once, what is not undone |
| `MC...` | small instances: command sets, evidence kinds, symmetry |

Names follow the source (`Proven`, `Owned`, `ActiveSegment`, `_retain_or_invalidate`
as `AfterEvidence`, `_review_retention_refusal` as `ReviewHolds`). `PROJECT.json`
maps every definition to the lines it stands for. Definitions whose comment calls
them a variant or a mutant carry one plausible bug each and are used by no
specification: each property is checked to fail when a variant replaces its original.
Variants that `PROJECT.json` does not list break one part of a property that a run
states as a conjunction of parts.

### Ledger

Commands are told apart by what they write (`VerifyCommand`, `RegistryCommand`,
`DecisionCommand`, `SessionCommand`, `NoteCommand`), by whether they audit first, and
by whether they hold the lock. Each process has a program counter that stops before
every write: a record, the journal, the acceptance file, the status, and for each
event the read of the last line, the append and the replacement of the head. `Crash`
kills it there; `CrashInEvent` and `CrashInRecord` kill it inside an append, leaving
either a line without its newline (`"bare"`) or half a line (`"torn"`), and the next
append then lands on the same line, as in the code. `HandEdit` is an editor, who takes
no lock and saves at any time, also while a command runs; what a command reads and
audits is one step.

Contents are version numbers, digests are contents, hashes of lines are positions.
`faulty` stands for what `compute_errors` says of the files and records as they are: any
write may set or clear it, but for doctor's own, which writes what it has judged. Not
modelled: schema validation, and what the contents say otherwise.

### Delivery

Every command that holds the lock throughout is one action, which composes with
`Ledger`: `AuditedContinuity` is there the reason why it may be one. Commands that
run checks are a start and a finish with anything in between, and with concurrent
checks also a step for each group of criteria recorded early. `GatesHold` is
`compute_errors`; `Invalidated`, `Redesigned` and `AfterEvidence` are what the
commands do to earlier decisions.

Hashes are the values they are taken of. An instant is the number of deployment
approvals given before it, since only the order of approvals and live runs matters.
Assumed: lane full, design and deployment approval and live verification required,
`failing_first` off. Left out: amendments, work items, review budgets (a proposal or a
change request may block the run), CI, bound rules, the observation window, owner
acceptance, and progress. The check configuration counts as part of the tree. Checks
always run (no reuse of earlier ones). `advance --status` names only in_progress or
blocked. The digest at the end of a verify is taken at the instant of its second
locked section.

### JobLease and JobQueue

`JobLease` has one action per journal line. A lease counts down instead of naming an
instant. `JobQueue` is one process at a time holding the queue's lock: open (cut a
torn tail), heal (apply lines the store has missed), decide, append line by line,
write the store, and rotate when the segment is longer than `SegmentLines`. A kill is
possible at every one of these and inside an append. The jobs as the journal has
them, `AbstractJobs`, are the refinement mapping; a claim that gives back expired
leases before its grant is several abstract steps, and a kill leaves a prefix of them.
The wall clock is assumed not to go back, so submission order is the order of
`created_at`.

### ReleaseTransaction

A call of `release-reconcile` is a program counter over the steps of `reconcile` and
`_reconcile_step`: `Gate` (Phase 7 and a release plan, under the project lock),
`Load` (the release lock, then the record), per step `Recheck` or `Intend`,
`PreRead`, `Mark`, the action, `Verify`, `Persist` and `Complete`, and in the end
`Finish` and `Report` (back under the project lock). It keeps a copy of the record in
memory, as the code does, and every save writes that copy. The two commands of the
tag, and the read, the `pip` and the marker of the installation, are steps of their
own, since a kill may fall between them. `Stop` is a kill, a command that fails or a
timeout, after which the lock is free. `Reads` may miss what is there. `Meddle` is
everybody else: objects deleted, made or replaced at the provider, local tags, other
installations.

A plan is an identity with its expectations, one commit, one wheel and one manifest;
two plans of one version are two builds of it. An object is the plan whose content it
has and its identifier, a new number for each object made; a draft or a lightweight
tag counts as an object of another plan. URLs, names and digests of a result follow
its identifier. `git`, `gh` and `pip` do what the adapter relies on: a tag or an asset
of one name is not made twice, and `pip` may keep an installation of the same version.

Left out: records of schema version 0 and of unknown versions, `--inspect`, the
approval (in `Delivery`), the phases before 7 of the next mission, and a run closed
before Phase 8.

### CloseTransaction

A call (`Start`) creates or takes up the record of its token and walks the operations
in order, those of the run and, for a delivered run, those of each issue. Each goes
through `reconcile` as the source does: `Enter` (revalidate, skip what is final),
save the intent, observe, adopt or act, save that it acted, read back, save the
outcome; `Raises` is an error, caught by the loop over the issues or by nobody. `Kill`
is possible before every step. A comment, a box and a closure at GitHub are facts about
an issue, reported by a head of the event log or not. People reopen the run, deliver,
override the configuration, edit it and turn the dashboard; this, lost answers and
failing commands share the bound `MaxTroubles`.

Left out: records of older engines, the optional analysis, refusals and
`--cancel-active`, the rule about closing words in pull requests, failures of the
attribution lookup, the report of Phase 8, and edits between the two reads of a
configuration restore. Heads are identities.

### Recovery and Fallback

`Recovery` is one role. A host process is a program counter over
`execute_with_recovery` (create, spawn, mark running, wait, end, reserve a
replacement, claim it); a watchdog is a host that calls `Recover`, runs a launch of
its own outside the lock and then `Settle`s its attempt. `Silent` is the beacon's
verdict, and what is found without it (`unasked`): a session over its role's
`protocol_silence_minutes` (projection 470-481), and one of another phase or one that was
acknowledged, which is no candidate but is still looked at while it lives (587-596). The
run's phase is the one its last session was launched in, another of the same role
(`"again"`) or another role's (`PhaseMoves`). A session remembers that it was presumed
lost that way; no guard reads it. `Reconcile`, `LeaseExpires`, `ExpireLease`, `CloseRun` and the Pilot's
acknowledgements and retries are interleaved freely; `KillHost` leaves the child
alive. `Session` keeps of the status what decides: its state, its failure, whether a
person waved it through, and its replacement.

Left out: concurrent implementers, reviewer budgets, quality findings as a trigger,
the host Supervisor, pruning, and the two locked sections of reconciliation, which are
one.

`Fallback` is `plan_agent_fallback` over the chain behind a session: cap, vendor
rules, the implementer a reviewer was bound to. The reservation is one step there.

### Performance

A history of moments (start, pause, start, ...) is the episode record; the journal
holds every moment ever written, and a kill may leave its last line torn. `Read` and
`Continue` are the two halves of a refresh; the watch and `performance-resume` hold the
lock. `ActiveSince` counts moments outside the pauses of the episode, as a set, which is
the union of intervals the code sums up. Left out: warnings, sleeps, a change of run, the
forecast, late results.

### ReviewVerdict and Workspace

`ReviewVerdict` follows a reviewer from its launch (`MayOpen`: attempt and cap) to
`PrintVerdict`, `Launcher` (hold, dispatch, adopt) and a Pilot's adoption in three
steps (read, replay, mark), of any persisted verdict and whatever became of its session:
`adopt_session_result` asks for no more. Criteria edits, pauses and overrides come in
between. `counted` is history: the attempts a verdict has closed, by who delivered it.
Assumed: each Pilot replays one verdict at a time. Left out: amendment and design lanes,
packets refused by rules, evidence gates, killed launchers, and an adoption that is
killed between replay and mark.

`Workspace` seeds a worktree from the project (`Owns` are the declared paths), lets
its session and people write, and applies path by path under the lock with an undo. A
launcher carries each session to its exit; operators apply, adopt or discard what was
kept, held or quarantined; both may be killed at every step, and a trouble is a kill,
the pause or the closure of the run. `amid` marks a worktree that was seeded while an
apply was under way; no guard reads it. Left out: file modes, linked paths, a rollback
that fails, reopening a closed run.

### Amendment, DesignReview and WorkItems

`Amendment` holds the registry as the design: comparing hashes is comparing
registries. `DesignReview` holds what writes the one `status` field of Phase 2 (with
`advance` from Phase 2 to Phase 2, which may set it and drops a hold) or takes away a
reason for it (with `CriteriaEdit`, what an edit of the criteria takes back), and splits a
launch into building its input and creating its session.
`WorkItems` derives, synchronises, removes and scopes items, numbered in the order the
registry sorts them, tags criteria with them, verifies these, and takes decisions back
as each command does; an item may be optional. Their left-out parts are named in the
heads of the modules.

### VerifyReuse, Regression and MutationProof

A binding of `VerifyReuse` is a command with the tree and the specifications it was
read under; a verify takes the locks of its missing bindings in sorted order, looks the
ledger up again under them, runs the rest and appends. `Pool` runs commands
concurrently and records early, when its own thread hears of a command that is over;
`NoCache` looks nothing up; the output of a `Long` command is truncated, so that its
result is never reused. `Regression` has the
request, its decision, a launch with its nonce, shards with their workers and timers,
one progress file that a battery by hand (`AdHoc`) may take over, and the outcome under
the lock. A command whose tests cannot be named runs whole, as one serial shard. The tree
has one of a few contents, so that an edit may bring back an earlier one; a runner
remembers whether it ran through none, one or more edits. `MutationProof` has the runs on
both sides with confirmations and a budget and the second look under the lock; tests may
be flaky, and source, tests and criterion may be edited back.

### MissionControl, Handoff, DashboardOwner, FleetCollector and TicketLock

`MissionControl` derives the page as `_input_request` and `_operator_actions` do; a
click is checked by a thread (`Click`, or `ClickBanner` which carries no binding), and
the command runs later, as the command line's does at any time. `Handoff` is
`_orchestrate_once` in two steps, the decision under the lock and the launch after it,
over *stretches* of phases begun by hand. `DashboardOwner` has servers with token, pid
and port, the owner file, callers that release it and observers that report it.
`FleetCollector` has GitHub's issues and commits with times of a second, a pass read by
read, the cache and its file, and the registry watch. A page is a set: the rows that have
as many before them in the list as the page begins with.

`TicketLock` has one ticket. An init is three steps, since the register is written
between the retirement of the old files and the new status: `Begin`, `Claim` (or
`Refuse`, or `NeedsNone`) and `Commit`. `Note` is the section of the register's lock in
which an end is noted, `BuildBegins` and `BuildEnds` are the two sections of a build of
Fleet's page with its reads in between (`BuildReads`). A run in Phase 8 holds no ticket
even before it is complete, and may come back from there (`Resume`). `how` remembers how a run came by the ticket,
and that its claim was overwritten; no guard reads it. `Alive` follows the code, in
which only a session counts as a sign of life.

## Runs

| Run | Shows | Bounds and why they are enough |
|---|---|---|
| `ledger` | without faults the ledgers always describe the files; doctor, at its proof, never takes an edit for a command's work; the documented gaps are refused only for errors of the files themselves; each file is explained by log or journal after a kill; audited commands continue exactly from what was logged; a gap is eventually closed | two processes, three contents, two kills, one edit at any moment: a command, a kill of it, and a command or an edit on top or in the middle; both tears; verify with one and with two records |
| `ledger_unlocked` | **fails**: an event appended outside the lock forks the chain | no fault needed |
| `job_queue` | kills never corrupt or lose; the store, checkpoints and jobs are what the journal says; implements `JobLease` | a segment of one line rotates at every second line; five lines see two rotations; two kills |
| `delivery` | approved design, evidenced passing, decisions about the current claims, a complete run approved then live | one criterion with two wordings (changed and changed back), two trees, two policies, two records, two approvals, two changes of registry, tree or policy; criteria, records and changes interact pairwise in every gate |
| `delivery_review` | review by another; a review on record is of the registry and the tree as they are | two criteria of different evidence kinds, two trees, three records |
| `release` | the record is true of an undisturbed world; nothing is made unannounced; a report is about the planned version and about what is there | two calls, two wheels of one version, two faults, one change by others, two release plans: a kill and a miss in one release, on top of a call that met a stranger's object |
| `release_converges` | a release that was planned is published, verified and reported in the end | three plans of two versions, two missions, two faults; the other version installed or nothing |
| `sessions` | one live session per role, and no second worker but by a rule that does not ask the beacon; valid commits; clocks, verdicts, workspaces, replacements and the dashboard's death count once; nothing settled is undone; what was begun ends | two hosts, one failover, one attempt, two failures, kills or sessions wrongly found silent, one closure or change of phase; a gate, a watch and a Pilot on one clock; two reviewers and one override; two implementers that own two paths together, one with two operators; two vendors with two models each; two callers, two observers and a restarted server on the same port |
| `workers` | leases fenced and bounded; a binding paid for once; a completed regression whole, and of its tree unless that changed twice; no update missed; one claim on a ticket; everything ends | two workers, three jobs of two attempts; two verifies that share a test, one concurrent, and a command with too much output; two runners and a battery by hand, two shards, two contents of the tree and two edits (there and back), one failure; two issues on a full page, so that a second one is read, one edit, two failing reads, writes or restarts; two roots with two inits and one kill, lost note, reopening, return from Phase 8, unregistering or vanished directory at either (they are alike), or two inits after a run whose end is still to be noted |
| `pilot` | one report per issue; complete means done; what stands was decided about what is there; nothing that nobody asked for; no answer or decision leaves a block without a reason; a close ends | one issue and its parent, two kills, failures or reopenings; two reviewers and a grant of two rounds, or two questions; two criteria with losable tests; two items, one optional, and a tranche; one proof over two versions of source, tests and criterion, edited there and back; one click late by up to three commits; three sessions |
| `review_verdict` | **fails**: a verdict is recorded for criteria its reviewer never saw | one reviewer, one edit |
| `workspace` | **fails**: recovery removes a worktree that waits for a decision | two implementers, an operator |

`sessions`, `workers` and `pilot` check several modules side by side. Their parts have
no state in common and do not interact; the first state chooses the part a behaviour is
about, so the reachable states are the sum, not the product, of those of the parts. A
property of such a run is a conjunction (or a case distinction) of properties of its
parts, each defined and commented in its own module; the fairness is the parts' own.
`Processes`, `Workers` and `Pilot` take the sets and bounds of their parts as constants,
so that theorems about them hold for any; where two runs of one module need different bounds
(questions with one reviewer, late clicks, one workspace with two operators), the module
is instantiated with parameters.
The parts differ in what the commands read and write (a session's record, an episode
file, a worktree, a port), which is why their interactions through the status are
confined to guards that each part lets change at any time.

Deadlock is checked for `Ledger`. The other systems stop by design: a queue whose jobs
have ended and whose lines are used up, a run, a release or a close whose bounds are
reached.

Some properties depend on narrowings worth naming. `TwoGapsRecover` and `GapCloses`
speak of a single kill, because `doctor` commits through the same journal and so
destroys the proof it acted on. `ReviewStands` speaks of moments when no verify is
under way. `RecordIsTruthful`, `NothingUnannounced` and `Converges` speak of a world
nobody else changes: with changes the code promises only to notice them, which is
`ReportedIsSo`. `Converges` also excepts a version of which another wheel is
installed already, because `pip` may keep it and the manifest then conflicts for ever.
`OneReportEach` is checked with one caller at a time and kills in between; `CloseEnds`
excepts a torn archive and a parent issue without a box to tick; `LostIsResolved`
excepts an attempt that run-close orphaned; `AmendedIsReviewed` is about moments when no
amendment is open, and `ScopeIsDecided` excepts a registry of which one item was left
after the approval of the deployment; `UpdatesAreSeen` is checked with all changes on one
page; `OneOwner` excepts a claim that was overwritten or expired. `OthersWorkKept`
excepts worktrees that were seeded during an apply, and both it and `AllOrNothing` except
what a kill leaves of an apply; `VerdictsCountOnce` has one Pilot at a time, and counts
what a launcher delivered and what Pilots adopted apart. `OneWorker` excepts a first
worker that was presumed lost unasked, `CompletedIsWhole` and `ProofsAreOfTheirSource` a
content that was changed twice. `TwoGapsRecover` and `GapCloses` speak of files in which
`compute_errors` finds nothing, and `DoctorNeverLaunders` of what doctor had read when it
proved the files. The measure
of `ClockNeverLooksYounger`, `Spent`, leaves out every human pause, also one that was open
when the decision was made. What happens otherwise is the
subject of the next section.

## Disagreements met

Three runs fail, and `findings` in `PROJECT.json` quotes what they contradict. More
disagreements came up while the models were written. Each of the following was found
with TLC by checking the named property, which stays in its module, on an instance as
small as those above; the properties of the runs exclude these cases by what their
comments say.

| Property | The code | The document |
|---|---|---|
| `Ledger!SecondGapRecovers` (`MCLedgerGapB.cfg`) | a kill after `write_ahead` and before the first replacement leaves a journal whose digests fit nothing, and doctor refuses (supervisor 7266-7271) | "Gap (b) needs no such proof" (supervisor 7212) |
| `Ledger!DoctorRecordsNoEdit` | the commit of `doctor` appends an event that hashes the files again (supervisor 7314, ledger 246-247): a file saved after the proof (supervisor 7243-7271) is recorded as recovered | "blessing that would launder an untracked edit into the audit trail" (supervisor 7203) |
| `Delivery!ReviewStands` with concurrent checks (`MCDeliveryConcurrent.cfg`) | criteria are recorded early (supervisor 3603-3630); a kill leaves the review over a registry it was not given for | "Anything else rolls back as before" (`docs/REFERENCE.md` 1044) |
| `Delivery!LiveUnderApproval` (`MCDeliveryRevoked.cfg`) | an approval revoked and given again while live commands run counts for them (supervisor 5893-5930) | "live verification must occur after deployment approval" (workflow 803) |
| `ReleaseTransaction!NextReleaseConverges` (`MCReleaseTransactionNext.cfg`) | a root keeps one release record for ever, so its second release is refused (release_transaction 372-384; lib 1098-1099) | release-reconcile "publishes, installs and verifies the planned release" (REFERENCE 949) |
| `CloseTransaction!OneReportEach` with two callers | no lock spans a close, so two calls both observe no comment and both post (supervisor 7603) | a report is posted once (REFERENCE 751) |
| `CloseTransaction!OwnClosureAdopted` | a closure the run itself made before a kill is taken for a person's (supervisor 7411) | "an issue a person closed is recorded unpostable" (REFERENCE 731) |
| `CloseTransaction!CloseSurvivesKills` | a kill while the archive is written leaves a torn file that no later call replaces (close_transaction 553-576) | "Crash-safe" (close_transaction 2) |
| `Recovery!AliveIsNeverLost` | three findings do not ask the beacon: the limit of a role's protocol output, which any role may have (projection 470-481), and the last look at a live session that is of another phase or was acknowledged (587-596); recover_run then replaces it and signals no child (lib 4545-4558), so that two work | "A live process is never presumed lost (#86)" (REFERENCE 435) |
| `ReviewVerdict!OneAttemptEach` | a dispatched verdict is not marked as adopted, and adoption asks for nothing but a persisted result (supervisor 4365-4381, 5574-5645): it closes a second attempt; so does an adoption while the launcher still dispatches | "A second adoption of the same result changes nothing" (REFERENCE 441), "a terminal managed session" (supervisor 4367) |
| `Recovery!AttemptsAreLimited` | an expired lease ends its attempt with no successor, so the episode counts none (lib 4458) and the cap is never reached | "max_attempts" (REFERENCE 945, 1389) |
| `Recovery!RecoverySurvivesClosure` | close_run clears the lease and leaves the attempt reserved (lib 8853): no recovery ever again | the run may be reopened and recovered |
| `Performance!PauseBoundsWork` | a refresher that read before the pause writes the record after it (supervisor 603-620) | no new work while paused (REFERENCE 1070) |
| `Workspace!NeverOverwritten` (`MCWorkspaceSeeding.cfg`) | the baseline is read before and after seeding, but not under the lock of an apply (agent_runtime 846-882): when an apply swaps a path in, is rolled back and later repeated, a worktree seeded in between has the swapped content for its baseline and an older seed, passes both looks, and its own apply replaces what was brought in | "a host edit that lands while the worktree is being seeded can never become the baseline and be overwritten at apply" (agent_runtime 843) |
| `Amendment!OneWorkItem` (three criteria) | a criterion removed by the open transaction is not counted (lib 5093-5097) | one work item (lib 5065, REFERENCE 260) |
| `DesignReview!AnswersReachTheRole` | building an input marks answers delivered before later refusals, and for `agent inspect` (agent 919, 3075; lib 9318-9350) | "an answer is handed over exactly once" (lib 9318) |
| `DesignReview!BlocksAreExplained` | an edit of the criteria takes the design back in Phase 2 and leaves the status blocked (supervisor 679-723), `advance --status blocked` needs no hold, and an advance without `--authorization-hold` drops the one there was (supervisor 1744-1753) | "Holds are assertions about THIS exact transition, never sticky" (supervisor 1750): the status they explain is |
| `Handoff!ClosedRunsStayQuiet` | `create_agent_session` checks neither `run_closed` nor the human pause, which may come between decision and launch | a closed run launches nothing |
| `WorkItems!ActivatedInApprovedOrder` | synchronisation sorts the registry again (workflow 1312) and activation follows it (supervisor 2860) | "The Pilot may reorder or drop rows" (REFERENCE 1368) |
| `WorkItems!ScopeStaysDecided` | after the deployment was approved an item may be removed although the scope changes with it (supervisor 2965): from a registry of optional items it may leave one, whose criteria then form a scope nobody decided on | "the digest is unchanged and no decision is invalidated (#82)" (supervisor 2956) |
| `VerifyReuse!RanWhereItSays` | the tree is bound before waiting for the locks; the command runs on the tree found afterwards (supervisor 3507-3522) | "so the binding describes the state the command actually ran against" (supervisor 3489) |
| `Regression!CompletedOnItsTree` | the bindings are compared when the battery is over and each shard copies the tree when it starts (supervisor 3374-3386, regress 789-797): a change that is undone in between is not noticed | "any bound change invalidates it" (REFERENCE 981) |
| `MissionControl!CloseButtonCloses` | the page's close lacks `outcome` and `known_risk`, which `cmd_run_close` reads (dashboard 2192, supervisor 7801): the handler dies | REFERENCE 76 |
| `MissionControl!PauseAsRecorded` | close_run clears `human_pause` but not the ledger's open pause (lib 8852), so after a reopening a pause is refused | one pause state |
| `MissionControl!ApprovesWhatWasShown` | the approval runs after the check, and the banner posts `{}` (dashboard 2352, app.js 1112) | "bound to the displayed state" (REFERENCE 76) |
| `MissionControl!HeldStaysHeld` | the deployment gate ignores `human_pause` (dashboard 735) | a hold waits for resume |
| `MutationProof!ProofsAreConfirmed` | when the total budget runs out on the mutated side one failing run counts (mutation 391-420) | "failed on every one of CONFIRMATIONS" (mutation 277) |
| `MutationProof!ProofsAreOfOneSource` | the digests of before and after are compared and each run copies the source when it starts (mutation 347-414): a source changed and changed back is accepted | "a source file under bin/ or dashboard/, or the target itself, changed during the proof … refusing to record the evidence" (mutation 411-414) |
| `MutationProof!ProofsAreOfTheirTree` | the digest covers engine, dashboard and target, not the tests (supervisor 4094) | the proof is of the tree |
| `FleetCollector!CommitsAreWhole` | commits are read since the newest cached date, so one pushed later with an older date is missed (fleet_signals 1108-1120) | "commits with `since=` the newest cached commit", every commit since the window began (REFERENCE 100) |
| `FleetCollector!UpdatesAreSeen` (`PageSize` 1, three edits) | an issue that goes while pages are read moves the later ones a place forward, and one is skipped until it is edited or a day later (fleet_signals 1002-1008) | "its complete issue list" (fleet_signals 1135) |
| `TicketLock!OneOwner` without its exception for lost claims (three inits) | a run's end noted late, or a build that read the run before, overwrites the claim of its successor while the status is being written (fleet 450-452, 529-533) | "two concurrent inits on one ticket end with exactly one owner" (REFERENCE 611) |
| `TicketLock!OneRunPerTicket` | `reopen_run` and `work-items-sync` do not look at the register (lib 8887; supervisor 2750) | "Possible only through a register written outside the lock (or two machines)" (fleet 462) |
| `TicketLock!OnlyDeadAdopted` | `owner_alive` asks for health "live", `_owner_view` says "healthy" or "stale" (fleet 337, 581): a run whose dashboard answers is adopted | "no owned dashboard answering" (REFERENCE 641) |
| `Fallback!VendorIsKept` | the vendor compared is that of the first session of the chain (lib 7439-7450), not of the one that failed | comment at lib 7476 |

Seen while reading, and outside what the models tell apart: `recover_run` does not ask
whether the run is closed, and a close during a claimed replacement is refused by the
schema after its child was stopped (lib 8842-8845). An apply and a discard of one
workspace may race and record "discarded" of what was applied; a kill between apply
and mark leaves a workspace that is refused for ever; a host edit between check and
rename is overwritten. A broker timeout after the commit makes a launcher adopt what was
dispatched. A battery by
hand, or a progress file older than `STALE_SECONDS`, makes the approved runner raise
without recording, and the request stays `launched` until finalized. An answer lifts a
block another gate wrote (lib 9212-9224); a decline sent back between the two sections
of `_review_pending_decline` still closes the run. The loop of the dashboard retries a
refused launch every second, each time appending an event. Re-adding a removed item
leaves its tombstone (lib 4718-4721), and removal does not clear `active_work_item`.
A double click on the review cap grants two overrides. Releasing a dashboard unlinks
whatever owner file is there (lib 8563, 8609), and a slow answer of a live server
counts as stale. `monitor-poll` calls `finish_monitor` without its argument `state`
(supervisor 8018), so a monitor that has to end never records it.

## Fairness

`Ledger!FairSpec` assumes that a started command runs on or is killed, which is what a
process does, and that somebody runs doctor again while it has something to recover,
which is what the refusal of every auditing command tells the operator to do.
`JobLease!FairSpec` assumes that time passes and that some worker keeps claiming; no
owner is assumed to come back. `EveryJobEnds` excepts an owner that renews its lease
for ever, since the code lets it. `ReleaseTransaction!FairSpec` assumes that a call
goes on until it is stopped (weak fairness of its steps) and that somebody keeps
calling with every wheel there is: what else was called, planned or shipped meanwhile
may disable a call again and again, hence strong fairness of `Gate`, for each wheel,
by any caller. Faults are bounded, so some call is not cut short.

In `Recovery` a host goes on until it ends or is killed, time passes (leases expire and
are closed), and somebody keeps watching the run, and acts on a session that is lost
(`Watchdog`: that one which is not is found silent is a fault, and bounded); no child is
assumed to end well, and nobody is assumed to acknowledge anything: a person who has
been asked counts as resolved. In `Performance` the watch runs as long as the run does
and a command that has begun ends. In `ReviewVerdict` the launcher of a printed verdict
finishes its delivery. `CloseTransaction` assumes that a call continues and that the
Pilot calls again after a kill, as the partial outcome tells. A verify's commands end by
their timers, a regression worker by its own, and the collector is a daemon thread whose
loop catches what a pass raises. In `TicketLock` somebody keeps looking at Fleet's page.
`Delivery` and the other modules about decisions have no liveness property: their steps
are those of people and agents.

## What is proved

For all values of the constants that satisfy the named assumptions of the modules
(processes, commands, workers, keys, criteria, actors, trees: any sets; bounds: any
naturals).

* `LedgerProofs!TypeCorrect`. `TypeOK` is not inductive: a process about to write a
  file must have planned a content for it. `TypeInv` adds that (`PlanFits`).
* `LedgerProofs!AnchorsAlwaysExist`. A torn or glued record lowers the number of
  readable records, so the inductive invariant `AnchorInv` says of the status on disk
  *and* of every plan in flight that it anchors back, and knows where a half written
  ledger ends.
* `FilesAlwaysDescribed`, `NothingUnexplained`,
  `DoctorNeverRefusesTheGaps` and `NoStateSkipped`, for commands that all hold the
  project lock (`AllLocked`: the run `ledger` has such commands, and `ledger_unlocked`
  shows that one append outside the lock is enough to break the first). The files are
  then as the last command left them but for what one process is in the middle of
  (`NobodyAtWork`). `FaultInv` says, for each write at which a process may stand, what is
  already on disk and what the journal still has to announce (`Sound`, `Tidy`,
  `Announced`), under no fault, one kill, or one kill that doctor is to repair, each of
  which weakens what is left to say. `ContinuityInv` adds that what an audited command
  has read is what the last event recorded. `DoctorIsHonest` needs no such assumption,
  since doctor itself holds the lock: `LaunderInv` says that what the journal
  announces, and what doctor has read, the log knows already when it is a
  hand's (`Accounted`); editors may save at any moment, so nothing is said of what is on disk
  when doctor records. `DoctorNeverRefusesTheGaps` leaves doctor one reason: `faulty`.
* `JobLeaseProofs!GrantsAlwaysBounded`, `KeysAlwaysUnique`, `AlwaysFenced` and
  `TypeCorrect`. One lemma per way of changing a job shows that the job stays `Good`
  and `Follows` from what it was; the theorems need no case of their own. The
  invariant adds that a queued job has attempts left, which `GrantsBounded` alone does
  not imply, and that only leased jobs have time left.
* `JobQueueProofs!EverythingIsWellFormed`, `NextCallAccepts`, `StoreReplaysJournal` and
  `AcknowledgedStays`, from one invariant (`QueueInvariant`): the store is a prefix of
  the journal replayed, and every checkpoint line vouches for its snapshot (`Replayed`,
  `Vouched`); closed segments end with a checkpoint that names the next (`Segmented`); and
  what is in hand at each program counter fits the disk (`Holding`). `ApplyAll` and `Scan` are
  recursive functions on an interval, so what replaying does is proved by induction: the
  library's induction theorems take an operator and cannot be used, but the
  well-foundedness of the numbers as a statement about a set (`WFMin`, `SetInduction`) can.
  Replaying one more line is one more application (`ApplyOneMore`), replaying in two parts
  is replaying (`ApplyInTwo`), and a scan grants the first job that is queued by its turn
  (`ScanFinds`).
* `JobQueueProofs!ImplementsLease`: the whole refinement, `Spec => JobLease!Spec` with the
  jobs of the journal. Only an appended line and a tick of the clock change the abstract
  jobs; healing, storing, rotating and kills are stutters, because of `Replayed`. The rest
  is that a line decided upon is still allowed when it reaches the journal:
  `DecisionStands` says that the first pending line may follow the journal as it is
  (`MayFollow`) and the others the lines before them. `JournalFenced` then takes what
  `JobLeaseProofs` has proved over to the journal.
* `DeliveryProofs!AlwaysBuildsApprovedDesign`. `Inv` adds that the status and the
  registry have their shape and that the design is a `Claims`, which keeps a recorded
  decision apart from `None`. The argument has three parts: commands that change the
  registry's claims take both decisions back and return to Phase 2
  (`RedesignedDesign`); commands that change evidence keep the design
  (`AfterEvidenceDesign`); `advance` is the only way into Phase 3 and passes the
  gates (`AdvancedTo`).
* `DeliveryProofs!TypesAreRight`, `PassingNeedsEvidence`, `DecisionsAreOfTheClaims`,
  `AnotherReviewed` and `CompletionAlwaysStands`, from the invariant `Safe`: the five
  properties, with registries that are finite. Records
  are only added (`Vouches` of a record never changes), so what is evidenced stays so until
  the claim does; the gates are needed where a phase is entered, and `Invalidated` where
  what they looked at is changed. `ReviewStandsAlone` (`Standing`) assumes that checks are
  not recorded early and no baselines are run: a baseline is a newer record, and
  `MCDeliveryConcurrent.cfg` shows what early records do to a review.
* `ReleaseTransactionProofs!TypeCorrect`, with `Owned`: a call that goes on has a plan.
* `LockProtectsRecord`, `TruthfulRecord`, `AnnouncedFirst`, from the inductive
  invariant `IInv`. Its first part, `Structure`, holds whatever others do: one call
  holds the lock, its memory is the file (`InMemoryIsOnDisk`), and what it is about to
  do belongs to its step and was announced (`InPlace`). Its second part, `Truth`, is
  claimed, and proved, only while nobody has meddled: it strengthens `RecordIsTruthful` to steps
  read back but not complete and to what a call is about to save (`AboutToSave`), and
  `NothingUnannounced` to local tags, and says that no other version was touched.
  `CallStep`, `RecordStep` and `WorldStep` say what keeps `Truth` when a call moves,
  saves or acts; `MadeWhereMissing` is why making an object takes nothing exact away.
  The invariant was checked with TLC before it was proved.
* `ReportsAreSo`, on top of `Structure` and with no assumption about meddling before the
  call. `ReportInv` says of every call what it has passed: those steps are complete in the
  record while it holds the lock, and exact in the world unless somebody else has touched
  the world since the call began (`Seen`). A finished record stays finished (`Whole`), so
  nobody makes anything while a call that has let go of the lock waits to report. One
  lemma for each kind of step: reading (`QuietGetsThrough`), saving (`SaveGetsThrough`),
  acting (`WorkGetsThrough`), and what loading, completing, finishing and meddling do.
* `PilotProofs!TypeCorrect` and `PersonsClosuresStand`, for any number of calls
  at once. A call writes back a record it read long ago, so the invariant (`Standing`) is
  about what is in a call's memory as much as about the file: its operations are final in
  their order (`Ordered`), it stands at one that is not (`Placed`), and what it saw of its
  issue still says enough (`ViewStands`). The first of these is why a person's closure
  stands: the record calls a closure the run's own only after its comment, so a closed
  issue that is still to be commented on was not taken over from the record.
* `OneReportIsPosted` and `RecordIsTrue`, for one call at a time (`OneCaller`), with any
  number of kills, lost answers, reopenings and people. `Steady` adds that the file is what
  the call has in memory or, once the run was reopened, is not there (`HoldsRecord`), that what
  the call saw is still what there is (`SeesRight`), and that each row called complete is
  so, a decided configuration is taken back, and a prepared run closed (`Faithful`).
  `OneCaller` is needed: no lock spans a call, and *Disagreements met* has the two calls that
  post twice.
* `ProcessesProofs!TypeCorrect`, `PointerAlwaysLive`, `CommitsAlwaysValid`,
  `EndedAlwaysStays` and `OneWorkerOnly`. `Inv` adds `HostsKnow`: past its creation a host
  has a session, and one about to settle has an attempt. Three lemmas say all a step may do to the
  sessions: none changes, one changes (`SessionMoved`: the pointer's, or another in what
  does not end it), or one is added while the role has none (`SessionAdded`). That
  nobody adds one earlier is `PointerFree`: while the pointer names a session it is
  live, and both `CreateSession` and `Reserve` then refuse. An attempt is added only
  when none is under way (`NothingReserved`), which with the lease on the last attempt
  is all that `CommitsAreValid` needs. `OneWorker` is about children that outlive their
  record: such a child is of a session presumed lost unasked (`WorkInv`), and one whose
  session lives is the last (`PointerIsLast`), so none comes after it. `WorkInv` also
  says that no two hosts start one session and that none is started that has run.
* `ProcessesProofs!SessionsAlwaysCountOnce`, `NothingEverUndone` and `ProcessesTypeCorrect`:
  what the run `sessions` checks of all its parts, for any of their sets and bounds.
    * The clock (`ClockInv`): every start of an episode in the record, in the journal and in
      a call's memory was a decision already (`Starts`, `CallFits`), so whoever judges by an
      old history counts from a decision no later than the last one, and more decisions or
      longer pauses only lower what was spent (`LessActive`). What a kill leaves of a batch
      keeps each moment in its place (`MissingIs`).
    * Verdicts (`VerdictInv`, whose part `VerdictStory` says what has happened so far): a
      launcher has counted nothing before it delivers, and is past delivering once it
      has; a verdict that Pilots counted was marked as adopted, or the Pilot that replayed it is
      about to mark it, so that no adoption replays it again.
    * Workspaces (`TreesInv`): writes are numbered (`WritesNumbered`). While a worktree is
      seeded, each owned path was copied as the baseline has it, or the project has left
      that baseline for good (`SeedsFollow`, with `NoneBefore` for what an apply still has
      in hand or may put back); after the second look the seed therefore is the baseline
      (`SeedIsBase`), and what an apply is about to replace is the seed or a person's
      write (`SeenBefore`). `PartlyApplied` says what is done of an apply under way.
    * Fallbacks (`FallbackInv`): the chain behind a session is the one sequence that follows
      its links (`OneChain`), and is sound when the session is added; later sessions,
      findings and ends change no chain (`ChainsStay`). `Chain` chooses a sequence; that
      there is one is proved by the well-foundedness of the numbers, as for the queue.
    * Dashboards (`BoardsInv`): servers that listen have different ports, so the one that
      answers on the port of a record with its token is the record's (`ServersFit`); what the
      ledger told last is what the status holds (`LedgerFits`).
* `WorkersProofs!WorkAlwaysDoneOnce`, `FencedAmongOthers`, `PartsTypeCorrect` and
  `UpdatesAlwaysSeen`: what the run `workers` checks of its parts, for any number of
  workers, verifies, shards, runners and roots. A verify that runs commands (`CheckInv`) holds the lock of every binding it
  needs (`BindingsHeld`), and what it still has to run nobody else has paid for
  (`Unpaid`); hence no second record of it (`RunsOnce`). A regression (`BatteryInv`) is
  whole only if each shard ran its slice of the tests and the slices are exactly the
  tests (`SlicesExact`, whose owner is the shard with the least number that fits); a
  runner under which nothing was edited has seen only the tree of the approval, and one under
  which one edit was made is on another (`OnItsTree`), which the bindings show; so a completed
  request has a runner that saw no other tree or ran through two edits (`LaunchFits`,
  `CompletionFits`). Whoever
  claims a ticket without having lost the claim has an entry in the register that says
  so, and no two roots do (`ClaimsHeld`).
  A pass of the collector (`FleetInv`) does not lose what nobody
  touches. Rows that a pass has published fit GitHub (`Fits`): one per issue, none
  from the future, and with everything GitHub has from before their newest, since a pass asks
  for all that changed at the newest's time or later. What the pass in hand would
  leave, were it to end now (`Got`), fits as well, and has each row that was there when it
  began and still is. So a `304` is harmless: the ETag was earned by rows that already have it
  all. `UpdatesAlwaysSeen` assumes that a list fits one page (`FitsOnePage`); without that
  it is false, see *Disagreements met*.
* `PilotProofs!AlwaysDecidedOnWhatIsThere`, `PilotTypeCorrect` and `NoMoreThanAsked`: what
  the run `pilot` checks of its parts.
    * Design reviews (`ReviewsInv`): `RoundsAccounted` adds up the rounds done, those an
      open grant still allows and those already taken from it. That no answer, grant or
      decision leaves a block without a reason follows from the
      same invariant (`StaysExplained`, shown for each action).
    * Amendments (`AmendInv`): a design that was approved is one that somebody saw
      (`DecisionsWereMade`), and so is an amendment whose review is of its present hash
      (`AmendmentWasSeen`).
    * Work items (`WorkInv`): a registry names each item once (`Distinct`); decisions are
      about the scope of some registry under the tags of today (`ScopesWereTaken`) and,
      beyond Phase 2, of the present one (`DecidedScope`), since sorting, adding an item
      that is there and removing one from the tranche change no scope. `RemovedStays` is an
      action property and needs no more.
    * Mutation proofs (`ProofInv`): a source that was not edited is the
      one the proof began with, and so are all copies; one that was edited once is another
      (`ProofStands`, `ProofAges`), which the second digest shows. Clean runs pass before mutated
      ones fail.
    * Mission Control (`MissionInv`): a thread about to act does what its page showed
      (`ClicksBound`). That a late click does no more is then a matter of the request it
      names: there is one pending request at most, and it changes with every stamp.
    * Hand-off (`HandInv`): each session is dated by the news and the phase at its
      launch (`SessionsDated`); what the loop is about to launch has had news since each
      earlier launch of its own (`DecisionStands`), because the loop waits for the end of
      what it launched (`LoopIsBehind`).

The assumptions of the compositions (`ProcessesAssumption`, `WorkersAssumption`,
`PilotAssumption`) say that
bounds are naturals, that sets which are counted are finite, that the values standing for
nobody and nothing are not among the others, and what the source fixes: phases are
five, a tranche has an item, a proof needs a confirmation, an episode has a budget, an
operator is no session; and that the Pilot is one person at a time. TLC evaluates them on the runs.

Proving found places where the models were fine on the small instances and wrong or
vague in general, and these were changed. `OthersWorkKept` was checked with one path only
and is false with two (`NeverOverwritten` above). The measure of `ClockNeverLooksYounger`
was the code's own, which leaves out only the pauses that began in the episode; a larger
instance (three hours, two commands) shows a decision made inside a pause and a stale
refresher that restores an earlier episode, so that time is counted which lay in a pause:
harmless, since the code then counts too much, and not what the property meant. Cases that
overlap (`Regression!RecordResult`, `TicketLock!RunState`, `Swept`,
`ReviewVerdict!AutoAdopt`, `Workspace!CloseRun`), of which TLC takes the first and the logic any, are
nested conditions in the order of the code; `WorkItems` says what a removal and an
activation leave by first-order formulas. Two things turned out not to be
theorems as they stood: an issue that moves between two pages comes twice, as in the code,
so that `FleetCollector!TypeOK` promises one row per issue only while a list fits one
page, as it does in the run `workers`; and `OneReportEach` needs one caller at a time, as above.
`UpdatesSeen` took any change of the cache during a pass for its end, so that a restart
that loads an older file would have broken it; with two troubles instead of one TLC meets
that restart. It now speaks of the step that ends the pass.

Only model-checked: liveness (`GapCloses`, `EveryJobEnds`, `Converges`, `SessionsEnd`,
`WorkersEnd`, `ClosesEnd`), which the prover does not do under fairness; and the runs that
expect a violation, which show what is not a theorem.

## Not modelled

* Configuration, schemas, projections, evidence routing, cohorts, shadow runs,
  analysis and observability compute views or check one document at a time. Where a
  schema decides what a command may commit it is in the models (`CommitsAreValid`).
* Broker, adapters, installer, preflight and the command line are processes and their
  I/O; web boards render projections.
* Monitors are compare-and-set updates under one file lock, of the kind `JobLease`
  shows; checkpoints are one document each. Fleet's cards are
  views; what building them writes to the register is in `TicketLock`.
* Lanes other than the full one, CI, the observation window and owner acceptance.
* What the head of each module and its section above leave out.

## Plan

Written, in this order: `Ledger`, `JobLease`, `JobQueue`, `Delivery`,
`ReleaseTransaction`, since every other component rests on the first and on the gates of
`Delivery`; then what runs beside a command (`Recovery`, `Performance`,
`ReviewVerdict`, `Workspace`, `VerifyReuse`, `Regression`, `FleetCollector`,
`DashboardOwner`, `TicketLock`) and what people decide (`CloseTransaction`, `Amendment`,
`DesignReview`, `WorkItems`, `MutationProof`, `MissionControl`, `Handoff`).

Next:

1. An abstract specification in which each external object is made at most once per
   intent, implemented by `ReleaseTransaction` and by `CloseTransaction`.
2. Two roles in `Recovery`, and the concurrent implementers of `Workspace` under it.
