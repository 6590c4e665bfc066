----------------------------- MODULE Workspace -----------------------------
(***************************************************************************)
(* Implementers that declare the paths they own.  Each works in a worktree *)
(* seeded from the project.  What it changed comes back when it exits, is  *)
(* kept for a disposition when it failed or was stopped, held when its     *)
(* episode is paused, and refused when the project changed below it.       *)
(*                                                                         *)
(* A launcher carries each session through its life; operators apply,      *)
(* adopt and discard later.  All of them run beside one another.  Records  *)
(* change under the project lock; an apply holds it while it swaps one     *)
(* path at a time.  Seeding, the work in a worktree, the removal of one by *)
(* its caller and the edits of people take no lock.                        *)
(*                                                                         *)
(* A content is the write that made it, and may be the absence of a file.  *)
(* Left out: file modes, linked local paths, Handsoff's own files, a       *)
(* rollback that fails, reopening a closed run, and which lost session     *)
(* recover_run chooses (Recovery).                                         *)
(***************************************************************************)
EXTENDS Naturals

CONSTANTS Sessions, Operators, Paths, Nothing,
          Owns,          \* the paths each session declares
          Committed,     \* the paths that start as the launch commit has them
          People,        \* who else writes the project
          MaxWrites, MaxLosses, MaxTroubles   \* bounds; a trouble is a kill, the pause or the closure

VARIABLES host,          \* the project: the write each path holds
          session,       \* per session: state, disposition and quarantined result
          tree,          \* per session: its baseline of the project, seed and worktree
                         \* (amid: an apply was under way while it was seeded)
          caller,        \* where each launcher and each operator is, and on which session
          applying,      \* the apply that holds the project lock
          brought,       \* per session: its changes that are in the project
          clock,         \* the performance episode; paused once
          closed, writes, kills, losses

vars == <<host, session, tree, caller, applying, brought, clock, closed, writes, kills, losses>>

Live    == {"launching", "running"}
Stopped == {"cancelled", "failed", "refused"}      \* refused: failed, and no recovery replaces it
Callers == Sessions \cup Operators
Content == [n : 0 .. MaxWrites, by : Sessions \cup {People, Nothing}]
Trees   == [Paths -> Content \cup {Nothing}]
Written(by) == [n |-> writes + 1, by |-> by]
Absent  == [n |-> 0, by |-> Nothing]
Empty   == [p \in Paths |-> Nothing]
NoTree  == [base |-> Empty, seed |-> Empty, work |-> Empty, exists |-> FALSE, amid |-> FALSE]
LockFree == applying = Nothing
Spare == kills + (IF closed THEN 1 ELSE 0) + (IF clock = "running" THEN 0 ELSE 1) < MaxTroubles

Init ==
    /\ host = [p \in Paths |-> [n |-> 0, by |-> People]]
    /\ session = [s \in Sessions |-> [state |-> "none", kept |-> "none", held |-> "none"]]
    /\ tree = [s \in Sessions |-> NoTree]
    /\ caller = [c \in Callers |-> [at |-> "none", wants |-> "none", on |-> IF c \in Sessions THEN c ELSE Nothing]]
    /\ applying = Nothing /\ brought = [s \in Sessions |-> "none"]
    /\ clock = "running" /\ closed = FALSE /\ writes = 0 /\ kills = 0 /\ losses = 0

Goes(c, at)   == caller' = [caller EXCEPT ![c].at = at]
\* A launcher runs once; an operator may come back.
Leaves(c) == caller' = [caller EXCEPT ![c] = IF c \in Sessions THEN [@ EXCEPT !.at = "gone"]
                                             ELSE [at |-> "none", wants |-> "none", on |-> Nothing]]
\* transition_agent_session: refused for a session that somebody else has ended.
Ends(s, from, state) ==
    session' = IF session[s].state = from THEN [session EXCEPT ![s].state = state] ELSE session
Gone(s) == tree' = [tree EXCEPT ![s] = NoTree]

-----------------------------------------------------------------------------
\* implementer_admission: no live implementer owns one of the paths.
Admitted(s) == \A o \in Sessions : session[o].state \in Live => Owns[o] \cap Owns[s] = {}

Launch(s) ==
    /\ LockFree /\ caller[s].at = "none" /\ Admitted(s)
    /\ session' = [session EXCEPT ![s].state = "launching"] /\ Goes(s, "created")
    /\ UNCHANGED <<host, tree, applying, brought, clock, closed, writes, kills, losses>>

\* The baseline of what it owns and the worktree at the launch commit; the paths
\* that differ from that commit now are still to be copied.
BeginSeeding(s) ==
    /\ caller[s].at = "created" /\ Goes(s, "seeding")
    /\ LET atCommit == [p \in Paths |-> IF p \in Committed /\ host[p].n = 0 THEN host[p] ELSE Nothing]
       IN  tree' = [tree EXCEPT ![s] = [base |-> [p \in Paths |-> IF p \in Owns[s] THEN host[p] ELSE Nothing],
                                        seed |-> atCommit, work |-> atCommit, exists |-> TRUE,
                                        amid |-> ~LockFree]]
    /\ UNCHANGED <<host, session, applying, brought, clock, closed, writes, kills, losses>>

SeedPath(s, p) ==
    /\ caller[s].at = "seeding" /\ tree[s].exists /\ tree[s].seed[p] = Nothing
    /\ LET t == tree[s]
       IN  tree' = [tree EXCEPT ![s] = [base |-> t.base, seed |-> [t.seed EXCEPT ![p] = host[p]],
                                        work |-> [t.work EXCEPT ![p] = host[p]], exists |-> t.exists,
                                        amid |-> t.amid \/ ~LockFree]]
    /\ UNCHANGED <<host, session, caller, applying, brought, clock, closed, writes, kills, losses>>

HostEdited(s) == \E p \in Owns[s] : host[p] # tree[s].base[p]

\* The baseline is read again; then the child starts and its session is running,
\* unless somebody ended the session meanwhile.
Start(s) ==
    /\ LockFree /\ caller[s].at = "seeding" /\ tree[s].exists
    /\ (\A p \in Paths : tree[s].seed[p] # Nothing) /\ ~HostEdited(s)
    /\ Ends(s, "launching", "running")
    /\ Goes(s, IF session[s].state = "launching" THEN "running" ELSE "cleaning")
    /\ UNCHANGED <<host, tree, applying, brought, clock, closed, writes, kills, losses>>

\* The worktree could not be made, or an owned path changed below the seeding.
Abandon(s) ==
    /\ LockFree /\ caller[s].at \in {"created", "seeding"}
    /\ Ends(s, "launching", "failed") /\ Gone(s) /\ Leaves(s)
    /\ UNCHANGED <<host, applying, brought, clock, closed, writes, kills, losses>>

Work(s, p) ==
    /\ caller[s].at = "running" /\ tree[s].exists /\ writes < MaxWrites
    /\ tree' = [tree EXCEPT ![s].work[p] = Written(s)] /\ writes' = writes + 1
    /\ UNCHANGED <<host, session, caller, applying, brought, clock, closed, kills, losses>>

PersonEdits(p) ==
    /\ writes < MaxWrites
    /\ host' = [host EXCEPT ![p] = Written(People)] /\ writes' = writes + 1
    /\ UNCHANGED <<session, tree, caller, applying, brought, clock, closed, kills, losses>>

-----------------------------------------------------------------------------
\* The child was cancelled, timed out or failed.
Stop(s, how) ==
    /\ LockFree /\ caller[s].at = "running"
    /\ Ends(s, "running", how) /\ Goes(s, "cleaning")
    /\ UNCHANGED <<host, tree, applying, brought, clock, closed, writes, kills, losses>>

\* The child exited with 0: the launcher looks at the episode of the launch.
Exit(s) ==
    /\ caller[s].at = "running" /\ Goes(s, IF clock = "paused" THEN "holding" ELSE "applying")
    /\ UNCHANGED <<host, session, tree, applying, brought, clock, closed, writes, kills, losses>>

\* The result is recorded as quarantined first, the end of the session second.
Hold(s) ==
    /\ LockFree /\ caller[s].at = "holding"
    /\ session' = [session EXCEPT ![s].held = "held"] /\ Goes(s, "held")
    /\ UNCHANGED <<host, tree, applying, brought, clock, closed, writes, kills, losses>>

EndHeld(s) ==
    /\ LockFree /\ caller[s].at = "held"
    /\ Ends(s, "running", "completed") /\ Leaves(s)
    /\ UNCHANGED <<host, tree, applying, brought, clock, closed, writes, kills, losses>>

\* What a launcher records of its own apply: the end of its session.
MarkExit(s) ==
    /\ LockFree /\ caller[s].at \in {"applied", "refused"}
    /\ Ends(s, "running", IF caller[s].at = "applied" THEN "completed" ELSE "refused")
    /\ Goes(s, "cleaning")
    /\ UNCHANGED <<host, tree, applying, brought, clock, closed, writes, kills, losses>>

\* _keep_stopped_workspace: the worktree waits for a disposition, or goes.
KeepOrRemove(s) ==
    /\ LockFree /\ caller[s].at = "cleaning"
    /\ IF ~closed /\ session[s].state \in Stopped /\ tree[s].exists
       THEN session' = [session EXCEPT ![s].kept = "pending"] /\ UNCHANGED tree
       ELSE Gone(s) /\ UNCHANGED session
    /\ Leaves(s)
    /\ UNCHANGED <<host, applying, brought, clock, closed, writes, kills, losses>>

\* After the record, and without the lock.
Remove(c) ==
    /\ caller[c].at = "removing" /\ Gone(caller[c].on) /\ Leaves(c)
    /\ UNCHANGED <<host, session, applying, brought, clock, closed, writes, kills, losses>>

-----------------------------------------------------------------------------
\* apply_implementer_workspace, for a launcher or an operator.
Changed(s) == {p \in Paths : tree[s].work[p] # tree[s].seed[p]}
Outside(s) == ~(Changed(s) \subseteq Owns[s])

BeginApply(c) ==
    LET s == caller[c].on IN
    /\ LockFree /\ caller[c].at = "applying"
    /\ tree[s].exists /\ ~Outside(s) /\ ~HostEdited(s)
    /\ applying' = [by |-> c, todo |-> Changed(s), staged |-> tree[s].work, aside |-> Empty,
                    from |-> tree[s].seed, amid |-> tree[s].amid]
    /\ Goes(c, "swapping")
    /\ UNCHANGED <<host, session, tree, brought, clock, closed, writes, kills, losses>>

\* For one of these reasons, a change of a file into a directory, or an error
\* before the first swap; nothing is written.
RefuseApply(c) ==
    /\ LockFree /\ caller[c].at = "applying" /\ Goes(c, "refused")
    /\ UNCHANGED <<host, session, tree, applying, brought, clock, closed, writes, kills, losses>>

\* What the project has is moved aside, the staged copy takes its place.
SwapIn(p) ==
    /\ ~LockFree /\ p \in applying.todo
    /\ host' = [host EXCEPT ![p] = applying.staged[p]]
    /\ brought' = [brought EXCEPT ![caller[applying.by].on] = "part"]
    /\ applying' = [applying EXCEPT !.todo = @ \ {p}, !.aside[p] = host[p]]
    /\ UNCHANGED <<session, tree, caller, clock, closed, writes, kills, losses>>

\* A swap failed: what was moved aside comes back, whatever was written since.
RollBack ==
    /\ ~LockFree /\ applying.todo # {}
    /\ host' = [p \in Paths |-> IF applying.aside[p] # Nothing THEN applying.aside[p] ELSE host[p]]
    /\ brought' = [brought EXCEPT ![caller[applying.by].on] = "none"]
    /\ Goes(applying.by, "refused") /\ applying' = Nothing
    /\ UNCHANGED <<session, tree, clock, closed, writes, kills, losses>>

Applied ==
    /\ ~LockFree /\ applying.todo = {}
    /\ brought' = [brought EXCEPT ![caller[applying.by].on] = "all"]
    /\ Goes(applying.by, "applied") /\ applying' = Nothing
    /\ UNCHANGED <<host, session, tree, clock, closed, writes, kills, losses>>

-----------------------------------------------------------------------------
\* implementer-apply and implementer-discard act on a kept workspace,
\* session-result-adopt on a held one whose episode goes on.
Disposable(s) == session[s].state \notin Live \cup {"none"} /\ session[s].held # "held" /\ session[s].kept = "pending"
Adoptable(s)  == session[s].held = "held" /\ clock # "paused"

Ask(o, s, what) ==
    /\ LockFree /\ caller[o].at = "none"
    /\ IF what = "adopt" THEN Adoptable(s) ELSE Disposable(s)
    /\ caller' = [caller EXCEPT ![o] = [at |-> "applying", wants |-> what, on |-> s]]
    /\ UNCHANGED <<host, session, tree, applying, brought, clock, closed, writes, kills, losses>>

Discard(o, s) ==
    /\ LockFree /\ caller[o].at = "none" /\ Disposable(s)
    /\ session' = [session EXCEPT ![s].kept = "discarded"]
    /\ caller' = [caller EXCEPT ![o] = [at |-> "removing", wants |-> "discard", on |-> s]]
    /\ UNCHANGED <<host, tree, applying, brought, clock, closed, writes, kills, losses>>

\* The apply is over, the lock was released: the session is looked at again.
MarkRequest(o) ==
    LET s == caller[o].on
        adopts == caller[o].wants = "adopt"
    IN
    /\ LockFree /\ caller[o].at \in {"applied", "refused"}
    /\ IF /\ caller[o].at = "applied"
          /\ IF adopts THEN session[s].held = "held" ELSE Disposable(s)
       THEN /\ session' = IF adopts THEN [session EXCEPT ![s].held = "adopted"]
                          ELSE [session EXCEPT ![s].kept = "applied"]
            /\ Goes(o, "removing")
       ELSE UNCHANGED session /\ Leaves(o)
    /\ UNCHANGED <<host, tree, applying, brought, clock, closed, writes, kills, losses>>

\* A launcher or an operator is killed, between two of its steps or in the middle
\* of a swap: the path is moved aside and nothing stands in its place.
Kill(c) ==
    /\ Spare /\ kills' = kills + 1
    /\ caller[c].at \notin {"none", "gone"} /\ Leaves(c)
    /\ IF ~LockFree /\ applying.by = c
       THEN /\ applying' = Nothing
            /\ \/ UNCHANGED host
               \/ \E p \in applying.todo : host' = [host EXCEPT ![p] = Absent]
       ELSE UNCHANGED <<applying, host>>
    /\ UNCHANGED <<session, tree, brought, clock, closed, writes, losses>>

-----------------------------------------------------------------------------
\* The episode is paused for review, and resumed.
Pause ==
    /\ Spare /\ clock = "running" /\ clock' = "paused"
    /\ UNCHANGED <<host, session, tree, caller, applying, brought, closed, writes, kills, losses>>
Resume ==
    /\ clock = "paused" /\ clock' = "resumed"
    /\ UNCHANGED <<host, session, tree, caller, applying, brought, closed, writes, kills, losses>>

\* close_run ends what is live, if it can prove the process of each, and discards
\* what is kept; a held result stays.
CloseRun ==
    LET live == {s \in Sessions : session[s].state \in Live}
        kept == {s \in Sessions : session[s].kept = "pending"}
    IN
    /\ Spare /\ LockFree /\ ~closed /\ closed' = TRUE
    /\ \A s \in live : session[s].state = "running" => caller[s].at # "gone"
    /\ session' = [s \in Sessions |->
                     IF session[s].state = "launching" THEN [session[s] EXCEPT !.state = "failed"]
                     ELSE IF session[s].state = "running" THEN [session[s] EXCEPT !.state = "cancelled"]
                     ELSE IF s \in kept THEN [session[s] EXCEPT !.kept = "discarded"]
                     ELSE session[s]]
    /\ tree' = [s \in Sessions |-> IF s \in live \cup kept THEN NoTree ELSE tree[s]]
    /\ UNCHANGED <<host, caller, applying, brought, clock, writes, kills, losses>>

\* recover_run: a live session that fell silent is presumed lost, even when its
\* launcher is not; one that failed recoverably is over.  The worktree goes,
\* whatever its disposition is.
Recover(s) ==
    /\ LockFree /\ session[s].state \in Live \cup {"failed"}
    /\ losses < MaxLosses /\ losses' = losses + 1
    /\ session' = [session EXCEPT ![s].state = "failed"] /\ Gone(s)
    /\ UNCHANGED <<host, caller, applying, brought, clock, closed, writes, kills>>

Next ==
    \/ \E s \in Sessions : \/ Launch(s) \/ BeginSeeding(s) \/ Start(s) \/ Abandon(s) \/ Exit(s) \/ Hold(s) \/ EndHeld(s)
                           \/ MarkExit(s) \/ KeepOrRemove(s) \/ Recover(s)
                           \/ \E how \in {"cancelled", "failed"} : Stop(s, how)
                           \/ \E p \in Paths : SeedPath(s, p) \/ Work(s, p)
    \/ \E o \in Operators : \/ MarkRequest(o)
                            \/ \E s \in Sessions : Ask(o, s, "apply") \/ Ask(o, s, "adopt") \/ Discard(o, s)
    \/ \E c \in Callers : BeginApply(c) \/ RefuseApply(c) \/ Remove(c) \/ Kill(c)
    \/ \E p \in Paths : PersonEdits(p) \/ SwapIn(p)
    \/ RollBack \/ Applied \/ Pause \/ Resume \/ CloseRun

Spec == Init /\ [][Next]_vars

-----------------------------------------------------------------------------
\* The records are well typed; who holds the lock is in the middle of an apply.
TypeOK ==
    /\ host \in [Paths -> Content]
    /\ \A s \in Sessions : /\ session[s].state \in Live \cup Stopped \cup {"none", "completed"}
                           /\ session[s].kept \in {"none", "pending", "applied", "discarded"}
                           /\ session[s].held \in {"none", "held", "adopted"}
                           /\ tree[s].base \in Trees /\ tree[s].seed \in Trees /\ tree[s].work \in Trees
    /\ brought \in [Sessions -> {"none", "part", "all"}] /\ clock \in {"running", "paused", "resumed"}
    /\ \A c \in Callers : caller[c].at = "swapping" <=> (~LockFree /\ applying.by = c)
    /\ ~LockFree => applying.by \in Callers /\ applying.aside \in Trees

\* Of another session's work a step replaces only what the worktree was seeded with.
MadeOnTop(p) ==
    ~LockFree /\ p \in applying.todo /\ host'[p] # host[p] /\ host[p].by \in Sessions
      => host[p] = applying.from[p]

\* What a step of KeepsOthersWork is.
OthersWorkKept == kills = 0 /\ ~LockFree /\ ~applying.amid => \A p \in Paths : MadeOnTop(p)

\* apply_implementer_workspace, implementer_admission: a change that comes back
\* replaces what another session brought in only if it was made on top of it,
\* whichever of them was launched, stopped, kept, lost or retried first: unless
\* an apply was under way while its worktree was seeded, or somebody was killed.
KeepsOthersWork == [][OthersWorkKept]_vars

\* create_implementer_workspace: "a host edit that lands while the worktree is
\* being seeded can never become the baseline and be overwritten at apply".
NeverOverwritten == [][\A p \in Paths : MadeOnTop(p)]_vars

\* _apply_changes: of the changes of a session all are in the project, or none,
\* unless the process that carried them over was killed.
AllOrNothing ==
    kills = 0 =>
        \A s \in Sessions : (LockFree \/ caller[applying.by].on # s) => brought[s] # "part"

\* implementer-apply, implementer-discard: a kept workspace is there until one
\* of them, or the end of the run, disposes of it.
KeptUntilDecided == \A s \in Sessions : session[s].kept = "pending" => tree[s].exists
=============================================================================
