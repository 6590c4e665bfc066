------------------------------ MODULE TicketLock ------------------------------
(***************************************************************************)
(* The register that all runs of a user share, and one ticket that several  *)
(* of them want.  init claims the ticket under the register's lock and      *)
(* writes its status afterwards; run-close and Phase 8 note the end of a run*)
(* after they have committed it; Fleet's builds read every run and write    *)
(* what they read; roots come, go and are forgotten.                        *)
(*                                                                         *)
(* What a run is, its own status says; the register's state counts only for *)
(* a short grace, while the status is being written.  commit writes the work*)
(* items before the status, so that a run that is there lists what it lists.*)
(* Left out: other repositories, the switch that turns the lock off, a lock *)
(* that times out, files that cannot be read, reviews that adopt a commit,  *)
(* and the cache of a build.                                               *)
(***************************************************************************)
EXTENDS Naturals

CONSTANTS Roots, Finished, Troubled, Nothing, MaxInits, MaxTroubles

VARIABLES
    there,      \* per root: the directory exists
    run,        \* per root: how far its run is, closed or not, with the ticket or not
    entry,      \* per root: its entry in the register
    starting,   \* per root: how far an init is, which holds the project lock
    notes,      \* per root: ends of runs that a process is about to note
    build,      \* what a build of Fleet's page has read of each root
    how,        \* per root: how its run came by the ticket, or that its claim was lost
    inits, troubles

vars == <<there, run, entry, starting, notes, build, how, inits, troubles>>

Ended     == {"closed", "complete"}
RunStates == {"none", "open"} \cup Ended
Late      == {"phase 8", "complete"}
Runs      == [stage : {"none", "early"} \cup Late, closed : BOOLEAN, lists : BOOLEAN]
Entries   == [state : {"unknown", "open"} \cup Ended, lists : BOOLEAN, fresh : BOOLEAN,
              missing : {"no", "marked", "due"}]
Steps     == {"no", "retired", "claimed", "unticketed"}
NoRun     == [stage |-> "none", closed |-> FALSE, lists |-> FALSE]
NewEntry  == [state |-> "unknown", lists |-> FALSE, fresh |-> FALSE, missing |-> "no"]

\* _run_state.  Whoever is in Phase 8 holds no ticket, complete or not; a root
\* that is gone has no run.
RunState(r) == IF run[r].stage = "none" THEN "none"
               ELSE IF run[r].closed THEN "closed"
               ELSE IF run[r].stage \in Late THEN "complete" ELSE "open"
StateOf(r) == IF there[r] THEN RunState(r) ELSE "none"

TypeOK ==
    /\ there \in [Roots -> BOOLEAN] /\ run \in [Roots -> Runs]
    /\ entry \in [Roots -> Entries \cup {Nothing}] /\ starting \in [Roots -> Steps]
    /\ notes \in [Roots -> SUBSET Ended]
    /\ build \in [Roots -> RunStates \cup {"unread"}] \cup {Nothing}
    /\ how \in [Roots -> {"none", "claim", "adopt", "seized", "resumed", "added", "lost"}]
    /\ inits \in 0 .. MaxInits /\ troubles \in 0 .. MaxTroubles

\* A run of the past may be complete, with nobody having noted so yet.
Init ==
    /\ there = [r \in Roots |-> TRUE] /\ starting = [r \in Roots |-> "no"] /\ build = Nothing
    /\ run = [r \in Roots |-> IF r \in Finished THEN [stage |-> "complete", closed |-> FALSE, lists |-> TRUE]
                                                 ELSE NoRun]
    /\ entry = [r \in Roots |-> IF r \in Finished THEN [NewEntry EXCEPT !.state = "open", !.lists = TRUE, !.fresh = TRUE]
                                                   ELSE Nothing]
    /\ notes = [r \in Roots |-> IF r \in Finished THEN {"complete"} ELSE {}]
    /\ how = [r \in Roots |-> "none"] /\ inits = 0 /\ troubles = 0

Free(r)    == there[r] /\ starting[r] = "no"      \* the project lock
Claimed(r) == starting[r] = "claimed"
\* Something goes wrong at a root, or a run there does what most do not: it is
\* not about the ticket, stops in Phase 8, or is closed and complete.
Trouble(r) == r \in Troubled /\ troubles < MaxTroubles /\ troubles' = troubles + 1

-----------------------------------------------------------------------------
\* ticket_owners.  An entry without a run counts as long as its claim is fresh.
Holds(s) ==
    /\ entry[s] # Nothing /\ there[s]
    /\ \/ RunState(s) = "open" /\ run[s].lists
       \/ RunState(s) = "none" /\ entry[s].state = "open" /\ entry[s].fresh /\ entry[s].lists
Owners(r) == {s \in Roots \ {r} : Holds(s)}

\* note_registry_state, which registers a root it does not find.
Noted(r, state) ==
    [(IF entry[r] = Nothing THEN NewEntry ELSE entry[r]) EXCEPT !.state = state, !.fresh = TRUE]

\* init, up to the claim: the files of a run that is closed or complete, not of
\* one that is merely in Phase 8, are moved away.
Begin(r) ==
    /\ Free(r) /\ (run[r].closed \/ run[r].stage \in {"none", "complete"})
    /\ inits < MaxInits
    /\ inits' = inits + 1
    /\ run' = [run EXCEPT ![r] = NoRun] /\ how' = [how EXCEPT ![r] = "none"]
    /\ starting' = [starting EXCEPT ![r] = "retired"]
    /\ UNCHANGED <<there, entry, notes, build, troubles>>

\* owner_alive.  A session's beacon or process counts; an owned dashboard does
\* not, since its health is compared with a word that _owner_view never says.
\* A run that has no status yet has no session, whoever is starting it.
Signs    == {"none", "session", "dashboard"}
Views(o) == IF RunState(o) = "open" THEN Signs ELSE Signs \ {"session"}
Seen(owners) == {sign \in [owners -> Signs] : \A o \in owners : sign[o] \in Views(o)}
Alive(sign) == sign = "session"

\* claim_tickets, in one section of the register's lock.
Granted(r, adopt, sign) == Owners(r) = {} \/ (adopt /\ \A o \in Owners(r) : ~Alive(sign[o]))
Claim(r, adopt, sign) ==
    /\ starting[r] = "retired" /\ Granted(r, adopt, sign)
    /\ starting' = [starting EXCEPT ![r] = "claimed"]
    /\ entry' = [entry EXCEPT ![r] = [Noted(r, "open") EXCEPT !.lists = TRUE]]
    /\ how' = [how EXCEPT ![r] = CASE ~adopt \/ Owners(r) = {}                -> "claim"
                                   [] \E o \in Owners(r) : sign[o] # "none" -> "seized"
                                   [] OTHER                                 -> "adopt"]
    /\ UNCHANGED <<there, run, notes, build, inits, troubles>>
Refuse(r, adopt, sign) ==
    /\ starting[r] = "retired" /\ ~Granted(r, adopt, sign)
    /\ starting' = [starting EXCEPT ![r] = "no"]
    /\ UNCHANGED <<there, run, entry, notes, build, how, inits, troubles>>

\* The run is not about the ticket: nothing is claimed.
NeedsNone(r) ==
    /\ starting[r] = "retired" /\ starting' = [starting EXCEPT ![r] = "unticketed"]
    /\ Trouble(r)
    /\ UNCHANGED <<there, run, entry, notes, build, how, inits>>

\* The rest of init: the status and the registry of the new run.
Commit(r) ==
    /\ starting[r] \in {"claimed", "unticketed"}
    /\ run' = [run EXCEPT ![r] = [stage |-> "early", closed |-> FALSE, lists |-> Claimed(r)]]
    /\ starting' = [starting EXCEPT ![r] = "no"]
    /\ UNCHANGED <<there, entry, notes, build, how, inits, troubles>>

KillInit(r) ==
    /\ starting[r] # "no" /\ starting' = [starting EXCEPT ![r] = "no"]
    /\ how' = [how EXCEPT ![r] = "none"] /\ Trouble(r)
    /\ UNCHANGED <<there, run, entry, notes, build, inits>>

\* The claims of these roots are gone, before or after their runs were written.
Lose(roots) == how' = [r \in Roots |-> IF r \in roots THEN "lost" ELSE how[r]]

-----------------------------------------------------------------------------
\* cmd_advance to Phase 8, which completes the run unless told otherwise, and
\* does not ask whether it is closed.
Advance(r, stage) ==
    /\ Free(r) /\ run[r].stage \in {"early", "phase 8"} /\ stage # run[r].stage
    /\ run' = [run EXCEPT ![r].stage = stage] /\ how' = [how EXCEPT ![r] = "none"]
    /\ notes' = IF stage = "complete" THEN [notes EXCEPT ![r] = @ \cup {"complete"}] ELSE notes
    /\ IF stage = "complete" /\ ~run[r].closed THEN UNCHANGED troubles ELSE Trouble(r)
    /\ UNCHANGED <<there, entry, starting, build, inits>>

\* close_run, which closes complete runs too.
CloseRun(r) ==
    /\ Free(r) /\ run[r].stage # "none" /\ ~run[r].closed
    /\ run' = [run EXCEPT ![r].closed = TRUE] /\ how' = [how EXCEPT ![r] = "none"]
    /\ IF run[r].stage \in Late THEN Trouble(r) ELSE UNCHANGED troubles
    /\ UNCHANGED <<there, entry, starting, notes, build, inits>>

\* run-close's operation fleet_unregister: revalidated and observed, not done.
Closes(r) ==
    /\ Free(r) /\ run[r].closed /\ "closed" \notin notes[r]
    /\ entry[r] # Nothing => entry[r].state # "closed"
    /\ notes' = [notes EXCEPT ![r] = @ \cup {"closed"}]
    /\ UNCHANGED <<there, run, entry, starting, build, how, inits, troubles>>

\* The note is taken, under the register's lock and no other.
Note(r, state) ==
    /\ state \in notes[r] /\ (entry[r] = Nothing => there[r])
    /\ entry' = [entry EXCEPT ![r] = Noted(r, state)]
    /\ notes' = [notes EXCEPT ![r] = @ \ {state}]
    /\ Lose({r} \cap {s \in Roots : Claimed(s)})
    /\ UNCHANGED <<there, run, starting, build, inits, troubles>>

\* Its process is killed, or finds no project to register.
DropNote(r, state) ==
    /\ state \in notes[r] /\ notes' = [notes EXCEPT ![r] = @ \ {state}]
    /\ \/ Trouble(r)
       \/ entry[r] = Nothing /\ ~there[r] /\ UNCHANGED troubles
    /\ UNCHANGED <<there, run, entry, starting, build, how, inits>>

\* What follows looks neither at the register nor at its lock.  A run that had
\* let go of the ticket lists it again: reopened (reopen_run), or out of Phase 8
\* because its evidence, its criteria or its approval changed.
Resume(r) ==
    /\ Free(r) /\ Trouble(r)
    /\ \/ /\ run[r].closed /\ run[r].stage # "complete"
          /\ run' = [run EXCEPT ![r].closed = FALSE]
       \/ /\ run[r].stage \in Late
          /\ run' = [run EXCEPT ![r].stage = "early"]
    /\ how' = [how EXCEPT ![r] = IF run[r].lists THEN "resumed" ELSE @]
    /\ UNCHANGED <<there, entry, starting, notes, build, inits>>

\* work-items-sync, which takes a changed scope back to Phase 2, and
\* work-item-remove.
AddTicket(r) ==
    /\ Free(r) /\ run[r].stage # "none" /\ ~run[r].lists
    /\ IF run[r].stage \in Late THEN Trouble(r) ELSE UNCHANGED troubles
    /\ run' = [run EXCEPT ![r].lists = TRUE, ![r].stage = "early"] /\ how' = [how EXCEPT ![r] = "added"]
    /\ UNCHANGED <<there, entry, starting, notes, build, inits>>
RemoveTicket(r) ==
    /\ Free(r) /\ run[r].lists
    /\ run' = [run EXCEPT ![r].lists = FALSE] /\ how' = [how EXCEPT ![r] = "none"] /\ Trouble(r)
    /\ UNCHANGED <<there, entry, starting, notes, build, inits>>

-----------------------------------------------------------------------------
\* _derive_entry_state: runs that are none or unreadable leave an entry alone.
Derived(e, state) ==
    IF e = Nothing \/ state = "none" \/ e.state = state THEN e ELSE [e EXCEPT !.state = state, !.fresh = TRUE]

\* fleet register, and unregister or, for a root that is gone, FORGET.
Registered(r) == Derived(IF entry[r] = Nothing THEN NewEntry ELSE entry[r], RunState(r))
Register(r) ==
    /\ there[r] /\ Registered(r) # entry[r]
    /\ entry' = [entry EXCEPT ![r] = Registered(r)]
    /\ UNCHANGED <<there, run, starting, notes, build, how, inits, troubles>>
Unregister(r) ==
    /\ entry[r] # Nothing /\ entry' = [entry EXCEPT ![r] = Nothing]
    /\ Lose({r}) /\ Trouble(r)
    /\ UNCHANGED <<there, run, starting, notes, build, inits>>

\* forget_missing_roots, the first section of a build.
Forgets(r) == ~there[r] /\ entry[r] # Nothing /\ entry[r].missing = "due"
Swept(r) ==
    IF entry[r] = Nothing \/ Forgets(r) THEN Nothing
    ELSE [entry[r] EXCEPT !.missing = IF there[r] THEN "no" ELSE IF @ = "no" THEN "marked" ELSE @]
BuildBegins ==
    /\ build = Nothing
    /\ entry' = [r \in Roots |-> Swept(r)]
    /\ Lose({r \in Roots : Forgets(r)})
    /\ build' = [r \in Roots |-> IF Swept(r) = Nothing THEN "none" ELSE "unread"]
    /\ UNCHANGED <<there, run, starting, notes, inits, troubles>>

\* project_facts: the runs that are registered, one after the other.
BuildReads(r) ==
    /\ build # Nothing /\ build[r] = "unread"
    /\ build' = [build EXCEPT ![r] = StateOf(r)]
    /\ UNCHANGED <<there, run, entry, starting, notes, how, inits, troubles>>

\* sync_registry_states writes what was read then over what is there now.
Synced(r) == Derived(entry[r], build[r])
BuildEnds ==
    /\ build # Nothing /\ \A r \in Roots : build[r] # "unread"
    /\ build' = Nothing
    /\ entry' = [r \in Roots |-> Synced(r)]
    /\ Lose({r \in Roots : Claimed(r) /\ Synced(r) # entry[r]})
    /\ UNCHANGED <<there, run, starting, notes, inits, troubles>>

\* A claim's grace, and the interval after which a missing root is forgotten.
GraceEnds(r) ==
    /\ entry[r] # Nothing /\ entry[r].fresh /\ entry' = [entry EXCEPT ![r].fresh = FALSE]
    /\ Lose({r} \cap {s \in Roots : Claimed(s)})
    /\ UNCHANGED <<there, run, starting, notes, build, inits, troubles>>
StaysAway(r) ==
    /\ ~there[r] /\ entry[r] # Nothing /\ entry[r].missing = "marked"
    /\ entry' = [entry EXCEPT ![r].missing = "due"]
    /\ UNCHANGED <<there, run, starting, notes, build, how, inits, troubles>>

\* A volume is taken away and comes back; no command of its run is under way.
GoesAway(r) ==
    /\ Free(r) /\ there' = [there EXCEPT ![r] = FALSE]
    /\ Lose({r}) /\ Trouble(r)
    /\ UNCHANGED <<run, entry, starting, notes, build, inits>>
ComesBack(r) ==
    /\ ~there[r] /\ there' = [there EXCEPT ![r] = TRUE]
    /\ UNCHANGED <<run, entry, starting, notes, build, how, inits, troubles>>

Inits(r) == \/ Begin(r) \/ NeedsNone(r)
            \/ \E adopt \in BOOLEAN, sign \in Seen(Owners(r)) : Claim(r, adopt, sign) \/ Refuse(r, adopt, sign)
            \/ Commit(r) \/ KillInit(r)
Ends(r)  == \/ \E stage \in Late : Advance(r, stage)
            \/ \E state \in Ended : Note(r, state) \/ DropNote(r, state)
            \/ CloseRun(r) \/ Closes(r) \/ Resume(r) \/ AddTicket(r) \/ RemoveTicket(r)
Others(r) == Register(r) \/ Unregister(r) \/ GraceEnds(r) \/ StaysAway(r) \/ GoesAway(r) \/ ComesBack(r)
Builds   == BuildBegins \/ BuildEnds \/ \E r \in Roots : BuildReads(r)
Next     == Builds \/ \E r \in Roots : Inits(r) \/ Ends(r) \/ Others(r)
Spec     == Init /\ [][Next]_vars
FairSpec == Spec /\ WF_vars(Builds)

-----------------------------------------------------------------------------
Working(r) == RunState(r) = "open" /\ run[r].lists

\* HAZARD: the claim and the status that backs it are two writes, and the ends
\* of runs are noted by processes that hold no lock.  However inits, closes,
\* notes and builds interleave: of two runs that list the ticket one adopted it,
\* was resumed or had it added, or lost its claim in the register while its
\* status was being written, or later.
OneOwner == \A r, s \in Roots : r # s /\ Working(r) /\ Working(s) => ~(how[r] = "claim" /\ how[s] = "claim")

\* What OneOwner rests on: an init in progress has its project to itself, and a
\* claim that counts is in the register, so that no other can be granted.
Claims(r) == how[r] = "claim" /\ (Claimed(r) \/ Working(r))
ClaimsHold ==
    /\ \A r \in Roots : starting[r] # "no" => there[r] /\ run[r] = NoRun
    /\ \A r \in Roots : Claims(r) => Holds(r)
    /\ \A r, s \in Roots : r # s => ~(Claims(r) /\ Claims(s))

\* HAZARD: builds write states that they read earlier.  When runs no longer begin
\* and end, and somebody looks at the page, the register agrees with them (#432).
Agrees == \A r \in Roots : entry[r] # Nothing /\ StateOf(r) # "none" => entry[r].state = RunState(r)
RegisterAgrees == []<>Agrees

\* The code does not keep the two that follow.  Nor does it keep OneOwner without
\* the exception for lost claims, as REFERENCE.md has it: of two concurrent inits
\* on one ticket exactly one ends as its owner.  The end of the run before, noted
\* late, or a build that read it, takes a claim back while its status is being
\* written, and the next init finds the ticket free; no kill is needed.

\* claimed_twice: two live open runs list a ticket only through a register
\* written outside its lock.  Resuming a run, or adding the ticket to one, does it.
OneRunPerTicket == \A r, s \in Roots : r # s => ~(Working(r) /\ Working(s))

\* REFERENCE.md: a run whose owned dashboard answers is not dead, and a live
\* owner is not adopted.
OnlyDeadAdopted == \A r \in Roots : how[r] # "seized"
=============================================================================
