--------------------------- MODULE FleetCollector ----------------------------
(* Fleet's issue collector: a daemon thread reads the repository of every    *)
(* registered project from GitHub, incrementally, keeps the result in memory *)
(* and on disk, and watches the registry file for projects to collect now.   *)
(* People edit, open and delete issues and push commits meanwhile, reads     *)
(* fail, the server restarts from its file.                                  *)
(*                                                                           *)
(* Time is GitHub's clock in seconds, the precision of updated_at.  An issue *)
(* row is its time and a revision, so two edits in one second differ.  An    *)
(* ETag is the content it was sent with.  Left out: releases, roots sharing  *)
(* a repository, the commit window's far end, a project moved to another     *)
(* repository, and the request counters.                                     *)
EXTENDS Integers, FiniteSets

CONSTANTS
    Issues,         \* their numbers, in the order they are opened
    Commits,
    Date,           \* Commits -> committer date
    PageSize,
    Nothing,
    MaxTime, MaxEdits, MaxTroubles, MaxRegistry     \* bounds

VARIABLES
    now,
    github,     \* the rows of the issues there are now
    history,    \* the commits of the default branch
    edits,      \* rows written; the last revision
    memory,     \* the project's entry in IssueCache._data
    disk,       \* and in fleet-issues.json
    pass,       \* the pass under way
    registry,   \* version of the registry file
    seen,       \* the version its signature was last sampled at
    collected,  \* the version whose projects the last pass read
    thread,     \* where the loop is
    troubles    \* failed reads and writes, and restarts

vars == <<now, github, history, edits, memory, disk, pass, registry, seen, collected, thread, troubles>>
world == <<now, github, history, edits>>
cache == <<memory, disk, pass>>
loop == <<registry, seen, collected, thread>>

Times == 0..MaxTime
Row == [number : Issues, updated : Times, rev : 0..MaxEdits]
Newest(times) == CHOOSE t \in times \cup {0} : \A u \in times : u <= t
Updates(rows) == {r.updated : r \in rows}

\* An entry of the cache, and a pass under way.
Entry == [issues : SUBSET Row, commits : SUBSET Commits, since : Times, full : BOOLEAN, error : BOOLEAN,
          etag : {Nothing} \cup SUBSET Row, url : Times]
Reading == [full : BOOLEAN, since : Times, page : Nat \ {0}, items : SUBSET Row,
            first : {Nothing} \cup SUBSET Row, start : SUBSET Row, branch : SUBSET Commits, done : BOOLEAN]

OneRowEach(rows) == \A r, s \in rows : r.number = s.number => r = s

\* Of two pages of a list the same issue may come twice.
FitsOnePage == IsFiniteSet(Issues) /\ Cardinality(Issues) <= PageSize

TypeOK ==
    /\ now \in Times /\ github \subseteq Row /\ history \subseteq Commits /\ edits \in 0..MaxEdits
    /\ {memory, disk} \subseteq {Nothing} \cup Entry /\ pass \in {Nothing} \cup Reading
    /\ OneRowEach(github)
    /\ \A e \in {memory, disk} \ {Nothing} :
           e.since = Newest(Updates(e.issues)) /\ (FitsOnePage => OneRowEach(e.issues))
    /\ registry \in 0..MaxRegistry /\ seen \in 0..registry /\ collected \in -1..registry
    /\ thread \in {"pass", "read", "swapped", "done", "wait"}
    /\ (thread = "read") = (pass # Nothing)
    /\ troubles \in 0..MaxTroubles

Init ==
    /\ now = 0 /\ history = {} /\ edits = 0
    /\ github = {[number |-> i, updated |-> 0, rev |-> 0] :
                    i \in {CHOOSE i \in Issues : \A j \in Issues : i <= j}}
    /\ memory = Nothing /\ disk = Nothing /\ pass = Nothing
    /\ registry = 0 /\ seen = 0 /\ collected = -1 /\ thread = "pass" /\ troubles = 0

-----------------------------------------------------------------------------
\* The list GitHub would answer: changed since, latest first, in pages.
Listed(since)   == {r \in github : r.updated >= since}
Before(r, since) == {s.number : s \in {s \in Listed(since) : s.number > r.number}}
Page(since, n)  ==
    {r \in Listed(since) : Cardinality(Before(r, since)) \in ((n - 1) * PageSize)..(n * PageSize - 1)}

Full(old, due) == old = Nothing \/ due \/ old.error
CursorNow(rows) == now
Cursor(rows) == Newest(Updates(rows))

\* _etag_for: an ETag is sent to the very URL that earned it.
Earned(old, since) == old # Nothing /\ ~old.full /\ old.url = since

\* A pass starts from the registry as it is; due: the daily full pass.
Begin(due) ==
    /\ thread = "pass" /\ thread' = "read" /\ collected' = registry
    /\ LET full == Full(memory, due)
       IN pass' = [full |-> full, since |-> IF full THEN 0 ELSE memory.since, page |-> 1,
                   items |-> {}, first |-> Nothing, start |-> github, branch |-> history,
                   done |-> FALSE]
    /\ UNCHANGED <<world, memory, disk, registry, seen, troubles>>

\* _read_list: page 1 is conditional, and a short page ends the list.
ReadPage ==
    LET payload == Page(pass.since, pass.page)
        first == IF pass.page = 1 THEN payload ELSE pass.first
        unchanged == pass.page = 1 /\ ~pass.full /\ Earned(memory, pass.since) /\ memory.etag = payload
    IN /\ thread = "read" /\ ~pass.done
       /\ pass' = [pass EXCEPT !.first = first, !.page = @ + 1,
                       !.items = IF unchanged THEN @ ELSE @ \cup payload,
                       !.done = unchanged \/ Cardinality(payload) < PageSize]
       /\ UNCHANGED <<world, memory, disk, loop, troubles>>

\* An item of a later page replaces the row kept under its number.
Merged(rows, items) ==
    {r \in rows : \A i \in items : i.number # r.number}
        \cup {i \in items : \A j \in items : j.number = i.number => j.rev <= i.rev}

Since(commits) == Newest({Date[c] : c \in commits})
CommitsFrom(commits) == {c \in history : Date[c] >= Since(commits)}

\* The commits are read last; then the entry is swapped in.
Swap ==
    LET issues == IF pass.full THEN pass.items ELSE Merged(memory.issues, pass.items)
        commits == IF memory = Nothing THEN {} ELSE memory.commits
    IN /\ thread = "read" /\ pass.done
       /\ memory' = [issues |-> issues, commits |-> commits \cup CommitsFrom(commits),
                     since |-> Cursor(issues), full |-> pass.full, error |-> FALSE,
                     etag |-> IF pass.full THEN Nothing ELSE pass.first, url |-> pass.since]
       /\ pass' = Nothing /\ thread' = "swapped"
       /\ UNCHANGED <<world, disk, registry, seen, collected, troubles>>

\* A failed read keeps the whole previous entry, with the error.
ReadFails ==
    /\ thread = "read" /\ troubles < MaxTroubles /\ troubles' = troubles + 1
    /\ memory' = IF memory = Nothing
                 THEN [issues |-> {}, commits |-> {}, since |-> 0, full |-> TRUE, error |-> TRUE,
                       etag |-> Nothing, url |-> 0]
                 ELSE [memory EXCEPT !.error = TRUE]
    /\ pass' = Nothing /\ thread' = "swapped"
    /\ UNCHANGED <<world, disk, registry, seen, collected>>

Persist ==
    /\ thread = "swapped" /\ thread' = "done"
    /\ disk' = memory
    /\ UNCHANGED <<world, memory, pass, registry, seen, collected, troubles>>

PersistFails ==
    /\ thread = "swapped" /\ thread' = "done"
    /\ troubles < MaxTroubles /\ troubles' = troubles + 1
    /\ UNCHANGED <<world, cache, registry, seen, collected>>

-----------------------------------------------------------------------------
\* start_refresh_thread.  The signature is compared with the one sampled
\* before the pass, at its end and every few seconds of the wait.
SampledAtTheEnd == registry
Sampled == seen

PassEnds ==
    /\ thread = "done"
    /\ seen' = registry
    /\ thread' = IF registry # Sampled THEN "pass" ELSE "wait"
    /\ UNCHANGED <<world, cache, registry, collected, troubles>>

Wake ==
    /\ thread = "wait" /\ registry # seen
    /\ seen' = registry /\ thread' = "pass"
    /\ UNCHANGED <<world, cache, registry, collected, troubles>>

Interval ==
    /\ thread = "wait" /\ thread' = "pass"
    /\ UNCHANGED <<world, cache, registry, seen, collected, troubles>>

\* A new server loads the file and samples the registry before its first pass.
Restart ==
    /\ troubles < MaxTroubles /\ troubles' = troubles + 1
    /\ memory' = disk /\ pass' = Nothing /\ thread' = "pass" /\ seen' = registry
    /\ UNCHANGED <<world, disk, registry, collected>>

Register ==
    /\ registry < MaxRegistry /\ registry' = registry + 1
    /\ UNCHANGED <<world, cache, seen, collected, thread, troubles>>

-----------------------------------------------------------------------------
\* GitHub.
World == UNCHANGED <<cache, loop, troubles>>
Fresh(i) == [number |-> i, updated |-> now, rev |-> edits + 1]

Edit(r) ==
    /\ edits < MaxEdits /\ edits' = edits + 1
    /\ github' = (github \ {r}) \cup {Fresh(r.number)}
    /\ UNCHANGED <<now, history>> /\ World

Open(i) ==
    /\ edits < MaxEdits /\ edits' = edits + 1
    /\ \A r \in github : r.number < i
    /\ github' = github \cup {Fresh(i)}
    /\ UNCHANGED <<now, history>> /\ World

Delete(r) ==
    /\ edits < MaxEdits /\ edits' = edits + 1
    /\ github' = github \ {r}
    /\ UNCHANGED <<now, history>> /\ World

\* A commit reaches the branch when it is pushed, whatever its date.
Push(c) ==
    /\ Date[c] <= now /\ history' = history \cup {c} /\ history' # history
    /\ UNCHANGED <<now, github, edits>> /\ World

Tick == now < MaxTime /\ now' = now + 1 /\ UNCHANGED <<github, history, edits>> /\ World

Pass == (\E due \in BOOLEAN : Begin(due)) \/ ReadPage \/ Swap \/ Persist \/ PassEnds \/ Wake
Next ==
    \/ Pass \/ ReadFails \/ PersistFails \/ Interval \/ Restart \/ Register
    \/ \E r \in github : Edit(r) \/ Delete(r)
    \/ \E i \in Issues : Open(i)
    \/ \E c \in Commits : Push(c)
    \/ Tick

Spec == Init /\ [][Next]_vars
\* The thread runs for the server's life; its waits need not end by
\* themselves.
FairSpec == Spec /\ WF_vars(Pass)

-----------------------------------------------------------------------------
\* What a step of UpdatesAreSeen is.
UpdatesSeen ==
    thread = "read" /\ thread' = "swapped" /\ ~memory'.error =>
    github \cap pass.start \subseteq memory'.issues

\* A pass that ends without an error holds every issue that was not touched
\* while it ran as GitHub has it, whatever was edited between earlier passes,
\* failed, or was lost with a restart.  The code keeps this when a list fits
\* one page.
UpdatesAreSeen == [][UpdatesSeen]_vars

\* And every commit of the branch.  The code does not keep this.
CommitsAreWhole ==
    [][thread = "read" /\ thread' = "swapped" /\ ~memory'.error =>
       pass.branch \subseteq memory'.commits]_vars

\* A registry change is followed by a pass that reads it, though no interval
\* ever elapses.
Collected                 == collected = registry
RegistrationsAreCollected == []<>Collected
=============================================================================
