--------------------------- MODULE DashboardOwner ----------------------------
(* Who may stop a run's dashboard.  A registered server keeps its run_token  *)
(* and root in memory and writes them, with its pid and port, to the owner   *)
(* file of its root.  Completion, closing and Fleet release it: they read    *)
(* the file, ask the port who it is, post the shutdown and unlink the file,  *)
(* all outside the project lock, while servers start, die and restart on the *)
(* same port.  status, recover and watch judge the file the same way, then   *)
(* record a death or a return under the lock.                                *)
(*                                                                           *)
(* A server stands for its process, its token and its pid, none of which is  *)
(* used again.  Left out: unreadable owner files, an owner file copied from  *)
(* another root, and the event streams of a page.                            *)
EXTENDS Naturals, Sequences

CONSTANTS
    Servers,
    Mine,       \* the servers started on this root
    Registered, \* those started with --owned-by-run or --view-only
    Viewing,    \* those with --view-only
    Ports,
    Callers,    \* processes that release the run's dashboard
    Observers,  \* processes that judge it
    Nothing,
    MaxSlow,    \* answers that come too late
    MaxEvents   \* reports in the ledger; bounds the model

VARIABLES
    server,     \* Servers -> where it is in serve
    port,       \* Servers -> the port it was bound to
    ticks,      \* Servers -> _missing_root_ticks
    file,       \* the owner file of this root
    present,    \* the root directory is there
    open,       \* run_is_open
    reported,   \* dashboard_down_reported
    ledger,     \* the owned_dashboard events
    caller,     \* Callers -> the release under way
    observer,   \* Observers -> the judgement under way
    slow        \* answers that came too late

vars == <<server, port, ticks, file, present, open, reported, ledger, caller, observer, slow>>
processes == <<server, port, ticks>>
run == <<open, reported, ledger>>

Owner == [pid : Servers, port : Ports]
Idle == [at |-> "idle", record |-> Nothing]
Listens == {"bound", "serving", "stopping"}
Alive(s) == server[s] \notin {"off", "gone"}

TypeOK ==
    /\ server \in [Servers -> Listens \cup {"off", "leaving", "removing", "gone"}]
    /\ port \in [Servers -> Ports] /\ ticks \in [Servers -> 0..2]
    /\ file \in Owner \cup {Nothing} /\ reported \in Owner \cup {Nothing}
    /\ present \in BOOLEAN /\ open \in BOOLEAN
    /\ \A i \in DOMAIN ledger : ledger[i].kind \in {"down", "restored"} /\ ledger[i].of \in Owner
    /\ \A c \in Callers : caller[c] # Idle =>
           /\ caller[c].at \in {"classify", "ask", "post", "poll", "unlink"}
           /\ caller[c].record \in Owner
    /\ \A o \in Observers : observer[o] # Idle =>
           observer[o].at \in {"judge", "down", "live"} /\ observer[o].record \in Owner
    /\ slow \in 0..MaxSlow
    \* two servers never listen on one port
    /\ \A s, t \in Servers : s # t /\ {server[s], server[t]} \subseteq Listens => port[s] # port[t]

Init ==
    /\ server = [s \in Servers |-> "off"] /\ port \in [Servers -> Ports]
    /\ ticks = [s \in Servers |-> 0]
    /\ file = Nothing /\ present = TRUE /\ open = TRUE /\ reported = Nothing /\ ledger = <<>>
    /\ caller = [c \in Callers |-> Idle] /\ observer = [o \in Observers |-> Idle]
    /\ slow = 0

-----------------------------------------------------------------------------
\* A server's life: serve binds the port, then writes the file, then serves.

Bind(s) ==
    /\ server[s] = "off" /\ (s \in Mine => present)
    /\ \A t \in Servers : server[t] \in Listens => port[t] # port[s]
    /\ server' = [server EXCEPT ![s] = "bound"]
    /\ UNCHANGED <<port, ticks, file, present, run, caller, observer, slow>>

Serve(s) ==
    /\ server[s] = "bound"
    /\ server' = [server EXCEPT ![s] = "serving"]
    /\ file' = IF s \in Mine \cap Registered /\ present THEN [pid |-> s, port |-> port[s]] ELSE file
    /\ UNCHANGED <<port, ticks, present, run, caller, observer, slow>>

\* request_stop: a second request while stopping starts nothing new.
Stopping(s) == server' = [server EXCEPT ![s] = IF @ = "serving" THEN "stopping" ELSE @]

Interrupt(s) ==
    /\ server[s] = "serving" /\ Stopping(s)
    /\ UNCHANGED <<port, ticks, file, present, run, caller, observer, slow>>

\* A tick of the performance clock, which a view-only server does not have.
Tick(s) ==
    /\ server[s] = "serving" /\ s \in Mine \ Viewing
    /\ ticks' = [ticks EXCEPT ![s] = IF present THEN 0 ELSE @ + 1]
    /\ IF ticks'[s] = 2 THEN Stopping(s) ELSE UNCHANGED server
    /\ UNCHANGED <<port, file, present, run, caller, observer, slow>>

\* server_close: the port is free before the file is looked at.
Close(s) ==
    /\ server[s] = "stopping"
    /\ server' = [server EXCEPT ![s] = "leaving"]
    /\ UNCHANGED <<port, ticks, file, present, run, caller, observer, slow>>

\* remove_dashboard_owner_if_token, whose read and unlink are two steps.
ReadOwn(s) ==
    /\ server[s] = "leaving"
    /\ server' = [server EXCEPT ![s] =
          IF file # Nothing /\ file.pid = s THEN "removing" ELSE "gone"]
    /\ UNCHANGED <<port, ticks, file, present, run, caller, observer, slow>>

RemoveOwn(s) ==
    /\ server[s] = "removing"
    /\ server' = [server EXCEPT ![s] = "gone"] /\ file' = Nothing
    /\ UNCHANGED <<port, ticks, present, run, caller, observer, slow>>

\* Killed: nothing is cleaned up.
Die(s) ==
    /\ Alive(s)
    /\ server' = [server EXCEPT ![s] = "gone"]
    /\ UNCHANGED <<port, ticks, file, present, run, caller, observer, slow>>

-----------------------------------------------------------------------------
\* Asking a port.  A server that is bound but not yet serving lets the
\* request wait until it times out, and one that is stopping may answer.
At(p) == {s \in Servers : server[s] \in Listens /\ port[s] = p}
MayAnswer(p) == {s \in At(p) : server[s] \in {"serving", "stopping"}}
MayFail(p) == \A s \in At(p) : server[s] # "serving"

\* The server that answers, or Nothing; a serving one may be too late.
Answered(p, s) ==
    \/ s \in MayAnswer(p) /\ UNCHANGED slow
    \/ s = Nothing /\ MayFail(p) /\ UNCHANGED slow
    \/ s = Nothing /\ ~MayFail(p) /\ slow < MaxSlow /\ slow' = slow + 1

\* ownership_view answers as this record's owner on this root.
OwnerAnswers(record, s) == s \in Registered \cap Mine /\ s = record.pid

\* shutdown_matches: the server compares both values with its own.
ShutdownMatchesAnyone(s, record) == s \in Registered
ShutdownMatches(s, record) == s \in Registered /\ s = record.pid /\ s \in Mine

\* release_run_dashboard: advance 8, run-close, Fleet's Release Port.
Release(c) ==
    /\ caller[c] = Idle /\ file # Nothing
    /\ caller' = [caller EXCEPT ![c] = [at |-> "ask", record |-> file]]
    /\ UNCHANGED <<processes, file, present, run, observer, slow>>

\* The closing transaction first classifies the owner: _dashboard_ownership.
CloseRelease(c) ==
    /\ caller[c] = Idle /\ file # Nothing
    /\ caller' = [caller EXCEPT ![c] = [at |-> "classify", record |-> file]]
    /\ UNCHANGED <<processes, file, present, run, observer, slow>>

\* Owned: released, from a fresh read of the file.  Stale: unlinked.
\* Foreign: left alone.
Classify(c) == \E s \in Servers \cup {Nothing} :
    LET r == caller[c].record
        other == s # Nothing /\ s \in Registered /\ ~OwnerAnswers(r, s)
    IN /\ caller[c].at = "classify" /\ Answered(r.port, s)
       /\ caller' = [caller EXCEPT ![c] =
             IF ~Alive(r.pid) \/ (~other /\ ~OwnerAnswers(r, s)) THEN [@ EXCEPT !.at = "unlink"]
             ELSE IF other \/ file = Nothing THEN Idle
             ELSE [at |-> "ask", record |-> file]]
       /\ UNCHANGED <<processes, file, present, run, observer>>

Ask(c) == \E s \in Servers \cup {Nothing} :
    /\ caller[c].at = "ask" /\ Answered(caller[c].record.port, s)
    /\ caller' = [caller EXCEPT ![c].at =
          IF OwnerAnswers(caller[c].record, s) THEN "post" ELSE "unlink"]
    /\ UNCHANGED <<processes, file, present, run, observer>>

\* _serve_shutdown, by whatever server has the port now.
Post(c) == \E s \in Servers \cup {Nothing} :
    LET ok == s # Nothing /\ ShutdownMatches(s, caller[c].record)
    IN /\ caller[c].at = "post" /\ Answered(caller[c].record.port, s)
       /\ IF ok THEN Stopping(s) ELSE UNCHANGED server
       /\ caller' = [caller EXCEPT ![c].at = IF ok THEN "poll" ELSE "unlink"]
       /\ UNCHANGED <<port, ticks, file, present, run, observer>>

\* The port refuses, or the wait is over; the file goes either way.
Poll(c) ==
    /\ caller[c].at = "poll"
    /\ caller' = [caller EXCEPT ![c].at = "unlink"]
    /\ UNCHANGED <<processes, file, present, run, observer, slow>>

Unlink(c) ==
    /\ caller[c].at = "unlink"
    /\ file' = Nothing /\ caller' = [caller EXCEPT ![c] = Idle]
    /\ UNCHANGED <<processes, present, run, observer, slow>>

-----------------------------------------------------------------------------
\* owned_dashboard_state: no lock is held.
Look(o) ==
    /\ observer[o] = Idle /\ open /\ file # Nothing
    /\ observer' = [observer EXCEPT ![o] = [at |-> "judge", record |-> file]]
    /\ UNCHANGED <<processes, file, present, run, caller, slow>>

Judge(o) == \E s \in Servers \cup {Nothing} :
    LET r == observer[o].record
    IN /\ observer[o].at = "judge" /\ Answered(r.port, s)
       /\ observer' = [observer EXCEPT ![o].at =
             IF Alive(r.pid) /\ OwnerAnswers(r, s) THEN "live" ELSE "down"]
       /\ UNCHANGED <<processes, file, present, run, caller>>

\* The event to append, if any, to what the status holds under the lock.
EventAnyway(o) ==
    IF observer[o].at = "down" THEN "down"
    ELSE IF reported # Nothing THEN "restored" ELSE Nothing
EventOf(o) ==
    IF ~open THEN Nothing
    ELSE IF observer[o].at = "down" THEN IF reported = observer[o].record THEN Nothing ELSE "down"
    ELSE IF reported # Nothing THEN "restored" ELSE Nothing

\* record_dashboard_down_transition
Report(o) ==
    LET r == observer[o].record
        kind == EventOf(o)
    IN /\ observer[o].at \in {"down", "live"}
       /\ kind # Nothing => Len(ledger) < MaxEvents
       /\ reported' = IF kind = "down" THEN r ELSE IF kind = "restored" THEN Nothing ELSE reported
       /\ ledger' = IF kind = Nothing THEN ledger ELSE Append(ledger, [kind |-> kind, of |-> r, closed |-> ~open])
       /\ observer' = [observer EXCEPT ![o] = Idle]
       /\ UNCHANGED <<processes, file, present, open, caller, slow>>

-----------------------------------------------------------------------------
\* The run completes or closes, and is reopened; the worktree is removed.
CloseRun == open /\ open' = FALSE /\ UNCHANGED <<processes, file, present, reported, ledger, caller, observer, slow>>
ReopenRun == ~open /\ open' = TRUE /\ UNCHANGED <<processes, file, present, reported, ledger, caller, observer, slow>>
RemoveRoot ==
    /\ present /\ present' = FALSE /\ file' = Nothing
    /\ \A c \in Callers : caller[c] = Idle
    /\ \A o \in Observers : observer[o] = Idle
    /\ UNCHANGED <<processes, run, caller, observer, slow>>

Next ==
    \/ \E s \in Servers :
          Bind(s) \/ Serve(s) \/ Interrupt(s) \/ Tick(s) \/ Close(s) \/ ReadOwn(s) \/ RemoveOwn(s) \/ Die(s)
    \/ \E c \in Callers :
          Release(c) \/ CloseRelease(c) \/ Classify(c) \/ Ask(c) \/ Post(c) \/ Poll(c) \/ Unlink(c)
    \/ \E o \in Observers : Look(o) \/ Judge(o) \/ Report(o)
    \/ CloseRun \/ ReopenRun \/ RemoveRoot

Spec == Init /\ [][Next]_vars

-----------------------------------------------------------------------------
\* What a step of OnlyItsOwn is.
StopsItsOwn ==
    \A c \in Callers :
       caller[c].at = "post" =>
       \A s \in Servers :
           server'[s] = "stopping" /\ server[s] = "serving" /\ caller'[c] # caller[c]
           => s \in Mine \cap Registered /\ caller[c].record.pid = s

\* A release stops no server but the one whose token, on this root, it read
\* in the owner file, whoever has the port by the time of the request: not a
\* server of another root, not an unregistered one, not the run's next one.
OnlyItsOwn == [][StopsItsOwn]_vars

\* However many processes judge the dashboard at once, the ledger never
\* repeats a death or a return it has just told, and a run that closed after
\* the judgement gets nothing.
ReportedOnce ==
    /\ \A i \in DOMAIN ledger : ~ledger[i].closed
    /\ \A i \in 1..(Len(ledger) - 1) : ledger[i] # ledger[i + 1]
    /\ \A i \in 1..(Len(ledger) - 1) :
           ledger[i].kind = "restored" => ledger[i + 1].kind = "down"
=============================================================================
