------------------------------- MODULE Ledger -------------------------------
(***************************************************************************)
(* The run's files on disk and the one way every command changes them.     *)
(*                                                                         *)
(* A run keeps a status file, an acceptance registry, an append-only event *)
(* log whose lines are hash-chained and whose tail is named by a head      *)
(* file, and an append-only verification ledger whose tail is named by     *)
(* status.verification_head.  `commit` makes a change to several of them   *)
(* one journaled unit: it writes the digests it is about to produce into a *)
(* write-ahead journal, replaces the files, appends the describing events  *)
(* and removes the journal.  A process may be killed between any two of    *)
(* these writes; `doctor` decides afterwards whether what is on disk is an *)
(* interrupted commit it may finish or something it must leave alone.      *)
(*                                                                         *)
(* Data are abstracted to identities.  The content of a file is a version  *)
(* number that no other content has (every command stamps a time), the     *)
(* sha256 of a content is the content, and the hash of a line or record is *)
(* its position in its file.  What compute_errors thinks of the contents   *)
(* is one bit, `faulty`, that any write to them may set or clear.          *)
(***************************************************************************)
EXTENDS Integers, Sequences

CONSTANTS
  Procs,        \* processes of the engine working on one project root
  NoProc,       \* nobody holds the project lock
  None,         \* a key a journal or a plan does not carry
  Commands,     \* the kinds of command the processes run
  Tears,        \* how much of a line an interrupted append may leave
  MaxVersions,  \* bound: contents written by commands and by hand
  MaxCrashes,   \* bound: processes killed in a behaviour
  MaxEdits      \* bound: edits of a file by hand in a behaviour

(***************************************************************************)
(* The kinds of command, told apart by what they read and write.           *)
(*   audited     refuses unless both ledgers describe the files            *)
(*   locked      holds the project lock from its first read to its end     *)
(*   commit      goes through commit(); otherwise it only appends an event *)
(*   status, acceptance   the files its commit replaces                    *)
(*   records     verification records it appends before its commit         *)
(*   events      lines its commit appends: extra events, then its own      *)
(***************************************************************************)
Kinds == {"verify", "registry", "decision", "session", "note", "unlocked_note", "doctor"}
Command == [kind: Kinds, audited: BOOLEAN, locked: BOOLEAN, commit: BOOLEAN,
            status: BOOLEAN, acceptance: BOOLEAN, records: Nat, events: Nat \ {0}]

\* verify, record-evidence, verify-live: n records, then one commit that re-anchors them.
VerifyCommand(n) ==
  [kind |-> "verify", audited |-> TRUE, locked |-> TRUE, commit |-> TRUE,
   status |-> TRUE, acceptance |-> TRUE, records |-> n, events |-> 1]
\* criterion-add/update/remove, criteria-apply, amendments: both files, two facts.
RegistryCommand ==
  [kind |-> "registry", audited |-> TRUE, locked |-> TRUE, commit |-> TRUE,
   status |-> TRUE, acceptance |-> TRUE, records |-> 0, events |-> 2]
\* advance, deployment-gate, record-review, design-approve, heartbeat: the status only.
DecisionCommand ==
  [kind |-> "decision", audited |-> TRUE, locked |-> TRUE, commit |-> TRUE,
   status |-> TRUE, acceptance |-> FALSE, records |-> 0, events |-> 1]
\* agent sessions, questions, recovery, run-close: the status, without an audit.
SessionCommand ==
  [kind |-> "session", audited |-> FALSE, locked |-> TRUE, commit |-> TRUE,
   status |-> TRUE, acceptance |-> FALSE, records |-> 0, events |-> 1]
\* dashboard launches and report outcomes: one event, appended under the lock.
NoteCommand ==
  [kind |-> "note", audited |-> FALSE, locked |-> TRUE, commit |-> FALSE,
   status |-> FALSE, acceptance |-> FALSE, records |-> 0, events |-> 1]
\* features_updated, host_edited_during_review and the two late-result events:
\* append_event outside any project_lock block.
UnlockedNoteCommand == [NoteCommand EXCEPT !.kind = "unlocked_note", !.locked = FALSE]
\* What doctor commits: the status only when it patches verification_head.
DoctorCommand(patches) ==
  [kind |-> "doctor", audited |-> FALSE, locked |-> TRUE, commit |-> TRUE,
   status |-> patches, acceptance |-> FALSE, records |-> 0, events |-> 1]

ASSUME LedgerAssumption ==
  /\ NoProc \notin Procs
  /\ Commands \subseteq Command
  /\ \A c \in Commands : c.kind # "doctor" /\ (c.records > 0 => c.audited /\ c.status /\ c.commit)
  /\ Tears \subseteq {"bare", "torn"}
  /\ MaxVersions \in Nat /\ MaxCrashes \in Nat /\ MaxEdits \in Nat

StatusContent == [ver: Nat, vhead: Nat, hand: BOOLEAN]   \* hand: written by an editor
AcceptanceContent == [ver: Nat, hand: BOOLEAN]
Journal == [status: StatusContent \cup {None}, acceptance: AcceptanceContent \cup {None}]
NoJournal == [status |-> None, acceptance |-> None]
EventLine == [prev: Nat, kind: Kinds, status: StatusContent, acceptance: AcceptanceContent]

ASSUME NoneAssumption == None \notin StatusContent /\ None \notin AcceptanceContent

VARIABLES
  status,      \* handsoff-status.json
  acceptance,  \* the acceptance registry
  faulty,      \* compute_errors finds errors in the files and records as they are,
               \* read with the verification head where the records end
  journal,     \* .handsoff-writeahead.json
  elog,        \* complete lines of the event log
  etail,       \* how the event log ends: "clean", "bare" (no newline), "torn"
  head,        \* .handsoff-event-head.json: the line it names
  vlog,        \* complete records of the verification ledger
  vtail,       \* how the verification ledger ends
  lock,        \* the holder of .handsoff.lock
  pc,          \* the write each process performs next
  plan,        \* what each process has read and decided to write
  version,     \* contents written so far
  crashes, edits,
  gap          \* what the last kill left half done; history only

files == <<status, acceptance, faulty>>
logs == <<elog, etail, head, vlog, vtail>>
bounds == <<version, crashes, edits>>
vars == <<files, journal, logs, lock, pc, plan, bounds, gap>>

Steps == {"idle", "record", "journal", "acceptance", "status", "digest", "append", "head", "clear"}
Gaps == {"none", "files", "anchor", "intent", "half", "log"}

-----------------------------------------------------------------------------
(* What the readers of the ledgers conclude. *)

LastEvent == elog[Len(elog)]

\* event_log_chain_errors: linkage, parseable lines, the anchored head.
EventChainIntact ==
  /\ etail # "torn"
  /\ \A i \in 1..Len(elog) : elog[i].prev = i - 1
  /\ head = Len(elog)

\* load_verifications: every record parses and follows its predecessor.
VerificationsIntact == vtail # "torn"

StatusStale == LastEvent.status # status
AcceptanceStale == LastEvent.acceptance # acceptance
HeadStale == status.vhead # vlog

\* _audit_errors finds nothing.
AuditClean ==
  EventChainIntact /\ VerificationsIntact /\ ~StatusStale /\ ~AcceptanceStale /\ ~HeadStale

\* Variants with a plausible bug stand before the definition they alter and
\* are used nowhere: a property that holds of both says nothing of the code.
ProvenByAnything(stale, named, current) == TRUE
ProvenByJournalOnly(stale, named, current) == named # None /\ named = current

\* The doctor's proof that a content is the output of a journaled command.
Proven(stale, named, current) == IF named # None THEN named = current ELSE ~stale

DoctorSeesNoHead ==
  /\ EventChainIntact /\ VerificationsIntact
  /\ StatusStale \/ AcceptanceStale
  /\ Proven(StatusStale, journal.status, status)
  /\ Proven(AcceptanceStale, journal.acceptance, acceptance)
  /\ ~faulty

\* Both ledgers parse, there is a gap, what is stale is proven, and the state
\* doctor proposes passes compute_errors.
DoctorMayRecover ==
  /\ EventChainIntact /\ VerificationsIntact
  /\ StatusStale \/ AcceptanceStale \/ HeadStale
  /\ Proven(StatusStale, journal.status, status)
  /\ Proven(AcceptanceStale, journal.acceptance, acceptance)
  /\ ~faulty
DoctorRefuses == ~AuditClean /\ ~DoctorMayRecover

-----------------------------------------------------------------------------
(* A process between two writes. *)

AfterRead(c) == IF c.records > 0 THEN "record" ELSE IF c.commit THEN "journal" ELSE "digest"
AfterJournal(c) ==
  IF c.acceptance THEN "acceptance" ELSE IF c.status THEN "status" ELSE "digest"
AfterAcceptance(c) == IF c.status THEN "status" ELSE "digest"

Goto(p, step) == pc' = [pc EXCEPT ![p] = step]
NoLine == [prev |-> 0, kind |-> "note", status |-> [ver |-> 0, vhead |-> 0, hand |-> FALSE],
           acceptance |-> [ver |-> 0, hand |-> FALSE]]

\* The local variables of a command that has just read the files and decided
\* to write the contents s and a.
PlanOf(c, s, a) ==
  [command |-> c, status |-> s, acceptance |-> a, records |-> c.records,
   events |-> c.events, line |-> NoLine, at |-> 0,
   read |-> [status |-> status, acceptance |-> acceptance]]
Plan == [command: Command, status: StatusContent \cup {None},
         acceptance: AcceptanceContent \cup {None}, records: Nat, events: Nat,
         line: EventLine, at: Nat, read: [status: StatusContent, acceptance: AcceptanceContent]]

\* The command ends or dies: its local variables are gone, its lock is released.
NoPlan == [command |-> NoteCommand, status |-> None, acceptance |-> None, records |-> 0,
           events |-> 0, line |-> NoLine, at |-> 0,
           read |-> [status |-> NoLine.status, acceptance |-> NoLine.acceptance]]
Stop(p) ==
  /\ Goto(p, "idle")
  /\ plan' = [plan EXCEPT ![p] = NoPlan]
  /\ lock' = IF lock = p THEN NoProc ELSE lock

Init ==
  LET s == [ver |-> 0, vhead |-> 0, hand |-> FALSE]
      a == [ver |-> 0, hand |-> FALSE]
  IN /\ status = s /\ acceptance = a /\ faulty = FALSE
     /\ journal = NoJournal
     /\ elog = <<[prev |-> 0, kind |-> "decision", status |-> s, acceptance |-> a]>>
     /\ etail = "clean" /\ head = 1
     /\ vlog = 0 /\ vtail = "clean"
     /\ lock = NoProc
     /\ pc = [p \in Procs |-> "idle"]
     /\ plan = [p \in Procs |-> NoPlan]
     /\ version = 0 /\ crashes = 0 /\ edits = 0
     /\ gap = "none"

\* The writes of a command, planned from what it has just read.
Planned(p, c) ==
  /\ version < MaxVersions
  /\ version' = version + 1
  /\ plan' = [plan EXCEPT ![p] = PlanOf(c,
       IF c.status THEN [ver |-> version + 1, vhead |-> status.vhead, hand |-> FALSE] ELSE None,
       IF c.acceptance THEN [ver |-> version + 1, hand |-> FALSE] ELSE None)]
  /\ lock' = IF c.locked THEN p ELSE lock
  /\ Goto(p, AfterRead(c))
  /\ gap' = "none"
  /\ UNCHANGED <<files, journal, logs, crashes, edits>>

BeginUnlocked(p, c) == pc[p] = "idle" /\ (c.audited => AuditClean) /\ Planned(p, c)
BeginUnaudited(p, c) == pc[p] = "idle" /\ (c.locked => lock = NoProc) /\ Planned(p, c)

\* A command takes the lock, reads the files, audits them if it is one of the
\* auditing commands, and decides what it will write.
Begin(p, c) ==
  /\ pc[p] = "idle"
  /\ c.locked => lock = NoProc
  /\ c.audited => AuditClean
  /\ Planned(p, c)

\* An auditing command that finds a problem prints it and writes nothing.
Refuse(p, c) ==
  /\ pc[p] = "idle" /\ lock = NoProc
  /\ c.audited /\ ~AuditClean
  /\ UNCHANGED vars

\* The plan once the record at the end of the ledger is what its status anchors.
Anchoring(q) ==
  [q EXCEPT !.status = [q.status EXCEPT !.vhead = vlog + 1], !.records = q.records - 1]

\* append_verification: one record; the caller points verification_head at it.
\* After a record that lost its newline the new one lands on the same line.
AppendRecord(p) ==
  /\ pc[p] = "record"
  /\ vtail # "torn"
  /\ vlog' = IF vtail = "bare" THEN vlog - 1 ELSE vlog + 1
  /\ vtail' = IF vtail = "bare" THEN "torn" ELSE "clean"
  /\ plan' = [plan EXCEPT ![p] = Anchoring(@)]
  /\ faulty' \in BOOLEAN
  /\ Goto(p, IF plan[p].records > 1 THEN "record" ELSE "journal")
  /\ UNCHANGED <<status, acceptance, journal, elog, etail, head, lock, bounds, gap>>

WriteJournalOfStatus(p) ==
  /\ pc[p] = "journal"
  /\ journal' = [status |-> plan[p].status, acceptance |-> None]
  /\ Goto(p, AfterJournal(plan[p].command))
  /\ UNCHANGED <<files, logs, lock, plan, bounds, gap>>

\* write_ahead: the digests this commit is about to produce.
WriteJournal(p) ==
  /\ pc[p] = "journal"
  /\ journal' = [status |-> plan[p].status, acceptance |-> plan[p].acceptance]
  /\ Goto(p, AfterJournal(plan[p].command))
  /\ UNCHANGED <<files, logs, lock, plan, bounds, gap>>

WriteAcceptance(p) ==
  /\ pc[p] = "acceptance"
  /\ acceptance' = plan[p].acceptance
  /\ faulty' \in BOOLEAN
  /\ Goto(p, AfterAcceptance(plan[p].command))
  /\ UNCHANGED <<status, journal, logs, lock, plan, bounds, gap>>

\* What doctor writes is what it judged, unless somebody saved a file since.
Judged(p) ==
  /\ plan[p].command.kind = "doctor"
  /\ plan[p].read = [status |-> status, acceptance |-> acceptance]

WriteStatus(p) ==
  /\ pc[p] = "status"
  /\ status' = plan[p].status
  /\ IF Judged(p) THEN UNCHANGED faulty ELSE faulty' \in BOOLEAN
  /\ Goto(p, "digest")
  /\ UNCHANGED <<acceptance, journal, logs, lock, plan, bounds, gap>>

\* append_event, first half: the hash of the last line and the digests of the
\* files as they now are.
DigestEvent(p) ==
  /\ pc[p] = "digest"
  /\ etail # "torn"
  /\ plan' = [plan EXCEPT ![p].line =
       [prev |-> Len(elog), kind |-> plan[p].command.kind, status |-> status, acceptance |-> acceptance]]
  /\ Goto(p, "append")
  /\ UNCHANGED <<files, journal, logs, lock, bounds, gap>>

\* _last_hash cannot parse a torn last line: the command dies where it is, with
\* whatever it has written so far in place.
RaiseOnTornLog(p) ==
  /\ \/ pc[p] = "digest" /\ etail = "torn"
     \/ pc[p] = "record" /\ vtail = "torn"
  /\ Stop(p)
  /\ UNCHANGED <<files, journal, logs, bounds, gap>>

\* append_event, second half: one line at the end of the file.
AppendEvent(p) ==
  /\ pc[p] = "append"
  /\ elog' = CASE etail = "clean" -> Append(elog, plan[p].line)
               [] etail = "bare"  -> SubSeq(elog, 1, Len(elog) - 1)
               [] etail = "torn"  -> elog
  /\ etail' = IF etail = "clean" THEN "clean" ELSE "torn"
  /\ plan' = [plan EXCEPT ![p].at = Len(elog) + 1, ![p].events = @ - 1]
  /\ Goto(p, "head")
  /\ UNCHANGED <<files, journal, head, vlog, vtail, lock, bounds, gap>>

ReplaceHead(p) ==
  /\ pc[p] = "head"
  /\ head' = plan[p].at
  /\ IF plan[p].events > 0 THEN Goto(p, "digest") /\ UNCHANGED <<lock, plan>>
     ELSE IF plan[p].command.commit THEN Goto(p, "clear") /\ UNCHANGED <<lock, plan>>
     ELSE Stop(p)
  /\ UNCHANGED <<files, journal, elog, etail, vlog, vtail, bounds, gap>>

ClearJournal(p) ==
  /\ pc[p] = "clear"
  /\ journal' = NoJournal
  /\ Stop(p)
  /\ UNCHANGED <<files, logs, bounds, gap>>

-----------------------------------------------------------------------------
(* doctor *)

\* Nothing to recover: an orphaned journal is pruned.
DoctorPrunes(p) ==
  /\ pc[p] = "idle" /\ lock = NoProc
  /\ AuditClean
  /\ journal' = NoJournal
  /\ UNCHANGED <<files, logs, lock, pc, plan, bounds, gap>>

\* A proven interrupted commit: one more commit, which patches
\* verification_head when the verification ledger ran ahead of it.
DoctorRecovers(p) ==
  /\ pc[p] = "idle" /\ lock = NoProc
  /\ DoctorMayRecover
  /\ lock' = p
  /\ plan' = [plan EXCEPT ![p] = PlanOf(DoctorCommand(HeadStale),
       IF HeadStale THEN [status EXCEPT !.vhead = vlog] ELSE None, None)]
  /\ Goto(p, "journal")
  /\ UNCHANGED <<files, journal, logs, bounds, gap>>

DoctorGivesUp(p) ==
  /\ pc[p] = "idle" /\ lock = NoProc
  /\ DoctorRefuses
  /\ UNCHANGED vars

-----------------------------------------------------------------------------
(* What happens to the files from outside. *)

\* What a kill leaves behind, named by the writes that had landed.
CrashGap(p) ==
  LET q == plan[p]
      c == q.command
      anchorless == c.records > 0
  IN CASE pc[p] = "record" -> IF q.records < c.records THEN "anchor" ELSE "none"
       [] pc[p] = "journal" -> IF anchorless THEN "anchor" ELSE "none"
       [] pc[p] = "acceptance" -> IF anchorless THEN "intent" ELSE "none"
       [] pc[p] = "status" -> IF c.acceptance THEN "half" ELSE IF anchorless THEN "intent" ELSE "none"
       [] pc[p] \in {"digest", "append"} ->
            IF (c.status \/ c.acceptance) /\ q.events = c.events THEN "files" ELSE "none"
       [] pc[p] = "head" -> "log"
       [] OTHER -> "none"

\* The process dies between two writes; the lock dies with it.
Crash(p) ==
  /\ pc[p] # "idle" /\ crashes < MaxCrashes
  /\ crashes' = crashes + 1
  /\ gap' = CrashGap(p)
  /\ Stop(p)
  /\ UNCHANGED <<files, journal, logs, version, edits>>

\* The process dies inside the append of an event line.
CrashInEvent(p, tear) ==
  /\ pc[p] = "append" /\ crashes < MaxCrashes
  /\ etail = "clean"
  /\ elog' = IF tear = "bare" THEN Append(elog, plan[p].line) ELSE elog
  /\ etail' = tear
  /\ crashes' = crashes + 1
  /\ gap' = "log"
  /\ Stop(p)
  /\ UNCHANGED <<files, journal, head, vlog, vtail, version, edits>>

\* The process dies inside the append of a verification record.
CrashInRecord(p, tear) ==
  /\ pc[p] = "record" /\ crashes < MaxCrashes
  /\ vtail = "clean"
  /\ vlog' = IF tear = "bare" THEN vlog + 1 ELSE vlog
  /\ vtail' = tear
  /\ faulty' \in BOOLEAN
  /\ crashes' = crashes + 1
  /\ gap' = IF tear = "bare" THEN "anchor" ELSE "log"
  /\ Stop(p)
  /\ UNCHANGED <<status, acceptance, journal, elog, etail, head, version, edits>>

\* An editor saves one of the files, at any time: editors take no lock.
HandEdit ==
  /\ edits < MaxEdits /\ version < MaxVersions
  /\ edits' = edits + 1 /\ version' = version + 1
  /\ \/ status' = [ver |-> version + 1, vhead |-> status.vhead, hand |-> TRUE] /\ UNCHANGED acceptance
     \/ acceptance' = [ver |-> version + 1, hand |-> TRUE] /\ UNCHANGED status
  /\ faulty' \in BOOLEAN
  /\ gap' = "none"
  /\ UNCHANGED <<journal, logs, lock, pc, plan, crashes>>

Continue(p) ==
  \/ AppendRecord(p) \/ WriteJournal(p) \/ WriteAcceptance(p) \/ WriteStatus(p)
  \/ DigestEvent(p) \/ RaiseOnTornLog(p) \/ AppendEvent(p) \/ ReplaceHead(p) \/ ClearJournal(p)

Next ==
  \/ \E p \in Procs : \E c \in Commands : Begin(p, c) \/ Refuse(p, c)
  \/ \E p \in Procs : Continue(p)
  \/ \E p \in Procs : DoctorPrunes(p) \/ DoctorRecovers(p) \/ DoctorGivesUp(p)
  \/ \E p \in Procs : Crash(p) \/ \E tear \in Tears : CrashInEvent(p, tear) \/ CrashInRecord(p, tear)
  \/ HandEdit

Spec == Init /\ [][Next]_vars

\* A started command runs on (or is killed), and somebody runs doctor again
\* and again while it has something to recover.
FairSpec ==
  /\ Spec
  /\ \A p \in Procs : WF_vars(Continue(p))
  /\ WF_vars(\E p \in Procs : DoctorRecovers(p))

-----------------------------------------------------------------------------
(* Properties *)

\* Every variable holds a value of its kind.  (handsoff_core.py, handsoff_ledger.py)
TypeOK ==
  /\ status \in StatusContent /\ acceptance \in AcceptanceContent /\ faulty \in BOOLEAN
  /\ journal \in Journal
  /\ elog \in Seq(EventLine) /\ etail \in {"clean", "bare", "torn"} /\ head \in Nat
  /\ vlog \in Nat /\ vtail \in {"clean", "bare", "torn"}
  /\ lock \in Procs \cup {NoProc}
  /\ pc \in [Procs -> Steps]
  /\ plan \in [Procs -> Plan]
  /\ version \in Nat /\ crashes \in Nat /\ edits \in Nat
  /\ gap \in Gaps

\* The status file never names a verification record that is not in the
\* ledger: the record is durable before any status that anchors it, through
\* every kill and every repair.  (append_verification before commit)
AnchorsExist == VerificationsIntact => status.vhead <= vlog

\* As long as nothing is killed or edited by hand, whenever no command is
\* running the two ledgers describe exactly the files on disk.  (commit)
IntactWithoutFaults ==
  (crashes = 0 /\ edits = 0 /\ \A p \in Procs : pc[p] = "idle") => AuditClean

\* What doctor had before it when it proved the files, and then records, is
\* never the work of an editor that no event had recorded before.  Only a file
\* saved between the proof and the event, which hashes what it finds, slips in
\* unproven.  (_proven in cmd_doctor; append_event in its commit)
DoctorRecords(p) ==
  /\ pc[p] = "append" /\ pc'[p] # "append" /\ Len(elog') > Len(elog)
  /\ plan[p].command.kind = "doctor"
SameContent(s, t) == s.ver = t.ver /\ s.hand = t.hand  \* but for the head doctor patches
DoctorNeverLaunders ==
  [][\A p \in Procs : DoctorRecords(p) =>
       LET line == plan[p].line
           read == plan[p].read
       IN /\ line.status.hand /\ SameContent(line.status, read.status) =>
               \E j \in 1..Len(elog) : elog[j].status.ver = line.status.ver
          /\ line.acceptance.hand /\ SameContent(line.acceptance, read.acceptance) =>
               \E j \in 1..Len(elog) : elog[j].acceptance.ver = line.acceptance.ver]_vars

\* The stronger reading of the doctor's own description: whatever its event
\* describes was written by a command or recorded before.
DoctorRecordsNoEdit ==
  \A i \in 1..Len(elog) : elog[i].kind = "doctor" =>
    /\ elog[i].status.hand => \E j \in 1..(i - 1) : elog[j].status.ver = elog[i].status.ver
    /\ elog[i].acceptance.hand => \E j \in 1..(i - 1) : elog[j].acceptance.ver = elog[i].acceptance.ver

\* After one kill that left every named file written but no event, or a record
\* appended but no journal, the only thing doctor can still refuse for, until
\* something else touches the files, is what compute_errors says of them.
TwoGapsRecover ==
  (crashes = 1 /\ edits = 0 /\ lock = NoProc /\ gap \in {"files", "anchor"} /\ vtail = "clean") =>
    (DoctorRefuses => faulty)

\* The wider reading of the second gap in the doctor's own description: a
\* record appended, its status update never landed.
SecondGapRecovers ==
  (crashes = 1 /\ edits = 0 /\ lock = NoProc /\ gap \in {"anchor", "intent"} /\ vtail = "clean") =>
    (DoctorRefuses => faulty)

\* After at most one kill and no edit, the content of each file is either what
\* the last event recorded or what the journal announces, so nothing on disk
\* is unexplained once the commands have stopped.
ExplainedOnDisk ==
  (crashes <= 1 /\ edits = 0 /\ lock = NoProc /\ etail = "clean") =>
    /\ status \in {LastEvent.status, journal.status}
    /\ acceptance \in {LastEvent.acceptance, journal.acceptance}

\* The first event of an auditing command follows an event that recorded
\* exactly the files the command read: no audited transition starts from a
\* state the log does not know, or skips one.  (_audit_errors and project_lock)
FirstEventOf(p) ==
  pc[p] = "append" /\ pc'[p] = "head" /\ plan[p].command.audited
  /\ plan[p].events = plan[p].command.events
AuditedContinuity ==
  [][\A p \in Procs : FirstEventOf(p) =>
       LastEvent.status = plan[p].read.status /\ LastEvent.acceptance = plan[p].read.acceptance]_vars

\* A kill that left one of the two recoverable gaps over files compute_errors
\* accepts is eventually healed, as long as doctor is not killed in turn (its
\* own journal replaces the proof it acted on), nobody edits the files first and
\* no other command leaves them with errors.
GapCloses ==
  (crashes = 1 /\ edits = 0 /\ gap \in {"files", "anchor"} /\ ~faulty) ~>
    (AuditClean \/ crashes > 1 \/ edits > 0 \/ faulty)
=============================================================================
