---------------------------- MODULE LedgerProofs ----------------------------
(***************************************************************************)
(* Machine-checked facts about Ledger, for any set of processes, any       *)
(* commands of the declared kinds and any number of kills and edits.       *)
(*                                                                         *)
(* A local plan is a record of the values a process will write; a step     *)
(* that writes one needs to know that the plan carries it.  PlanFits says  *)
(* so, and is what makes the type invariant inductive.                     *)
(***************************************************************************)
EXTENDS Ledger, TLAPS, SequenceTheorems

\* The part of a plan the next step of its process reads is there.
PlanFitsOf(p) ==
  LET q == plan[p]
      c == q.command
  IN /\ c.records > 0 => c.status
     /\ (c.status /\ pc[p] # "idle") => q.status \in StatusContent
     /\ (c.acceptance /\ pc[p] # "idle") => q.acceptance \in AcceptanceContent
     /\ pc[p] = "record" => c.records > 0 /\ q.records > 0
     /\ pc[p] = "acceptance" => c.acceptance
     /\ pc[p] = "status" => c.status
     /\ pc[p] \in {"record", "journal", "acceptance", "status", "digest", "append"} => q.events > 0
PlanFits == \A p \in Procs : PlanFitsOf(p)

\* A ledger that ends without a newline has a last record.
BareIsNotEmpty == vtail = "bare" => vlog > 0

TypeInv == TypeOK /\ PlanFits /\ BareIsNotEmpty

\* The contents a command writes and the plans it makes are of their kinds.
LEMMA PlanOfType ==
  ASSUME NEW c \in Command, NEW s \in StatusContent \cup {None},
         NEW a \in AcceptanceContent \cup {None}, TypeOK
  PROVE  PlanOf(c, s, a) \in Plan
  BY DEF PlanOf, Plan, TypeOK, Command, Kinds, NoLine, EventLine, StatusContent, AcceptanceContent

LEMMA NoPlanType == NoPlan \in Plan
  BY DEF NoPlan, NoteCommand, Plan, Command, Kinds, NoLine, EventLine, StatusContent, AcceptanceContent

LEMMA TypeInit == Init => TypeInv
<1> SUFFICES ASSUME Init PROVE TypeInv
  OBVIOUS
<1>1. TypeOK
  <2>1. faulty \in BOOLEAN
    BY DEF Init
  <2> QED
    BY <2>1, NoPlanType, LedgerAssumption DEF Init, TypeOK, StatusContent, AcceptanceContent, Journal,
       NoJournal, EventLine, Kinds, Steps, Gaps
<1>2. PlanFits
  <2> SUFFICES ASSUME NEW p \in Procs PROVE PlanFitsOf(p)
    BY DEF PlanFits
  <2>1. plan[p] = NoPlan /\ pc[p] = "idle"
    BY DEF Init
  <2>2. NoPlan.command.records = 0
    BY DEF NoPlan, NoteCommand
  <2> QED
    BY <2>1, <2>2 DEF PlanFitsOf
<1>3. BareIsNotEmpty
  BY DEF Init, BareIsNotEmpty
<1> QED
  BY <1>1, <1>2, <1>3 DEF TypeInv

\* A process that ends or dies leaves well-formed local state and a free lock.
LEMMA StopType ==
  ASSUME TypeOK, PlanFits, NEW p \in Procs, Stop(p)
  PROVE  /\ pc' \in [Procs -> Steps] /\ plan' \in [Procs -> Plan]
         /\ lock' \in Procs \cup {NoProc}
         /\ PlanFits'
<1>1. pc' \in [Procs -> Steps] /\ plan' \in [Procs -> Plan] /\ lock' \in Procs \cup {NoProc}
  BY NoPlanType DEF TypeOK, Stop, Goto, Steps
<1>2. PlanFitsOf(p)'
  BY <1>1 DEF Stop, Goto, TypeOK, PlanFitsOf, NoPlan, NoteCommand
<1>3. ASSUME NEW r \in Procs, r # p PROVE PlanFitsOf(r)'
  BY <1>3 DEF Stop, Goto, TypeOK, PlanFitsOf, PlanFits
<1> QED
  BY <1>1, <1>2, <1>3 DEF PlanFits

LEMMA BeginType ==
  ASSUME TypeInv, NEW p \in Procs, NEW c \in Commands, Begin(p, c)
  PROVE  TypeInv'
<1> DEFINE s == IF c.status THEN [ver |-> version + 1, vhead |-> status.vhead, hand |-> FALSE] ELSE None
           a == IF c.acceptance THEN [ver |-> version + 1, hand |-> FALSE] ELSE None
<1>1. c \in Command /\ (c.records > 0 => c.status)
  BY LedgerAssumption
<1>2. /\ s \in StatusContent \cup {None} /\ a \in AcceptanceContent \cup {None}
      /\ c.status => s \in StatusContent
      /\ c.acceptance => a \in AcceptanceContent
  BY DEF TypeInv, TypeOK, StatusContent, AcceptanceContent
<1>3. plan' = [plan EXCEPT ![p] = PlanOf(c, s, a)] /\ PlanOf(c, s, a) \in Plan
  BY <1>1, <1>2, PlanOfType DEF Begin, Planned, TypeInv
<1> HIDE DEF s, a
<1>4. TypeOK'
  <2>1. plan' \in [Procs -> Plan]
    BY <1>3 DEF TypeInv, TypeOK
  <2>2. pc' \in [Procs -> Steps] /\ pc' = [pc EXCEPT ![p] = AfterRead(c)]
    BY DEF TypeInv, TypeOK, Begin, Planned, Goto, AfterRead, Steps
  <2> QED
    BY <2>1, <2>2 DEF TypeInv, TypeOK, Begin, Planned, files, logs, Gaps
<1>5. PlanFitsOf(p)'
  <2>1. plan'[p] = PlanOf(c, s, a) /\ pc'[p] = AfterRead(c)
    BY <1>3 DEF TypeInv, TypeOK, Begin, Planned, Goto
  <2> QED
    BY <2>1, <1>1, <1>2 DEF PlanFitsOf, PlanOf, AfterRead, Command
<1>6. ASSUME NEW r \in Procs, r # p PROVE PlanFitsOf(r)'
  <2>1. plan'[r] = plan[r] /\ pc'[r] = pc[r]
    BY <1>3, <1>6 DEF TypeInv, TypeOK, Begin, Planned, Goto
  <2> QED
    BY <2>1 DEF PlanFitsOf, PlanFits, TypeInv
<1>7. BareIsNotEmpty'
  BY DEF TypeInv, BareIsNotEmpty, Begin, Planned, logs
<1> QED
  BY <1>4, <1>5, <1>6, <1>7 DEF TypeInv, PlanFits


\* A process other than the one that steps keeps its fit.
LEMMA OthersFit ==
  ASSUME TypeInv, NEW p \in Procs, PlanFitsOf(p)',
         \A r \in Procs : r # p => pc'[r] = pc[r] /\ plan'[r] = plan[r]
  PROVE  PlanFits'
<1> SUFFICES ASSUME NEW r \in Procs, r # p PROVE PlanFitsOf(r)'
  BY DEF PlanFits
<1> QED
  BY DEF PlanFitsOf, PlanFits, TypeInv

LEMMA AppendRecordType ==
  ASSUME TypeInv, NEW p \in Procs, AppendRecord(p)
  PROVE  TypeInv'
<1> DEFINE q == plan[p]
           new == Anchoring(q)
<1>1. q \in Plan /\ q.status \in StatusContent /\ q.records \in Nat /\ q.records > 0
      /\ q.command \in Command /\ q.command.records > 0 /\ q.command.status /\ pc[p] = "record"
      /\ q.events > 0
  BY DEF TypeInv, TypeOK, AppendRecord, PlanFits, PlanFitsOf, Plan
<1>2. /\ new \in Plan /\ new.status \in StatusContent /\ new.records = q.records - 1
      /\ new.command = q.command /\ new.acceptance = q.acceptance /\ new.events = q.events
  <2> DEFINE s == [q.status EXCEPT !.vhead = vlog + 1]
             n == q.records - 1
  <2>1. s \in StatusContent /\ n \in Nat
    <3>1. vlog + 1 \in Nat /\ n \in Nat
      BY <1>1 DEF TypeInv, TypeOK
    <3>2. \A k \in Nat : [q.status EXCEPT !.vhead = k] \in StatusContent
      BY <1>1 DEF StatusContent
    <3> QED
      BY <3>1, <3>2
  <2>2. new = [q EXCEPT !.status = s, !.records = n]
    BY DEF Anchoring
  <2> HIDE DEF s, n, q, new
  <2>3. new.status = s /\ new.records = n /\ new.command = q.command
        /\ new.acceptance = q.acceptance /\ new.events = q.events
    BY <1>1, <2>2 DEF Plan
  <2>4. new \in Plan
    BY <1>1, <2>1, <2>2 DEF Plan
  <2> QED
    BY <2>1, <2>3, <2>4 DEF n
<1> HIDE DEF new
<1>3. plan' = [plan EXCEPT ![p] = new]
  BY DEF AppendRecord, new
<1>4. vlog' \in Nat /\ vtail' \in {"clean", "bare", "torn"} /\ BareIsNotEmpty'
  BY DEF AppendRecord, TypeInv, TypeOK, BareIsNotEmpty
<1>5. pc' \in [Procs -> Steps] /\ plan' \in [Procs -> Plan]
  BY <1>2, <1>3 DEF AppendRecord, TypeInv, TypeOK, Goto, Steps
<1>6. TypeOK'
  BY <1>4, <1>5 DEF AppendRecord, TypeInv, TypeOK, files, bounds
<1>7. PlanFitsOf(p)'
  <2>1. plan'[p] = new /\ pc'[p] = IF q.records > 1 THEN "record" ELSE "journal"
    BY <1>3 DEF AppendRecord, TypeInv, TypeOK, Goto
  <2>2. q.command.acceptance => q.acceptance \in AcceptanceContent
    BY <1>1 DEF TypeInv, PlanFits, PlanFitsOf
  <2> QED
    BY <2>1, <2>2, <1>1, <1>2 DEF PlanFitsOf
<1>8. PlanFits'
  BY <1>3, <1>7, OthersFit DEF AppendRecord, TypeInv, TypeOK, Goto
<1> QED
  BY <1>4, <1>6, <1>8 DEF TypeInv

LEMMA WriteJournalType ==
  ASSUME TypeInv, NEW p \in Procs, WriteJournal(p)
  PROVE  TypeInv'
<1>1. plan[p] \in Plan /\ pc[p] = "journal" /\ plan[p].events > 0 /\ plan' = plan
  BY DEF TypeInv, TypeOK, WriteJournal, PlanFits, PlanFitsOf
<1>2. pc' = [pc EXCEPT ![p] = AfterJournal(plan[p].command)] /\ pc' \in [Procs -> Steps]
  BY DEF WriteJournal, Goto, TypeInv, TypeOK, AfterJournal, Steps
<1>3. TypeOK'
  BY <1>1, <1>2 DEF WriteJournal, TypeInv, TypeOK, files, logs, bounds, Journal, Plan
<1>4. PlanFitsOf(p)'
  BY <1>1, <1>2 DEF TypeInv, TypeOK, PlanFits, PlanFitsOf, AfterJournal, Plan, Command
<1>5. PlanFits'
  BY <1>1, <1>2, <1>4, OthersFit DEF TypeInv, TypeOK
<1> QED
  BY <1>3, <1>5 DEF WriteJournal, TypeInv, BareIsNotEmpty, logs

LEMMA WriteAcceptanceType ==
  ASSUME TypeInv, NEW p \in Procs, WriteAcceptance(p)
  PROVE  TypeInv'
<1>1. /\ plan[p] \in Plan /\ pc[p] = "acceptance" /\ plan[p].events > 0 /\ plan' = plan
      /\ plan[p].acceptance \in AcceptanceContent
  BY DEF TypeInv, TypeOK, WriteAcceptance, PlanFits, PlanFitsOf
<1>2. pc' = [pc EXCEPT ![p] = AfterAcceptance(plan[p].command)] /\ pc' \in [Procs -> Steps]
  BY DEF WriteAcceptance, Goto, TypeInv, TypeOK, AfterAcceptance, Steps
<1>3. TypeOK'
  BY <1>1, <1>2 DEF WriteAcceptance, TypeInv, TypeOK, logs, bounds
<1>4. PlanFitsOf(p)'
  BY <1>1, <1>2 DEF TypeInv, TypeOK, PlanFits, PlanFitsOf, AfterAcceptance, Plan, Command
<1>5. PlanFits'
  BY <1>1, <1>2, <1>4, OthersFit DEF TypeInv, TypeOK
<1> QED
  BY <1>3, <1>5 DEF WriteAcceptance, TypeInv, BareIsNotEmpty, logs

LEMMA WriteStatusType ==
  ASSUME TypeInv, NEW p \in Procs, WriteStatus(p)
  PROVE  TypeInv'
<1>1. /\ plan[p] \in Plan /\ pc[p] = "status" /\ plan[p].events > 0 /\ plan' = plan
      /\ plan[p].status \in StatusContent
  BY DEF TypeInv, TypeOK, WriteStatus, PlanFits, PlanFitsOf
<1>2. pc' = [pc EXCEPT ![p] = "digest"] /\ pc' \in [Procs -> Steps]
  BY DEF WriteStatus, Goto, TypeInv, TypeOK, Steps
<1>3. TypeOK'
  BY <1>1, <1>2 DEF WriteStatus, TypeInv, TypeOK, logs, bounds
<1>4. PlanFitsOf(p)'
  BY <1>1, <1>2 DEF TypeInv, TypeOK, PlanFits, PlanFitsOf
<1>5. PlanFits'
  BY <1>1, <1>2, <1>4, OthersFit DEF TypeInv, TypeOK
<1> QED
  BY <1>3, <1>5 DEF WriteStatus, TypeInv, BareIsNotEmpty, logs

LEMMA DigestEventType ==
  ASSUME TypeInv, NEW p \in Procs, DigestEvent(p)
  PROVE  TypeInv'
<1> DEFINE line == [prev |-> Len(elog), kind |-> plan[p].command.kind,
                    status |-> status, acceptance |-> acceptance]
<1>1. plan[p] \in Plan /\ pc[p] = "digest" /\ plan[p].events > 0
  BY DEF TypeInv, TypeOK, DigestEvent, PlanFits, PlanFitsOf
<1>2. line \in EventLine
  BY <1>1 DEF TypeInv, TypeOK, EventLine, Plan, Command
<1>3. plan' = [plan EXCEPT ![p].line = line] /\ pc' = [pc EXCEPT ![p] = "append"]
  BY DEF DigestEvent, Goto
<1> HIDE DEF line
<1>4. plan' \in [Procs -> Plan] /\ pc' \in [Procs -> Steps]
  BY <1>1, <1>2, <1>3 DEF TypeInv, TypeOK, Plan, Steps
<1>5. TypeOK'
  BY <1>4 DEF DigestEvent, TypeInv, TypeOK, files, logs, bounds
<1>6. PlanFitsOf(p)'
  <2>1. plan'[p] = [plan[p] EXCEPT !.line = line] /\ pc'[p] = "append"
    BY <1>3 DEF TypeInv, TypeOK
  <2> QED
    BY <2>1, <1>1 DEF TypeInv, PlanFits, PlanFitsOf, Plan
<1>7. PlanFits'
  BY <1>3, <1>6, OthersFit DEF TypeInv, TypeOK
<1> QED
  BY <1>5, <1>7 DEF DigestEvent, TypeInv, BareIsNotEmpty, logs

LEMMA AppendEventType ==
  ASSUME TypeInv, NEW p \in Procs, AppendEvent(p)
  PROVE  TypeInv'
<1>1. plan[p] \in Plan /\ pc[p] = "append" /\ plan[p].events \in Nat /\ plan[p].events > 0
  BY DEF TypeInv, TypeOK, AppendEvent, PlanFits, PlanFitsOf, Plan
<1>2. elog' \in Seq(EventLine) /\ etail' \in {"clean", "bare", "torn"}
  <2>1. elog \in Seq(EventLine) /\ plan[p].line \in EventLine /\ etail \in {"clean", "bare", "torn"}
    BY <1>1 DEF TypeInv, TypeOK, Plan
  <2>2. CASE etail = "clean"
    BY <2>1, <2>2 DEF AppendEvent
  <2>3. CASE etail = "bare"
    <3>1. elog' = SubSeq(elog, 1, Len(elog) - 1)
      BY <2>3 DEF AppendEvent
    <3>2. SubSeq(elog, 1, Len(elog) - 1) \in Seq(EventLine)
      BY <2>1
    <3> QED
      BY <3>1, <3>2, <2>3 DEF AppendEvent
  <2>4. CASE etail = "torn"
    BY <2>1, <2>4 DEF AppendEvent
  <2> QED
    BY <2>1, <2>2, <2>3, <2>4
<1>3. plan' = [plan EXCEPT ![p].at = Len(elog) + 1, ![p].events = @ - 1]
      /\ pc' = [pc EXCEPT ![p] = "head"]
  BY DEF AppendEvent, Goto
<1>4. plan' \in [Procs -> Plan] /\ pc' \in [Procs -> Steps]
  BY <1>1, <1>3 DEF TypeInv, TypeOK, Plan, Steps
<1>5. TypeOK'
  BY <1>2, <1>4 DEF AppendEvent, TypeInv, TypeOK, files, bounds
<1>6. PlanFitsOf(p)'
  <2>1. /\ plan'[p] = [plan[p] EXCEPT !.at = Len(elog) + 1, !.events = @ - 1]
        /\ pc'[p] = "head"
    BY <1>3 DEF TypeInv, TypeOK
  <2> QED
    BY <2>1, <1>1 DEF TypeInv, PlanFits, PlanFitsOf, Plan
<1>7. PlanFits'
  BY <1>3, <1>6, OthersFit DEF TypeInv, TypeOK
<1> QED
  BY <1>5, <1>7 DEF AppendEvent, TypeInv, BareIsNotEmpty

LEMMA ReplaceHeadType ==
  ASSUME TypeInv, NEW p \in Procs, ReplaceHead(p)
  PROVE  TypeInv'
<1>1. plan[p] \in Plan /\ pc[p] = "head" /\ head' \in Nat
  BY DEF TypeInv, TypeOK, ReplaceHead, Plan
<1>2. /\ pc' \in [Procs -> Steps] /\ plan' \in [Procs -> Plan]
      /\ lock' \in Procs \cup {NoProc} /\ PlanFits'
  <2>1. CASE Stop(p)
    BY <2>1, StopType DEF TypeInv
  <2>2. CASE UNCHANGED <<lock, plan>> /\ \/ plan[p].events > 0 /\ Goto(p, "digest")
                                         \/ Goto(p, "clear")
    <3>1. pc' \in [Procs -> Steps] /\ \A r \in Procs : r # p => pc'[r] = pc[r] /\ plan'[r] = plan[r]
      BY <2>2 DEF TypeInv, TypeOK, Goto, Steps
    <3>2. PlanFitsOf(p)'
      BY <2>2, <1>1 DEF TypeInv, TypeOK, Goto, PlanFits, PlanFitsOf
    <3> QED
      BY <2>2, <3>1, <3>2, OthersFit DEF TypeInv, TypeOK
  <2> QED
    BY <2>1, <2>2 DEF ReplaceHead
<1> QED
  BY <1>1, <1>2 DEF ReplaceHead, TypeInv, TypeOK, BareIsNotEmpty, files, bounds

\* The steps that end a process: nothing but the journal may change with it.
LEMMA EndType ==
  ASSUME TypeInv, NEW p \in Procs, Stop(p), UNCHANGED <<files, logs>>,
         journal' \in Journal, bounds' \in Nat \X Nat \X Nat, gap' \in Gaps
  PROVE  TypeInv'
<1>1. /\ pc' \in [Procs -> Steps] /\ plan' \in [Procs -> Plan]
      /\ lock' \in Procs \cup {NoProc} /\ PlanFits'
  BY StopType DEF TypeInv
<1>2. version' \in Nat /\ crashes' \in Nat /\ edits' \in Nat
  BY DEF bounds
<1> QED
  BY <1>1, <1>2 DEF TypeInv, TypeOK, BareIsNotEmpty, files, logs

LEMMA ContinueType ==
  ASSUME TypeInv, NEW p \in Procs, Continue(p)
  PROVE  TypeInv'
<1>1. CASE RaiseOnTornLog(p)
  BY <1>1, EndType DEF RaiseOnTornLog, TypeInv, TypeOK, bounds
<1>2. CASE ClearJournal(p)
  BY <1>2, EndType DEF ClearJournal, TypeInv, TypeOK, bounds, Journal, NoJournal
<1> QED
  BY <1>1, <1>2, AppendRecordType, WriteJournalType, WriteAcceptanceType, WriteStatusType,
     DigestEventType, AppendEventType, ReplaceHeadType DEF Continue

LEMMA DoctorRecoversType ==
  ASSUME TypeInv, NEW p \in Procs, DoctorRecovers(p)
  PROVE  TypeInv'
<1> DEFINE c == DoctorCommand(HeadStale)
           s == IF HeadStale THEN [status EXCEPT !.vhead = vlog] ELSE None
<1>1. /\ c \in Command /\ c.records = 0 /\ c.events = 1 /\ c.status = HeadStale /\ c.acceptance = FALSE
  BY DEF DoctorCommand, Command, Kinds, HeadStale
<1>2. s \in StatusContent \cup {None} /\ (HeadStale => s \in StatusContent)
  BY DEF TypeInv, TypeOK, StatusContent
<1>3. plan' = [plan EXCEPT ![p] = PlanOf(c, s, None)] /\ pc' = [pc EXCEPT ![p] = "journal"]
  BY DEF DoctorRecovers, Goto
<1> HIDE DEF c, s
<1>4. PlanOf(c, s, None) \in Plan
  BY <1>1, <1>2, PlanOfType DEF TypeInv
<1>5. TypeOK'
  BY <1>3, <1>4 DEF DoctorRecovers, TypeInv, TypeOK, files, logs, bounds, Steps
<1>6. PlanFitsOf(p)'
  <2>1. plan'[p] = PlanOf(c, s, None) /\ pc'[p] = "journal"
    BY <1>3 DEF TypeInv, TypeOK
  <2> QED
    BY <2>1, <1>1, <1>2 DEF PlanFitsOf, PlanOf
<1>7. PlanFits'
  BY <1>3, <1>6, OthersFit DEF TypeInv, TypeOK
<1> QED
  BY <1>5, <1>7 DEF DoctorRecovers, TypeInv, BareIsNotEmpty, logs

LEMMA CrashType ==
  ASSUME TypeInv, NEW p \in Procs,
         Crash(p) \/ \E tear \in Tears : CrashInEvent(p, tear) \/ CrashInRecord(p, tear)
  PROVE  TypeInv'
<1>1. CASE Crash(p)
  <2>1. CrashGap(p) \in Gaps
    BY DEF CrashGap, Gaps
  <2> QED
    BY <1>1, <2>1, EndType DEF Crash, TypeInv, TypeOK, bounds
<1>2. ASSUME NEW tear \in Tears, CrashInEvent(p, tear) PROVE TypeInv'
  <2>1. /\ pc' \in [Procs -> Steps] /\ plan' \in [Procs -> Plan]
        /\ lock' \in Procs \cup {NoProc} /\ PlanFits'
    BY <1>2, StopType DEF TypeInv, CrashInEvent
  <2>2. elog' \in Seq(EventLine) /\ etail' \in {"clean", "bare", "torn"}
    <3>1. plan[p].line \in EventLine /\ tear \in {"bare", "torn"}
      BY LedgerAssumption DEF TypeInv, TypeOK, Plan
    <3> QED
      BY <1>2, <3>1 DEF CrashInEvent, TypeInv, TypeOK
  <2> QED
    BY <1>2, <2>1, <2>2 DEF CrashInEvent, TypeInv, TypeOK, BareIsNotEmpty, files, Gaps
<1>3. ASSUME NEW tear \in Tears, CrashInRecord(p, tear) PROVE TypeInv'
  <2>1. /\ pc' \in [Procs -> Steps] /\ plan' \in [Procs -> Plan]
        /\ lock' \in Procs \cup {NoProc} /\ PlanFits'
    BY <1>3, StopType DEF TypeInv, CrashInRecord
  <2>2. tear \in {"bare", "torn"}
    BY LedgerAssumption
  <2> QED
    BY <1>3, <2>1, <2>2 DEF CrashInRecord, TypeInv, TypeOK, BareIsNotEmpty, files, Gaps
<1> QED
  BY <1>1, <1>2, <1>3

LEMMA TypeNext == TypeInv /\ [Next]_vars => TypeInv'
<1> SUFFICES ASSUME TypeInv, [Next]_vars PROVE TypeInv'
  OBVIOUS
<1>1. ASSUME UNCHANGED vars PROVE TypeInv'
  BY <1>1 DEF vars, files, logs, bounds, TypeInv, TypeOK, PlanFits, PlanFitsOf, BareIsNotEmpty
<1>2. ASSUME NEW p \in Procs, NEW c \in Commands, Begin(p, c) \/ Refuse(p, c) PROVE TypeInv'
  BY <1>1, <1>2, BeginType DEF Refuse
<1>3. ASSUME NEW p \in Procs, Continue(p) PROVE TypeInv'
  BY <1>3, ContinueType
<1>4. ASSUME NEW p \in Procs, DoctorPrunes(p) \/ DoctorRecovers(p) \/ DoctorGivesUp(p) PROVE TypeInv'
  <2>1. CASE DoctorPrunes(p)
    BY <2>1 DEF DoctorPrunes, vars, files, logs, bounds, TypeInv, TypeOK, PlanFits, PlanFitsOf,
       BareIsNotEmpty, Journal, NoJournal
  <2> QED
    BY <1>1, <1>4, <2>1, DoctorRecoversType DEF DoctorGivesUp
<1>5. ASSUME NEW p \in Procs,
             Crash(p) \/ \E tear \in Tears : CrashInEvent(p, tear) \/ CrashInRecord(p, tear)
      PROVE TypeInv'
  BY <1>5, CrashType
<1>6. ASSUME HandEdit PROVE TypeInv'
  <2>1. status' \in StatusContent /\ acceptance' \in AcceptanceContent
    <3>1. version + 1 \in Nat /\ status.vhead \in Nat
      BY DEF TypeInv, TypeOK, StatusContent
    <3>2. \A k \in Nat : /\ [ver |-> k, vhead |-> status.vhead, hand |-> TRUE] \in StatusContent
                         /\ [ver |-> k, hand |-> TRUE] \in AcceptanceContent
      BY <3>1 DEF StatusContent, AcceptanceContent
    <3> QED
      BY <1>6, <3>1, <3>2 DEF HandEdit, TypeInv, TypeOK
  <2>2. TypeOK'
    BY <1>6, <2>1 DEF HandEdit, logs, TypeInv, TypeOK, Gaps
  <2> QED
    BY <1>6, <2>2 DEF HandEdit, logs, TypeInv, PlanFits, PlanFitsOf, BareIsNotEmpty
<1> QED
  BY <1>1, <1>2, <1>3, <1>4, <1>5, <1>6 DEF Next

\* Every reachable state is well typed, whatever runs, dies or is edited.
THEOREM TypeCorrect == Spec => []TypeOK
<1>1. TypeInv => TypeOK
  BY DEF TypeInv
<1> QED
  BY TypeInit, TypeNext, <1>1, PTL DEF Spec

-----------------------------------------------------------------------------
(***************************************************************************)
(* The anchor never runs ahead of the ledger.  AnchorsExist is not         *)
(* inductive: a status that is about to be written, held in a plan, must   *)
(* not name a missing record either.                                       *)
(***************************************************************************)
PlansAnchorBack ==
  \A p \in Procs : plan[p].status \in StatusContent => plan[p].status.vhead <= vlog
AnchorInv == VerificationsIntact => status.vhead <= vlog /\ PlansAnchorBack

LEMMA AnchorInit == Init => AnchorInv
<1> SUFFICES ASSUME Init PROVE AnchorInv
  OBVIOUS
<1>1. \A p \in Procs : plan[p].status = None
  BY DEF Init, NoPlan
<1> QED
  BY <1>1, NoneAssumption DEF Init, AnchorInv, PlansAnchorBack

\* A process that stops holds no status to write.
LEMMA StopAnchor ==
  ASSUME TypeInv, PlansAnchorBack, NEW p \in Procs, Stop(p), vlog' \in Nat, vlog' >= vlog
  PROVE  PlansAnchorBack'
<1> SUFFICES ASSUME NEW r \in Procs, plan'[r].status \in StatusContent
             PROVE  plan'[r].status.vhead <= vlog'
  BY DEF PlansAnchorBack
<1>1. r # p /\ plan'[r] = plan[r]
  BY NoneAssumption DEF Stop, NoPlan, TypeInv, TypeOK
<1>2. plan[r].status.vhead <= vlog /\ plan[r].status.vhead \in Nat
  BY <1>1 DEF PlansAnchorBack, StatusContent
<1> QED
  BY <1>1, <1>2 DEF TypeInv, TypeOK

\* A process that begins takes over the anchor of the status it read.
LEMMA ReplanAnchor ==
  ASSUME TypeInv, PlansAnchorBack, NEW p \in Procs, NEW q, plan' = [plan EXCEPT ![p] = q],
         q.status \in StatusContent => q.status.vhead <= vlog',
         vlog' \in Nat, vlog' >= vlog
  PROVE  PlansAnchorBack'
<1> SUFFICES ASSUME NEW r \in Procs, plan'[r].status \in StatusContent
             PROVE  plan'[r].status.vhead <= vlog'
  BY DEF PlansAnchorBack
<1>1. CASE r = p
  BY <1>1 DEF TypeInv, TypeOK
<1>2. CASE r # p
  <2>1. plan'[r] = plan[r]
    BY <1>2 DEF TypeInv, TypeOK
  <2>2. plan[r].status.vhead <= vlog /\ plan[r].status.vhead \in Nat
    BY <2>1 DEF PlansAnchorBack, StatusContent
  <2> QED
    BY <2>1, <2>2 DEF TypeInv, TypeOK
<1> QED
  BY <1>1, <1>2

LEMMA AnchorBegin ==
  ASSUME TypeInv, AnchorInv, NEW p \in Procs, NEW c \in Commands, Begin(p, c)
  PROVE  AnchorInv'
<1> SUFFICES ASSUME VerificationsIntact' PROVE status'.vhead <= vlog' /\ PlansAnchorBack'
  BY DEF AnchorInv
<1>1. status.vhead <= vlog /\ PlansAnchorBack /\ status' = status /\ vlog' = vlog
  BY DEF AnchorInv, Begin, Planned, VerificationsIntact, files, logs
<1> DEFINE s == IF c.status THEN [ver |-> version + 1, vhead |-> status.vhead, hand |-> FALSE] ELSE None
           a == IF c.acceptance THEN [ver |-> version + 1, hand |-> FALSE] ELSE None
           q == PlanOf(c, s, a)
<1>2. q.status \in StatusContent => q.status.vhead <= vlog'
  BY <1>1, NoneAssumption DEF PlanOf
<1>3. plan' = [plan EXCEPT ![p] = q]
  BY DEF Begin, Planned
<1> HIDE DEF q
<1>4. vlog' \in Nat /\ vlog' >= vlog
  BY <1>1 DEF TypeInv, TypeOK
<1>5. PlansAnchorBack'
  BY <1>1, <1>2, <1>3, <1>4, ReplanAnchor
<1> QED
  BY <1>1, <1>5

LEMMA AnchorAppendRecord ==
  ASSUME TypeInv, AnchorInv, NEW p \in Procs, AppendRecord(p)
  PROVE  AnchorInv'
<1> SUFFICES ASSUME VerificationsIntact' PROVE status'.vhead <= vlog' /\ PlansAnchorBack'
  BY DEF AnchorInv
<1>1. /\ vlog' = vlog + 1 /\ status' = status
      /\ status.vhead <= vlog /\ PlansAnchorBack /\ vlog \in Nat /\ status.vhead \in Nat
  BY DEF AnchorInv, AppendRecord, VerificationsIntact, files, TypeInv, TypeOK, StatusContent
<1>2. Anchoring(plan[p]).status.vhead = vlog + 1
  <2>1. plan[p] \in Plan /\ plan[p].status \in StatusContent
    BY DEF TypeInv, TypeOK, PlanFits, PlanFitsOf, AppendRecord
  <2> QED
    BY <2>1 DEF Anchoring, Plan, StatusContent
<1>3. plan' = [plan EXCEPT ![p] = Anchoring(plan[p])]
  BY DEF AppendRecord
<1>4. vlog' \in Nat /\ vlog' >= vlog /\ status'.vhead <= vlog' /\ vlog + 1 <= vlog'
  BY <1>1
<1>5. PlansAnchorBack'
  BY <1>1, <1>2, <1>3, <1>4, ReplanAnchor
<1> QED
  BY <1>4, <1>5

LEMMA AnchorContinue ==
  ASSUME TypeInv, AnchorInv, NEW p \in Procs, Continue(p)
  PROVE  AnchorInv'
<1>1. CASE AppendRecord(p)
  BY <1>1, AnchorAppendRecord
<1>2. CASE WriteJournal(p) \/ WriteAcceptance(p)
  BY <1>2 DEF WriteJournal, WriteAcceptance, files, logs, AnchorInv, VerificationsIntact, PlansAnchorBack
<1>3. CASE WriteStatus(p)
  <2>1. plan[p].status \in StatusContent /\ status' = plan[p].status
    BY <1>3 DEF WriteStatus, TypeInv, PlanFits, PlanFitsOf
  <2> QED
    BY <1>3, <2>1 DEF WriteStatus, logs, AnchorInv, VerificationsIntact, PlansAnchorBack
<1>4. CASE RaiseOnTornLog(p) \/ ClearJournal(p)
  BY <1>4, StopAnchor DEF RaiseOnTornLog, ClearJournal, files, logs, AnchorInv, VerificationsIntact,
     TypeInv, TypeOK
<1>5. CASE DigestEvent(p) \/ AppendEvent(p)
  <2>1. ASSUME NEW r \in Procs PROVE plan'[r].status = plan[r].status
    <3>1. plan \in [Procs -> Plan]
      BY DEF TypeInv, TypeOK
    <3>2. CASE DigestEvent(p)
      BY <3>1, <3>2 DEF DigestEvent, Plan
    <3>3. CASE AppendEvent(p)
      BY <3>1, <3>3 DEF AppendEvent, Plan
    <3> QED
      BY <1>5, <3>2, <3>3
  <2> QED
    BY <1>5, <2>1 DEF DigestEvent, AppendEvent, files, logs, AnchorInv, VerificationsIntact, PlansAnchorBack
<1>6. CASE ReplaceHead(p)
  <2>1. status' = status /\ vlog' = vlog /\ vtail' = vtail
    BY <1>6 DEF ReplaceHead, files
  <2>2. plan' = plan \/ Stop(p)
    BY <1>6 DEF ReplaceHead
  <2> QED
    BY <2>1, <2>2, StopAnchor DEF AnchorInv, VerificationsIntact, PlansAnchorBack, TypeInv, TypeOK
<1> QED
  BY <1>1, <1>2, <1>3, <1>4, <1>5, <1>6 DEF Continue

LEMMA AnchorDoctor ==
  ASSUME TypeInv, AnchorInv, NEW p \in Procs, DoctorRecovers(p)
  PROVE  AnchorInv'
<1> DEFINE q == PlanOf(DoctorCommand(HeadStale), IF HeadStale THEN [status EXCEPT !.vhead = vlog] ELSE None, None)
<1>1. /\ status' = status /\ vlog' = vlog /\ vlog \in Nat /\ vtail' = vtail
      /\ plan' = [plan EXCEPT ![p] = q]
  BY DEF DoctorRecovers, files, logs, TypeInv, TypeOK
<1>2. q.status \in StatusContent => q.status.vhead <= vlog'
  <2>1. [status EXCEPT !.vhead = vlog].vhead = vlog
    BY DEF TypeInv, TypeOK, StatusContent
  <2> QED
    BY <1>1, <2>1, NoneAssumption DEF PlanOf
<1> HIDE DEF q
<1>3. vlog' \in Nat /\ vlog' >= vlog
  BY <1>1
<1>4. PlansAnchorBack => PlansAnchorBack'
  BY <1>1, <1>2, <1>3, ReplanAnchor
<1> QED
  BY <1>1, <1>4 DEF AnchorInv, VerificationsIntact

LEMMA AnchorCrash ==
  ASSUME TypeInv, AnchorInv, NEW p \in Procs,
         Crash(p) \/ \E tear \in Tears : CrashInEvent(p, tear) \/ CrashInRecord(p, tear)
  PROVE  AnchorInv'
<1>1. CASE Crash(p) \/ \E tear \in Tears : CrashInEvent(p, tear)
  <2>1. Stop(p) /\ status' = status /\ vlog' = vlog /\ vtail' = vtail
    BY <1>1 DEF Crash, CrashInEvent, files, logs
  <2>2. vlog' \in Nat /\ vlog' >= vlog
    BY <2>1 DEF TypeInv, TypeOK
  <2> QED
    BY <2>1, <2>2, StopAnchor DEF AnchorInv, VerificationsIntact
<1>2. ASSUME NEW tear \in Tears, CrashInRecord(p, tear) PROVE AnchorInv'
  <2>1. vlog \in Nat /\ vlog' \in Nat /\ vlog' >= vlog /\ vtail = "clean" /\ Stop(p) /\ status' = status
    BY <1>2 DEF CrashInRecord, TypeInv, TypeOK, files
  <2>2. status.vhead <= vlog /\ PlansAnchorBack /\ status.vhead \in Nat
    BY <2>1 DEF AnchorInv, VerificationsIntact, TypeInv, TypeOK, StatusContent
  <2> QED
    BY <2>1, <2>2, StopAnchor DEF AnchorInv
<1> QED
  BY <1>1, <1>2

LEMMA AnchorNext == TypeInv /\ AnchorInv /\ [Next]_vars => AnchorInv'
<1> SUFFICES ASSUME TypeInv, AnchorInv, [Next]_vars PROVE AnchorInv'
  OBVIOUS
<1>1. ASSUME UNCHANGED <<files, logs, plan>> PROVE AnchorInv'
  BY <1>1 DEF files, logs, AnchorInv, VerificationsIntact, PlansAnchorBack
<1>2. ASSUME NEW p \in Procs, NEW c \in Commands, Begin(p, c) \/ Refuse(p, c) PROVE AnchorInv'
  BY <1>1, <1>2, AnchorBegin DEF Refuse, vars
<1>3. ASSUME NEW p \in Procs, DoctorPrunes(p) \/ DoctorRecovers(p) \/ DoctorGivesUp(p) PROVE AnchorInv'
  BY <1>1, <1>3, AnchorDoctor DEF DoctorPrunes, DoctorGivesUp, vars
<1>4. ASSUME HandEdit PROVE AnchorInv'
  <2>1. status'.vhead = status.vhead
    BY <1>4 DEF HandEdit
  <2> QED
    BY <1>4, <2>1 DEF HandEdit, logs, AnchorInv, VerificationsIntact, PlansAnchorBack
<1>5. CASE UNCHANGED vars
  BY <1>1, <1>5 DEF vars
<1> QED
  BY <1>2, <1>3, <1>4, <1>5, AnchorContinue, AnchorCrash DEF Next

\* While the verification ledger parses, the status file never names a record
\* that is not in it.
THEOREM AnchorsAlwaysExist == Spec => []AnchorsExist
<1>1. AnchorInv => AnchorsExist
  BY DEF AnchorInv, AnchorsExist
<1> QED
  BY TypeInit, TypeNext, AnchorInit, AnchorNext, <1>1, PTL DEF Spec

-----------------------------------------------------------------------------
(* What commit and doctor keep true of a run's files.  Commands that hold  *)
(* the project lock work one at a time, so that the files are as the last  *)
(* command left them but for what one process is in the middle of writing. *)
(* The invariant says, at every write of a command, what it has left half  *)
(* done: while nothing went wrong, after one kill, and after the kills     *)
(* doctor is there to repair.                                              *)


\* Every command holds the lock; unlocked_note is the one that does not.
AllLocked == \A c \in Commands : c.locked

Quiet == \A p \in Procs : pc[p] = "idle"
Alone == \A p \in Procs : pc[p] # "idle" => lock = p

Faultless == crashes = 0 /\ edits = 0
OneFault == crashes <= 1 /\ edits = 0
Healing == crashes = 1 /\ edits = 0 /\ gap \in {"files", "anchor"} /\ vtail = "clean"

Chained ==
  /\ etail = "clean" /\ vtail = "clean"
  /\ \A i \in 1..Len(elog) : elog[i].prev = i - 1
Described == ~StatusStale /\ ~AcceptanceStale
Explained ==
  /\ status \in {LastEvent.status, journal.status}
  /\ acceptance \in {LastEvent.acceptance, journal.acceptance}
BothProven ==
  /\ Proven(StatusStale, journal.status, status)
  /\ Proven(AcceptanceStale, journal.acceptance, acceptance)

\* The anchor and the head are where the process has brought them.
Sound(p) ==
  /\ pc[p] # "head" => head = Len(elog)
  /\ pc[p] = "head" => plan[p].at = Len(elog)
  /\ pc[p] \in {"record", "journal", "acceptance", "status"} =>
       IF plan[p].command.status THEN plan[p].status.vhead = vlog ELSE status.vhead = vlog
  /\ pc[p] \in {"digest", "append", "head", "clear"} => status.vhead = vlog
  /\ pc[p] = "append" => plan[p].line.prev = Len(elog)

\* What its event says of the files.
Tidy(p) ==
  /\ pc[p] \in {"record", "journal"} => Explained
  /\ pc[p] = "append" => plan[p].line.status = status /\ plan[p].line.acceptance = acceptance
  /\ pc[p] \in {"head", "clear"} => Described

\* A file the last event does not describe is one the journal announces.
Announced(p) ==
  LET q == plan[p]
      c == q.command
  IN /\ ~c.status => q.status = None
     /\ ~c.acceptance => q.acceptance = None
     /\ pc[p] \in {"record", "journal"} \/ ~c.commit => journal = NoJournal
     /\ pc[p] \notin {"record", "journal"} /\ c.commit =>
          journal = [status |-> q.status, acceptance |-> q.acceptance]
     /\ pc[p] \in {"record", "journal", "acceptance", "status"} => c.commit
     /\ c.commit /\ c.status /\ pc[p] \in {"digest", "append", "head", "clear"} => status = q.status
     /\ c.commit /\ c.acceptance /\ pc[p] \in {"status", "digest", "append", "head", "clear"} =>
          acceptance = q.acceptance
     /\ StatusStale => c.commit /\ c.status /\ pc[p] \in {"digest", "append"}
     /\ AcceptanceStale => c.commit /\ c.acceptance /\ pc[p] \in {"status", "digest", "append"}

AtWork(p) ==
  /\ Faultless \/ Healing => Chained /\ Sound(p)
  /\ OneFault /\ etail = "clean" => Tidy(p)
  /\ Faultless => Announced(p)

AtRest ==
  /\ Faultless \/ Healing => Chained /\ head = Len(elog)
  /\ OneFault /\ etail = "clean" => Explained
  /\ Faultless => AuditClean /\ journal = NoJournal
  /\ Healing => AuditClean \/ BothProven

FaultInv ==
  /\ Alone
  /\ Quiet => AtRest
  /\ \A p \in Procs : pc[p] # "idle" => AtWork(p)

-----------------------------------------------------------------------------
(* Who is at work. *)

\* A process that goes on is the only one, and keeps the lock it has.
LEMMA GoesOn ==
  ASSUME TypeInv, Alone, NEW p \in Procs, NEW step \in Steps, step # "idle",
         pc' = [pc EXCEPT ![p] = step], pc[p] # "idle" \/ lock = NoProc,
         lock' = p, AtWork(p)'
  PROVE  FaultInv'
<1>1. \A r \in Procs : r # p => pc'[r] = "idle"
  BY LedgerAssumption DEF Alone, TypeInv, TypeOK
<1>2. pc'[p] # "idle"
  BY DEF TypeInv, TypeOK
<1> QED
  BY <1>1, <1>2 DEF FaultInv, Alone, Quiet

\* Once a process has stopped, nobody is at work.
LEMMA Stands ==
  ASSUME TypeInv, Alone, NEW p \in Procs, Stop(p), pc[p] # "idle", AtRest'
  PROVE  FaultInv'
<1>1. \A r \in Procs : pc'[r] = "idle"
  BY DEF Alone, TypeInv, TypeOK, Stop, Goto
<1> QED
  BY <1>1 DEF FaultInv, Alone, Quiet

\* A process at work holds the lock and nobody else is at work.
LEMMA OneAtWork ==
  ASSUME TypeInv, FaultInv, NEW p \in Procs, pc[p] # "idle"
  PROVE  lock = p /\ AtWork(p) /\ ~Quiet /\ Alone
  BY DEF FaultInv, Alone, Quiet

LEMMA NobodyAtWork ==
  ASSUME TypeInv, FaultInv, lock = NoProc
  PROVE  Quiet /\ AtRest /\ Alone
<1>1. Quiet
  BY LedgerAssumption DEF FaultInv, Alone, Quiet
<1> QED
  BY <1>1 DEF FaultInv

-----------------------------------------------------------------------------
(* The steps of a command. *)

LEMMA AnchoringIs ==
  ASSUME NEW q \in Plan, q.status \in StatusContent, vlog \in Nat
  PROVE  /\ Anchoring(q).status.vhead = vlog + 1 /\ Anchoring(q).status \in StatusContent
         /\ Anchoring(q).command = q.command /\ Anchoring(q).acceptance = q.acceptance
<1> DEFINE s == [q.status EXCEPT !.vhead = vlog + 1]
<1>1. s \in StatusContent /\ s.vhead = vlog + 1
  <2>1. \A k \in Nat : [q.status EXCEPT !.vhead = k] \in StatusContent
                     /\ [q.status EXCEPT !.vhead = k].vhead = k
    BY DEF StatusContent
  <2> QED
    BY <2>1
<1>2. Anchoring(q) = [q EXCEPT !.status = s, !.records = q.records - 1]
  BY DEF Anchoring
<1> HIDE DEF s
<1> QED
  BY <1>1, <1>2 DEF Plan

LEMMA AppendRecordFits ==
  ASSUME TypeInv, FaultInv, NEW p \in Procs, AppendRecord(p)
  PROVE  FaultInv'
<1> DEFINE q == plan[p]
           new == Anchoring(q)
           step == IF q.records > 1 THEN "record" ELSE "journal"
<1>1. lock = p /\ AtWork(p) /\ Alone
  BY OneAtWork DEF AppendRecord
<1>2. q \in Plan /\ q.status \in StatusContent /\ q.command.status
  BY DEF TypeInv, TypeOK, AppendRecord, PlanFits, PlanFitsOf, Plan
<1>3. /\ new.status.vhead = vlog + 1 /\ new.command = q.command /\ new.acceptance = q.acceptance
      /\ new.status \in StatusContent
  BY <1>2, AnchoringIs DEF TypeInv, TypeOK
<1>4. plan'[p] = new /\ pc' = [pc EXCEPT ![p] = step] /\ pc'[p] = step
  BY DEF AppendRecord, Goto, TypeInv, TypeOK
<1>5. /\ status' = status /\ acceptance' = acceptance /\ journal' = journal /\ elog' = elog
      /\ etail' = etail /\ head' = head /\ crashes' = crashes /\ edits' = edits /\ gap' = gap
      /\ lock' = lock /\ pc[p] = "record"
  BY DEF AppendRecord, files, bounds
<1>6. vtail = "clean" => vtail' = "clean" /\ vlog' = vlog + 1
  BY DEF AppendRecord
<1>7. vtail' = "clean" => vtail = "clean"
  BY DEF AppendRecord, TypeInv, TypeOK
<1> HIDE DEF q, new
<1>8. step \in {"record", "journal"}
  OBVIOUS
<1> HIDE DEF step
<1>9. AtWork(p)'
  <2>1. (Faultless \/ Healing)' => (Chained /\ Sound(p))'
    <3> SUFFICES ASSUME (Faultless \/ Healing)' PROVE (Chained /\ Sound(p))'
      OBVIOUS
    <3>1. Faultless \/ Healing
      BY <1>5, <1>7 DEF Faultless, Healing
    <3>2. Chained /\ Sound(p)
      BY <1>1, <3>1 DEF AtWork
    <3> QED
      BY <1>2, <1>3, <1>4, <1>5, <1>6, <1>8, <3>2 DEF Chained, Sound, q
  <2>2. (OneFault /\ etail = "clean")' => Tidy(p)'
    BY <1>1, <1>4, <1>5, <1>8 DEF AtWork, OneFault, Tidy, Explained, LastEvent
  <2>3. Faultless' => Announced(p)'
    <3> SUFFICES ASSUME Faultless PROVE Announced(p)'
      BY <1>5 DEF Faultless
    <3>1. Announced(p)
      BY <1>1 DEF AtWork
    <3>2. StatusStale' = StatusStale /\ AcceptanceStale' = AcceptanceStale
      BY <1>5 DEF StatusStale, AcceptanceStale, LastEvent
    <3> QED
      BY <1>2, <1>3, <1>4, <1>5, <1>8, <3>1, <3>2 DEF Announced, q
  <2> QED
    BY <2>1, <2>2, <2>3 DEF AtWork
<1> QED
  BY <1>1, <1>4, <1>5, <1>8, <1>9, GoesOn DEF Steps

LEMMA WriteJournalFits ==
  ASSUME TypeInv, FaultInv, NEW p \in Procs, WriteJournal(p)
  PROVE  FaultInv'
<1> DEFINE c == plan[p].command
           step == AfterJournal(c)
<1>1. lock = p /\ AtWork(p) /\ Alone
  BY OneAtWork DEF WriteJournal
<1>2. /\ status' = status /\ acceptance' = acceptance /\ elog' = elog /\ vlog' = vlog /\ vtail' = vtail
      /\ etail' = etail /\ head' = head /\ crashes' = crashes /\ edits' = edits /\ gap' = gap
      /\ lock' = lock /\ pc[p] = "journal" /\ plan' = plan
      /\ journal' = [status |-> plan[p].status, acceptance |-> plan[p].acceptance]
  BY DEF WriteJournal, files, bounds, logs
<1>3. pc' = [pc EXCEPT ![p] = step] /\ pc'[p] = step
  BY DEF WriteJournal, Goto, TypeInv, TypeOK
<1>4. /\ step \in {"acceptance", "status", "digest"}
      /\ step = "status" => ~c.acceptance
      /\ step = "digest" => ~c.acceptance /\ ~c.status
  BY DEF AfterJournal
<1> HIDE DEF c, step
<1>5. (Faultless \/ Healing)' => (Chained /\ Sound(p))'
  <2> SUFFICES ASSUME Faultless \/ Healing PROVE (Chained /\ Sound(p))'
    BY <1>2 DEF Faultless, Healing
  <2>1. Chained /\ Sound(p)
    BY <1>1 DEF AtWork
  <2> QED
    BY <1>2, <1>3, <1>4, <2>1 DEF Chained, Sound, c
<1>6. (OneFault /\ etail = "clean")' => Tidy(p)'
  BY <1>2, <1>3, <1>4 DEF Tidy
<1>7. Faultless' => Announced(p)'
  <2> SUFFICES ASSUME Faultless PROVE Announced(p)'
    BY <1>2 DEF Faultless
  <2>1. Announced(p)
    BY <1>1 DEF AtWork
  <2>2. StatusStale' = StatusStale /\ AcceptanceStale' = AcceptanceStale
    BY <1>2 DEF StatusStale, AcceptanceStale, LastEvent
  <2> QED
    BY <1>2, <1>3, <1>4, <2>1, <2>2 DEF Announced, c
<1>8. AtWork(p)'
  BY <1>5, <1>6, <1>7 DEF AtWork
<1> QED
  BY <1>1, <1>2, <1>3, <1>4, <1>8, GoesOn DEF Steps

LEMMA WriteAcceptanceFits ==
  ASSUME TypeInv, FaultInv, NEW p \in Procs, WriteAcceptance(p)
  PROVE  FaultInv'
<1> DEFINE c == plan[p].command
           step == AfterAcceptance(c)
<1>1. lock = p /\ AtWork(p) /\ Alone
  BY OneAtWork DEF WriteAcceptance
<1>2. /\ status' = status /\ journal' = journal /\ elog' = elog /\ vlog' = vlog /\ vtail' = vtail
      /\ etail' = etail /\ head' = head /\ crashes' = crashes /\ edits' = edits /\ gap' = gap
      /\ lock' = lock /\ pc[p] = "acceptance" /\ plan' = plan
      /\ acceptance' = plan[p].acceptance /\ c.acceptance
  BY DEF WriteAcceptance, bounds, logs, TypeInv, PlanFits, PlanFitsOf
<1>3. pc' = [pc EXCEPT ![p] = step] /\ pc'[p] = step
  BY DEF WriteAcceptance, Goto, TypeInv, TypeOK
<1>4. step \in {"status", "digest"} /\ (step = "digest" => ~c.status)
  BY DEF AfterAcceptance
<1> HIDE DEF c, step
<1>5. (Faultless \/ Healing)' => (Chained /\ Sound(p))'
  <2> SUFFICES ASSUME Faultless \/ Healing PROVE (Chained /\ Sound(p))'
    BY <1>2 DEF Faultless, Healing
  <2>1. Chained /\ Sound(p)
    BY <1>1 DEF AtWork
  <2> QED
    BY <1>2, <1>3, <1>4, <2>1 DEF Chained, Sound, c
<1>6. (OneFault /\ etail = "clean")' => Tidy(p)'
  BY <1>2, <1>3, <1>4 DEF Tidy
<1>7. Faultless' => Announced(p)'
  <2> SUFFICES ASSUME Faultless PROVE Announced(p)'
    BY <1>2 DEF Faultless
  <2>1. Announced(p)
    BY <1>1 DEF AtWork
  <2>2. StatusStale' = StatusStale
    BY <1>2 DEF StatusStale, LastEvent
  <2> QED
    BY <1>2, <1>3, <1>4, <2>1, <2>2 DEF Announced, c
<1>8. AtWork(p)'
  BY <1>5, <1>6, <1>7 DEF AtWork
<1> QED
  BY <1>1, <1>2, <1>3, <1>4, <1>8, GoesOn DEF Steps

LEMMA WriteStatusFits ==
  ASSUME TypeInv, FaultInv, NEW p \in Procs, WriteStatus(p)
  PROVE  FaultInv'
<1> DEFINE c == plan[p].command
<1>1. lock = p /\ AtWork(p) /\ Alone
  BY OneAtWork DEF WriteStatus
<1>2. /\ acceptance' = acceptance /\ journal' = journal /\ elog' = elog /\ vlog' = vlog /\ vtail' = vtail
      /\ etail' = etail /\ head' = head /\ crashes' = crashes /\ edits' = edits /\ gap' = gap
      /\ lock' = lock /\ pc[p] = "status" /\ plan' = plan
      /\ status' = plan[p].status /\ c.status
  BY DEF WriteStatus, bounds, logs, TypeInv, PlanFits, PlanFitsOf
<1>3. pc' = [pc EXCEPT ![p] = "digest"] /\ pc'[p] = "digest"
  BY DEF WriteStatus, Goto, TypeInv, TypeOK
<1> HIDE DEF c
<1>4. (Faultless \/ Healing)' => (Chained /\ Sound(p))'
  <2> SUFFICES ASSUME Faultless \/ Healing PROVE (Chained /\ Sound(p))'
    BY <1>2 DEF Faultless, Healing
  <2>1. Chained /\ Sound(p)
    BY <1>1 DEF AtWork
  <2> QED
    BY <1>2, <1>3, <2>1 DEF Chained, Sound, c
<1>5. (OneFault /\ etail = "clean")' => Tidy(p)'
  BY <1>2, <1>3 DEF Tidy
<1>6. Faultless' => Announced(p)'
  <2> SUFFICES ASSUME Faultless PROVE Announced(p)'
    BY <1>2 DEF Faultless
  <2>1. Announced(p)
    BY <1>1 DEF AtWork
  <2>2. AcceptanceStale' = AcceptanceStale
    BY <1>2 DEF AcceptanceStale, LastEvent
  <2> QED
    BY <1>2, <1>3, <2>1, <2>2 DEF Announced, c
<1>7. AtWork(p)'
  BY <1>4, <1>5, <1>6 DEF AtWork
<1> QED
  BY <1>1, <1>2, <1>3, <1>7, GoesOn DEF Steps

LEMMA DigestEventFits ==
  ASSUME TypeInv, FaultInv, NEW p \in Procs, DigestEvent(p)
  PROVE  FaultInv'
<1> DEFINE line == [prev |-> Len(elog), kind |-> plan[p].command.kind,
                    status |-> status, acceptance |-> acceptance]
<1>1. lock = p /\ AtWork(p) /\ Alone
  BY OneAtWork DEF DigestEvent
<1>2. UNCHANGED <<files, journal, logs, bounds, gap, lock>> /\ pc[p] = "digest"
  BY DEF DigestEvent
<1>3. pc' = [pc EXCEPT ![p] = "append"] /\ pc'[p] = "append"
  BY DEF DigestEvent, Goto, TypeInv, TypeOK
<1>4. /\ plan'[p].line = line /\ plan'[p].command = plan[p].command
      /\ plan'[p].status = plan[p].status /\ plan'[p].acceptance = plan[p].acceptance
  BY DEF DigestEvent, TypeInv, TypeOK, Plan
<1>5. /\ line.prev = Len(elog) /\ line.status = status /\ line.acceptance = acceptance
  OBVIOUS
<1> HIDE DEF line
<1>6. (Faultless \/ Healing)' => (Chained /\ Sound(p))'
  <2> SUFFICES ASSUME Faultless \/ Healing PROVE (Chained /\ Sound(p))'
    BY <1>2 DEF Faultless, Healing, bounds, logs
  <2>1. Chained /\ Sound(p)
    BY <1>1 DEF AtWork
  <2> QED
    BY <1>2, <1>3, <1>4, <1>5, <2>1 DEF Chained, Sound, files, logs
<1>7. (OneFault /\ etail = "clean")' => Tidy(p)'
  BY <1>2, <1>3, <1>4, <1>5 DEF Tidy, files
<1>8. Faultless' => Announced(p)'
  <2> SUFFICES ASSUME Faultless PROVE Announced(p)'
    BY <1>2 DEF Faultless, bounds
  <2>1. Announced(p)
    BY <1>1 DEF AtWork
  <2>2. StatusStale' = StatusStale /\ AcceptanceStale' = AcceptanceStale
    BY <1>2 DEF StatusStale, AcceptanceStale, LastEvent, files, logs
  <2> QED
    BY <1>2, <1>3, <1>4, <2>1, <2>2 DEF Announced, files
<1>9. AtWork(p)'
  BY <1>6, <1>7, <1>8 DEF AtWork
<1> QED
  BY <1>1, <1>2, <1>3, <1>9, GoesOn DEF Steps

\* A line that went onto the end of the log is its last event.
LEMMA LineIsLast ==
  ASSUME TypeInv, NEW p \in Procs, AppendEvent(p), etail = "clean"
  PROVE  /\ Len(elog') = Len(elog) + 1 /\ LastEvent' = plan[p].line
         /\ \A i \in 1..Len(elog) : elog'[i] = elog[i]
BY DEF AppendEvent, LastEvent, TypeInv, TypeOK, Plan

LEMMA AppendEventFits ==
  ASSUME TypeInv, FaultInv, NEW p \in Procs, AppendEvent(p)
  PROVE  FaultInv'
<1>1. lock = p /\ AtWork(p) /\ Alone
  BY OneAtWork DEF AppendEvent
<1>2. UNCHANGED <<files, journal, head, vlog, vtail, bounds, gap, lock>> /\ pc[p] = "append"
  BY DEF AppendEvent
<1>3. pc' = [pc EXCEPT ![p] = "head"] /\ pc'[p] = "head"
  BY DEF AppendEvent, Goto, TypeInv, TypeOK
<1>4. /\ plan'[p].at = Len(elog) + 1 /\ plan'[p].command = plan[p].command
      /\ plan'[p].status = plan[p].status /\ plan'[p].acceptance = plan[p].acceptance
  BY DEF AppendEvent, TypeInv, TypeOK, Plan
<1>5. etail' = "clean" => etail = "clean"
  BY DEF AppendEvent
<1>6. (Faultless \/ Healing)' => (Chained /\ Sound(p))'
  <2> SUFFICES ASSUME Faultless \/ Healing PROVE (Chained /\ Sound(p))'
    BY <1>2 DEF Faultless, Healing, bounds
  <2>1. Chained /\ Sound(p)
    BY <1>1 DEF AtWork
  <2>2. Chained'
    <3>1. etail = "clean" /\ etail' = "clean" /\ vtail' = "clean" /\ Len(elog) \in Nat
      BY <1>2, <2>1 DEF Chained, AppendEvent, TypeInv, TypeOK
    <3>2. /\ Len(elog') = Len(elog) + 1 /\ elog'[Len(elog')] = plan[p].line
          /\ \A i \in 1..Len(elog) : elog'[i] = elog[i]
      BY <3>1, LineIsLast DEF LastEvent
    <3>3. plan[p].line.prev = Len(elog)
      BY <1>2, <2>1 DEF Sound
    <3> QED
      BY <2>1, <3>1, <3>2, <3>3 DEF Chained
  <2> QED
    BY <1>2, <1>3, <1>4, <2>1, <2>2, LineIsLast DEF Chained, Sound, files
<1>7. (OneFault /\ etail = "clean")' => Tidy(p)'
  BY <1>1, <1>2, <1>3, <1>5, LineIsLast
     DEF AtWork, Tidy, OneFault, bounds, files, Described, StatusStale, AcceptanceStale
<1>8. Faultless' => Announced(p)'
  <2> SUFFICES ASSUME Faultless PROVE Announced(p)'
    BY <1>2 DEF Faultless, bounds
  <2>1. Announced(p) /\ Tidy(p) /\ Chained
    BY <1>1 DEF AtWork, Faultless, OneFault, Chained
  <2>2. ~StatusStale' /\ ~AcceptanceStale'
    BY <1>2, <2>1, LineIsLast DEF StatusStale, AcceptanceStale, files, Tidy, Chained
  <2> QED
    BY <1>2, <1>3, <1>4, <2>1, <2>2 DEF Announced, files
<1>9. AtWork(p)'
  BY <1>6, <1>7, <1>8 DEF AtWork
<1> QED
  BY <1>1, <1>2, <1>3, <1>9, GoesOn DEF Steps

\* What the files are when the process whose event is written ends.
LEMMA EndsDescribed ==
  ASSUME TypeInv, NEW p \in Procs, Faultless \/ Healing => Chained /\ Sound(p),
         OneFault /\ etail = "clean" => Described, head' = Len(elog), pc[p] \in {"head", "clear"},
         UNCHANGED <<files, elog, etail, vlog, vtail, bounds, gap>>,
         Faultless => journal' = NoJournal
  PROVE  AtRest'
<1>1. OneFault /\ etail = "clean" => Explained'
  BY DEF Described, Explained, StatusStale, AcceptanceStale, LastEvent, files
<1>2. Faultless \/ Healing => /\ Chained /\ Sound(p) /\ Described /\ status.vhead = vlog
  BY DEF Faultless, Healing, OneFault, Chained, Sound
<1>3. Faultless \/ Healing => AuditClean'
  BY <1>2 DEF AuditClean, EventChainIntact, VerificationsIntact, Chained, Described, StatusStale,
     AcceptanceStale, HeadStale, LastEvent, files
<1>4. Faultless \/ Healing => Chained' /\ head' = Len(elog')
  BY <1>2 DEF Chained
<1> QED
  BY <1>1, <1>3, <1>4 DEF AtRest, Faultless, Healing, OneFault, bounds

LEMMA ReplaceHeadFits ==
  ASSUME TypeInv, FaultInv, NEW p \in Procs, ReplaceHead(p)
  PROVE  FaultInv'
<1>1. lock = p /\ AtWork(p) /\ Alone
  BY OneAtWork DEF ReplaceHead
<1>2. UNCHANGED <<files, journal, elog, etail, vlog, vtail, bounds, gap>> /\ pc[p] = "head"
      /\ head' = plan[p].at
  BY DEF ReplaceHead
<1>3. Faultless \/ Healing => Chained /\ Sound(p) /\ head' = Len(elog)
  BY <1>1, <1>2 DEF AtWork, Sound
<1>4. OneFault /\ etail = "clean" => Described
  BY <1>1, <1>2 DEF AtWork, Tidy
<1>5. ASSUME NEW step \in {"digest", "clear"}, Goto(p, step), UNCHANGED <<lock, plan>>,
             step = "clear" => plan[p].command.commit
      PROVE  FaultInv'
  <2>1. pc' = [pc EXCEPT ![p] = step] /\ pc'[p] = step
    BY <1>5 DEF Goto, TypeInv, TypeOK
  <2>2. (Faultless \/ Healing)' => (Chained /\ Sound(p))'
    BY <1>2, <1>3, <1>5, <2>1 DEF Faultless, Healing, bounds, Chained, Sound, files
  <2>3. (OneFault /\ etail = "clean")' => Tidy(p)'
    BY <1>2, <1>4, <2>1
       DEF OneFault, bounds, Tidy, Described, StatusStale, AcceptanceStale, LastEvent, files
  <2>4. Faultless' => Announced(p)'
    <3> SUFFICES ASSUME Faultless PROVE Announced(p)'
      BY <1>2 DEF Faultless, bounds
    <3>1. Announced(p) /\ Described
      BY <1>1, <1>3, <1>4 DEF AtWork, Faultless, OneFault, Chained
    <3>2. ~StatusStale' /\ ~AcceptanceStale'
      BY <1>2, <3>1 DEF Described, StatusStale, AcceptanceStale, LastEvent, files
    <3> QED
      BY <1>2, <1>5, <2>1, <3>1, <3>2 DEF Announced, files
  <2>5. AtWork(p)'
    BY <2>2, <2>3, <2>4 DEF AtWork
  <2>6. lock' = p
    BY <1>1, <1>5
  <2> QED
    BY <1>1, <1>2, <2>1, <2>5, <2>6, GoesOn DEF Steps
<1>6. CASE Stop(p) /\ ~plan[p].command.commit
  <2>1. Faultless => journal' = NoJournal
    BY <1>1, <1>2, <1>6 DEF AtWork, Announced
  <2>2. AtRest'
    <3>1. CASE Faultless \/ Healing
      BY <1>2, <1>3, <1>4, <2>1, <3>1, EndsDescribed
    <3>2. CASE ~(Faultless \/ Healing)
      BY <1>2, <1>4, <3>2 DEF AtRest, Faultless, Healing, OneFault, bounds, Described, Explained,
         StatusStale, AcceptanceStale, LastEvent, files
    <3> QED
      BY <3>1, <3>2
  <2> QED
    BY <1>1, <1>2, <1>6, <2>2, Stands
<1> QED
  BY <1>5, <1>6 DEF ReplaceHead

LEMMA ClearJournalFits ==
  ASSUME TypeInv, FaultInv, NEW p \in Procs, ClearJournal(p)
  PROVE  FaultInv'
<1>1. lock = p /\ AtWork(p) /\ Alone
  BY OneAtWork DEF ClearJournal
<1>2. UNCHANGED <<files, elog, etail, head, vlog, vtail, bounds, gap>> /\ pc[p] = "clear"
      /\ journal' = NoJournal /\ Stop(p)
  BY DEF ClearJournal, logs
<1>3. Faultless \/ Healing => Chained /\ Sound(p) /\ head' = Len(elog)
  BY <1>1, <1>2 DEF AtWork, Sound
<1>4. OneFault /\ etail = "clean" => Described
  BY <1>1, <1>2 DEF AtWork, Tidy
<1>5. AtRest'
  <2>1. CASE Faultless \/ Healing
    BY <1>2, <1>3, <1>4, <2>1, EndsDescribed
  <2>2. CASE ~(Faultless \/ Healing)
    BY <1>2, <1>4, <2>2 DEF AtRest, Faultless, Healing, OneFault, bounds, Described, Explained,
       StatusStale, AcceptanceStale, LastEvent, files
  <2> QED
    BY <2>1, <2>2
<1> QED
  BY <1>1, <1>2, <1>5, Stands

\* A torn ledger stops a command only where nothing is promised of it: an audited
\* one before it wrote anything, or with the event log torn as well.
LEMMA RaiseOnTornLogFits ==
  ASSUME TypeInv, FaultInv, NEW p \in Procs, RaiseOnTornLog(p)
  PROVE  FaultInv'
<1>1. pc[p] # "idle" /\ Stop(p) /\ UNCHANGED <<files, journal, logs, bounds, gap>>
      /\ (pc[p] = "record" \/ etail = "torn") /\ (etail = "torn" \/ vtail = "torn")
  BY DEF RaiseOnTornLog
<1>2. lock = p /\ AtWork(p) /\ Alone
  BY <1>1, OneAtWork
<1>3. ~Faultless /\ ~Healing
  BY <1>1, <1>2 DEF AtWork, Chained
<1>4. OneFault /\ etail = "clean" => Explained
  BY <1>1, <1>2 DEF AtWork, Tidy
<1>5. AtRest'
  BY <1>1, <1>3, <1>4 DEF AtRest, Faultless, Healing, OneFault, bounds, logs, Explained, LastEvent, files
<1> QED
  BY <1>1, <1>2, <1>5, Stands

LEMMA ContinueFits ==
  ASSUME TypeInv, FaultInv, NEW p \in Procs, Continue(p)
  PROVE  FaultInv'
BY AppendRecordFits, WriteJournalFits, WriteAcceptanceFits, WriteStatusFits, DigestEventFits,
   RaiseOnTornLogFits, AppendEventFits, ReplaceHeadFits, ClearJournalFits DEF Continue

-----------------------------------------------------------------------------
(* Where commands begin, and doctor. *)

LEMMA BeginFits ==
  ASSUME TypeInv, FaultInv, AllLocked, NEW p \in Procs, NEW c \in Commands, Begin(p, c)
  PROVE  FaultInv'
<1> DEFINE s == IF c.status THEN [ver |-> version + 1, vhead |-> status.vhead, hand |-> FALSE] ELSE None
           a == IF c.acceptance THEN [ver |-> version + 1, hand |-> FALSE] ELSE None
           step == AfterRead(c)
<1>1. lock = NoProc /\ c.locked
  BY DEF Begin, AllLocked
<1>2. AtRest /\ Alone
  BY <1>1, NobodyAtWork
<1>3. c \in Command /\ (c.records > 0 => c.commit)
  BY LedgerAssumption
<1>4. /\ c.status => s.vhead = status.vhead
      /\ ~c.status => s = None
      /\ ~c.acceptance => a = None
  OBVIOUS
<1>5. UNCHANGED <<files, journal, logs, crashes, edits>> /\ gap' = "none" /\ lock' = p
  BY <1>1 DEF Begin, Planned
<1>6. plan'[p].command = c /\ plan'[p].status = s /\ plan'[p].acceptance = a
  BY DEF Begin, Planned, PlanOf, TypeInv, TypeOK
<1>7. pc' = [pc EXCEPT ![p] = step] /\ pc'[p] = step
  BY DEF Begin, Planned, Goto, TypeInv, TypeOK
<1>8. step \in {"record", "journal", "digest"} /\ (step \in {"record", "journal"} <=> c.commit)
  BY <1>3 DEF AfterRead
<1> HIDE DEF s, a, step
<1>9. ~Healing' /\ (Faultless' <=> Faultless) /\ (OneFault' <=> OneFault)
  BY <1>5 DEF Healing, Faultless, OneFault
<1>10. Faultless => (Chained /\ Sound(p))'
  <2> SUFFICES ASSUME Faultless PROVE (Chained /\ Sound(p))'
    OBVIOUS
  <2>1. Chained /\ head = Len(elog) /\ status.vhead = vlog
    BY <1>2 DEF AtRest, AuditClean, HeadStale
  <2> QED
    BY <1>4, <1>5, <1>6, <1>7, <1>8, <2>1 DEF Chained, Sound, files, logs
<1>11. OneFault /\ etail = "clean" => Tidy(p)'
  BY <1>2, <1>5, <1>7, <1>8 DEF AtRest, Tidy, Explained, LastEvent, files, logs
<1>12. Faultless => Announced(p)'
  <2> SUFFICES ASSUME Faultless PROVE Announced(p)'
    OBVIOUS
  <2>1. journal = NoJournal /\ ~StatusStale /\ ~AcceptanceStale
    BY <1>2 DEF AtRest, AuditClean
  <2>2. ~StatusStale' /\ ~AcceptanceStale'
    BY <1>5, <2>1 DEF StatusStale, AcceptanceStale, LastEvent, files, logs
  <2> QED
    BY <1>4, <1>5, <1>6, <1>7, <1>8, <2>1, <2>2 DEF Announced
<1>13. AtWork(p)'
  BY <1>5, <1>9, <1>10, <1>11, <1>12 DEF AtWork, logs
<1> QED
  BY <1>1, <1>2, <1>5, <1>7, <1>8, <1>13, GoesOn DEF Steps

LEMMA DoctorRecoversFits ==
  ASSUME TypeInv, FaultInv, NEW p \in Procs, DoctorRecovers(p)
  PROVE  FaultInv'
<1> DEFINE c == DoctorCommand(HeadStale)
           s == IF HeadStale THEN [status EXCEPT !.vhead = vlog] ELSE None
<1>1. AtRest /\ Alone /\ lock = NoProc
  BY NobodyAtWork DEF DoctorRecovers
<1>2. /\ c.status = HeadStale
      /\ HeadStale => s.vhead = vlog
      /\ ~HeadStale => status.vhead = vlog
  BY DEF DoctorCommand, HeadStale, TypeInv, TypeOK, StatusContent
<1>3. UNCHANGED <<files, journal, logs, bounds, gap>> /\ lock' = p
  BY DEF DoctorRecovers
<1>4. plan'[p].command = c /\ plan'[p].status = s
  BY DEF DoctorRecovers, PlanOf, TypeInv, TypeOK
<1>5. pc' = [pc EXCEPT ![p] = "journal"] /\ pc'[p] = "journal"
  BY DEF DoctorRecovers, Goto, TypeInv, TypeOK
<1> HIDE DEF c, s
<1>6. ~Faultless
  BY <1>1 DEF AtRest, AuditClean, DoctorRecovers, DoctorMayRecover
<1>7. Healing => (Chained /\ Sound(p))'
  BY <1>1, <1>2, <1>3, <1>4, <1>5 DEF AtRest, Chained, Sound, files, logs
<1>8. OneFault /\ etail = "clean" => Tidy(p)'
  BY <1>1, <1>3, <1>5 DEF AtRest, Tidy, Explained, LastEvent, files, logs
<1>9. AtWork(p)'
  BY <1>3, <1>6, <1>7, <1>8 DEF AtWork, Faultless, Healing, OneFault, bounds, logs
<1> QED
  BY <1>1, <1>3, <1>5, <1>9, GoesOn DEF Steps

LEMMA DoctorPrunesFits ==
  ASSUME TypeInv, FaultInv, NEW p \in Procs, DoctorPrunes(p)
  PROVE  FaultInv'
<1>1. AtRest /\ Alone /\ Quiet /\ AuditClean
  BY NobodyAtWork DEF DoctorPrunes
<1>2. UNCHANGED <<files, logs, lock, pc, plan, bounds, gap>> /\ journal' = NoJournal
  BY DEF DoctorPrunes
<1>3. AuditClean'
  BY <1>1, <1>2 DEF AuditClean, EventChainIntact, VerificationsIntact, StatusStale, AcceptanceStale,
     HeadStale, LastEvent, files, logs
<1>4. Explained'
  BY <1>1, <1>2 DEF Explained, AuditClean, StatusStale, AcceptanceStale, LastEvent, files, logs
<1>5. (Faultless \/ Healing)' => (Chained /\ head = Len(elog))'
  BY <1>1, <1>2 DEF AtRest, Faultless, Healing, Chained, bounds, logs
<1>6. AtRest'
  BY <1>2, <1>3, <1>4, <1>5 DEF AtRest
<1> QED
  BY <1>1, <1>2, <1>6 DEF FaultInv, Quiet, Alone

-----------------------------------------------------------------------------
(* Kills and edits. *)

\* Whatever is stale is announced: no kill of the first command leaves a content
\* nobody can account for, and where both files are written both are proven.
LEMMA AccountedFor ==
  ASSUME TypeInv, NEW p \in Procs, Announced(p), pc[p] # "idle"
  PROVE  /\ Explained
         /\ pc[p] \in {"record", "journal", "digest", "append"} => BothProven
<1> DEFINE q == plan[p]
           c == q.command
<1>1. c.status \in BOOLEAN /\ c.acceptance \in BOOLEAN /\ pc[p] \in Steps
  BY DEF TypeInv, TypeOK, Plan, Command
<1>2. journal = [status |-> q.status, acceptance |-> q.acceptance] =>
        journal.status = q.status /\ journal.acceptance = q.acceptance
  OBVIOUS
<1>3. NoJournal.status = None /\ NoJournal.acceptance = None
  BY DEF NoJournal
<1> HIDE DEF q, c
<1>4. Explained
  BY <1>1, <1>2 DEF Announced, Explained, StatusStale, AcceptanceStale, Steps, c, q
<1>5. ASSUME pc[p] \in {"record", "journal", "digest", "append"}
      PROVE  BothProven
  <2>1. CASE journal = NoJournal /\ ~StatusStale /\ ~AcceptanceStale
    BY <1>3, <2>1 DEF BothProven, Proven
  <2>2. CASE c.commit /\ pc[p] \in {"digest", "append"}
    <3>1. /\ journal.status = q.status /\ journal.acceptance = q.acceptance
          /\ c.status => status = q.status
          /\ c.acceptance => acceptance = q.acceptance
      BY <1>2, <2>2 DEF Announced, c, q
    <3>2. /\ ~c.status => q.status = None /\ ~StatusStale
          /\ ~c.acceptance => q.acceptance = None /\ ~AcceptanceStale
      BY DEF Announced, c, q
    <3>3. status # None /\ acceptance # None
      BY NoneAssumption DEF TypeInv, TypeOK
    <3>4. Proven(StatusStale, journal.status, status)
      BY <1>1, <3>1, <3>2, <3>3 DEF Proven
    <3>5. Proven(AcceptanceStale, journal.acceptance, acceptance)
      BY <1>1, <3>1, <3>2, <3>3 DEF Proven
    <3> QED
      BY <3>4, <3>5 DEF BothProven
  <2> QED
    BY <1>5, <2>1, <2>2 DEF Announced, c, q
<1> QED
  BY <1>4, <1>5

LEMMA CrashFits ==
  ASSUME TypeInv, FaultInv, NEW p \in Procs, Crash(p)
  PROVE  FaultInv'
<1>1. /\ pc[p] # "idle" /\ Stop(p) /\ crashes' = crashes + 1 /\ crashes \in Nat /\ gap' = CrashGap(p)
      /\ UNCHANGED <<files, journal, logs, version, edits>>
  BY DEF Crash, TypeInv, TypeOK
<1>2. AtWork(p) /\ Alone
  BY <1>1, OneAtWork
<1>3. ~Faultless' /\ (OneFault' => Faultless) /\ (Healing' => Faultless)
  BY <1>1 DEF Faultless, OneFault, Healing
<1>4. Faultless => Explained'
  BY <1>1, <1>2, AccountedFor DEF AtWork, Explained, LastEvent, files, logs
<1>5. Healing' => (Chained /\ head = Len(elog))' /\ BothProven'
  <2> SUFFICES ASSUME Healing' PROVE (Chained /\ head = Len(elog))' /\ BothProven'
    OBVIOUS
  <2>1. Faultless /\ Chained /\ Sound(p) /\ Announced(p)
    BY <1>2, <1>3 DEF AtWork
  <2>2. pc[p] \in {"record", "journal", "digest", "append"}
    BY <1>1 DEF Healing, CrashGap
  <2>3. BothProven
    BY <2>1, <2>2, <1>1, AccountedFor
  <2>4. BothProven'
    BY <1>1, <2>3 DEF BothProven, Proven, StatusStale, AcceptanceStale, LastEvent, files, logs
  <2>5. (Chained /\ head = Len(elog))'
    BY <1>1, <2>1, <2>2 DEF Chained, Sound, logs
  <2> QED
    BY <2>4, <2>5
<1>6. AtRest'
  BY <1>3, <1>4, <1>5 DEF AtRest
<1> QED
  BY <1>1, <1>2, <1>6, Stands

LEMMA TornFits ==
  ASSUME TypeInv, FaultInv, NEW p \in Procs, NEW tear \in Tears,
         CrashInEvent(p, tear) \/ CrashInRecord(p, tear)
  PROVE  FaultInv'
<1>1. /\ pc[p] # "idle" /\ Stop(p) /\ crashes' = crashes + 1 /\ crashes \in Nat
      /\ UNCHANGED <<status, acceptance, journal, edits>>
  BY DEF CrashInEvent, CrashInRecord, TypeInv, TypeOK, files
<1>2. AtWork(p) /\ Alone
  BY <1>1, OneAtWork
<1>3. tear \in {"bare", "torn"}
  BY LedgerAssumption
<1>4. ~Faultless' /\ ~Healing' /\ (OneFault' => Faultless)
  BY <1>1, <1>3 DEF Faultless, OneFault, Healing, CrashInEvent, CrashInRecord
<1>5. etail' = "clean" => elog' = elog
  BY <1>3 DEF CrashInEvent, CrashInRecord
<1>6. Faultless /\ etail' = "clean" => Explained'
  BY <1>1, <1>2, <1>5, AccountedFor DEF AtWork, Explained, LastEvent
<1>7. AtRest'
  BY <1>4, <1>6 DEF AtRest
<1> QED
  BY <1>1, <1>2, <1>7, Stands

LEMMA FaultInit == Init => FaultInv
<1> SUFFICES ASSUME Init PROVE FaultInv
  OBVIOUS
<1>1. /\ Quiet /\ Alone
  BY DEF Init, Quiet, Alone
<1>2. Len(elog) = 1 /\ LastEvent = elog[1] /\ elog[1].prev = 0
      /\ elog[1].status = status /\ elog[1].acceptance = acceptance
  BY DEF Init, LastEvent
<1>3. AuditClean /\ Chained /\ Explained /\ head = Len(elog)
  BY <1>2 DEF Init, AuditClean, EventChainIntact, VerificationsIntact, StatusStale, AcceptanceStale,
     HeadStale, Chained, Explained
<1>4. journal = NoJournal
  BY DEF Init
<1> QED
  BY <1>1, <1>3, <1>4 DEF FaultInv, AtRest, Quiet

LEMMA FaultNext == TypeInv /\ FaultInv /\ AllLocked /\ [Next]_vars => FaultInv'
<1> SUFFICES ASSUME TypeInv, FaultInv, AllLocked, [Next]_vars PROVE FaultInv'
  OBVIOUS
<1>1. ASSUME UNCHANGED vars PROVE FaultInv'
  <2>1. (AtRest' <=> AtRest) /\ (Quiet' <=> Quiet) /\ (Alone' <=> Alone)
    BY <1>1 DEF vars, files, logs, bounds, AtRest, Quiet, Alone, Faultless, Healing, OneFault, Chained,
       Explained, AuditClean, BothProven, EventChainIntact, VerificationsIntact, StatusStale,
       AcceptanceStale, HeadStale, LastEvent, Proven
  <2>2. ASSUME NEW p \in Procs, pc[p] # "idle", AtWork(p) PROVE AtWork(p)'
    BY <1>1, <2>2 DEF vars, files, logs, bounds, AtWork, Faultless, Healing, OneFault, Chained, Sound,
       Tidy, Announced, Explained, Described, StatusStale, AcceptanceStale, LastEvent
  <2>3. pc' = pc
    BY <1>1 DEF vars
  <2> QED
    BY <2>1, <2>2, <2>3 DEF FaultInv
<1>2. ASSUME NEW p \in Procs, NEW c \in Commands, Begin(p, c) \/ Refuse(p, c) PROVE FaultInv'
  BY <1>1, <1>2, BeginFits DEF Refuse
<1>3. ASSUME NEW p \in Procs, DoctorPrunes(p) \/ DoctorRecovers(p) \/ DoctorGivesUp(p) PROVE FaultInv'
  BY <1>1, <1>3, DoctorPrunesFits, DoctorRecoversFits DEF DoctorGivesUp
<1>4. ASSUME HandEdit PROVE FaultInv'
  <2>1. pc' = pc /\ lock' = lock
    BY <1>4 DEF HandEdit
  <2>2. edits' \in Nat /\ edits' > 0
    BY <1>4 DEF HandEdit, TypeInv, TypeOK
  <2>3. ~Faultless' /\ ~OneFault' /\ ~Healing'
    BY <2>2 DEF Faultless, OneFault, Healing
  <2>4. AtRest' /\ \A p \in Procs : AtWork(p)'
    BY <2>3 DEF AtRest, AtWork
  <2> QED
    BY <2>1, <2>4 DEF FaultInv, Quiet, Alone
<1> QED
  BY <1>1, <1>2, <1>3, <1>4, ContinueFits, CrashFits, TornFits DEF Next

\* Commands that hold the lock and nothing killed or edited: whenever no command is
\* running the ledgers describe the files on disk, however many processes there are.
\* (commit and project_lock; an append outside the lock breaks it, as the run
\* ledger_unlocked shows)
THEOREM FilesAlwaysDescribed ==
  ASSUME AllLocked
  PROVE  Spec => []IntactWithoutFaults
<1>1. FaultInv => IntactWithoutFaults
  BY DEF FaultInv, IntactWithoutFaults, Quiet, AtRest, Faultless
<1> QED
  BY TypeInit, TypeNext, FaultInit, FaultNext, <1>1, PTL DEF Spec

\* After one kill anywhere in a command, every content on disk is one the last event
\* recorded or the journal announces. (write_ahead before the first replacement)
THEOREM NothingUnexplained ==
  ASSUME AllLocked
  PROVE  Spec => []ExplainedOnDisk
<1>1. TypeInv /\ FaultInv => ExplainedOnDisk
  BY NobodyAtWork DEF ExplainedOnDisk, Explained, AtRest, OneFault
<1> QED
  BY TypeInit, TypeNext, FaultInit, FaultNext, <1>1, PTL DEF Spec

\* After a kill in one of the two gaps doctor is documented to close, it refuses only
\* for what compute_errors says of the recovered files: its proof is always at hand.
\* (cmd_doctor)
THEOREM DoctorNeverRefusesTheGaps ==
  ASSUME AllLocked
  PROVE  Spec => []TwoGapsRecover
<1>1. TypeInv /\ FaultInv => TwoGapsRecover
  <2> SUFFICES ASSUME TypeInv, FaultInv, Healing, lock = NoProc, DoctorRefuses PROVE faulty
    BY DEF TwoGapsRecover, Healing
  <2>1. AtRest
    BY NobodyAtWork
  <2>2. Chained /\ head = Len(elog) /\ (AuditClean \/ BothProven)
    BY <2>1 DEF AtRest
  <2> QED
    BY <2>2 DEF DoctorRefuses, DoctorMayRecover, BothProven, AuditClean, EventChainIntact,
       VerificationsIntact, Chained
<1> QED
  BY TypeInit, TypeNext, FaultInit, FaultNext, <1>1, PTL DEF Spec

-----------------------------------------------------------------------------
(***************************************************************************)
(* No audited transition skips a state.  What an auditing command read is  *)
(* the last event's until its own first event, because it alone writes.    *)
(***************************************************************************)
Continuing(p) ==
  LET q == plan[p]
  IN /\ q.events <= q.command.events
     /\ pc[p] \in {"head", "clear"} => q.events < q.command.events
     /\ pc[p] \notin {"head", "clear"} /\ q.command.audited /\ q.events = q.command.events =>
          LastEvent.status = q.read.status /\ LastEvent.acceptance = q.read.acceptance
ContinuityInv == \A p \in Procs : pc[p] # "idle" => Continuing(p)

\* Others are idle, so that only the process that steps needs to be looked at.
LEMMA OthersIdle ==
  ASSUME TypeInv, FaultInv, NEW p \in Procs, pc[p] # "idle" \/ lock = NoProc,
         \A r \in Procs : r # p => pc'[r] = pc[r],
         pc'[p] # "idle" => Continuing(p)'
  PROVE  ContinuityInv'
<1>1. \A r \in Procs : r # p => pc[r] = "idle"
  BY LedgerAssumption DEF FaultInv, Alone
<1> QED
  BY <1>1 DEF ContinuityInv

LEMMA ContinuityContinue ==
  ASSUME TypeInv, FaultInv, ContinuityInv, NEW p \in Procs, Continue(p)
  PROVE  ContinuityInv'
<1>1. pc[p] # "idle" /\ Continuing(p) /\ plan[p] \in Plan
  BY DEF Continue, AppendRecord, WriteJournal, WriteAcceptance, WriteStatus, DigestEvent,
     RaiseOnTornLog, AppendEvent, ReplaceHead, ClearJournal, ContinuityInv, TypeInv, TypeOK
<1>2. CASE RaiseOnTornLog(p) \/ ClearJournal(p) \/ (ReplaceHead(p) /\ Stop(p))
  <2>1. Stop(p)
    BY <1>2 DEF RaiseOnTornLog, ClearJournal
  <2>2. pc'[p] = "idle" /\ \A r \in Procs : r # p => pc'[r] = pc[r]
    BY <2>1 DEF Stop, Goto, TypeInv, TypeOK
  <2> QED
    BY <1>1, <2>2, OthersIdle
<1>3. ASSUME NEW step \in Steps \ {"head", "clear", "idle"}, pc' = [pc EXCEPT ![p] = step], elog' = elog,
             plan'[p].events = plan[p].events, plan'[p].command = plan[p].command,
             plan'[p].read = plan[p].read
      PROVE  ContinuityInv'
  <2>1. pc'[p] = step /\ \A r \in Procs : r # p => pc'[r] = pc[r]
    BY <1>3 DEF TypeInv, TypeOK
  <2>2. /\ plan[p].events \in Nat /\ plan[p].command.events \in Nat
        /\ LastEvent' = LastEvent
    BY <1>1, <1>3 DEF Plan, Command, LastEvent
  <2>3. Continuing(p)'
    BY <1>1, <1>3, <2>1, <2>2 DEF Continuing
  <2> QED
    BY <1>1, <2>1, <2>3, OthersIdle
<1>4. CASE AppendRecord(p)
  <2>1. plan'[p] = Anchoring(plan[p])
    BY <1>4 DEF AppendRecord, TypeInv, TypeOK
  <2>2. /\ plan'[p].events = plan[p].events /\ plan'[p].command = plan[p].command
        /\ plan'[p].read = plan[p].read
    BY <1>1, <2>1 DEF Anchoring, Plan
  <2> QED
    BY <1>3, <1>4, <2>2 DEF AppendRecord, Goto, Steps
<1>5. CASE WriteJournal(p) \/ WriteAcceptance(p) \/ WriteStatus(p)
  BY <1>3, <1>5 DEF WriteJournal, WriteAcceptance, WriteStatus, Goto, logs, AfterJournal,
     AfterAcceptance, Steps
<1>6. CASE DigestEvent(p)
  <2>1. /\ plan'[p].events = plan[p].events /\ plan'[p].command = plan[p].command
        /\ plan'[p].read = plan[p].read
    BY <1>1, <1>6 DEF DigestEvent, Plan, TypeInv, TypeOK
  <2> QED
    BY <1>3, <1>6, <2>1 DEF DigestEvent, Goto, logs, Steps
<1>7. CASE AppendEvent(p)
  <2>1. /\ plan'[p].events = plan[p].events - 1 /\ plan'[p].command = plan[p].command
        /\ plan[p].events \in Nat /\ plan[p].command.events \in Nat
    BY <1>1, <1>7 DEF AppendEvent, Plan, Command, TypeInv, TypeOK
  <2>2. pc'[p] = "head" /\ \A r \in Procs : r # p => pc'[r] = pc[r]
    BY <1>7 DEF AppendEvent, Goto, TypeInv, TypeOK
  <2>3. Continuing(p)'
    BY <1>1, <2>1, <2>2 DEF Continuing
  <2> QED
    BY <1>1, <2>2, <2>3, OthersIdle
<1>8. CASE ReplaceHead(p) /\ plan' = plan /\ (Goto(p, "digest") \/ Goto(p, "clear"))
  <2>1. pc'[p] \in {"digest", "clear"} /\ \A r \in Procs : r # p => pc'[r] = pc[r]
    BY <1>8 DEF Goto, TypeInv, TypeOK
  <2>2. plan[p].events < plan[p].command.events /\ plan'[p] = plan[p]
        /\ plan[p].events \in Nat /\ plan[p].command.events \in Nat
    BY <1>1, <1>8 DEF Continuing, ReplaceHead, Plan, Command
  <2>3. Continuing(p)'
    BY <2>1, <2>2 DEF Continuing
  <2> QED
    BY <1>1, <2>1, <2>3, OthersIdle
<1> QED
  BY <1>2, <1>4, <1>5, <1>6, <1>7, <1>8 DEF Continue, ReplaceHead

LEMMA ContinuityBegin ==
  ASSUME TypeInv, FaultInv, AllLocked, NEW p \in Procs, NEW c \in Commands, Begin(p, c)
  PROVE  ContinuityInv'
<1>1. lock = NoProc /\ c \in Command
  BY LedgerAssumption DEF Begin, AllLocked
<1>2. pc'[p] = AfterRead(c) /\ \A r \in Procs : r # p => pc'[r] = pc[r]
  BY DEF Begin, Planned, Goto, TypeInv, TypeOK
<1>3. AfterRead(c) \in {"record", "journal", "digest"}
  BY DEF AfterRead
<1>4. /\ plan'[p].command = c /\ plan'[p].events = c.events
      /\ plan'[p].read = [status |-> status, acceptance |-> acceptance]
  BY DEF Begin, Planned, PlanOf, TypeInv, TypeOK
<1>5. c.audited => LastEvent.status = status /\ LastEvent.acceptance = acceptance
  BY DEF Begin, AuditClean, StatusStale, AcceptanceStale
<1>6. LastEvent' = LastEvent /\ c.events \in Nat
  BY <1>1 DEF Begin, Planned, logs, LastEvent, Command
<1>7. Continuing(p)'
  BY <1>2, <1>3, <1>4, <1>5, <1>6 DEF Continuing
<1> QED
  BY <1>1, <1>2, <1>7, OthersIdle

LEMMA ContinuityDoctor ==
  ASSUME TypeInv, FaultInv, NEW p \in Procs, DoctorRecovers(p)
  PROVE  ContinuityInv'
<1>1. pc'[p] = "journal" /\ \A r \in Procs : r # p => pc'[r] = pc[r]
  BY DEF DoctorRecovers, Goto, TypeInv, TypeOK
<1>2. /\ plan'[p].command = DoctorCommand(HeadStale)
      /\ plan'[p].events = DoctorCommand(HeadStale).events
  BY DEF DoctorRecovers, PlanOf, TypeInv, TypeOK
<1>3. ~DoctorCommand(HeadStale).audited /\ DoctorCommand(HeadStale).events = 1
  BY DEF DoctorCommand
<1>4. Continuing(p)'
  BY <1>1, <1>2, <1>3 DEF Continuing
<1> QED
  BY <1>1, <1>4, OthersIdle DEF DoctorRecovers

LEMMA ContinuityNext == TypeInv /\ FaultInv /\ ContinuityInv /\ AllLocked /\ [Next]_vars => ContinuityInv'
<1> SUFFICES ASSUME TypeInv, FaultInv, ContinuityInv, AllLocked, [Next]_vars PROVE ContinuityInv'
  OBVIOUS
<1>1. ASSUME UNCHANGED <<pc, plan, elog>> PROVE ContinuityInv'
  BY <1>1 DEF ContinuityInv, Continuing, LastEvent
<1>2. ASSUME NEW p \in Procs, NEW c \in Commands, Begin(p, c) \/ Refuse(p, c) PROVE ContinuityInv'
  BY <1>1, <1>2, ContinuityBegin DEF Refuse, vars, logs
<1>3. ASSUME NEW p \in Procs, DoctorPrunes(p) \/ DoctorRecovers(p) \/ DoctorGivesUp(p)
      PROVE  ContinuityInv'
  BY <1>1, <1>3, ContinuityDoctor DEF DoctorPrunes, DoctorGivesUp, vars, logs
<1>4. ASSUME NEW p \in Procs,
             Crash(p) \/ \E tear \in Tears : CrashInEvent(p, tear) \/ CrashInRecord(p, tear)
      PROVE  ContinuityInv'
  <2>1. pc[p] # "idle" /\ Stop(p)
    BY <1>4 DEF Crash, CrashInEvent, CrashInRecord
  <2>2. pc'[p] = "idle" /\ \A r \in Procs : r # p => pc'[r] = pc[r]
    BY <2>1 DEF Stop, Goto, TypeInv, TypeOK
  <2> QED
    BY <2>1, <2>2, OthersIdle
<1>5. CASE HandEdit \/ UNCHANGED vars
  BY <1>1, <1>5 DEF HandEdit, vars, logs
<1> QED
  BY <1>2, <1>3, <1>4, <1>5, ContinuityContinue DEF Next

\* The first event of an auditing command follows an event that recorded exactly the
\* files it read, through every kill, tear, edit and repair. (_audit_errors under
\* project_lock)
THEOREM NoStateSkipped ==
  ASSUME AllLocked
  PROVE  Spec => AuditedContinuity
<1>1. Init => ContinuityInv
  BY DEF Init, ContinuityInv
<1>2. ContinuityInv => (\A p \in Procs : FirstEventOf(p) =>
        LastEvent.status = plan[p].read.status /\ LastEvent.acceptance = plan[p].read.acceptance)
  BY DEF ContinuityInv, Continuing, FirstEventOf
<1> QED
  BY TypeInit, TypeNext, FaultInit, FaultNext, ContinuityNext, <1>1, <1>2, PTL
     DEF Spec, AuditedContinuity

-----------------------------------------------------------------------------
(***************************************************************************)
(* doctor never launders an edit.  Every content by an editor that it has  *)
(* proved, in its plan or in the journal, has a version the log already    *)
(* holds; and the log only grows until it is torn, after which nothing is  *)
(* appended whole.  No assumption on the lock is needed, and an editor may *)
(* save at any time: only what was saved after the proof is excepted.      *)
(***************************************************************************)
KnownStatus(s, log) == s.hand => \E j \in 1..Len(log) : log[j].status.ver = s.ver
KnownAcceptance(a, log) == a.hand => \E j \in 1..Len(log) : log[j].acceptance.ver = a.ver

DoctorAt(p) == pc[p] # "idle" /\ plan[p].command.kind = "doctor"

PlanKnown(p, log) ==
  /\ plan[p].status # None => KnownStatus(plan[p].status, log)
  /\ plan[p].acceptance # None => ~plan[p].acceptance.hand
  /\ DoctorAt(p) => /\ KnownStatus(plan[p].read.status, log)
                    /\ KnownAcceptance(plan[p].read.acceptance, log)
JournalKnown(log) ==
  /\ journal.status # None => KnownStatus(journal.status, log)
  /\ journal.acceptance # None => ~journal.acceptance.hand
Accounted == Len(elog) > 0 /\ JournalKnown(elog) /\ \A p \in Procs : PlanKnown(p, elog)

LaunderInv == etail # "torn" => Accounted

Extends(log) == Len(log) \in Nat /\ Len(log) >= Len(elog) /\ \A i \in 1..Len(elog) : log[i] = elog[i]

LEMMA KnownGrows ==
  ASSUME TypeInv, NEW log, Extends(log), NEW s, NEW a
  PROVE  /\ KnownStatus(s, elog) => KnownStatus(s, log)
         /\ KnownAcceptance(a, elog) => KnownAcceptance(a, log)
BY DEF Extends, KnownStatus, KnownAcceptance, TypeInv, TypeOK

\* A step of p that leaves the log as it is: what p knows then is all there is to show.
LEMMA LogKept ==
  ASSUME TypeInv, LaunderInv, NEW p \in Procs, elog' = elog,
         \A r \in Procs : r # p => pc'[r] = pc[r] /\ plan'[r] = plan[r],
         etail' # "torn" => etail # "torn",
         etail' # "torn" => JournalKnown(elog)' /\ PlanKnown(p, elog)'
  PROVE  LaunderInv'
<1>1. ASSUME NEW r \in Procs, r # p, etail' # "torn" PROVE PlanKnown(r, elog)'
  BY <1>1 DEF PlanKnown, DoctorAt, LaunderInv, Accounted
<1> QED
  BY <1>1 DEF LaunderInv, Accounted

\* A process that ends or dies with the log as it is.
LEMMA StopKept ==
  ASSUME TypeInv, LaunderInv, NEW p \in Procs, Stop(p), elog' = elog,
         etail' # "torn" => etail # "torn", journal' \in {journal, NoJournal}
  PROVE  LaunderInv'
<1>1. /\ pc'[p] = "idle" /\ plan'[p] = NoPlan
      /\ \A r \in Procs : r # p => pc'[r] = pc[r] /\ plan'[r] = plan[r]
  BY DEF Stop, Goto, TypeInv, TypeOK
<1>2. NoPlan.status = None /\ NoPlan.acceptance = None /\ NoJournal.status = None
      /\ NoJournal.acceptance = None
  BY DEF NoPlan, NoJournal
<1>3. etail' # "torn" => JournalKnown(elog)' /\ PlanKnown(p, elog)'
  BY <1>1, <1>2 DEF LaunderInv, Accounted, JournalKnown, PlanKnown, DoctorAt
<1> QED
  BY <1>1, <1>3, LogKept

LEMMA LaunderBegin ==
  ASSUME TypeInv, LaunderInv, NEW p \in Procs, NEW c \in Commands, Begin(p, c)
  PROVE  LaunderInv'
<1> DEFINE s == IF c.status THEN [ver |-> version + 1, vhead |-> status.vhead, hand |-> FALSE] ELSE None
           a == IF c.acceptance THEN [ver |-> version + 1, hand |-> FALSE] ELSE None
<1>1. c.kind # "doctor"
  BY LedgerAssumption
<1>2. (s # None => ~s.hand) /\ (a # None => ~a.hand)
  OBVIOUS
<1>3. UNCHANGED <<journal, logs>>
  BY DEF Begin, Planned
<1>4. plan'[p].command = c /\ plan'[p].status = s /\ plan'[p].acceptance = a
  BY DEF Begin, Planned, PlanOf, TypeInv, TypeOK
<1> HIDE DEF s, a
<1>5. \A r \in Procs : r # p => pc'[r] = pc[r] /\ plan'[r] = plan[r]
  BY DEF Begin, Planned, Goto, TypeInv, TypeOK
<1>6. ~DoctorAt(p)'
  BY <1>1, <1>4 DEF DoctorAt
<1>7. etail' # "torn" => JournalKnown(elog)' /\ PlanKnown(p, elog)'
  BY <1>2, <1>3, <1>4, <1>6 DEF LaunderInv, Accounted, JournalKnown, PlanKnown, KnownStatus, logs
<1> QED
  BY <1>3, <1>5, <1>7, LogKept DEF logs

LEMMA LaunderAppendRecord ==
  ASSUME TypeInv, LaunderInv, NEW p \in Procs, AppendRecord(p)
  PROVE  LaunderInv'
<1> DEFINE q == plan[p]
           new == Anchoring(q)
<1>1. q \in Plan /\ q.status \in StatusContent /\ q.status # None
  BY NoneAssumption DEF TypeInv, TypeOK, AppendRecord, PlanFits, PlanFitsOf, Plan
<1>2. new.command = q.command /\ new.acceptance = q.acceptance
  BY <1>1, AnchoringIs DEF TypeInv, TypeOK
<1>3. new.status.ver = q.status.ver /\ new.status.hand = q.status.hand /\ new.read = q.read
  <2>1. new.status = [q.status EXCEPT !.vhead = vlog + 1] /\ new.read = q.read
    BY <1>1 DEF Anchoring, Plan
  <2> QED
    BY <1>1, <2>1 DEF StatusContent
<1>4. /\ plan'[p] = new /\ pc[p] = "record"
      /\ \A r \in Procs : r # p => pc'[r] = pc[r] /\ plan'[r] = plan[r]
  BY DEF AppendRecord, Goto, TypeInv, TypeOK
<1>5. UNCHANGED <<journal, elog, etail>>
  BY DEF AppendRecord
<1> HIDE DEF q, new
<1>6. DoctorAt(p)' => DoctorAt(p)
  BY <1>2, <1>4 DEF DoctorAt, q
<1>7. etail' # "torn" => JournalKnown(elog)' /\ PlanKnown(p, elog)'
  BY <1>1, <1>2, <1>3, <1>4, <1>5, <1>6
     DEF LaunderInv, Accounted, JournalKnown, PlanKnown, KnownStatus, KnownAcceptance, q
<1> QED
  BY <1>4, <1>5, <1>7, LogKept

LEMMA LaunderWrites ==
  ASSUME TypeInv, LaunderInv, NEW p \in Procs,
         WriteJournal(p) \/ WriteAcceptance(p) \/ WriteStatus(p) \/ DigestEvent(p)
  PROVE  LaunderInv'
<1>1. /\ UNCHANGED <<elog, etail>> /\ pc[p] # "idle"
      /\ \A r \in Procs : r # p => pc'[r] = pc[r] /\ plan'[r] = plan[r]
  BY DEF WriteJournal, WriteAcceptance, WriteStatus, DigestEvent, Goto, logs, TypeInv, TypeOK
<1>2. /\ plan'[p].command = plan[p].command /\ plan'[p].status = plan[p].status
      /\ plan'[p].acceptance = plan[p].acceptance /\ plan'[p].read = plan[p].read
  BY DEF WriteJournal, WriteAcceptance, WriteStatus, DigestEvent, TypeInv, TypeOK, Plan
<1>3. etail # "torn" => JournalKnown(elog) /\ PlanKnown(p, elog)
  BY DEF LaunderInv, Accounted
<1>4. etail # "torn" => JournalKnown(elog)'
  <2>1. CASE WriteJournal(p)
    BY <1>1, <1>3, <2>1 DEF WriteJournal, JournalKnown, PlanKnown
  <2> QED
    BY <1>1, <1>3, <2>1 DEF WriteAcceptance, WriteStatus, DigestEvent, JournalKnown
<1>5. etail # "torn" => PlanKnown(p, elog)'
  BY <1>1, <1>2, <1>3 DEF PlanKnown, DoctorAt
<1> QED
  BY <1>1, <1>4, <1>5, LogKept

\* One line of p's goes onto the log, whole.
LEMMA LineAppended ==
  ASSUME TypeInv, LaunderInv, NEW p \in Procs, pc[p] = "append", etail = "clean",
         elog' = Append(elog, plan[p].line), journal' = journal,
         \A r \in Procs : r # p => pc'[r] = pc[r] /\ plan'[r] = plan[r],
         \/ pc'[p] = "idle"
         \/ plan'[p].command = plan[p].command /\ plan'[p].read = plan[p].read,
         plan'[p].status \in {plan[p].status, None},
         plan'[p].acceptance \in {plan[p].acceptance, None}
  PROVE  LaunderInv'
<1>1. elog \in Seq(EventLine) /\ plan[p].line \in EventLine
  BY DEF TypeInv, TypeOK, Plan
<1>2. Len(elog') = Len(elog) + 1 /\ \A i \in 1..Len(elog) : elog'[i] = elog[i]
  BY <1>1
<1>3. Extends(elog') /\ Len(elog) \in Nat
  BY <1>1, <1>2 DEF Extends
<1>4. Accounted
  BY DEF LaunderInv
<1>5. JournalKnown(elog)'
  BY <1>3, <1>4, KnownGrows DEF Accounted, JournalKnown
<1>6. ASSUME NEW r \in Procs, r # p PROVE PlanKnown(r, elog)'
  BY <1>3, <1>4, <1>6, KnownGrows DEF Accounted, PlanKnown, DoctorAt
<1>7. PlanKnown(p, elog)'
  BY <1>3, <1>4, KnownGrows DEF Accounted, PlanKnown, DoctorAt
<1> QED
  BY <1>2, <1>3, <1>5, <1>6, <1>7 DEF LaunderInv, Accounted

LEMMA LaunderAppendEvent ==
  ASSUME TypeInv, LaunderInv, NEW p \in Procs, AppendEvent(p)
  PROVE  LaunderInv'
<1>1. /\ journal' = journal /\ pc[p] = "append"
      /\ \A r \in Procs : r # p => pc'[r] = pc[r] /\ plan'[r] = plan[r]
  BY DEF AppendEvent, Goto, TypeInv, TypeOK
<1>2. /\ plan'[p].command = plan[p].command /\ plan'[p].status = plan[p].status
      /\ plan'[p].acceptance = plan[p].acceptance /\ plan'[p].read = plan[p].read
  BY DEF AppendEvent, TypeInv, TypeOK, Plan
<1>3. CASE etail = "clean"
  <2>1. elog' = Append(elog, plan[p].line)
    BY <1>3 DEF AppendEvent
  <2> QED
    BY <1>1, <1>2, <1>3, <2>1, LineAppended
<1>4. CASE etail # "clean"
  BY <1>4 DEF AppendEvent, LaunderInv
<1> QED
  BY <1>3, <1>4

LEMMA LaunderContinue ==
  ASSUME TypeInv, LaunderInv, NEW p \in Procs, Continue(p)
  PROVE  LaunderInv'
<1>1. CASE ReplaceHead(p)
  <2>1. UNCHANGED <<journal, elog, etail>>
    BY <1>1 DEF ReplaceHead
  <2>2. CASE Stop(p)
    BY <2>1, <2>2, StopKept
  <2>3. CASE plan' = plan /\ (Goto(p, "digest") \/ Goto(p, "clear"))
    <3>1. /\ pc[p] # "idle"
          /\ \A r \in Procs : r # p => pc'[r] = pc[r] /\ plan'[r] = plan[r]
      BY <1>1, <2>3 DEF ReplaceHead, Goto, TypeInv, TypeOK
    <3>2. etail' # "torn" => JournalKnown(elog)' /\ PlanKnown(p, elog)'
      BY <2>1, <2>3, <3>1 DEF LaunderInv, Accounted, JournalKnown, PlanKnown, DoctorAt
    <3> QED
      BY <2>1, <3>1, <3>2, LogKept
  <2> QED
    BY <1>1, <2>2, <2>3 DEF ReplaceHead
<1>2. CASE RaiseOnTornLog(p) \/ ClearJournal(p)
  BY <1>2, StopKept DEF RaiseOnTornLog, ClearJournal, logs
<1> QED
  BY <1>1, <1>2, LaunderAppendRecord, LaunderWrites, LaunderAppendEvent DEF Continue

\* What doctor finds proven, a command wrote or the log already holds.
LEMMA ProvenKnown ==
  ASSUME TypeInv, LaunderInv, DoctorMayRecover
  PROVE  KnownStatus(status, elog) /\ KnownAcceptance(acceptance, elog)
<1>1. Accounted /\ Len(elog) \in 1..Len(elog)
  BY DEF DoctorMayRecover, EventChainIntact, LaunderInv, Accounted, TypeInv, TypeOK
<1>2. KnownStatus(status, elog)
  <2>1. CASE journal.status # None
    BY <1>1, <2>1 DEF DoctorMayRecover, Proven, Accounted, JournalKnown
  <2>2. CASE journal.status = None
    BY <1>1, <2>2 DEF DoctorMayRecover, Proven, StatusStale, LastEvent, KnownStatus
  <2> QED
    BY <2>1, <2>2
<1>3. KnownAcceptance(acceptance, elog)
  <2>1. CASE journal.acceptance # None
    BY <1>1, <2>1 DEF DoctorMayRecover, Proven, Accounted, JournalKnown, KnownAcceptance
  <2>2. CASE journal.acceptance = None
    BY <1>1, <2>2 DEF DoctorMayRecover, Proven, AcceptanceStale, LastEvent, KnownAcceptance
  <2> QED
    BY <2>1, <2>2
<1> QED
  BY <1>2, <1>3

LEMMA LaunderDoctor ==
  ASSUME TypeInv, LaunderInv, NEW p \in Procs, DoctorRecovers(p)
  PROVE  LaunderInv'
<1> DEFINE s == IF HeadStale THEN [status EXCEPT !.vhead = vlog] ELSE None
<1>1. s # None => s.hand = status.hand /\ s.ver = status.ver
  BY DEF TypeInv, TypeOK, StatusContent
<1>2. /\ UNCHANGED <<journal, logs>>
      /\ \A r \in Procs : r # p => pc'[r] = pc[r] /\ plan'[r] = plan[r]
  BY DEF DoctorRecovers, Goto, TypeInv, TypeOK
<1>3. /\ plan'[p].status = s /\ plan'[p].acceptance = None
      /\ plan'[p].read.status = status /\ plan'[p].read.acceptance = acceptance
  BY DEF DoctorRecovers, PlanOf, Goto, TypeInv, TypeOK
<1> HIDE DEF s
<1>4. KnownStatus(status, elog) /\ KnownAcceptance(acceptance, elog)
  BY ProvenKnown DEF DoctorRecovers
<1>5. etail' # "torn" => JournalKnown(elog)' /\ PlanKnown(p, elog)'
  BY <1>1, <1>2, <1>3, <1>4
     DEF LaunderInv, Accounted, JournalKnown, PlanKnown, KnownStatus, KnownAcceptance, logs
<1> QED
  BY <1>2, <1>5, LogKept DEF logs

LEMMA LaunderCrash ==
  ASSUME TypeInv, LaunderInv, NEW p \in Procs,
         Crash(p) \/ \E tear \in Tears : CrashInEvent(p, tear) \/ CrashInRecord(p, tear)
  PROVE  LaunderInv'
<1>1. CASE Crash(p) \/ \E tear \in Tears : CrashInRecord(p, tear)
  <2>1. Stop(p) /\ UNCHANGED <<journal, elog, etail>>
    BY <1>1 DEF Crash, CrashInRecord, logs
  <2> QED
    BY <2>1, StopKept
<1>2. ASSUME NEW tear \in Tears, CrashInEvent(p, tear) PROVE LaunderInv'
  <2>1. /\ Stop(p) /\ journal' = journal /\ pc[p] = "append" /\ etail = "clean"
        /\ elog' = IF tear = "bare" THEN Append(elog, plan[p].line) ELSE elog
    BY <1>2 DEF CrashInEvent
  <2>2. CASE tear = "bare"
    <3>1. /\ pc'[p] = "idle" /\ plan'[p].status = None /\ plan'[p].acceptance = None
          /\ \A r \in Procs : r # p => pc'[r] = pc[r] /\ plan'[r] = plan[r]
      BY <2>1 DEF Stop, Goto, NoPlan, TypeInv, TypeOK
    <3>2. elog' = Append(elog, plan[p].line)
      BY <2>1, <2>2
    <3> QED
      BY <2>1, <3>1, <3>2, LineAppended
  <2>3. CASE tear # "bare"
    BY <2>1, <2>3, StopKept
  <2> QED
    BY <2>2, <2>3
<1> QED
  BY <1>1, <1>2

LEMMA LaunderInit == Init => LaunderInv
<1> SUFFICES ASSUME Init PROVE LaunderInv
  OBVIOUS
<1>1. \A p \in Procs : pc[p] = "idle" /\ plan[p].status = None /\ plan[p].acceptance = None
  BY DEF Init, NoPlan
<1>2. Len(elog) = 1 /\ journal.status = None /\ journal.acceptance = None
  BY DEF Init, NoJournal
<1> QED
  BY <1>1, <1>2 DEF LaunderInv, DoctorAt, Accounted, JournalKnown, PlanKnown

LEMMA LaunderNext == TypeInv /\ LaunderInv /\ [Next]_vars => LaunderInv'
<1> SUFFICES ASSUME TypeInv, LaunderInv, [Next]_vars PROVE LaunderInv'
  OBVIOUS
<1>1. ASSUME UNCHANGED <<logs, pc, plan>>, journal' \in {journal, NoJournal}
      PROVE  LaunderInv'
  <2>1. NoJournal.status = None /\ NoJournal.acceptance = None
    BY DEF NoJournal
  <2> QED
    BY <1>1, <2>1 DEF logs, LaunderInv, DoctorAt, Accounted, JournalKnown, PlanKnown
<1>2. ASSUME NEW p \in Procs, NEW c \in Commands, Begin(p, c) \/ Refuse(p, c) PROVE LaunderInv'
  BY <1>1, <1>2, LaunderBegin DEF Refuse, vars
<1>3. ASSUME NEW p \in Procs, DoctorPrunes(p) \/ DoctorRecovers(p) \/ DoctorGivesUp(p)
      PROVE  LaunderInv'
  BY <1>1, <1>3, LaunderDoctor DEF DoctorPrunes, DoctorGivesUp, vars
<1>4. CASE HandEdit \/ UNCHANGED vars
  BY <1>1, <1>4 DEF HandEdit, vars
<1> QED
  BY <1>2, <1>3, <1>4, LaunderContinue, LaunderCrash DEF Next

\* A step after which the log is longer found it whole.
LEMMA GrowsWhole ==
  ASSUME TypeInv, [Next]_vars, Len(elog') > Len(elog)
  PROVE  etail # "torn"
<1>1. elog' # elog /\ elog \in Seq(EventLine)
  BY DEF TypeInv, TypeOK
<1>2. ASSUME NEW p \in Procs, AppendEvent(p) PROVE etail # "torn"
  BY <1>1, <1>2 DEF AppendEvent
<1>3. ASSUME NEW p \in Procs, NEW tear \in Tears, CrashInEvent(p, tear) PROVE etail # "torn"
  BY <1>3 DEF CrashInEvent
<1>4. ASSUME NEW p \in Procs, Continue(p), ~AppendEvent(p) PROVE elog' = elog
  BY <1>4 DEF Continue, logs, AppendRecord, WriteJournal, WriteAcceptance, WriteStatus, DigestEvent,
     RaiseOnTornLog, ReplaceHead, ClearJournal
<1>5. ASSUME NEW p \in Procs, NEW c \in Commands, Begin(p, c) \/ Refuse(p, c) PROVE elog' = elog
  BY <1>5 DEF Begin, Planned, Refuse, vars, logs
<1>6. ASSUME NEW p \in Procs, DoctorPrunes(p) \/ DoctorRecovers(p) \/ DoctorGivesUp(p)
      PROVE  elog' = elog
  BY <1>6 DEF DoctorPrunes, DoctorRecovers, DoctorGivesUp, vars, logs
<1>7. ASSUME NEW p \in Procs, Crash(p) \/ \E tear \in Tears : CrashInRecord(p, tear)
      PROVE  elog' = elog
  BY <1>7 DEF Crash, CrashInRecord, logs
<1>8. CASE HandEdit \/ UNCHANGED vars
  BY <1>1, <1>8 DEF HandEdit, vars, logs
<1> QED
  BY <1>1, <1>2, <1>3, <1>4, <1>5, <1>6, <1>7, <1>8 DEF Next

\* What doctor proved and then records is never the work of an editor that no event had
\* recorded, for any commands, locked or not, any kills and tears, and edits at any
\* moment. (_proven in cmd_doctor)
THEOREM DoctorIsHonest == Spec => DoctorNeverLaunders
<1>1. ASSUME TypeInv, LaunderInv, [Next]_vars, NEW p \in Procs, DoctorRecords(p)
      PROVE  LET line == plan[p].line
                 read == plan[p].read
             IN /\ line.status.hand /\ SameContent(line.status, read.status) =>
                     \E j \in 1..Len(elog) : elog[j].status.ver = line.status.ver
                /\ line.acceptance.hand /\ SameContent(line.acceptance, read.acceptance) =>
                     \E j \in 1..Len(elog) : elog[j].acceptance.ver = line.acceptance.ver
  <2>1. Accounted /\ DoctorAt(p)
    BY <1>1, GrowsWhole DEF LaunderInv, DoctorRecords, DoctorAt
  <2>2. KnownStatus(plan[p].read.status, elog) /\ KnownAcceptance(plan[p].read.acceptance, elog)
    BY <2>1 DEF Accounted, PlanKnown
  <2> QED
    BY <2>2 DEF KnownStatus, KnownAcceptance, SameContent
<1>2. TypeInv /\ LaunderInv /\ [Next]_vars =>
        [\A p \in Procs : DoctorRecords(p) =>
           LET line == plan[p].line
               read == plan[p].read
           IN /\ line.status.hand /\ SameContent(line.status, read.status) =>
                   \E j \in 1..Len(elog) : elog[j].status.ver = line.status.ver
              /\ line.acceptance.hand /\ SameContent(line.acceptance, read.acceptance) =>
                   \E j \in 1..Len(elog) : elog[j].acceptance.ver = line.acceptance.ver]_vars
  BY <1>1
<1> QED
  BY <1>2, TypeInit, TypeNext, LaunderInit, LaunderNext, PTL DEF Spec, DoctorNeverLaunders
=============================================================================
