---------------------------- MODULE PilotProofs ----------------------------
(***************************************************************************)
(* What people decide and are shown, for any number of issues, sessions,   *)
(* criteria, items, proofs, pages and launches.                            *)
(*                                                                         *)
(* First the close, on its own: Standing holds of any number of calls (a   *)
(* record is filled in its order, and what a call saw of an issue still    *)
(* says enough of it); Steady is for one call at a time (the record on     *)
(* disk is the one the call has in memory, until the run is reopened and   *)
(* there is none).  Then the six modules that share variables, each with   *)
(* its inductive invariant, and at the end all of them together.           *)
(***************************************************************************)
EXTENDS Pilot, FiniteSetTheorems, SequenceTheorems, TLAPS

Names(i) == Range(Ops(i))
Final(state) == state \in TerminalStates

\* The operations of a record are completed in their order.
Ordered(m) ==
  /\ \A i \in Issues : ~Final(m.items[i].ops["commented"]) =>
       ~Final(m.items[i].ops["closed"]) /\ ~m.items[i].acted
  /\ ~Final(m.steps["prepare"]) => ~m.decided /\ \A s \in Steps : ~Final(m.steps[s])
  /\ Final(m.steps["archive"]) => Final(m.steps["final_report_post"])
  /\ m.steps["prepare"] # "skipped"

Commenting(c) ==
  /\ caller[c].item # NoItem
  /\ ~Final(caller[c].mem.items[caller[c].item].ops["commented"])

\* A report once seen is there, and a call that is to comment on a closed issue
\* had not found it closed by a person.
ViewStands(c) ==
  LET k == caller[c] IN
  /\ k.item # NoItem /\ k.view.report => issue[k.item].reports # <<>>
  /\ Commenting(c) /\ k.pc \in {"enter", "observe", "act"} /\ ~k.view.report =>
       k.view.open \/ k.view.by # "person"
  /\ Commenting(c) /\ k.pc = "act" => ~k.view.report

\* A call inside an operation has one that is not final, and issues are dealt
\* with while the report of the closed run is not.
Placed(c) ==
  LET k == caller[c] IN
  /\ k.pc \in {"observe", "act", "writing", "acted", "readback"} => Unfinished(k.mem, k.item) # {}
  /\ k.pc \in {"idle", "items"} => k.item = NoItem
  /\ k.item # NoItem \/ k.pc = "items" =>
       ~Final(k.mem.steps["final_report_post"]) /\ Final(k.mem.steps["prepare"])

Fine(c) == Ordered(caller[c].mem) /\ ViewStands(c) /\ Placed(c)
OwnClosuresReported == \A i \in Issues : issue[i].ownClose => issue[i].reports # <<>>

Standing ==
  /\ TypeOK
  /\ rec # NoRecord => Ordered(rec)
  /\ OwnClosuresReported
  /\ \A c \in Callers : Fine(c)

-----------------------------------------------------------------------------
(* Names and records *)

LEMMA NamesAre ==
  /\ Steps = {"prepare", "final_report_post", "archive", "fleet_unregister", "dashboard_shutdown",
              "config_restore"}
  /\ Range(ItemOps) = {"commented", "closed", "ticked"}
  /\ DOMAIN TeardownSteps = 1..6 /\ DOMAIN ItemOps = 1..3
  /\ Names(NoItem) = Steps /\ \A i \in Issues : Names(i) = Range(ItemOps)
<1>1. DOMAIN TeardownSteps = 1..6 /\ DOMAIN ItemOps = 1..3
  BY DEF TeardownSteps, ItemOps
<1>2. Steps = {TeardownSteps[n] : n \in 1..6} /\ Range(ItemOps) = {ItemOps[n] : n \in 1..3}
  BY <1>1 DEF Steps, Range
<1>3. {TeardownSteps[n] : n \in 1..6} = {TeardownSteps[1], TeardownSteps[2], TeardownSteps[3], TeardownSteps[4],
                                         TeardownSteps[5], TeardownSteps[6]}
  OBVIOUS
<1>4. {ItemOps[n] : n \in 1..3} = {ItemOps[1], ItemOps[2], ItemOps[3]}
  OBVIOUS
<1>5. Names(NoItem) = Steps /\ \A i \in Issues : Names(i) = Range(ItemOps)
  BY CloseAssumption DEF Names, Ops, Steps
<1> QED BY <1>1, <1>2, <1>3, <1>4, <1>5 DEF TeardownSteps, ItemOps

LEMMA HeadsAre == 0 \in Heads
<1>1. Cardinality(Issues) \in Nat /\ Cardinality(Callers) \in Nat
  BY CloseAssumption, FS_CardinalityType
<1> QED BY <1>1 DEF Heads

LEMMA NewRecordIs == NewRecord \in Record /\ Ordered(NewRecord)
<1>1. NewRecord \in Record
  BY DEF NewRecord, Record, Item, Row
<1> QED BY <1>1, NamesAre DEF NewRecord, Ordered, Final, TerminalStates

LEMMA IdleIs == Idle \in CallerState
BY HeadsAre, NewRecordIs, CloseAssumption
DEF Idle, CallerState, Pcs, Tokens, View, Closers

\* What changes of a record when one row does.
LEMMA StepRow ==
  ASSUME NEW m \in Record, NEW n \in Steps, NEW r \in Row
  PROVE  LET w == WithRow(m, NoItem, n, r) IN
         /\ w \in Record /\ w.state = m.state /\ w.items = m.items /\ w.decided = m.decided
         /\ \A s \in Steps : w.steps[s] = IF s = n THEN r ELSE m.steps[s]
<1>1. WithRow(m, NoItem, n, r) = [m EXCEPT !.steps = [m.steps EXCEPT ![n] = r]]
  BY DEF WithRow
<1>2. m.steps \in [Steps -> Row] /\ [m.steps EXCEPT ![n] = r] \in [Steps -> Row]
  BY DEF Record
<1> QED BY <1>1, <1>2 DEF Record

LEMMA ItemRow ==
  ASSUME NEW m \in Record, NEW i \in Issues, NEW n \in Range(ItemOps), NEW r \in Row
  PROVE  LET w == WithRow(m, i, n, r) IN
         /\ w \in Record /\ w.state = m.state /\ w.steps = m.steps /\ w.decided = m.decided
         /\ \A j \in Issues :
              /\ w.items[j].acted = m.items[j].acted /\ w.items[j].unpostable = m.items[j].unpostable
              /\ \A x \in Range(ItemOps) : w.items[j].ops[x] = IF j = i /\ x = n THEN r ELSE m.items[j].ops[x]
<1> DEFINE ops == [m.items[i].ops EXCEPT ![n] = r]
           item == [m.items[i] EXCEPT !.ops = ops]
           items == [m.items EXCEPT ![i] = item]
<1>1. WithRow(m, i, n, r) = [m EXCEPT !.items = items]
  BY CloseAssumption DEF WithRow
<1>2. m.items \in [Issues -> Item] /\ m.items[i] \in Item /\ m.items[i].ops \in [Range(ItemOps) -> Row]
  BY DEF Record, Item
<1>3. ops \in [Range(ItemOps) -> Row] /\ \A x \in Range(ItemOps) : ops[x] = IF x = n THEN r ELSE m.items[i].ops[x]
  BY <1>2
<1>4. /\ item \in Item /\ item.ops = ops
      /\ item.acted = m.items[i].acted /\ item.unpostable = m.items[i].unpostable
  BY <1>2, <1>3 DEF Item
<1>5. items \in [Issues -> Item] /\ \A j \in Issues : items[j] = IF j = i THEN item ELSE m.items[j]
  BY <1>2, <1>4
<1>6. [m EXCEPT !.items = items] \in Record
  BY <1>5 DEF Record
<1>7. /\ [m EXCEPT !.items = items].items = items /\ [m EXCEPT !.items = items].steps = m.steps
      /\ [m EXCEPT !.items = items].state = m.state /\ [m EXCEPT !.items = items].decided = m.decided
  BY DEF Record
<1> QED BY <1>1, <1>3, <1>4, <1>5, <1>6, <1>7

\* The operation a call stands at is not final, and those before it are.
LEMMA OpIs ==
  ASSUME NEW c \in Callers, caller[c] \in CallerState, Unfinished(caller[c].mem, caller[c].item) # {}
  PROVE  /\ Op(c) \in Names(caller[c].item) /\ ~Final(RowOf(caller[c].mem, caller[c].item, Op(c)))
         /\ caller[c].item = NoItem /\ Op(c) # "prepare" => Final(caller[c].mem.steps["prepare"])
         /\ caller[c].item = NoItem /\ Op(c) \notin {"prepare", "final_report_post"} =>
              Final(caller[c].mem.steps["final_report_post"])
         /\ caller[c].item # NoItem /\ Op(c) # "commented" =>
              Final(caller[c].mem.items[caller[c].item].ops["commented"])
<1> DEFINE m == caller[c].mem
           i == caller[c].item
           left == Unfinished(m, i)
           n == CHOOSE k \in left : \A other \in left : k <= other
<1>1. i \in Issues \cup {NoItem}
  BY DEF CallerState
<1>2. DOMAIN Ops(i) \in {1..6, 1..3}
  BY NamesAre DEF Ops
<1>3. left \subseteq DOMAIN Ops(i)
  BY DEF Unfinished
<1>4. \E k \in left : \A other \in left : k <= other
  <2>1. left \subseteq 1..6 /\ left # {}
    BY <1>2, <1>3
  <2> HIDE DEF left
  <2>2. PICK k \in 1..6 : k \in left
    BY <2>1
  <2>3. 1 \in left \/ 2 \in left \/ 3 \in left \/ 4 \in left \/ 5 \in left \/ 6 \in left
    BY <2>2
  <2> QED BY <2>1, <2>3
<1>5. n \in left /\ \A other \in left : n <= other
  BY <1>4
<1>6. Op(c) = Ops(i)[n]
  BY DEF Op
<1>7. n \in DOMAIN Ops(i) /\ ~Final(RowOf(m, i, Ops(i)[n]))
  BY <1>5 DEF Unfinished, Final
<1>8. Op(c) \in Names(i)
  BY <1>6, <1>7 DEF Names, Range
<1>9. \A k \in DOMAIN Ops(i) : k < n => Final(RowOf(m, i, Ops(i)[k]))
  <2>1. \A k \in DOMAIN Ops(i) : ~Final(RowOf(m, i, Ops(i)[k])) => k \in left
    BY DEF Unfinished, Final
  <2> QED BY <1>2, <1>5, <1>7, <2>1
<1> HIDE DEF n, left
<1>10. CASE i = NoItem
  <2>1. DOMAIN Ops(i) = 1..6 /\ Ops(i) = TeardownSteps
    BY <1>10, NamesAre DEF Ops
  <2>2. \A k \in 1..6 : k < n => Final(m.steps[TeardownSteps[k]])
    BY <1>9, <1>10, <2>1 DEF RowOf
  <2>3. TeardownSteps[1] = "prepare" /\ TeardownSteps[2] = "final_report_post"
    BY DEF TeardownSteps
  <2>4. n = 1 \/ n = 2 \/ n > 2
    BY <1>7, <2>1
  <2> QED BY <1>6, <1>7, <1>8, <1>10, <2>1, <2>2, <2>3, <2>4
<1>11. CASE i # NoItem
  <2>1. DOMAIN Ops(i) = 1..3 /\ Ops(i) = ItemOps
    BY <1>11, NamesAre DEF Ops
  <2>2. \A k \in 1..3 : k < n => Final(m.items[i].ops[ItemOps[k]])
    BY <1>9, <1>11, <2>1 DEF RowOf
  <2>3. ItemOps[1] = "commented"
    BY DEF ItemOps
  <2>4. n = 1 \/ n > 1
    BY <1>7, <2>1
  <2> QED BY <1>6, <1>7, <1>8, <1>11, <2>1, <2>2, <2>3, <2>4
<1> QED BY <1>10, <1>11

-----------------------------------------------------------------------------
(* What a step does to the calls *)

\* The call moves and keeps what it is about, with the record m in memory.
Walks(c, pc, m) ==
  /\ caller' \in [Callers -> CallerState]
  /\ \A q \in Callers : q # c => caller'[q] = caller[q]
  /\ caller'[c].pc = pc /\ caller'[c].mem = m
  /\ caller'[c].item = caller[c].item /\ caller'[c].view = caller[c].view
  /\ caller'[c].token = caller[c].token

\* The call leaves its issue and goes on with the next.
Leaves(c, m) ==
  /\ caller' \in [Callers -> CallerState]
  /\ \A q \in Callers : q # c => caller'[q] = caller[q]
  /\ caller'[c].pc = "items" /\ caller'[c].mem = m /\ caller'[c].item = NoItem
  /\ caller'[c].view = Idle.view /\ caller'[c].token = caller[c].token

\* The call ends.
Ends(c) ==
  /\ caller' \in [Callers -> CallerState]
  /\ \A q \in Callers : q # c => caller'[q] = caller[q]
  /\ caller'[c] = Idle

LEMMA GoesWalks ==
  ASSUME caller \in [Callers -> CallerState], NEW c \in Callers, NEW pc \in Pcs, NEW m \in Record,
         Goes(c, pc, m)
  PROVE  Walks(c, pc, m)
<1> DEFINE new == [caller[c] EXCEPT !.pc = pc, !.mem = m]
<1>1. new \in CallerState /\ caller' = [caller EXCEPT ![c] = new]
  BY DEF Goes, CallerState
<1>2. new.pc = pc /\ new.mem = m /\ new.item = caller[c].item /\ new.view = caller[c].view
      /\ new.token = caller[c].token
  BY DEF CallerState
<1> HIDE DEF new
<1> QED BY <1>1, <1>2 DEF Walks

LEMMA EndsAre ==
  ASSUME caller \in [Callers -> CallerState], NEW c \in Callers, caller' = [caller EXCEPT ![c] = Idle]
  PROVE  Ends(c)
BY IdleIs DEF Ends

LEMMA RaisesAre ==
  ASSUME caller \in [Callers -> CallerState], NEW c \in Callers, NEW m \in Record, Raises(c, m)
  PROVE  Saves(c, m) /\ IF caller[c].item = NoItem THEN Ends(c) ELSE Leaves(c, m)
<1>1. CASE caller[c].item = NoItem
  <2>1. caller' = [caller EXCEPT ![c] = Idle]
    BY <1>1 DEF Raises
  <2> QED BY <1>1, <2>1, EndsAre DEF Raises
<1>2. CASE caller[c].item # NoItem
  <2> DEFINE new == [caller[c] EXCEPT !.pc = "items", !.item = NoItem, !.view = Idle.view, !.mem = m]
  <2>1. caller' = [caller EXCEPT ![c] = new]
    BY <1>2 DEF Raises
  <2>2. /\ new.pc = "items" /\ new.mem = m /\ new.item = NoItem /\ new.view = Idle.view
        /\ new.token = caller[c].token /\ new \in CallerState
    BY IdleIs DEF CallerState, Pcs
  <2> HIDE DEF new
  <2> QED BY <1>2, <2>1, <2>2 DEF Raises, Leaves
<1> QED BY <1>1, <1>2

LEMMA ItemDoneLeaves ==
  ASSUME caller \in [Callers -> CallerState], NEW c \in Callers, ItemDone(c)
  PROVE  Leaves(c, caller[c].mem)
<1> DEFINE new == [caller[c] EXCEPT !.pc = "items", !.item = NoItem, !.view = Idle.view]
<1>1. caller' = [caller EXCEPT ![c] = new]
  BY DEF ItemDone
<1>2. /\ new.pc = "items" /\ new.mem = caller[c].mem /\ new.item = NoItem /\ new.view = Idle.view
      /\ new.token = caller[c].token /\ new \in CallerState
  BY IdleIs DEF CallerState, Pcs
<1> HIDE DEF new
<1> QED BY <1>1, <1>2 DEF Leaves

\* A call at an operation, and the record with another row for it.
LEMMA AtOp ==
  ASSUME TypeOK, NEW c \in Callers, Unfinished(caller[c].mem, caller[c].item) # {}, NEW r \in Row
  PROVE  WithRow(caller[c].mem, caller[c].item, Op(c), r) \in Record
<1>1. caller[c] \in CallerState /\ caller[c].mem \in Record /\ caller[c].item \in Issues \cup {NoItem}
  BY DEF TypeOK, CallerState
<1>2. Op(c) \in Names(caller[c].item)
  BY <1>1, OpIs
<1>3. CASE caller[c].item = NoItem
  <2>1. Op(c) \in Steps
    BY <1>2, <1>3, NamesAre
  <2> QED BY <1>1, <1>3, <2>1, StepRow
<1>4. CASE caller[c].item \in Issues
  <2>1. Op(c) \in Range(ItemOps)
    BY <1>2, <1>4, NamesAre
  <2> QED BY <1>1, <1>4, <2>1, ItemRow
<1> QED BY <1>1, <1>3, <1>4

LEMMA SavesType ==
  ASSUME TypeOK, NEW c \in Callers, NEW m \in Record, Saves(c, m)
  PROVE  rec' \in Record \cup {NoRecord}
BY DEF Saves, TypeOK

-----------------------------------------------------------------------------
(* Types *)

WorldTyped ==
  /\ run \in [closed : BOOLEAN, delivered : BOOLEAN, reopens : Tokens]
  /\ head \in Heads
  /\ reported \in {"none", "posted", "not_posted"}
  /\ listed \subseteq Issues
  /\ issue \in [Issues -> [open : BOOLEAN, by : Closers, reports : Seq(Heads), ownClose : BOOLEAN,
                           parent : {"none", "unticked", "ticked", "nobox"}]]
  /\ registry \in {"open", "closed"}
  /\ dash \in {"absent", "owned", "stale", "foreign"}
  /\ archive \in [state : {"absent", "partial", "whole"}, items : [Issues -> Item]]
  /\ config \in [value : {"original", "written", "edited"}, override : BOOLEAN]
CallsTyped ==
  /\ rec \in Record \cup {NoRecord}
  /\ caller \in [Callers -> CallerState]
  /\ troubles \in 0..MaxTroubles
  /\ disturbed \subseteq Steps \cup Range(ItemOps)

LEMMA TypesSplit == (TypeOK <=> WorldTyped /\ CallsTyped) /\ (TypeOK' <=> WorldTyped' /\ CallsTyped')
BY DEF TypeOK, WorldTyped, CallsTyped

LEMMA SameWorldTyped ==
  ASSUME WorldTyped, UNCHANGED world
  PROVE  WorldTyped'
BY DEF WorldTyped, world

LEMMA NewHeadType == NewHead => head' \in Heads
BY DEF NewHead

\* Comments, closures and ticked boxes.
LEMMA IssueChanges ==
  ASSUME WorldTyped, NEW i \in Issues, NEW h \in Heads,
         CommentOn(i, h) \/ CloseIssue(i, h) \/ TickParent(i)
  PROVE  /\ issue' \in [Issues -> [open : BOOLEAN, by : Closers, reports : Seq(Heads), ownClose : BOOLEAN,
                                   parent : {"none", "unticked", "ticked", "nobox"}]]
         /\ \A j \in Issues :
              /\ issue'[j].reports = IF CommentOn(i, h) /\ j = i THEN Append(issue[j].reports, h)
                                     ELSE issue[j].reports
              /\ issue'[j].open => issue[j].open
              /\ issue[j].parent \in {"none", "ticked"} => issue'[j].parent \in {"none", "ticked"}
              /\ issue'[j].ownClose => issue[j].ownClose \/ (j = i /\ h \in Range(issue[j].reports))
<1> DEFINE Row1 == [open : BOOLEAN, by : Closers, reports : Seq(Heads), ownClose : BOOLEAN,
                    parent : {"none", "unticked", "ticked", "nobox"}]
<1>1. issue \in [Issues -> Row1] /\ issue[i] \in Row1 /\ issue[i].reports \in Seq(Heads)
  BY DEF WorldTyped
<1>2. Len(Append(issue[i].reports, h)) = Len(issue[i].reports) + 1
      /\ Append(issue[i].reports, h) \in Seq(Heads)
  BY <1>1
<1>3. CASE CommentOn(i, h)
  <2> DEFINE new == [issue[i] EXCEPT !.reports = Append(issue[i].reports, h)]
  <2>1. issue' = [issue EXCEPT ![i] = new]
    BY <1>3 DEF CommentOn
  <2>2. /\ new \in Row1 /\ new.reports = Append(issue[i].reports, h) /\ new.open = issue[i].open
        /\ new.parent = issue[i].parent /\ new.ownClose = issue[i].ownClose
    BY <1>1, <1>2
  <2> HIDE DEF new
  <2> QED BY <1>1, <1>3, <2>1, <2>2
<1>4. ASSUME CloseIssue(i, h) \/ TickParent(i)
      PROVE  \E new \in Row1 :
               /\ issue' = [issue EXCEPT ![i] = new]
               /\ new.reports = issue[i].reports /\ (new.open => issue[i].open)
               /\ issue[i].parent \in {"none", "ticked"} => new.parent \in {"none", "ticked"}
               /\ new.ownClose => issue[i].ownClose \/ h \in Range(issue[i].reports)
  <2>1. CASE issue' = issue
    <3>1. issue' = [issue EXCEPT ![i] = issue[i]]
      BY <1>1, <2>1
    <3> QED BY <1>1, <3>1
  <2>2. CASE CloseIssue(i, h) /\ issue[i].open
    <3> DEFINE new == [issue[i] EXCEPT !.open = FALSE, !.by = "run",
                                       !.ownClose = @ \/ h \in Range(issue[i].reports)]
    <3>1. issue' = [issue EXCEPT ![i] = new]
      BY <2>2 DEF CloseIssue
    <3>2. /\ new \in Row1 /\ new.reports = issue[i].reports /\ ~new.open /\ new.parent = issue[i].parent
          /\ new.ownClose <=> issue[i].ownClose \/ h \in Range(issue[i].reports)
      BY <1>1 DEF Closers
    <3> HIDE DEF new
    <3> QED BY <3>1, <3>2
  <2>3. CASE TickParent(i)
    <3> DEFINE new == [issue[i] EXCEPT !.parent = "ticked"]
    <3>1. issue' = [issue EXCEPT ![i] = new]
      BY <2>3 DEF TickParent
    <3>2. /\ new \in Row1 /\ new.reports = issue[i].reports /\ new.open = issue[i].open
          /\ new.parent = "ticked" /\ new.ownClose = issue[i].ownClose
      BY <1>1
    <3> HIDE DEF new
    <3> QED BY <3>1, <3>2
  <2> QED BY <1>4, <2>1, <2>2, <2>3 DEF CloseIssue
<1>5. CASE ~CommentOn(i, h)
  <2>1. PICK new \in Row1 :
               /\ issue' = [issue EXCEPT ![i] = new]
               /\ new.reports = issue[i].reports /\ (new.open => issue[i].open)
               /\ issue[i].parent \in {"none", "ticked"} => new.parent \in {"none", "ticked"}
               /\ new.ownClose => issue[i].ownClose \/ h \in Range(issue[i].reports)
    BY <1>4, <1>5
  <2> QED BY <1>1, <1>5, <2>1
<1> QED BY <1>3, <1>5

-----------------------------------------------------------------------------
(* The steps of a call, by what they do to it and to the record. *)

WithOp(c, r) == WithRow(caller[c].mem, caller[c].item, Op(c), r)
AtAnOp(c) == Unfinished(caller[c].mem, caller[c].item) # {}

\* The row of the operation is saved, or the call only turns to its next step.
RowStep(c, r, pc) ==
  /\ AtAnOp(c) /\ Walks(c, pc, WithOp(c, r)) /\ Saves(c, WithOp(c, r))
  /\ UNCHANGED <<world, disturbed>>
Raised(c) ==
  /\ AtAnOp(c) /\ Saves(c, WithOp(c, "pending")) /\ UNCHANGED <<world, disturbed>>
  /\ IF caller[c].item = NoItem THEN Ends(c) ELSE Leaves(c, WithOp(c, "pending"))
Turned(c, pc) == AtAnOp(c) /\ Walks(c, pc, caller[c].mem) /\ UNCHANGED <<rec, disturbed>>

LEMMA PlacedAt ==
  ASSUME Standing, NEW c \in Callers
  PROVE  /\ TypeOK /\ caller \in [Callers -> CallerState] /\ caller[c] \in CallerState
         /\ caller[c].mem \in Record /\ caller[c].item \in Issues \cup {NoItem}
         /\ caller[c].pc \in {"observe", "act", "writing", "acted", "readback"} => AtAnOp(c)
         /\ Fine(c)
BY DEF Standing, TypeOK, CallerState, Fine, Placed, AtAnOp

LEMMA RowSteps ==
  ASSUME Standing, NEW c \in Callers
  PROVE  /\ Enter(c) => \/ RowStep(c, "skipped", "enter") /\ Op(c) = "final_report_post"
                        \/ RowStep(c, "intent", "observe")
         /\ Observe(c) => \/ RowStep(c, "complete", "enter") /\ SatisfiedAtFirst(c)
                          \/ Turned(c, "act") /\ ~SatisfiedAtFirst(c) /\ UNCHANGED world
         /\ ReadBack(c) => (RowStep(c, "complete", "enter") /\ Satisfied(c)) \/ Raised(c)
         /\ ObserveFails(c) \/ ReadBackFails(c) => Raised(c)
<1> DEFINE m(r) == WithOp(c, r)
<1>1. /\ TypeOK /\ caller \in [Callers -> CallerState] /\ caller[c] \in CallerState /\ caller[c].mem \in Record
      /\ caller[c].pc \in {"observe", "act", "writing", "acted", "readback"} => AtAnOp(c)
  BY PlacedAt
<1>2. ASSUME AtAnOp(c) PROVE \A r \in Row : WithOp(c, r) \in Record
  BY <1>1, <1>2, AtOp DEF AtAnOp, WithOp
<1>3. {"skipped", "intent", "complete", "pending"} \subseteq Row /\ {"enter", "observe", "act"} \subseteq Pcs
  BY DEF Row, TerminalStates, Pcs
<1>4. ASSUME Raises(c, WithOp(c, "pending")), AtAnOp(c), UNCHANGED <<world, disturbed>> PROVE Raised(c)
  BY <1>1, <1>2, <1>3, <1>4, RaisesAre DEF Raised
<1>5. ASSUME Enter(c)
      PROVE  \/ RowStep(c, "skipped", "enter") /\ Op(c) = "final_report_post"
             \/ RowStep(c, "intent", "observe")
  <2>1. AtAnOp(c) /\ UNCHANGED <<world, disturbed>>
    BY <1>5 DEF Enter, AtAnOp
  <2>2. CASE Op(c) = "final_report_post" /\ ~caller[c].posts
    <3>1. caller[c].item = NoItem
      <4>1. Op(c) \in Names(caller[c].item) /\ caller[c].item \in Issues \cup {NoItem}
        BY <1>1, <2>1, OpIs DEF AtAnOp, CallerState
      <4> QED BY <2>2, <4>1, NamesAre
    <3>2. Saves(c, WithOp(c, "skipped")) /\ Goes(c, "enter", WithOp(c, "skipped"))
      BY <1>5, <2>2, <3>1 DEF Enter, WithOp
    <3> QED BY <1>1, <1>2, <1>3, <2>1, <2>2, <3>2, GoesWalks DEF RowStep
  <2>3. CASE ~(Op(c) = "final_report_post" /\ ~caller[c].posts)
    <3>1. Saves(c, WithOp(c, "intent")) /\ Goes(c, "observe", WithOp(c, "intent"))
      BY <1>5, <2>3 DEF Enter, WithOp
    <3> QED BY <1>1, <1>2, <1>3, <2>1, <3>1, GoesWalks DEF RowStep
  <2> QED BY <2>2, <2>3
<1>6. ASSUME Observe(c)
      PROVE  \/ RowStep(c, "complete", "enter") /\ SatisfiedAtFirst(c)
             \/ Turned(c, "act") /\ ~SatisfiedAtFirst(c) /\ UNCHANGED world
  <2>1. AtAnOp(c) /\ UNCHANGED <<world, disturbed>>
    BY <1>1, <1>6 DEF Observe, At
  <2>2. CASE SatisfiedAtFirst(c)
    <3>1. Saves(c, WithOp(c, "complete")) /\ Goes(c, "enter", WithOp(c, "complete"))
      BY <1>6, <2>2 DEF Observe, WithOp
    <3> QED BY <1>1, <1>2, <1>3, <2>1, <2>2, <3>1, GoesWalks DEF RowStep
  <2>3. CASE ~SatisfiedAtFirst(c)
    <3>1. Goes(c, "act", caller[c].mem) /\ UNCHANGED rec
      BY <1>6, <2>3 DEF Observe, Turns
    <3> QED BY <1>1, <1>3, <2>1, <2>3, <3>1, GoesWalks DEF Turned
  <2> QED BY <2>2, <2>3
<1>7. ASSUME ReadBack(c) PROVE (RowStep(c, "complete", "enter") /\ Satisfied(c)) \/ Raised(c)
  <2>1. AtAnOp(c) /\ UNCHANGED <<world, disturbed>>
    BY <1>1, <1>7 DEF ReadBack, At
  <2>2. CASE Satisfied(c)
    <3>1. Saves(c, WithOp(c, "complete")) /\ Goes(c, "enter", WithOp(c, "complete"))
      BY <1>7, <2>2 DEF ReadBack, WithOp
    <3> QED BY <1>1, <1>2, <1>3, <2>1, <2>2, <3>1, GoesWalks DEF RowStep
  <2>3. CASE ~Satisfied(c)
    BY <1>4, <1>7, <2>1, <2>3 DEF ReadBack, WithOp
  <2> QED BY <2>2, <2>3
<1>8. ASSUME ObserveFails(c) \/ ReadBackFails(c) PROVE Raised(c)
  BY <1>1, <1>4, <1>8 DEF ObserveFails, ReadBackFails, WithOp, At
<1> QED BY <1>5, <1>6, <1>7, <1>8

\* An operation is acted on, in one step or in several.
ActSteps(c) ==
  \/ Act(c) \/ ActLosesAnswer(c) \/ ActFails(c) \/ ReportRefused(c) \/ RecordReport(c)
  \/ OpenArchive(c) \/ WriteArchive(c) \/ WriteArchiveFails(c) \/ ArchiveConflict(c) \/ RestoreConfig(c)

LEMMA TurnSteps ==
  ASSUME Standing, NEW c \in Callers, ActSteps(c)
  PROVE  /\ Walks(c, caller'[c].pc, caller[c].mem) /\ UNCHANGED <<rec, disturbed>>
         /\ caller'[c].pc \in {"acted", "readback", "writing"}
         /\ caller'[c].pc = "writing" => OpenArchive(c) \/ RestoreConfig(c)
         /\ AtAnOp(c) \/ RecordReport(c)
<1>1. /\ TypeOK /\ caller \in [Callers -> CallerState] /\ caller[c].mem \in Record
      /\ caller[c].pc \in {"observe", "act", "writing", "acted", "readback"} => AtAnOp(c)
  BY PlacedAt
<1>2. PICK pc \in {"acted", "readback", "writing"} :
        Turns(c, pc) /\ (pc = "writing" => OpenArchive(c) \/ RestoreConfig(c))
  BY DEF ActSteps, Act, ActLosesAnswer, ActFails, ReportRefused, RecordReport, OpenArchive, WriteArchive,
         WriteArchiveFails, ArchiveConflict, RestoreConfig
<1>3. Walks(c, pc, caller[c].mem)
  BY <1>1, <1>2, GoesWalks DEF Turns, Pcs
<1>4. UNCHANGED <<rec, disturbed>> /\ (AtAnOp(c) \/ RecordReport(c))
  BY <1>1, <1>2
  DEF ActSteps, Turns, At, Act, ActLosesAnswer, ActFails, ReportRefused, RecordReport, OpenArchive, WriteArchive,
      WriteArchiveFails, ArchiveConflict, RestoreConfig
<1> QED BY <1>2, <1>3, <1>4 DEF Walks

-----------------------------------------------------------------------------
(* Standing *)

\* What is left to show of a step of one call: the others are as they were.
LEMMA OthersStand ==
  ASSUME Standing, TypeOK', NEW c \in Callers, Fine(c)',
         \A q \in Callers : q # c => caller'[q] = caller[q],
         rec' # NoRecord => Ordered(rec'), OwnClosuresReported',
         \A i \in Issues : issue[i].reports # <<>> => issue'[i].reports # <<>>
  PROVE  Standing'
<1>1. ASSUME NEW q \in Callers, q # c PROVE Fine(q)'
  <2>1. caller'[q] = caller[q] /\ Fine(q) /\ caller[q].item \in Issues \cup {NoItem}
    BY <1>1, PlacedAt
  <2> QED BY <2>1 DEF Fine, ViewStands, Placed, Commenting
<1> QED BY <1>1 DEF Standing

LEMMA ItemsApart == \A i \in Issues : Names(i) \cap Steps = {}
BY NamesAre

\* An operation's new row keeps the order of its record.
LEMMA OrderKept ==
  ASSUME Standing, NEW c \in Callers, AtAnOp(c), NEW r \in Row, r = "skipped" => Op(c) = "final_report_post"
  PROVE  /\ WithOp(c, r) \in Record /\ Ordered(WithOp(c, r))
         /\ ~Final(r) => Unfinished(WithOp(c, r), caller[c].item) # {}
         /\ caller[c].item # NoItem => WithOp(c, r).steps = caller[c].mem.steps
         /\ caller[c].item # NoItem /\ Final(r) => Final(WithOp(c, r).items[caller[c].item].ops["commented"])
         /\ caller[c].item # NoItem /\ Commenting(c) => Op(c) = "commented"
<1> DEFINE m == caller[c].mem
           i == caller[c].item
           w == WithOp(c, r)
<1>1. TypeOK /\ caller[c] \in CallerState /\ m \in Record /\ i \in Issues \cup {NoItem} /\ Ordered(m)
  BY PlacedAt DEF Fine
<1>2. /\ Op(c) \in Names(i) /\ ~Final(RowOf(m, i, Op(c)))
      /\ i = NoItem /\ Op(c) # "prepare" => Final(m.steps["prepare"])
      /\ i = NoItem /\ Op(c) \notin {"prepare", "final_report_post"} => Final(m.steps["final_report_post"])
      /\ i # NoItem /\ Op(c) # "commented" => Final(m.items[i].ops["commented"])
  BY <1>1, OpIs DEF AtAnOp
<1>3. CASE i = NoItem
  <2>1. Op(c) \in Steps
    BY <1>2, <1>3, NamesAre
  <2>2. /\ w \in Record /\ w.state = m.state /\ w.items = m.items /\ w.decided = m.decided
        /\ \A s \in Steps : w.steps[s] = IF s = Op(c) THEN r ELSE m.steps[s]
    BY <1>1, <1>3, <2>1, StepRow DEF WithOp
  <2>3. ~Final(m.steps[Op(c)])
    BY <1>2, <1>3 DEF RowOf
  <2>4. RowOf(w, i, Op(c)) = r
    BY <1>3, <2>1, <2>2 DEF RowOf
  <2> HIDE DEF w
  <2>5. Ordered(w)
    <3>1. \A j \in Issues : ~Final(w.items[j].ops["commented"]) =>
            ~Final(w.items[j].ops["closed"]) /\ ~w.items[j].acted
      BY <1>1, <2>2 DEF Ordered
    <3>2. ~Final(w.steps["prepare"]) => ~w.decided /\ \A s \in Steps : ~Final(w.steps[s])
      BY <1>1, <1>2, <1>3, <2>2, <2>3, NamesAre DEF Ordered
    <3>3. Final(w.steps["archive"]) => Final(w.steps["final_report_post"])
      BY <1>1, <1>2, <1>3, <2>2, <2>3, NamesAre DEF Ordered
    <3>4. w.steps["prepare"] # "skipped"
      BY <1>1, <2>2, NamesAre DEF Ordered
    <3> QED BY <3>1, <3>2, <3>3, <3>4 DEF Ordered
  <2>6. PICK n \in DOMAIN Ops(i) : Ops(i)[n] = Op(c)
    BY <1>2 DEF Names, Range
  <2>7. ~Final(r) => n \in Unfinished(w, i)
    BY <2>4, <2>6 DEF Unfinished, Final
  <2> QED BY <1>3, <2>2, <2>5, <2>7 DEF w
<1>4. CASE i \in Issues
  <2>1. Op(c) \in Range(ItemOps) /\ i # NoItem
    BY <1>2, <1>4, NamesAre, CloseAssumption
  <2>2. /\ w \in Record /\ w.state = m.state /\ w.steps = m.steps /\ w.decided = m.decided
        /\ \A j \in Issues :
             /\ w.items[j].acted = m.items[j].acted /\ w.items[j].unpostable = m.items[j].unpostable
             /\ \A x \in Range(ItemOps) : w.items[j].ops[x] = IF j = i /\ x = Op(c) THEN r ELSE m.items[j].ops[x]
    <3>1. w = WithRow(m, i, Op(c), r)
      BY DEF WithOp
    <3> HIDE DEF m, i, w
    <3> QED BY <1>1, <1>4, <2>1, <3>1, ItemRow
  <2>3. ~Final(m.items[i].ops[Op(c)])
    BY <1>2, <2>1 DEF RowOf
  <2>4. RowOf(w, i, Op(c)) = r
    BY <1>4, <2>1, <2>2 DEF RowOf
  <2> HIDE DEF w
  <2>5. Ordered(w)
    <3>1. \A j \in Issues : ~Final(w.items[j].ops["commented"]) =>
            ~Final(w.items[j].ops["closed"]) /\ ~w.items[j].acted
      <4> SUFFICES ASSUME NEW j \in Issues, ~Final(w.items[j].ops["commented"])
                   PROVE  ~Final(w.items[j].ops["closed"]) /\ ~w.items[j].acted
        OBVIOUS
      <4>1. "commented" \in Range(ItemOps) /\ "closed" \in Range(ItemOps)
        BY NamesAre
      <4>2. CASE j = i /\ Op(c) = "commented"
        BY <1>1, <2>2, <2>3, <4>1, <4>2 DEF Ordered
      <4>3. CASE j # i \/ Op(c) # "commented"
        <5>1. ~Final(m.items[j].ops["commented"])
          BY <2>2, <4>1, <4>3
        <5>2. j # i
          BY <1>2, <2>1, <4>3, <5>1
        <5> QED BY <1>1, <2>2, <4>1, <5>1, <5>2 DEF Ordered
      <4> QED BY <4>2, <4>3
    <3> QED BY <1>1, <2>2, <3>1 DEF Ordered
  <2>6. PICK n \in DOMAIN Ops(i) : Ops(i)[n] = Op(c)
    BY <1>2 DEF Names, Range
  <2>7. ~Final(r) => n \in Unfinished(w, i)
    BY <2>4, <2>6 DEF Unfinished, Final
  <2>8. Final(r) => Final(w.items[i].ops["commented"])
    BY <1>2, <1>4, <2>1, <2>2, NamesAre
  <2>9. Commenting(c) => Op(c) = "commented"
    BY <1>2, <2>1 DEF Commenting
  <2> QED BY <2>2, <2>5, <2>7, <2>8, <2>9 DEF w
<1> QED BY <1>1, <1>3, <1>4

\* The view of a call that is at no issue, and of one that has ended.
LEMMA IdleFine ==
  ASSUME Standing, NEW c \in Callers, Ends(c)
  PROVE  Fine(c)'
BY NewRecordIs DEF Ends, Fine, ViewStands, Placed, Commenting, Idle

LEMMA LeavesFine ==
  ASSUME Standing, NEW c \in Callers, NEW m, Leaves(c, m), Ordered(m),
         ~Final(m.steps["final_report_post"]) /\ Final(m.steps["prepare"])
  PROVE  Fine(c)'
BY DEF Leaves, Fine, ViewStands, Placed, Commenting

LEMMA RowStepStands ==
  ASSUME Standing, NEW c \in Callers, NEW r \in {"skipped", "intent", "complete"}, NEW pc \in {"enter", "observe"},
         RowStep(c, r, pc), r = "skipped" => Op(c) = "final_report_post",
         pc = "observe" <=> r = "intent", r = "intent" => At(c, "enter"), troubles' = troubles
  PROVE  Standing'
<1> DEFINE i == caller[c].item
           w == WithOp(c, r)
<1>1. /\ TypeOK /\ caller[c] \in CallerState /\ caller[c].mem \in Record /\ i \in Issues \cup {NoItem}
      /\ Fine(c)
  BY PlacedAt
<1>2. /\ w \in Record /\ Ordered(w)
      /\ ~Final(r) => Unfinished(w, i) # {}
      /\ i # NoItem => w.steps = caller[c].mem.steps
      /\ i # NoItem /\ Final(r) => Final(w.items[i].ops["commented"])
      /\ i # NoItem /\ Commenting(c) => Op(c) = "commented"
  BY OrderKept DEF RowStep, Row, TerminalStates
<1>3. Walks(c, pc, w) /\ Saves(c, w) /\ UNCHANGED <<world, disturbed>>
  BY DEF RowStep
<1>4. TypeOK'
  <2>1. WorldTyped'
    BY <1>1, <1>3, TypesSplit, SameWorldTyped
  <2>2. rec' \in Record \cup {NoRecord}
    BY <1>1, <1>2, <1>3, SavesType
  <2> QED BY <1>1, <1>3, <2>1, <2>2, TypesSplit DEF CallsTyped, Walks
<1>5. rec' # NoRecord => Ordered(rec')
  BY <1>2, <1>3 DEF Saves, Standing
<1> HIDE DEF w
<1>6. Fine(c)'
  <2>1. /\ caller'[c].mem = w /\ caller'[c].pc = pc /\ caller'[c].item = i
        /\ caller'[c].view = caller[c].view
    BY <1>2, <1>3 DEF Walks
  <2>2. Ordered(caller[c].mem)'
    BY <1>2, <2>1
  <2>3. Commenting(c)' => r = "intent" /\ i # NoItem /\ ~Final(w.items[i].ops["commented"])
    BY <1>2, <2>1 DEF Commenting, Final, TerminalStates
  <2>4. ViewStands(c)'
    <3>1. i # NoItem /\ caller[c].view.report => issue'[i].reports # <<>>
      BY <1>1, <1>3 DEF Fine, ViewStands, world
    <3>2. r = "intent" /\ i # NoItem /\ ~Final(w.items[i].ops["commented"]) => Commenting(c)
      <4> SUFFICES ASSUME r = "intent", i # NoItem, ~Final(w.items[i].ops["commented"]), ~Commenting(c)
                   PROVE  FALSE
        OBVIOUS
      <4>1. Final(caller[c].mem.items[i].ops["commented"])
        BY DEF Commenting
      <4>2. Op(c) \in Range(ItemOps) /\ ~Final(caller[c].mem.items[i].ops[Op(c)])
        <5>1. Op(c) \in Names(i) /\ ~Final(RowOf(caller[c].mem, i, Op(c)))
          BY <1>1, OpIs DEF RowStep, AtAnOp
        <5> QED BY <1>1, <5>1, NamesAre DEF RowOf
      <4>3. w.items[i].ops["commented"] = caller[c].mem.items[i].ops["commented"]
        <5> DEFINE m == caller[c].mem
        <5>1. w = WithRow(m, i, Op(c), r) /\ i \in Issues /\ r \in Row
          BY <1>1 DEF w, WithOp, Row, TerminalStates
        <5>2. "commented" \in Range(ItemOps)
          BY NamesAre
        <5>3. Op(c) # "commented" /\ m \in Record
          BY <1>1, <4>1, <4>2
        <5> HIDE DEF i, m
        <5>4. \A j \in Issues : \A x \in Range(ItemOps) :
                w.items[j].ops[x] = IF j = i /\ x = Op(c) THEN r ELSE m.items[j].ops[x]
          BY <4>2, <5>1, <5>3, ItemRow
        <5>5. w.items[i].ops["commented"] = m.items[i].ops["commented"]
          BY <5>1, <5>2, <5>3, <5>4
        <5> QED BY <5>5 DEF i, m
      <4> QED BY <4>1, <4>3
    <3>3. r = "intent" => caller[c].pc = "enter"
      BY DEF At
    <3> QED BY <1>1, <2>1, <2>3, <3>1, <3>2, <3>3 DEF Fine, ViewStands, Commenting
  <2>5. Placed(c)'
    <3>1. caller'[c].pc = "observe" => Unfinished(w, i) # {}
      BY <1>2, <2>1 DEF Final, TerminalStates
    <3> QED BY <1>1, <1>2, <2>1, <3>1 DEF Fine, Placed
  <2> QED BY <2>2, <2>4, <2>5 DEF Fine
<1>7. OwnClosuresReported' /\ \A j \in Issues : issue[j].reports # <<>> => issue'[j].reports # <<>>
  BY <1>3 DEF Standing, OwnClosuresReported, world
<1>8. \A q \in Callers : q # c => caller'[q] = caller[q]
  BY <1>3 DEF Walks
<1> QED BY <1>4, <1>5, <1>6, <1>7, <1>8, OthersStand

LEMMA RaisedStands ==
  ASSUME Standing, NEW c \in Callers, Raised(c), troubles' \in 0..MaxTroubles
  PROVE  Standing'
<1> DEFINE i == caller[c].item
           w == WithOp(c, "pending")
<1>1. TypeOK /\ i \in Issues \cup {NoItem} /\ Fine(c)
  BY PlacedAt
<1>2. /\ w \in Record /\ Ordered(w)
      /\ i # NoItem => w.steps = caller[c].mem.steps
  BY OrderKept DEF Raised, Row, TerminalStates
<1>3. /\ Saves(c, w) /\ UNCHANGED <<world, disturbed>>
      /\ IF i = NoItem THEN Ends(c) ELSE Leaves(c, w)
  BY DEF Raised
<1> HIDE DEF w
<1>4. TypeOK'
  <2>1. WorldTyped'
    BY <1>1, <1>3, TypesSplit, SameWorldTyped
  <2>2. rec' \in Record \cup {NoRecord}
    BY <1>1, <1>2, <1>3, SavesType
  <2> QED BY <1>1, <1>3, <2>1, <2>2, TypesSplit DEF CallsTyped, Ends, Leaves
<1>5. rec' # NoRecord => Ordered(rec')
  BY <1>2, <1>3 DEF Saves, Standing
<1>6. Fine(c)'
  <2>1. i # NoItem => ~Final(w.steps["final_report_post"]) /\ Final(w.steps["prepare"])
    BY <1>1, <1>2 DEF Fine, Placed
  <2> QED BY <1>2, <1>3, <2>1, IdleFine, LeavesFine
<1>7. OwnClosuresReported' /\ \A j \in Issues : issue[j].reports # <<>> => issue'[j].reports # <<>>
  BY <1>3 DEF Standing, OwnClosuresReported, world
<1>8. \A q \in Callers : q # c => caller'[q] = caller[q]
  BY <1>3 DEF Ends, Leaves
<1> QED BY <1>4, <1>5, <1>6, <1>7, <1>8, OthersStand

-----------------------------------------------------------------------------
(* What the actions of the operations do to the world *)

ReportsStay == \A i \in Issues : issue[i].reports # <<>> => issue'[i].reports # <<>>

LEMMA EffectTyped ==
  ASSUME Standing, NEW c \in Callers, AtAnOp(c), Effect(c)
  PROVE  WorldTyped' /\ ReportsStay /\ OwnClosuresReported'
<1> DEFINE i == caller[c].item
           h == caller[c].head
<1>1. WorldTyped /\ OwnClosuresReported /\ h \in Heads
  BY PlacedAt, TypesSplit DEF Standing, CallerState
<1>2. CASE Op(c) = "prepare" /\ CloseRun
  <2>1. run' = [run EXCEPT !.closed = TRUE] /\ UNCHANGED <<reported, listed, issue, registry, dash, config, archive>>
    BY <1>2 DEF CloseRun
  <2>2. head' \in Heads
    BY <1>1, <1>2, NewHeadType DEF CloseRun, WorldTyped
  <2>3. WorldTyped'
    BY <1>1, <2>1, <2>2 DEF WorldTyped
  <2> QED BY <1>1, <2>1, <2>3 DEF ReportsStay, OwnClosuresReported
<1>3. CASE Op(c) = "fleet_unregister" /\ MarkRegister
  BY <1>1, <1>3 DEF MarkRegister, WorldTyped, ReportsStay, OwnClosuresReported
<1>4. CASE Op(c) = "dashboard_shutdown" /\ ReleaseDashboard
  <2>1. head' \in Heads /\ dash' \in {"absent", "owned", "stale", "foreign"}
        /\ UNCHANGED <<run, reported, listed, issue, registry, config, archive>>
    BY <1>1, <1>4, NewHeadType DEF ReleaseDashboard, WorldTyped
  <2> QED BY <1>1, <2>1 DEF WorldTyped, ReportsStay, OwnClosuresReported
<1>5. CASE /\ \/ Op(c) = "commented" /\ CommentOn(i, h)
              \/ Op(c) = "closed" /\ CloseIssue(i, h)
              \/ Op(c) = "ticked" /\ TickParent(i)
           /\ UNCHANGED <<run, head, reported, listed, registry, dash, config, archive>>
  <2>1. i \in Issues
    <3>1. Op(c) \in Names(i) /\ i \in Issues \cup {NoItem}
      BY PlacedAt, OpIs DEF AtAnOp
    <3> QED BY <1>5, <3>1, NamesAre
  <2> HIDE DEF i, h
  <2>2. CommentOn(i, h) \/ CloseIssue(i, h) \/ TickParent(i)
    BY <1>5
  <2>3. /\ issue' \in [Issues -> [open : BOOLEAN, by : Closers, reports : Seq(Heads), ownClose : BOOLEAN,
                                   parent : {"none", "unticked", "ticked", "nobox"}]]
        /\ \A j \in Issues :
             /\ issue'[j].reports = IF CommentOn(i, h) /\ j = i THEN Append(issue[j].reports, h)
                                    ELSE issue[j].reports
             /\ issue'[j].ownClose => issue[j].ownClose \/ (j = i /\ h \in Range(issue[j].reports))
    BY <1>1, <2>1, <2>2, IssueChanges
  <2>4. WorldTyped'
    BY <1>1, <1>5, <2>3 DEF WorldTyped
  <2>5. \A j \in Issues : issue[j].reports \in Seq(Heads)
    BY <1>1 DEF WorldTyped
  <2>6. \A j \in Issues : /\ Append(issue[j].reports, h) # <<>>
                          /\ h \in Range(issue[j].reports) => issue[j].reports # <<>>
    <3> SUFFICES ASSUME NEW j \in Issues
                 PROVE  Append(issue[j].reports, h) # <<>> /\ (h \in Range(issue[j].reports) => issue[j].reports # <<>>)
      OBVIOUS
    <3>1. PICK s \in Seq(Heads) : s = issue[j].reports
      BY <2>5
    <3>2. Append(issue[j].reports, h) # <<>>
      <4>1. Len(Append(s, h)) = Len(s) + 1 /\ Len(s) \in Nat /\ Len(<<>>) = 0
        BY <1>1
      <4>2. Append(s, h) # <<>>
        BY <4>1
      <4> QED BY <3>1, <4>2
    <3>3. issue[j].reports = <<>> => Range(issue[j].reports) = {}
      BY DEF Range
    <3> QED BY <3>2, <3>3
  <2>7. ReportsStay
    BY <2>3, <2>6 DEF ReportsStay
  <2>8. OwnClosuresReported'
    BY <1>1, <2>3, <2>6, <2>7 DEF OwnClosuresReported, ReportsStay
  <2> QED BY <2>4, <2>7, <2>8
<1> QED BY <1>2, <1>3, <1>4, <1>5 DEF Effect

LEMMA ActsTyped ==
  ASSUME Standing, NEW c \in Callers, ActSteps(c)
  PROVE  WorldTyped' /\ ReportsStay /\ OwnClosuresReported' /\ troubles' \in 0..MaxTroubles
<1>1. WorldTyped /\ OwnClosuresReported /\ caller[c].mem \in Record /\ troubles \in 0..MaxTroubles
      /\ caller[c].mem.items \in [Issues -> Item] /\ NoArchive.items \in [Issues -> Item]
  BY PlacedAt, TypesSplit, NewRecordIs DEF Standing, CallsTyped, Record, NoArchive
<1>2. troubles' \in 0..MaxTroubles
  <2>1. MaxTroubles \in Nat /\ (troubles' = troubles \/ Trouble)
    BY CloseAssumption
    DEF ActSteps, Act, ActLosesAnswer, ActFails, ReportRefused, RecordReport, OpenArchive, WriteArchive,
        WriteArchiveFails, ArchiveConflict, RestoreConfig
  <2> QED BY <1>1, <2>1 DEF Trouble
<1>3. CASE Act(c) \/ ActLosesAnswer(c)
  <2>1. AtAnOp(c) /\ Effect(c)
    BY <1>3, PlacedAt DEF Act, ActLosesAnswer, At
  <2> QED BY <1>2, <2>1, EffectTyped
<1>4. CASE ActFails(c) \/ ArchiveConflict(c)
  <2>1. UNCHANGED world
    BY <1>4 DEF ActFails, ArchiveConflict
  <2> QED BY <1>1, <1>2, <2>1, SameWorldTyped DEF ReportsStay, OwnClosuresReported, world
<1>5. CASE ReportRefused(c) \/ RecordReport(c)
  <2>1. /\ reported' \in {"not_posted", "posted"} /\ NewHead /\ listed' \subseteq Issues
        /\ UNCHANGED <<run, issue, registry, dash, config, archive>>
    BY <1>1, <1>5 DEF ReportRefused, RecordReport, WorldTyped
  <2> QED BY <1>1, <1>2, <2>1, NewHeadType DEF WorldTyped, ReportsStay, OwnClosuresReported
<1>6. CASE OpenArchive(c) \/ WriteArchive(c) \/ WriteArchiveFails(c)
  <2>1. UNCHANGED <<run, head, reported, listed, issue, registry, dash, config>>
    BY <1>6 DEF OpenArchive, WriteArchive, WriteArchiveFails
  <2>2. /\ archive' = [archive EXCEPT !.state = "partial"] \/ archive' = archive
           \/ archive' = ArchiveOf(caller[c].mem) \/ archive' = NoArchive
    BY <1>6 DEF OpenArchive, WriteArchive, WriteArchiveFails
  <2>3. archive' \in [state : {"absent", "partial", "whole"}, items : [Issues -> Item]]
    <3> DEFINE A == [state : {"absent", "partial", "whole"}, items : [Issues -> Item]]
    <3>1. archive \in A /\ [archive EXCEPT !.state = "partial"] \in A
      BY <1>1 DEF WorldTyped
    <3>2. ArchiveOf(caller[c].mem) \in A
      BY <1>1 DEF ArchiveOf
    <3>3. NoArchive \in A
      <4>1. NewRecord.items \in [Issues -> Item]
        BY NewRecordIs DEF Record
      <4> QED BY <4>1 DEF NoArchive
    <3> HIDE DEF A
    <3>4. archive' \in A
      BY <2>2, <3>1, <3>2, <3>3
    <3> QED BY <3>4 DEF A
  <2> QED BY <1>1, <1>2, <2>1, <2>3 DEF WorldTyped, ReportsStay, OwnClosuresReported
<1>7. CASE RestoreConfig(c)
  <2>1. config' = [config EXCEPT !.value = IF @ = "written" THEN "original" ELSE @]
        /\ UNCHANGED <<run, head, reported, listed, issue, registry, dash, archive>>
    BY <1>7 DEF RestoreConfig
  <2> QED BY <1>1, <1>2, <2>1 DEF WorldTyped, ReportsStay, OwnClosuresReported
<1> QED BY <1>3, <1>4, <1>5, <1>6, <1>7 DEF ActSteps

LEMMA ActsStand ==
  ASSUME Standing, NEW c \in Callers, ActSteps(c)
  PROVE  Standing'
<1> DEFINE m == caller[c].mem
           i == caller[c].item
           pc == caller'[c].pc
<1>1. TypeOK /\ Fine(c) /\ i \in Issues \cup {NoItem}
  BY PlacedAt
<1>2. /\ Walks(c, pc, m) /\ UNCHANGED <<rec, disturbed>>
      /\ pc \in {"acted", "readback", "writing"} /\ (AtAnOp(c) \/ RecordReport(c))
  BY TurnSteps
<1>3. WorldTyped' /\ ReportsStay /\ OwnClosuresReported' /\ troubles' \in 0..MaxTroubles
  BY ActsTyped
<1>4. TypeOK'
  BY <1>1, <1>2, <1>3, TypesSplit DEF CallsTyped, Walks
<1>5. Unfinished(m, i) # {}
  <2>1. CASE AtAnOp(c)
    BY <2>1 DEF AtAnOp
  <2>2. CASE RecordReport(c)
    <3>1. i = NoItem /\ ~Final(m.steps["final_report_post"])
      BY <1>1, <2>2 DEF RecordReport, At, Fine, Placed
    <3>2. 2 \in DOMAIN TeardownSteps /\ TeardownSteps[2] = "final_report_post"
      BY NamesAre DEF TeardownSteps
    <3>3. 2 \in Unfinished(m, i)
      BY <3>1, <3>2 DEF Unfinished, Ops, RowOf, Final
    <3> QED BY <3>3
  <2> QED BY <1>2, <2>1, <2>2
<1>6. Fine(c)'
  <2>1. /\ caller'[c].mem = m /\ caller'[c].item = i /\ caller'[c].view = caller[c].view
    BY <1>2 DEF Walks
  <2>2. Ordered(caller[c].mem)'
    BY <1>1, <2>1 DEF Fine
  <2>3. ViewStands(c)'
    BY <1>1, <1>2, <1>3, <2>1 DEF Fine, ViewStands, ReportsStay
  <2>4. Placed(c)'
    BY <1>1, <1>2, <1>5, <2>1 DEF Fine, Placed
  <2> QED BY <2>2, <2>3, <2>4 DEF Fine
<1>7. \A q \in Callers : q # c => caller'[q] = caller[q]
  BY <1>2 DEF Walks
<1> QED BY <1>2, <1>3, <1>4, <1>6, <1>7, OthersStand DEF Standing, ReportsStay

-----------------------------------------------------------------------------
(* The other steps of a call *)

\* A step that leaves the world alone.
LEMMA QuietStand ==
  ASSUME Standing, NEW c \in Callers, UNCHANGED <<world, disturbed>>, troubles' \in 0..MaxTroubles,
         caller' \in [Callers -> CallerState], rec' \in Record \cup {NoRecord},
         \A q \in Callers : q # c => caller'[q] = caller[q],
         rec' # NoRecord => Ordered(rec'), Fine(c)'
  PROVE  Standing'
<1>1. TypeOK'
  BY PlacedAt, TypesSplit, SameWorldTyped DEF CallsTyped
<1>2. OwnClosuresReported' /\ \A j \in Issues : issue[j].reports # <<>> => issue'[j].reports # <<>>
  BY DEF Standing, OwnClosuresReported, world
<1> QED BY <1>1, <1>2, OthersStand

LEMMA EndStands ==
  ASSUME Standing, NEW c \in Callers, Ends(c), UNCHANGED <<world, disturbed>>, troubles' \in 0..MaxTroubles,
         rec' \in Record \cup {NoRecord}, rec' # NoRecord => Ordered(rec')
  PROVE  Standing'
<1>1. Fine(c)' /\ caller' \in [Callers -> CallerState] /\ \A q \in Callers : q # c => caller'[q] = caller[q]
  BY IdleFine DEF Ends
<1> QED BY <1>1, QuietStand

\* The call saves what it has in memory, or only turns to another step.
LEMMA MovesStand ==
  ASSUME Standing, NEW c \in Callers, NEW pc \in {"act", "acted", "readback"}, NEW m \in Record,
         Walks(c, pc, m), Saves(c, m) \/ UNCHANGED rec, UNCHANGED <<world, troubles, disturbed>>,
         Ordered(m), m.steps = caller[c].mem.steps, Unfinished(m, caller[c].item) # {},
         pc = "act" /\ caller[c].item # NoItem /\ ~Final(m.items[caller[c].item].ops["commented"]) =>
           ~caller[c].view.report /\ (caller[c].view.open \/ caller[c].view.by # "person")
  PROVE  Standing'
<1>1. TypeOK /\ Fine(c)
  BY PlacedAt
<1>2. /\ caller'[c].mem = m /\ caller'[c].item = caller[c].item /\ caller'[c].view = caller[c].view
      /\ caller'[c].pc = pc /\ caller' \in [Callers -> CallerState]
      /\ \A q \in Callers : q # c => caller'[q] = caller[q]
  BY DEF Walks
<1>3. Ordered(caller[c].mem)'
  BY <1>2
<1>4. ViewStands(c)'
  BY <1>1, <1>2 DEF Fine, ViewStands, Commenting, world
<1>5. Placed(c)'
  BY <1>1, <1>2 DEF Fine, Placed
<1>6. Fine(c)'
  BY <1>3, <1>4, <1>5 DEF Fine
<1>7. rec' \in Record \cup {NoRecord} /\ (rec' # NoRecord => Ordered(rec')) /\ troubles' \in 0..MaxTroubles
  BY <1>1 DEF Saves, Standing, TypeOK
<1> QED BY <1>2, <1>6, <1>7, QuietStand

LEMMA TurnedStands ==
  ASSUME Standing, NEW c \in Callers, At(c, "observe"), Turned(c, "act"), ~SatisfiedAtFirst(c),
         UNCHANGED <<world, troubles, disturbed>>
  PROVE  Standing'
<1> DEFINE k == caller[c]
<1>1. k.mem \in Record /\ Fine(c) /\ Row # {} /\ "pending" \in Row
  BY PlacedAt DEF Row
<1>2. k.item # NoItem /\ ~Final(k.mem.items[k.item].ops["commented"]) =>
        ~k.view.report /\ (k.view.open \/ k.view.by # "person")
  <2> SUFFICES ASSUME k.item # NoItem, ~Final(k.mem.items[k.item].ops["commented"])
               PROVE  ~k.view.report /\ (k.view.open \/ k.view.by # "person")
    OBVIOUS
  <2>1. Commenting(c) /\ Op(c) = "commented"
    BY <1>1, OrderKept DEF Turned, Commenting
  <2>2. ~k.view.report
    BY <2>1 DEF SatisfiedAtFirst
  <2> QED BY <1>1, <2>1, <2>2 DEF Fine, ViewStands, At
<1> QED BY <1>1, <1>2, MovesStand DEF Turned, AtAnOp, Fine

\* A closure, or a decision about the configuration, noted in the record.
LEMMA NotesStand ==
  ASSUME Standing, NEW c \in Callers, SaveActed(c) \/ SaveDecision(c)
  PROVE  Standing'
<1> DEFINE m == caller[c].mem
           i == caller[c].item
           note == [m.items[i] EXCEPT !.acted = TRUE]
           marked == [m EXCEPT !.items = [m.items EXCEPT ![i] = note]]
           decided == [m EXCEPT !.decided = TRUE]
<1>1. /\ TypeOK /\ caller[c] \in CallerState /\ m \in Record /\ i \in Issues \cup {NoItem} /\ Ordered(m) /\ AtAnOp(c)
      /\ caller \in [Callers -> CallerState]
  BY PlacedAt DEF SaveActed, SaveDecision, At, Fine
<1>2. /\ Op(c) \in Names(i)
      /\ i = NoItem /\ Op(c) # "prepare" => Final(m.steps["prepare"])
      /\ i # NoItem /\ Op(c) # "commented" => Final(m.items[i].ops["commented"])
  BY <1>1, OpIs DEF AtAnOp
<1>3. CASE SaveActed(c) /\ Op(c) # "closed"
  <2>1. Goes(c, "readback", m) /\ Saves(c, m) /\ UNCHANGED <<world, troubles, disturbed>>
    BY <1>3 DEF SaveActed
  <2>2. Walks(c, "readback", m)
    BY <1>1, <2>1, GoesWalks DEF Pcs
  <2> QED BY <1>1, <2>1, <2>2, MovesStand DEF AtAnOp
<1>4. CASE SaveActed(c) /\ Op(c) = "closed"
  <2>1. i \in Issues
    BY <1>1, <1>2, <1>4, NamesAre
  <2>2. Goes(c, "readback", marked) /\ Saves(c, marked) /\ UNCHANGED <<world, troubles, disturbed>>
    BY <1>4 DEF SaveActed
  <2>3. m.items \in [Issues -> Item] /\ m.items[i] \in Item
    BY <1>1, <2>1 DEF Record
  <2>4. note \in Item /\ note.ops = m.items[i].ops
    BY <2>3 DEF Item
  <2> HIDE DEF note
  <2>5. /\ marked \in Record /\ marked.steps = m.steps /\ marked.decided = m.decided
        /\ \A j \in Issues : marked.items[j] = IF j = i THEN note ELSE m.items[j]
    BY <1>1, <2>3, <2>4 DEF Record
  <2> HIDE DEF marked
  <2>6. \A j \in Issues : marked.items[j].ops = m.items[j].ops
    BY <2>4, <2>5
  <2>7. Ordered(marked)
    <3>1. Final(m.items[i].ops["commented"])
      BY <1>2, <1>4, <2>1, CloseAssumption
    <3>2. \A j \in Issues : ~Final(marked.items[j].ops["commented"]) =>
            ~Final(marked.items[j].ops["closed"]) /\ ~marked.items[j].acted
      BY <1>1, <2>5, <2>6, <3>1 DEF Ordered
    <3> QED BY <1>1, <2>5, <3>2 DEF Ordered
  <2>8. Unfinished(marked, i) = Unfinished(m, i)
    BY <2>1, <2>6, CloseAssumption DEF Unfinished, RowOf
  <2>9. Walks(c, "readback", marked)
    BY <1>1, <2>2, <2>5, GoesWalks DEF Pcs
  <2> QED BY <1>1, <2>2, <2>5, <2>7, <2>8, <2>9, MovesStand DEF AtAnOp
<1>5. CASE SaveDecision(c)
  <2>1. i = NoItem
    BY <1>1, <1>2, <1>5, NamesAre DEF SaveDecision
  <2>2. Goes(c, "acted", decided) /\ Saves(c, decided) /\ UNCHANGED <<world, troubles, disturbed>>
    BY <1>5 DEF SaveDecision
  <2>3. decided \in Record /\ decided.steps = m.steps /\ decided.items = m.items
    BY <1>1 DEF Record
  <2> HIDE DEF decided
  <2>4. Final(m.steps["prepare"])
    BY <1>2, <1>5, <2>1 DEF SaveDecision
  <2>5. Ordered(decided)
    BY <1>1, <2>3, <2>4 DEF Ordered
  <2>6. Unfinished(decided, i) = Unfinished(m, i)
    BY <2>3 DEF Unfinished, RowOf
  <2>7. Walks(c, "acted", decided)
    BY <1>1, <2>2, <2>3, GoesWalks DEF Pcs
  <2> QED BY <1>1, <2>2, <2>3, <2>5, <2>6, <2>7, MovesStand DEF AtAnOp
<1> QED BY <1>3, <1>4, <1>5

LEMMA StartStands ==
  ASSUME Standing, NEW c \in Callers, NEW p \in BOOLEAN, Start(c, p)
  PROVE  Standing'
<1> DEFINE m == IF rec = NoRecord THEN NewRecord ELSE rec
           new == [Idle EXCEPT !.pc = "enter", !.token = run.reopens, !.mem = m, !.posts = p /\ run.delivered]
<1>1. /\ TypeOK /\ m \in Record /\ Ordered(m) /\ caller \in [Callers -> CallerState]
      /\ run.reopens \in Tokens /\ run.delivered \in BOOLEAN
  BY NewRecordIs DEF Standing, TypeOK
<1>2. rec' = m /\ caller' = [caller EXCEPT ![c] = IF m.state = "complete" THEN Idle ELSE new]
      /\ reported' \in {"none", reported}
      /\ UNCHANGED <<run, head, listed, issue, registry, dash, config, archive, troubles, disturbed>>
  BY DEF Start
<1>3. /\ new \in CallerState /\ new.mem = m /\ new.pc = "enter" /\ new.item = NoItem /\ new.view = Idle.view
  BY <1>1, IdleIs DEF CallerState, Idle, Pcs
<1> HIDE DEF m, new
<1>4. Idle \in CallerState /\ Idle.item = NoItem /\ Ordered(Idle.mem) /\ Idle.pc = "idle"
  BY IdleIs, NewRecordIs DEF Idle
<1>5. /\ caller' \in [Callers -> CallerState] /\ caller'[c] \in {Idle, new}
      /\ \A q \in Callers : q # c => caller'[q] = caller[q]
  BY <1>1, <1>2, <1>3, <1>4
<1>6. TypeOK'
  <2>1. reported' \in {"none", "posted", "not_posted"}
    BY <1>1, <1>2 DEF TypeOK
  <2> QED BY <1>1, <1>2, <1>5, <2>1 DEF TypeOK
<1>7. Fine(c)'
  <2>1. Ordered(caller[c].mem)' /\ caller'[c].item = NoItem /\ caller'[c].pc \in {"idle", "enter"}
    BY <1>1, <1>3, <1>4, <1>5
  <2> QED BY <2>1 DEF Fine, ViewStands, Placed, Commenting
<1>8. rec' # NoRecord => Ordered(rec')
  BY <1>1, <1>2
<1>9. OwnClosuresReported' /\ \A j \in Issues : issue[j].reports # <<>> => issue'[j].reports # <<>>
  BY <1>2 DEF Standing, OwnClosuresReported
<1> QED BY <1>5, <1>6, <1>7, <1>8, <1>9, OthersStand

LEMMA EndingsStand ==
  ASSUME Standing, NEW c \in Callers, Conflict(c) \/ Kill(c) \/ Finish(c)
  PROVE  Standing'
<1>1. TypeOK /\ caller[c].mem \in Record /\ Ordered(caller[c].mem) /\ MaxTroubles \in Nat
      /\ caller \in [Callers -> CallerState]
  BY PlacedAt, CloseAssumption DEF Fine
<1>2. Ends(c) /\ UNCHANGED <<world, disturbed>>
  BY <1>1, EndsAre DEF Conflict, Kill, Finish
<1>3. troubles' \in 0..MaxTroubles
  BY <1>1 DEF Conflict, Kill, Finish, Trouble, TypeOK
<1>4. rec' \in Record \cup {NoRecord} /\ (rec' # NoRecord => Ordered(rec'))
  <2>1. CASE rec' = rec
    BY <1>1, <2>1 DEF Standing, TypeOK
  <2>2. CASE rec' # rec
    <3> DEFINE done == [caller[c].mem EXCEPT !.state = "complete"]
    <3>1. rec' = done
      BY <2>2 DEF Conflict, Kill, Finish, Saves
    <3>2. done \in Record /\ done.steps = caller[c].mem.steps /\ done.items = caller[c].mem.items
          /\ done.decided = caller[c].mem.decided
      BY <1>1 DEF Record
    <3> HIDE DEF done
    <3>3. Ordered(done)
      BY <1>1, <3>2 DEF Ordered
    <3> QED BY <3>1, <3>2, <3>3
  <2> QED BY <2>1, <2>2
<1> QED BY <1>2, <1>3, <1>4, EndStands

LEMMA ItemDoneStands ==
  ASSUME Standing, NEW c \in Callers, ItemDone(c)
  PROVE  Standing'
<1>1. TypeOK /\ Fine(c) /\ caller \in [Callers -> CallerState] /\ caller[c].item # NoItem
  BY PlacedAt DEF ItemDone
<1>2. Leaves(c, caller[c].mem) /\ UNCHANGED <<world, rec, troubles, disturbed>>
  BY <1>1, ItemDoneLeaves DEF ItemDone
<1>3. Fine(c)'
  BY <1>1, <1>2, LeavesFine DEF Fine, Placed
<1>4. rec' \in Record \cup {NoRecord} /\ (rec' # NoRecord => Ordered(rec')) /\ troubles' \in 0..MaxTroubles
  BY <1>1, <1>2 DEF Standing, TypeOK
<1> QED BY <1>2, <1>3, <1>4, QuietStand DEF Leaves

LEMMA PrepareReportStands ==
  ASSUME Standing, NEW c \in Callers, PrepareReport(c)
  PROVE  Standing'
<1> DEFINE k == caller[c]
           new == [k EXCEPT !.pc = "items", !.todo = Issues, !.head = head]
<1>1. /\ TypeOK /\ Fine(c) /\ caller \in [Callers -> CallerState] /\ k \in CallerState /\ head \in Heads
      /\ AtAnOp(c) /\ k.item \in Issues \cup {NoItem}
  BY PlacedAt DEF PrepareReport, At, TypeOK
<1>2. caller' = [caller EXCEPT ![c] = new] /\ UNCHANGED <<world, rec, troubles, disturbed>>
  BY DEF PrepareReport
<1>3. new \in CallerState /\ new.pc = "items" /\ new.mem = k.mem /\ new.item = k.item
  BY <1>1 DEF CallerState, Pcs
<1> HIDE DEF new
<1>4. /\ Op(c) \in Names(k.item) /\ Op(c) = "final_report_post"
      /\ ~Final(RowOf(k.mem, k.item, Op(c)))
      /\ k.item = NoItem /\ Op(c) # "prepare" => Final(k.mem.steps["prepare"])
  BY <1>1, OpIs DEF AtAnOp, PrepareReport
<1>5. k.item = NoItem
  BY <1>1, <1>4, NamesAre
<1>6. caller' \in [Callers -> CallerState] /\ caller'[c] = new /\ \A q \in Callers : q # c => caller'[q] = caller[q]
  BY <1>1, <1>2, <1>3
<1>7. Fine(c)'
  <2>1. Ordered(caller[c].mem)'
    BY <1>1, <1>3, <1>6 DEF Fine
  <2>2. ~Final(k.mem.steps["final_report_post"]) /\ Final(k.mem.steps["prepare"])
    BY <1>4, <1>5 DEF RowOf
  <2> QED BY <1>3, <1>5, <1>6, <2>1, <2>2 DEF Fine, ViewStands, Placed, Commenting
<1>8. rec' \in Record \cup {NoRecord} /\ (rec' # NoRecord => Ordered(rec')) /\ troubles' \in 0..MaxTroubles
  BY <1>1, <1>2 DEF Standing, TypeOK
<1> QED BY <1>2, <1>6, <1>7, <1>8, QuietStand

LEMMA ReadIssueStands ==
  ASSUME Standing, NEW c \in Callers, NEW i \in Issues, ReadIssue(c, i)
  PROVE  Standing'
<1> DEFINE k == caller[c]
           mine == issue[i].open \/ Ours(k, i) \/ issue[i].by = "pull_request"
           item == [k.mem.items[i] EXCEPT !.unpostable = ~mine]
           m == [k.mem EXCEPT !.items = [k.mem.items EXCEPT ![i] = item]]
           view == [open |-> issue[i].open, report |-> issue[i].reports # <<>>, by |-> issue[i].by]
           taken == [k EXCEPT !.pc = "enter", !.item = i, !.todo = k.todo \ {i}, !.mem = m, !.view = view]
           left == [k EXCEPT !.todo = k.todo \ {i}, !.mem = m]
           new == IF mine THEN taken ELSE left
<1>1. /\ TypeOK /\ Fine(c) /\ caller \in [Callers -> CallerState] /\ k \in CallerState /\ k.mem \in Record
      /\ k.pc = "items" /\ k.item = NoItem /\ i # NoItem
  BY PlacedAt, CloseAssumption DEF ReadIssue, At, Fine, Placed
<1>2. mine \in BOOLEAN /\ view \in View /\ view.report = (issue[i].reports # <<>>) /\ view.open = issue[i].open
      /\ view.by = issue[i].by
  BY <1>1 DEF View, TypeOK
<1>3. mine => issue[i].reports # <<>> \/ Final(k.mem.items[i].ops["commented"])
                \/ issue[i].open \/ issue[i].by # "person"
  <2> SUFFICES ASSUME Ours(k, i), ~Final(k.mem.items[i].ops["commented"])
               PROVE  issue[i].reports # <<>>
    OBVIOUS
  <2>1. ~k.mem.items[i].acted /\ ~Final(k.mem.items[i].ops["closed"])
    BY <1>1 DEF Fine, Ordered
  <2>2. issue[i].ownClose => issue[i].reports # <<>>
    BY DEF Standing, OwnClosuresReported
  <2> QED BY <2>1, <2>2 DEF Ours, Final, TerminalStates
<1>4. /\ UNCHANGED <<world, troubles, disturbed>>
      /\ Saves(c, m) /\ caller' = [caller EXCEPT ![c] = new]
  BY DEF ReadIssue
<1> HIDE DEF mine, view
<1>5. item \in Item /\ item.ops = k.mem.items[i].ops /\ item.acted = k.mem.items[i].acted
  BY <1>1, <1>2 DEF Record, Item
<1> HIDE DEF item
<1>6. /\ m \in Record /\ m.steps = k.mem.steps /\ m.decided = k.mem.decided
      /\ \A j \in Issues : m.items[j].ops = k.mem.items[j].ops /\ m.items[j].acted = k.mem.items[j].acted
  <2>1. k.mem.items \in [Issues -> Item]
    BY <1>1 DEF Record
  <2>2. [k.mem.items EXCEPT ![i] = item] \in [Issues -> Item]
        /\ \A j \in Issues : [k.mem.items EXCEPT ![i] = item][j] = IF j = i THEN item ELSE k.mem.items[j]
    BY <1>5, <2>1
  <2>3. m.items = [k.mem.items EXCEPT ![i] = item] /\ m \in Record /\ m.steps = k.mem.steps
        /\ m.decided = k.mem.decided
    BY <1>1, <2>2 DEF Record
  <2> HIDE DEF m
  <2> QED BY <1>5, <2>2, <2>3
<1>7. Ordered(m)
  BY <1>1, <1>6 DEF Fine, Ordered
<1> HIDE DEF m
<1>8. /\ taken \in CallerState /\ taken.pc = "enter" /\ taken.item = i /\ taken.mem = m /\ taken.view = view
      /\ left \in CallerState /\ left.pc = "items" /\ left.item = NoItem /\ left.mem = m
  BY <1>1, <1>2, <1>6 DEF CallerState, Pcs
<1> HIDE DEF taken, left
<1>9. /\ caller' \in [Callers -> CallerState] /\ \A q \in Callers : q # c => caller'[q] = caller[q]
      /\ caller'[c] = IF mine THEN taken ELSE left
  BY <1>1, <1>4, <1>8
<1>10. Fine(c)'
  <2>1. Ordered(caller[c].mem)'
    BY <1>7, <1>8, <1>9
  <2>2. ~Final(m.steps["final_report_post"]) /\ Final(m.steps["prepare"])
    BY <1>1, <1>6 DEF Fine, Placed
  <2>3. CASE mine
    <3>1. caller'[c].pc = "enter" /\ caller'[c].item = i /\ caller'[c].mem = m /\ caller'[c].view = view
      BY <1>8, <1>9, <2>3
    <3>2. issue' = issue
      BY <1>4 DEF world
    <3>3. ~Final(m.items[i].ops["commented"]) /\ ~view.report => view.open \/ view.by # "person"
      BY <1>2, <1>3, <1>6, <2>3
    <3>4. ViewStands(c)'
      BY <1>2, <3>1, <3>2, <3>3 DEF ViewStands, Commenting
    <3>5. Placed(c)'
      BY <1>1, <2>2, <3>1 DEF Placed
    <3> QED BY <2>1, <3>4, <3>5 DEF Fine
  <2>4. CASE ~mine
    <3>1. caller'[c].pc = "items" /\ caller'[c].item = NoItem /\ caller'[c].mem = m
      BY <1>8, <1>9, <2>4
    <3> QED BY <2>1, <2>2, <3>1 DEF Fine, ViewStands, Placed, Commenting
  <2> QED BY <2>3, <2>4
<1>11. rec' \in Record \cup {NoRecord} /\ (rec' # NoRecord => Ordered(rec')) /\ troubles' \in 0..MaxTroubles
  BY <1>1, <1>4, <1>6, <1>7 DEF Standing, TypeOK, Saves
<1> QED BY <1>4, <1>9, <1>10, <1>11, QuietStand

LEMMA ReadIssueFailsStands ==
  ASSUME Standing, NEW c \in Callers, NEW i \in Issues, ReadIssueFails(c, i)
  PROVE  Standing'
<1> DEFINE new == [caller[c] EXCEPT !.todo = caller[c].todo \ {i}]
<1>1. /\ TypeOK /\ Fine(c) /\ caller \in [Callers -> CallerState] /\ caller[c] \in CallerState /\ MaxTroubles \in Nat
  BY PlacedAt, CloseAssumption
<1>2. caller' = [caller EXCEPT ![c] = new] /\ UNCHANGED <<world, rec, disturbed>>
  BY DEF ReadIssueFails
<1>3. /\ new \in CallerState /\ new.pc = caller[c].pc /\ new.mem = caller[c].mem /\ new.item = caller[c].item
      /\ new.view = caller[c].view
  BY <1>1 DEF CallerState
<1> HIDE DEF new
<1>4. caller' \in [Callers -> CallerState] /\ caller'[c] = new /\ \A q \in Callers : q # c => caller'[q] = caller[q]
  BY <1>1, <1>2, <1>3
<1>5. Fine(c)'
  <2>1. Ordered(caller[c].mem)'
    BY <1>1, <1>3, <1>4 DEF Fine
  <2> QED BY <1>1, <1>2, <1>3, <1>4, <2>1 DEF Fine, ViewStands, Placed, Commenting, world
<1>6. rec' \in Record \cup {NoRecord} /\ (rec' # NoRecord => Ordered(rec')) /\ troubles' \in 0..MaxTroubles
  BY <1>1, <1>2 DEF Standing, TypeOK, ReadIssueFails, Trouble
<1> QED BY <1>2, <1>4, <1>5, <1>6, QuietStand

-----------------------------------------------------------------------------
(* Everybody else *)

\* What people and other programs do.
SomebodyElse ==
  \/ Reopen \/ Deliver \/ Override \/ EditConfig \/ DashboardTurns \/ OtherEvent
  \/ \E i \in Issues : PersonTurnsIssue(i) \/ PullRequestCloses(i)

LEMMA OthersAre ==
  ASSUME Standing, SomebodyElse
  PROVE  /\ UNCHANGED caller /\ rec' \in {rec, NoRecord}
         /\ \A i \in Issues : issue'[i].reports = issue[i].reports /\ issue'[i].ownClose = issue[i].ownClose
         /\ TypeOK'
<1>1. TypeOK /\ MaxTroubles \in Nat /\ MaxReopens \in Nat /\ (NewHead => head' \in Heads)
  BY CloseAssumption, NewHeadType DEF Standing
<1>2. "closed" \in Range(ItemOps) /\ "dashboard_shutdown" \in Steps
  BY NamesAre
<1>3. CASE Reopen
  <2>1. run' = [run EXCEPT !.closed = FALSE, !.reopens = run.reopens + 1] /\ run.reopens < MaxReopens
    BY <1>3 DEF Reopen
  <2>2. run' \in [closed : BOOLEAN, delivered : BOOLEAN, reopens : Tokens]
    <3>1. run \in [closed : BOOLEAN, delivered : BOOLEAN, reopens : Tokens] /\ run.reopens + 1 \in Tokens
      BY <1>1, <2>1 DEF TypeOK, Tokens
    <3> HIDE DEF Tokens
    <3> QED BY <2>1, <3>1
  <2>3. archive' \in [state : {"absent", "partial", "whole"}, items : [Issues -> Item]]
    <3>1. NewRecord.items \in [Issues -> Item]
      BY NewRecordIs DEF Record
    <3> QED BY <1>3, <3>1 DEF Reopen, NoArchive
  <2> QED BY <1>1, <1>3, <2>2, <2>3 DEF Reopen, TypeOK, Trouble
<1>4. CASE Deliver
  BY <1>1, <1>4 DEF Deliver, TypeOK
<1>5. CASE Override
  BY <1>1, <1>5 DEF Override, TypeOK
<1>6. CASE EditConfig
  BY <1>1, <1>6 DEF EditConfig, TypeOK, Trouble, Elsewhere
<1>7. CASE DashboardTurns
  <2>1. dash' \in {"absent", "owned", "stale", "foreign"} /\ disturbed' \subseteq Steps \cup Range(ItemOps)
        /\ troubles' \in 0..MaxTroubles
    BY <1>1, <1>2, <1>7 DEF DashboardTurns, TypeOK, Trouble, Elsewhere
  <2> QED BY <1>1, <1>7, <2>1 DEF DashboardTurns, TypeOK, Elsewhere
<1>8. CASE OtherEvent
  BY <1>1, <1>8 DEF OtherEvent, TypeOK, Trouble, Elsewhere
<1>9. ASSUME NEW i \in Issues, PersonTurnsIssue(i) \/ PullRequestCloses(i)
      PROVE  /\ UNCHANGED caller /\ rec' \in {rec, NoRecord}
             /\ \A j \in Issues : issue'[j].reports = issue[j].reports /\ issue'[j].ownClose = issue[j].ownClose
             /\ TypeOK'
  <2> DEFINE Row1 == [open : BOOLEAN, by : Closers, reports : Seq(Heads), ownClose : BOOLEAN,
                      parent : {"none", "unticked", "ticked", "nobox"}]
             new == [issue[i] EXCEPT !.open = issue'[i].open, !.by = issue'[i].by]
  <2>1. issue \in [Issues -> Row1] /\ issue[i] \in Row1
    BY <1>1 DEF TypeOK
  <2>2. \E o \in BOOLEAN, b \in Closers :
          issue' = [issue EXCEPT ![i] = [issue[i] EXCEPT !.open = o, !.by = b]]
    <3>1. CASE PersonTurnsIssue(i)
      <4>1. issue' = [issue EXCEPT ![i] = [issue[i] EXCEPT !.open = ~issue[i].open,
                                             !.by = IF issue[i].open THEN "person" ELSE "nobody"]]
        BY <2>1, <3>1 DEF PersonTurnsIssue
      <4>2. (~issue[i].open) \in BOOLEAN /\ (IF issue[i].open THEN "person" ELSE "nobody") \in Closers
        BY <2>1 DEF Closers
      <4> QED BY <4>1, <4>2
    <3>2. CASE PullRequestCloses(i)
      <4>1. issue' = [issue EXCEPT ![i] = [issue[i] EXCEPT !.open = FALSE, !.by = "pull_request"]]
        BY <2>1, <3>2 DEF PullRequestCloses
      <4>2. FALSE \in BOOLEAN /\ "pull_request" \in Closers
        BY DEF Closers
      <4> QED BY <4>1, <4>2
    <3> QED BY <1>9, <3>1, <3>2
  <2>3. PICK o \in BOOLEAN, b \in Closers :
          issue' = [issue EXCEPT ![i] = [issue[i] EXCEPT !.open = o, !.by = b]]
    BY <2>2
  <2>4. issue' \in [Issues -> Row1]
        /\ \A j \in Issues : issue'[j].reports = issue[j].reports /\ issue'[j].ownClose = issue[j].ownClose
    <3> DEFINE row == [issue[i] EXCEPT !.open = o, !.by = b]
    <3>1. row \in Row1 /\ row.reports = issue[i].reports /\ row.ownClose = issue[i].ownClose
      BY <2>1
    <3>2. issue' = [issue EXCEPT ![i] = row]
      BY <2>3
    <3> HIDE DEF row, Row1
    <3> QED BY <2>1, <3>1, <3>2
  <2>5. /\ UNCHANGED <<run, head, reported, listed, registry, dash, config, archive, rec, caller>>
        /\ disturbed' \subseteq disturbed \cup {"closed"} /\ troubles' \in 0..MaxTroubles
    BY <1>1, <1>9 DEF PersonTurnsIssue, PullRequestCloses, Elsewhere, Trouble, TypeOK
  <2> QED BY <1>1, <1>2, <2>4, <2>5 DEF TypeOK
<1> QED BY <1>3, <1>4, <1>5, <1>6, <1>7, <1>8, <1>9 DEF SomebodyElse

LEMMA OthersLeaveStanding ==
  ASSUME Standing, SomebodyElse
  PROVE  Standing'
<1>1. /\ UNCHANGED caller /\ rec' \in {rec, NoRecord} /\ TypeOK'
      /\ \A i \in Issues : issue'[i].reports = issue[i].reports /\ issue'[i].ownClose = issue[i].ownClose
  BY OthersAre
<1>2. OwnClosuresReported'
  BY <1>1 DEF Standing, OwnClosuresReported
<1>3. ASSUME NEW q \in Callers PROVE Fine(q)'
  <2>1. Fine(q) /\ caller[q].item \in Issues \cup {NoItem}
    BY PlacedAt
  <2> QED BY <1>1, <2>1 DEF Fine, ViewStands, Placed, Commenting
<1> QED BY <1>1, <1>2, <1>3 DEF Standing

-----------------------------------------------------------------------------
(* Any number of calls *)

LEMMA Beginning == Init => Standing
<1> SUFFICES ASSUME Init PROVE Standing
  OBVIOUS
<1>1. NewRecord.items \in [Issues -> Item] /\ Ordered(NewRecord) /\ Idle \in CallerState /\ 0 \in Heads
      /\ MaxReopens \in Nat /\ MaxTroubles \in Nat
  BY NewRecordIs, IdleIs, HeadsAre, CloseAssumption DEF Record
<1>2. \E p \in {"unticked", "nobox"} :
        issue = [i \in Issues |-> [open |-> TRUE, by |-> "nobody", reports |-> <<>>, ownClose |-> FALSE, parent |-> p]]
  BY DEF Init
<1>3. issue \in [Issues -> [open : BOOLEAN, by : Closers, reports : Seq(Heads), ownClose : BOOLEAN,
                            parent : {"none", "unticked", "ticked", "nobox"}]]
      /\ \A i \in Issues : issue[i].reports = <<>> /\ ~issue[i].ownClose /\ issue[i].open
  <2>1. <<>> \in Seq(Heads)
    OBVIOUS
  <2> QED BY <1>2, <2>1 DEF Closers
<1>4. run \in [closed : BOOLEAN, delivered : BOOLEAN, reopens : Tokens]
  <2>1. run \in [closed : {FALSE}, delivered : BOOLEAN, reopens : {0}] 
    BY Zenon DEF Init
  <2>0. 0 \in Tokens
    BY <1>1 DEF Tokens
  <2> HIDE DEF Tokens
  <2>2. run.closed \in BOOLEAN /\ run.delivered \in BOOLEAN /\ run.reopens \in Tokens
    BY <2>0, <2>1
  <2>3. run = [closed |-> run.closed, delivered |-> run.delivered, reopens |-> run.reopens]
    BY <2>1
  <2> QED BY <2>2, <2>3
<1>5. NoArchive \in [state : {"absent", "partial", "whole"}, items : [Issues -> Item]]
  BY <1>1 DEF NoArchive
<1>6. TypeOK
  BY <1>1, <1>3, <1>4, <1>5 DEF Init, TypeOK
<1>7. ASSUME NEW c \in Callers PROVE Fine(c)
  BY <1>1 DEF Init, Idle, Fine, ViewStands, Placed, Commenting
<1> QED BY <1>3, <1>6, <1>7 DEF Init, Standing, OwnClosuresReported

LEMMA CallStands ==
  ASSUME Standing, NEW c \in Callers, Continue(c) \/ Disturb(c)
  PROVE  Standing'
<1>1. Fine(c) /\ MaxTroubles \in Nat /\ troubles \in 0..MaxTroubles
  BY PlacedAt, CloseAssumption DEF TypeOK
<1>2. CASE Enter(c)
  <2>1. At(c, "enter") /\ troubles' = troubles
    BY <1>2 DEF Enter
  <2> QED BY <1>2, <2>1, RowSteps, RowStepStands
<1>3. CASE Observe(c)
  <2>1. At(c, "observe") /\ UNCHANGED <<world, troubles, disturbed>>
    BY <1>3 DEF Observe
  <2> QED BY <1>3, <2>1, RowSteps, RowStepStands, TurnedStands
<1>4. CASE ReadBack(c)
  <2>1. troubles' = troubles
    BY <1>4 DEF ReadBack
  <2> QED BY <1>1, <1>4, <2>1, RowSteps, RowStepStands, RaisedStands
<1>5. CASE ObserveFails(c) \/ ReadBackFails(c)
  <2>1. troubles' \in 0..MaxTroubles
    BY <1>1, <1>5 DEF ObserveFails, ReadBackFails, Trouble
  <2> QED BY <1>5, <2>1, RowSteps, RaisedStands
<1>6. CASE ActSteps(c)
  BY <1>6, ActsStand
<1>7. CASE SaveActed(c) \/ SaveDecision(c)
  BY <1>7, NotesStand
<1>8. CASE Conflict(c) \/ Kill(c) \/ Finish(c)
  BY <1>8, EndingsStand
<1>9. CASE ItemDone(c)
  BY <1>9, ItemDoneStands
<1>10. CASE PrepareReport(c)
  BY <1>10, PrepareReportStands
<1>11. CASE \E i \in Issues : ReadIssue(c, i) \/ ReadIssueFails(c, i)
  BY <1>11, ReadIssueStands, ReadIssueFailsStands
<1> QED BY <1>2, <1>3, <1>4, <1>5, <1>6, <1>7, <1>8, <1>9, <1>10, <1>11 DEF Continue, Disturb, ActSteps

LEMMA StillStanding ==
  ASSUME Standing, [Next]_vars
  PROVE  Standing'
<1>1. CASE \E c \in Callers, p \in BOOLEAN : Start(c, p)
  BY <1>1, StartStands
<1>2. CASE \E c \in Callers : Continue(c) \/ Disturb(c)
  BY <1>2, CallStands
<1>3. CASE SomebodyElse
  BY <1>3, OthersLeaveStanding
<1>4. CASE UNCHANGED vars
  <2>1. TypeOK'
    BY <1>4 DEF Standing, TypeOK, vars
  <2> QED BY <1>4, <2>1 DEF Standing, OwnClosuresReported, Fine, ViewStands, Placed, Commenting, vars
<1> QED BY <1>1, <1>2, <1>3, <1>4 DEF Next, SomebodyElse

LEMMA AlwaysStanding == Spec => []Standing
<1>1. Init => Standing
  BY Beginning
<1>2. Standing /\ [Next]_vars => Standing'
  BY StillStanding
<1> QED BY <1>1, <1>2, PTL DEF Spec

\* Every state of a close is well-formed, however many calls are made of it,
\* killed or overtaken by a reopening.
THEOREM TypeCorrect == Spec => []TypeOK
<1>1. Standing => TypeOK
  BY DEF Standing
<1> QED BY <1>1, AlwaysStanding, PTL

\* Only a call that acts on its comment posts one, on the issue it has come to.
LEMMA OnlyCommentsReport ==
  ASSUME Standing, [Next]_vars, NEW i \in Issues, issue'[i].reports # issue[i].reports
  PROVE  \E d \in Callers :
           /\ At(d, "act") /\ caller[d].item = i /\ Commenting(d)
           /\ \A q \in Callers : q # d => caller'[q] = caller[q]
           /\ issue[i].reports \in Seq(Heads) /\ issue'[i].reports = Append(issue[i].reports, caller[d].head)
<1>1. ~SomebodyElse
  BY OthersAre
<1>2. issue' # issue
  OBVIOUS
<1>3. PICK d \in Callers : Act(d) \/ ActLosesAnswer(d)
  <2>1. ~\E c \in Callers, p \in BOOLEAN : Start(c, p)
    BY <1>2 DEF Start
  <2>2. ~UNCHANGED vars
    BY <1>2 DEF vars
  <2>3. PICK d \in Callers : Continue(d) \/ Disturb(d)
    BY <1>1, <2>1, <2>2, Zenon DEF Next, SomebodyElse
  <2>4. Act(d) \/ ActLosesAnswer(d)
    BY <1>2, <2>3, Zenon
    DEF Continue, Disturb, Conflict, Enter, Observe, SaveActed, ReadBack, ItemDone, Finish, PrepareReport,
        RecordReport, OpenArchive, WriteArchive, ArchiveConflict, RestoreConfig, SaveDecision, ActFails, ReadIssue,
        ObserveFails, ReadBackFails, ReportRefused, WriteArchiveFails, Kill, ReadIssueFails, world
  <2> QED BY <2>4
<1> DEFINE k == caller[d]
<1>4. At(d, "act") /\ Effect(d) /\ AtAnOp(d)
  BY <1>3, PlacedAt DEF Act, ActLosesAnswer, At
<1>5. /\ \/ Op(d) = "commented" /\ CommentOn(k.item, k.head)
         \/ Op(d) = "closed" /\ CloseIssue(k.item, k.head)
         \/ Op(d) = "ticked" /\ TickParent(k.item)
  BY <1>2, <1>4 DEF Effect, CloseRun, MarkRegister, ReleaseDashboard
<1>6. Op(d) \in Names(k.item) /\ ~Final(RowOf(k.mem, k.item, Op(d))) /\ k.item \in Issues \cup {NoItem}
      /\ k.head \in Heads /\ WorldTyped
  BY <1>4, PlacedAt, OpIs, TypesSplit DEF AtAnOp, CallerState
<1>7. k.item \in Issues /\ k.item # NoItem
  BY <1>5, <1>6, NamesAre, CloseAssumption
<1>8. \A j \in Issues : issue'[j].reports = IF CommentOn(k.item, k.head) /\ j = k.item
                                            THEN Append(issue[j].reports, k.head) ELSE issue[j].reports
  <2> DEFINE it == k.item
             h == k.head
  <2>1. it \in Issues /\ h \in Heads /\ (CommentOn(it, h) \/ CloseIssue(it, h) \/ TickParent(it))
    BY <1>5, <1>6, <1>7
  <2> HIDE DEF it, h
  <2>2. \A j \in Issues : issue'[j].reports = IF CommentOn(it, h) /\ j = it
                                              THEN Append(issue[j].reports, h) ELSE issue[j].reports
    BY <1>6, <2>1, IssueChanges
  <2> QED BY <2>2 DEF it, h
<1>9. k.item = i /\ CommentOn(k.item, k.head) /\ issue'[i].reports = Append(issue[i].reports, k.head)
  BY <1>8
<1>10. issue[i].reports \in Seq(Heads)
  BY <1>6 DEF WorldTyped
<1>11. Op(d) = "commented"
  <2>1. Len(issue'[i].reports) # Len(issue[i].reports)
    BY <1>6, <1>9, <1>10
  <2>2. Op(d) = "closed" => issue'[i].reports = issue[i].reports
    <3>1. ASSUME CloseIssue(i, k.head) PROVE issue'[i].reports = issue[i].reports
      <4>1. issue[i] \in [open : BOOLEAN, by : Closers, reports : Seq(Heads), ownClose : BOOLEAN,
                          parent : {"none", "unticked", "ticked", "nobox"}] /\ i \in DOMAIN issue
        BY <1>6 DEF WorldTyped
      <4> DEFINE new == [issue[i] EXCEPT !.open = FALSE, !.by = "run",
                           !.ownClose = @ \/ k.head \in Range(issue[i].reports)]
      <4>2. issue' = issue \/ issue' = [issue EXCEPT ![i] = new]
        BY <3>1 DEF CloseIssue
      <4>3. new.reports = issue[i].reports
        BY <4>1
      <4> HIDE DEF new
      <4> QED BY <4>1, <4>2, <4>3
    <3> QED BY <1>5, <1>9, <3>1
  <2>3. Op(d) = "ticked" => issue'[i].reports = issue[i].reports
    <3>1. ASSUME TickParent(i) PROVE issue'[i].reports = issue[i].reports
      <4>1. issue[i] \in [open : BOOLEAN, by : Closers, reports : Seq(Heads), ownClose : BOOLEAN,
                          parent : {"none", "unticked", "ticked", "nobox"}] /\ i \in DOMAIN issue
        BY <1>6 DEF WorldTyped
      <4> QED BY <3>1, <4>1 DEF TickParent
    <3> QED BY <1>5, <1>9, <3>1
  <2> QED BY <1>5, <2>1, <2>2, <2>3
<1>12. Commenting(d)
  BY <1>6, <1>7, <1>11 DEF Commenting, RowOf
<1>13. \A q \in Callers : q # d => caller'[q] = caller[q]
  BY <1>3, TurnSteps DEF ActSteps, Walks
<1> QED BY <1>4, <1>9, <1>10, <1>12, <1>13

\* However often a close is cut short and taken up again, by however many
\* calls: whoever posts a report on an issue had not found it closed by a
\* person when its turn came.
THEOREM PersonsClosuresStand == Spec => PersonsClosureStands
<1>1. ASSUME Standing, [Next]_vars, NEW c \in Callers, NEW i \in Issues,
             issue'[i].reports # issue[i].reports, caller'[c] # caller[c]
      PROVE  caller[c].item = i /\ (caller[c].view.open \/ caller[c].view.by # "person")
  <2>1. At(c, "act") /\ caller[c].item = i /\ Commenting(c)
    BY <1>1, OnlyCommentsReport
  <2> QED BY <1>1, <2>1, PlacedAt DEF Fine, ViewStands, At
<1>2. Standing /\ [Next]_vars =>
        [\A c \in Callers, i \in Issues :
           issue'[i].reports # issue[i].reports /\ caller'[c] # caller[c]
             => caller[c].item = i /\ (caller[c].view.open \/ caller[c].view.by # "person")]_vars
  BY <1>1
<1> QED BY <1>2, AlwaysStanding, PTL DEF Spec, PersonsClosureStands

-----------------------------------------------------------------------------
(* One call at a time *)

OneCaller == \A c, d \in Callers : c = d

\* What a record calls complete is so.
Faithful(m) ==
  /\ Final(m.steps["prepare"]) => run.closed
  /\ m.decided => config.value # "written"
  /\ m.steps["config_restore"] = "complete" /\ config.override => m.decided
  /\ m.steps["final_report_post"] = "complete" => ReportDone(m)
  /\ m.steps["archive"] = "complete" => archive = ArchiveOf(m)
  /\ m.steps["fleet_unregister"] = "complete" => registry = "closed"
  /\ m.steps["dashboard_shutdown"] = "complete" => DashboardReleased \/ "dashboard_shutdown" \in disturbed
  /\ \A i \in Issues :
       /\ m.items[i].ops["commented"] = "complete" => issue[i].reports # <<>>
       /\ m.items[i].ops["closed"] = "complete" => ~issue[i].open \/ "closed" \in disturbed
       /\ m.items[i].ops["ticked"] = "complete" => issue[i].parent \in {"none", "ticked"}

\* The file is what the call has in memory, or the run was reopened.
HoldsRecord(c) ==
  caller[c].pc # "idle" =>
    /\ caller[c].token <= run.reopens
    /\ rec = IF Stale(c) THEN NoRecord ELSE caller[c].mem

\* What the call saw of its issue is so still, and it is not done with a
\* configuration it has not taken back.
SeesRight(c) ==
  LET k == caller[c] IN
  /\ Commenting(c) /\ k.pc \in {"enter", "observe"} => (k.view.report <=> issue[k.item].reports # <<>>)
  /\ Commenting(c) /\ k.pc = "act" => issue[k.item].reports = <<>>
  /\ k.item # NoItem /\ ~k.view.open => ~issue[k.item].open \/ "closed" \in disturbed
  /\ k.pc = "writing" /\ ~Stale(c) /\ Op(c) = "config_restore" => config.value # "written"

Alone(c) == HoldsRecord(c) /\ SeesRight(c)

Steady ==
  /\ Standing /\ OneReportEach
  /\ rec # NoRecord => Faithful(rec)
  /\ \A c \in Callers : Alone(c)

LEMMA SteadyAfter ==
  ASSUME OneCaller, NEW c \in Callers, Standing', OneReportEach', Alone(c)', NEW m,
         rec' # NoRecord => rec' = m /\ Faithful(m)'
  PROVE  Steady'
<1>1. \A q \in Callers : Alone(q)'
  BY DEF OneCaller
<1>2. (rec # NoRecord => Faithful(rec))'
  BY DEF Faithful, ReportDone, DashboardReleased
<1> QED BY <1>1, <1>2 DEF Steady

LEMMA OneReportStep ==
  ASSUME Steady, [Next]_vars
  PROVE  OneReportEach'
<1>1. SUFFICES ASSUME NEW i \in Issues PROVE Len(issue'[i].reports) <= 1
  BY DEF OneReportEach
<1>2. CASE issue'[i].reports = issue[i].reports
  BY <1>2 DEF Steady, OneReportEach
<1>3. CASE issue'[i].reports # issue[i].reports
  <2>1. PICK d \in Callers :
           /\ At(d, "act") /\ caller[d].item = i /\ Commenting(d)
           /\ issue[i].reports \in Seq(Heads) /\ issue'[i].reports = Append(issue[i].reports, caller[d].head)
    BY <1>3, OnlyCommentsReport DEF Steady
  <2>2. issue[i].reports = <<>>
    BY <2>1 DEF Steady, Alone, SeesRight, At
  <2> QED BY <2>1, <2>2
<1> QED BY <1>2, <1>3

\* What the call has in memory is faithful, unless it has been overtaken.
LEMMA MemoryFaithful ==
  ASSUME Steady, NEW c \in Callers, caller[c].pc # "idle", ~Stale(c)
  PROVE  rec = caller[c].mem /\ rec # NoRecord /\ Faithful(caller[c].mem)
<1>1. rec = caller[c].mem /\ caller[c].mem \in Record
  BY PlacedAt DEF Steady, Alone, HoldsRecord
<1> QED BY <1>1, NoRecordAssumption DEF Steady

\* The order in which an operation comes, for what the record then says.
LEMMA OpComes ==
  ASSUME Standing, NEW c \in Callers, AtAnOp(c)
  PROVE  LET m == caller[c].mem  i == caller[c].item  IN
         /\ i = NoItem => /\ Op(c) \in Steps /\ ~Final(m.steps[Op(c)])
                          /\ Op(c) \notin {"prepare", "final_report_post"} => Final(m.steps["final_report_post"])
                          /\ Op(c) # "prepare" => Final(m.steps["prepare"])
         /\ i # NoItem => /\ i \in Issues /\ Op(c) \in Range(ItemOps) /\ ~Final(m.items[i].ops[Op(c)])
                          /\ ~Final(m.steps["final_report_post"]) /\ ~Final(m.steps["archive"])
                          /\ Op(c) # "commented" => Final(m.items[i].ops["commented"])
<1> DEFINE m == caller[c].mem
           i == caller[c].item
<1>1. /\ Op(c) \in Names(i) /\ ~Final(RowOf(m, i, Op(c)))
      /\ i = NoItem /\ Op(c) # "prepare" => Final(m.steps["prepare"])
      /\ i = NoItem /\ Op(c) \notin {"prepare", "final_report_post"} => Final(m.steps["final_report_post"])
      /\ i # NoItem /\ Op(c) # "commented" => Final(m.items[i].ops["commented"])
  BY PlacedAt, OpIs DEF AtAnOp
<1>2. i \in Issues \cup {NoItem} /\ Fine(c)
  BY PlacedAt
<1>3. i # NoItem => ~Final(m.steps["final_report_post"]) /\ ~Final(m.steps["archive"])
  BY <1>2 DEF Fine, Placed, Ordered
<1> QED BY <1>1, <1>2, <1>3, NamesAre DEF RowOf

\* An operation may be called complete when it is so, or somebody else undid it.
Stands(c) == Satisfied(c) \/ (Op(c) = "closed" /\ "closed" \in disturbed)

LEMMA FaithfulRow ==
  ASSUME Standing, NEW c \in Callers, AtAnOp(c), Faithful(caller[c].mem), NEW r \in Row,
         r = "complete" => Stands(c), r = "skipped" => Op(c) = "final_report_post"
  PROVE  Faithful(WithOp(c, r))
<1> DEFINE m == caller[c].mem
           i == caller[c].item
           w == WithOp(c, r)
           o == Op(c)
<1>1. m \in Record /\ Final(r) = (r \in {"complete", "skipped"}) /\ Faithful(m)
  BY PlacedAt DEF Final, TerminalStates
<1>2. CASE i = NoItem
  <2>1. /\ o \in Steps /\ ~Final(m.steps[o])
        /\ o \notin {"prepare", "final_report_post"} => Final(m.steps["final_report_post"])
        /\ o # "prepare" => Final(m.steps["prepare"])
    BY <1>2, OpComes
  <2>2. /\ w.items = m.items /\ w.decided = m.decided
        /\ \A s \in Steps : w.steps[s] = IF s = o THEN r ELSE m.steps[s]
    <3>1. w = WithRow(m, NoItem, o, r)
      BY <1>2 DEF WithOp
    <3> HIDE DEF m, w, o
    <3> QED BY <1>1, <2>1, <3>1, StepRow
  <2>3. \A j \in Issues : ItemSettled(w, j) = ItemSettled(m, j)
    <3> HIDE DEF w
    <3>1. \A j \in Issues : \A n \in DOMAIN Ops(j) : RowOf(w, j, Ops(j)[n]) = RowOf(m, j, Ops(j)[n])
      BY <2>2, CloseAssumption DEF RowOf
    <3>2. \A j \in Issues : Unfinished(w, j) = Unfinished(m, j)
      BY <3>1 DEF Unfinished
    <3> QED BY <2>2, <3>2 DEF ItemSettled
  <2>4. ArchiveOf(w) = ArchiveOf(m)
    BY <2>2 DEF ArchiveOf
  <2>5. r = "complete" =>
          /\ o = "prepare" => run.closed
          /\ o = "final_report_post" => ReportDone(m)
          /\ o = "archive" => archive = ArchiveOf(m)
          /\ o = "fleet_unregister" => registry = "closed"
          /\ o = "dashboard_shutdown" => DashboardReleased
          /\ o = "config_restore" => (config.override => m.decided)
    <3>1. o # "closed"
      BY <2>1, NamesAre
    <3> QED BY <3>1 DEF Stands, Satisfied
  <2>6. ReportDone(m) => ReportDone(w)
    BY <2>3 DEF ReportDone
  <2> HIDE DEF w, m, o
  <2>7. (Final(w.steps["prepare"]) => run.closed)
    BY <1>1, <2>1, <2>2, <2>5, NamesAre DEF Faithful, o
  <2>8. w.steps["config_restore"] = "complete" /\ config.override => w.decided
    BY <1>1, <2>2, <2>5, NamesAre DEF Faithful
  <2>9. w.steps["final_report_post"] = "complete" => ReportDone(w)
    BY <1>1, <2>2, <2>5, <2>6, NamesAre DEF Faithful
  <2>10. w.steps["archive"] = "complete" => archive = ArchiveOf(w)
    BY <1>1, <2>2, <2>4, <2>5, NamesAre DEF Faithful
  <2>11. w.steps["fleet_unregister"] = "complete" => registry = "closed"
    BY <1>1, <2>2, <2>5, NamesAre DEF Faithful
  <2>12. w.steps["dashboard_shutdown"] = "complete" => DashboardReleased \/ "dashboard_shutdown" \in disturbed
    BY <1>1, <2>2, <2>5, NamesAre DEF Faithful
  <2> QED BY <1>1, <2>2, <2>7, <2>8, <2>9, <2>10, <2>11, <2>12 DEF Faithful, w
<1>3. CASE i # NoItem
  <2>1. /\ i \in Issues /\ o \in Range(ItemOps)
        /\ ~Final(m.steps["final_report_post"]) /\ ~Final(m.steps["archive"])
    BY <1>3, OpComes
  <2>2. /\ w.steps = m.steps /\ w.decided = m.decided
        /\ \A j \in Issues : \A x \in Range(ItemOps) :
             w.items[j].ops[x] = IF j = i /\ x = o THEN r ELSE m.items[j].ops[x]
    <3>1. w = WithRow(m, i, o, r)
      BY DEF WithOp
    <3> HIDE DEF m, w, o, i
    <3> QED BY <1>1, <2>1, <3>1, ItemRow
  <2>3. r = "complete" =>
          /\ o = "commented" => issue[i].reports # <<>>
          /\ o = "closed" => ~issue[i].open \/ "closed" \in disturbed
          /\ o = "ticked" => issue[i].parent \in {"none", "ticked"}
    BY DEF Stands, Satisfied
  <2>4. m.steps["final_report_post"] # "complete" /\ m.steps["archive"] # "complete"
    BY <2>1 DEF Final, TerminalStates
  <2> HIDE DEF w, m, o, i
  <2>5. \A j \in Issues :
          /\ w.items[j].ops["commented"] = "complete" => issue[j].reports # <<>>
          /\ w.items[j].ops["closed"] = "complete" => ~issue[j].open \/ "closed" \in disturbed
          /\ w.items[j].ops["ticked"] = "complete" => issue[j].parent \in {"none", "ticked"}
    BY <1>1, <2>1, <2>2, <2>3, NamesAre DEF Faithful
  <2> QED BY <1>1, <2>2, <2>4, <2>5 DEF Faithful, w
<1> QED BY <1>2, <1>3

LEMMA QuietSteady ==
  ASSUME Steady, OneCaller, NEW c \in Callers, Standing', OneReportEach', Alone(c)', UNCHANGED <<world, disturbed>>,
         NEW m, rec' = rec \/ (rec' = m /\ Faithful(m))
  PROVE  Steady'
<1>1. PICK x : x = rec'
  OBVIOUS
<1>2. rec' # NoRecord => Faithful(x)
  BY <1>1 DEF Steady
<1>3. rec' # NoRecord => Faithful(x)'
  BY <1>2 DEF Faithful, ReportDone, DashboardReleased, world
<1> QED BY <1>1, <1>3, SteadyAfter

LEMMA RowStepSteady ==
  ASSUME Steady, OneCaller, NEW c \in Callers, Standing', OneReportEach',
         NEW r \in {"skipped", "intent", "complete"}, NEW pc \in {"enter", "observe"},
         RowStep(c, r, pc), caller[c].pc # "idle", r = "skipped" => Op(c) = "final_report_post",
         r = "complete" => Stands(c), pc = "observe" <=> r = "intent", r = "intent" => At(c, "enter")
  PROVE  Steady'
<1> DEFINE i == caller[c].item
           m == caller[c].mem
           w == WithOp(c, r)
<1>1. AtAnOp(c) /\ Walks(c, pc, w) /\ Saves(c, w) /\ UNCHANGED <<world, disturbed>> /\ Standing
  BY DEF RowStep, Steady
<1>2. /\ caller'[c].pc = pc /\ caller'[c].mem = w /\ caller'[c].item = i /\ caller'[c].view = caller[c].view
      /\ caller'[c].token = caller[c].token
  BY <1>1 DEF Walks
<1>3. Stale(c)' = Stale(c)
  BY <1>1, <1>2 DEF Stale, world
<1>4. rec' = rec \/ (rec' = w /\ Faithful(w))
  BY <1>1, MemoryFaithful, FaithfulRow DEF Saves, Row, TerminalStates
<1>5. HoldsRecord(c)'
  BY <1>1, <1>2, <1>3 DEF HoldsRecord, Saves, Steady, Alone, world
<1>6. Commenting(c)' => r = "intent" /\ Commenting(c)
  <2>1. i # NoItem /\ Final(r) => Final(w.items[i].ops["commented"])
    BY <1>1, OrderKept DEF Row, TerminalStates
  <2>2. Commenting(c)' => i # NoItem /\ ~Final(w.items[i].ops["commented"])
    BY <1>2 DEF Commenting
  <2>3. i # NoItem /\ Op(c) # "commented" => Final(w.items[i].ops["commented"])
    <3> SUFFICES ASSUME i # NoItem, Op(c) # "commented" PROVE Final(w.items[i].ops["commented"])
      OBVIOUS
    <3> DEFINE o == Op(c)
    <3>1. i \in Issues /\ o \in Range(ItemOps) /\ Final(m.items[i].ops["commented"]) /\ m \in Record
      BY <1>1, OpComes, PlacedAt
    <3>2. w = WithRow(m, i, o, r) /\ "commented" \in Range(ItemOps) /\ r \in Row /\ o # "commented"
      BY NamesAre DEF WithOp, Row, TerminalStates
    <3> HIDE DEF w, m, i, o
    <3>3. \A j \in Issues : \A x \in Range(ItemOps) :
            w.items[j].ops[x] = IF j = i /\ x = o THEN r ELSE m.items[j].ops[x]
      BY <3>1, <3>2, ItemRow
    <3> QED BY <3>1, <3>2, <3>3
  <2>4. i # NoItem /\ Op(c) = "commented" => Commenting(c)
    BY <1>1, OpComes DEF Commenting
  <2> QED BY <2>1, <2>2, <2>3, <2>4 DEF Final, TerminalStates
<1>7. SeesRight(c)'
  <2>1. SeesRight(c)
    BY DEF Steady, Alone
  <2>2. Commenting(c)' => caller[c].pc = "enter"
    BY <1>6 DEF At
  <2> QED BY <1>1, <1>2, <1>6, <2>1, <2>2 DEF SeesRight, world
<1> HIDE DEF w
<1>8. PICK x : x = w
  OBVIOUS
<1> QED BY <1>1, <1>4, <1>5, <1>7, <1>8, QuietSteady DEF Alone

LEMMA RaisedSteady ==
  ASSUME Steady, OneCaller, NEW c \in Callers, Standing', OneReportEach', Raised(c), caller[c].pc # "idle"
  PROVE  Steady'
<1> DEFINE i == caller[c].item
           w == WithOp(c, "pending")
<1>1. /\ AtAnOp(c) /\ Saves(c, w) /\ UNCHANGED <<world, disturbed>> /\ Standing
      /\ IF i = NoItem THEN Ends(c) ELSE Leaves(c, w)
  BY DEF Raised, Steady
<1>2. rec' = rec \/ (rec' = w /\ Faithful(w))
  BY <1>1, MemoryFaithful, FaithfulRow DEF Saves, Row
<1> HIDE DEF w
<1>3. Alone(c)'
  <2>1. CASE Ends(c)
    BY <2>1 DEF Ends, Alone, HoldsRecord, SeesRight, Commenting, Idle
  <2>2. CASE Leaves(c, w)
    <3>1. /\ caller'[c].pc = "items" /\ caller'[c].mem = w /\ caller'[c].item = NoItem
          /\ caller'[c].token = caller[c].token
      BY <2>2 DEF Leaves
    <3>2. Stale(c)' = Stale(c)
      BY <1>1, <3>1 DEF Stale, world
    <3>3. HoldsRecord(c)'
      BY <1>1, <3>1, <3>2 DEF HoldsRecord, Saves, Steady, Alone, world
    <3> QED BY <3>1, <3>3 DEF Alone, SeesRight, Commenting
  <2> QED BY <1>1, <2>1, <2>2
<1>4. PICK x : x = w
  OBVIOUS
<1> QED BY <1>1, <1>2, <1>3, <1>4, QuietSteady

\* A row may be called complete by what is seen of it.
LEMMA SeenStands ==
  ASSUME Steady, NEW c \in Callers, AtAnOp(c)
  PROVE  Satisfied(c) \/ (At(c, "observe") /\ SatisfiedAtFirst(c)) => Stands(c)
<1> DEFINE k == caller[c]
<1>1. SUFFICES ASSUME At(c, "observe"), SatisfiedAtFirst(c), ~Satisfied(c) PROVE Stands(c)
  BY DEF Stands
<1>2. Op(c) \in {"commented", "closed"}
  BY <1>1 DEF SatisfiedAtFirst
<1>3. k.item # NoItem /\ Fine(c) /\ SeesRight(c)
  BY <1>2, OpComes, PlacedAt, NamesAre DEF Steady, Alone
<1>4. CASE Op(c) = "commented"
  <2>1. Satisfied(c)
    BY <1>1, <1>3, <1>4 DEF SatisfiedAtFirst, Satisfied, Fine, ViewStands
  <2> QED BY <1>1, <2>1
<1>5. CASE Op(c) = "closed"
  <2>1. ~k.view.open
    BY <1>1, <1>5 DEF SatisfiedAtFirst
  <2>2. ~issue[k.item].open \/ "closed" \in disturbed
    BY <1>3, <2>1 DEF SeesRight
  <2> QED BY <1>5, <2>2 DEF Stands, Satisfied
<1> QED BY <1>2, <1>4, <1>5

LEMMA TurnedSteady ==
  ASSUME Steady, OneCaller, NEW c \in Callers, Standing', OneReportEach', At(c, "observe"), Turned(c, "act"),
         ~SatisfiedAtFirst(c), UNCHANGED <<world, disturbed>>
  PROVE  Steady'
<1> DEFINE k == caller[c]
<1>1. /\ caller'[c].pc = "act" /\ caller'[c].mem = k.mem /\ caller'[c].item = k.item /\ caller'[c].view = k.view
      /\ caller'[c].token = k.token /\ rec' = rec /\ run' = run /\ issue' = issue /\ disturbed' = disturbed
      /\ k.pc = "observe" /\ AtAnOp(c)
  BY DEF Turned, Walks, world, At
<1>2. Stale(c)' = Stale(c) /\ Alone(c)
  BY <1>1 DEF Stale, Steady
<1>3. HoldsRecord(c)'
  BY <1>1, <1>2 DEF Alone, HoldsRecord
<1>4. Commenting(c) => issue[k.item].reports = <<>>
  <2> SUFFICES ASSUME Commenting(c) PROVE issue[k.item].reports = <<>>
    OBVIOUS
  <2>1. Op(c) = "commented"
    BY <1>1, OpComes DEF Commenting, Steady
  <2> QED BY <1>1, <1>2, <2>1 DEF SatisfiedAtFirst, Alone, SeesRight
<1>5. SeesRight(c)'
  BY <1>1, <1>2, <1>4 DEF SeesRight, Alone, Commenting
<1> QED BY <1>1, <1>3, <1>5, QuietSteady DEF Alone

\* No action of an operation opens an issue or unticks a box.
LEMMA EffectOpensNothing ==
  ASSUME Standing, NEW c \in Callers, AtAnOp(c), Effect(c)
  PROVE  \A j \in Issues :
           /\ issue'[j].open => issue[j].open
           /\ issue[j].parent \in {"none", "ticked"} => issue'[j].parent \in {"none", "ticked"}
<1>1. CASE issue' = issue
  BY <1>1
<1>2. CASE issue' # issue
  <2> DEFINE i == caller[c].item
             h == caller[c].head
  <2>1. (CommentOn(i, h) \/ CloseIssue(i, h) \/ TickParent(i)) /\ Op(c) \in Range(ItemOps)
    BY <1>2, NamesAre DEF Effect, CloseRun, MarkRegister, ReleaseDashboard
  <2>2. i \in Issues /\ h \in Heads /\ WorldTyped
    <3>1. i # NoItem
      BY <2>1, OpComes, NamesAre
    <3> QED BY <3>1, PlacedAt, TypesSplit DEF CallerState
  <2> HIDE DEF i, h
  <2> QED BY <2>1, <2>2, IssueChanges
<1> QED BY <1>1, <1>2

\* What a record calls complete the action of an operation leaves so.
LEMMA EffectFaithful ==
  ASSUME Standing, NEW c \in Callers, AtAnOp(c), Effect(c), UNCHANGED disturbed, NEW m, Faithful(m)
  PROVE  Faithful(m)'
<1>1. CASE CloseRun
  <2>1. run'.closed /\ UNCHANGED <<reported, listed, issue, registry, dash, config, archive>>
    BY <1>1, PlacedAt DEF CloseRun, TypeOK
  <2> QED BY <2>1 DEF Faithful, ReportDone, DashboardReleased
<1>2. CASE MarkRegister
  BY <1>2 DEF MarkRegister, Faithful, ReportDone, DashboardReleased
<1>3. CASE ReleaseDashboard
  <2>1. dash' = dash \/ dash' = "absent"
    BY <1>3 DEF ReleaseDashboard
  <2>2. UNCHANGED <<run, reported, listed, issue, registry, config, archive>>
    BY <1>3 DEF ReleaseDashboard
  <2> QED BY <2>1, <2>2 DEF Faithful, ReportDone, DashboardReleased
<1>4. CASE ~(CloseRun \/ MarkRegister \/ ReleaseDashboard)
  <2>1. UNCHANGED <<run, reported, registry, dash, config, archive>>
    BY <1>4 DEF Effect
  <2>2. ReportsStay
    BY EffectTyped
  <2> QED BY <2>1, <2>2, EffectOpensNothing DEF Faithful, ReportDone, DashboardReleased, ReportsStay
<1> QED BY <1>1, <1>2, <1>3, <1>4

LEMMA ActsFaithful ==
  ASSUME Steady, NEW c \in Callers, ActSteps(c)
  PROVE  /\ rec # NoRecord => \E m : m = rec /\ Faithful(m)'
         /\ \A j \in Issues : issue'[j].open => issue[j].open
         /\ RestoreConfig(c) => config'.value # "written"
         /\ run'.reopens = run.reopens
<1>1. PICK m : m = rec
  OBVIOUS
<1>2. Standing /\ disturbed' = disturbed /\ rec' = rec
  BY TurnSteps DEF Steady
<1>3. rec # NoRecord => Faithful(m)
  BY <1>1 DEF Steady
<1>4. caller[c].pc # "idle"
  BY DEF ActSteps, Act, ActLosesAnswer, ActFails, ReportRefused, RecordReport, OpenArchive, WriteArchive,
         WriteArchiveFails, ArchiveConflict, RestoreConfig, At
<1>5. rec # NoRecord => ~Stale(c) /\ m = caller[c].mem
  BY <1>1, <1>4 DEF Steady, Alone, HoldsRecord
<1>6. run'.reopens = run.reopens
  BY <1>2, PlacedAt
  DEF ActSteps, Act, ActLosesAnswer, ActFails, ReportRefused, RecordReport, OpenArchive, WriteArchive,
      WriteArchiveFails, ArchiveConflict, RestoreConfig, Effect, CloseRun, MarkRegister, ReleaseDashboard, world, TypeOK
<1>7. CASE Act(c) \/ ActLosesAnswer(c)
  <2>1. Effect(c) /\ AtAnOp(c) /\ ~RestoreConfig(c)
    <3>1. Op(c) \in SimpleOps /\ Effect(c) /\ At(c, "act")
      BY <1>7 DEF Act, ActLosesAnswer
    <3>2. Op(c) # "config_restore"
      BY <3>1, NamesAre DEF SimpleOps
    <3> QED BY <1>2, <3>1, <3>2, PlacedAt DEF At, RestoreConfig
  <2>2. \A j \in Issues : issue'[j].open => issue[j].open
    BY <1>2, <2>1, EffectOpensNothing
  <2> QED BY <1>1, <1>2, <1>3, <1>6, <2>1, <2>2, EffectFaithful
<1>8. CASE ActFails(c) \/ ArchiveConflict(c)
  <2>1. UNCHANGED world
    BY <1>8 DEF ActFails, ArchiveConflict
  <2>2. RestoreConfig(c) => config'.value # "written"
    BY PlacedAt, <1>2 DEF RestoreConfig, TypeOK
  <2> QED BY <1>1, <1>2, <1>3, <1>6, <2>1, <2>2 DEF Faithful, ReportDone, DashboardReleased, world
<1>9. CASE ReportRefused(c) \/ RecordReport(c)
  <2>1. UNCHANGED <<run, issue, registry, dash, config, archive>>
    BY <1>9 DEF ReportRefused, RecordReport
  <2>2. rec # NoRecord => m.steps["final_report_post"] # "complete"
    <3> SUFFICES ASSUME rec # NoRecord PROVE ~Final(caller[c].mem.steps["final_report_post"])
      BY <1>5 DEF Final, TerminalStates
    <3>1. CASE RecordReport(c)
      BY <1>2, <3>1, PlacedAt DEF RecordReport, At, Fine, Placed
    <3>2. CASE ReportRefused(c)
      <4>1. AtAnOp(c) /\ Op(c) = "final_report_post"
        BY <1>2, <3>2, PlacedAt DEF ReportRefused, At
      <4> QED BY <1>2, <4>1, OpComes
    <3> QED BY <1>9, <3>1, <3>2
  <2>3. RestoreConfig(c) => config'.value # "written"
    BY PlacedAt, <1>2 DEF RestoreConfig, TypeOK
  <2> QED BY <1>1, <1>2, <1>3, <1>6, <2>1, <2>2, <2>3 DEF Faithful, ReportDone, DashboardReleased
<1>10. CASE OpenArchive(c) \/ WriteArchive(c) \/ WriteArchiveFails(c)
  <2>1. UNCHANGED <<run, head, reported, listed, issue, registry, dash, config>>
    BY <1>10 DEF OpenArchive, WriteArchive, WriteArchiveFails
  <2>2. rec # NoRecord => m.steps["archive"] # "complete"
    <3>1. AtAnOp(c) /\ Op(c) = "archive"
      BY <1>2, <1>10, PlacedAt DEF OpenArchive, WriteArchive, WriteArchiveFails, At
    <3>2. ~Final(caller[c].mem.steps["archive"])
      BY <1>2, <3>1, OpComes
    <3> QED BY <1>5, <3>2 DEF Final, TerminalStates
  <2>3. RestoreConfig(c) => config'.value # "written"
    BY PlacedAt, <1>2 DEF RestoreConfig, TypeOK
  <2> QED BY <1>1, <1>2, <1>3, <1>6, <2>1, <2>2, <2>3 DEF Faithful, ReportDone, DashboardReleased
<1>11. CASE RestoreConfig(c)
  <2>1. UNCHANGED <<run, head, reported, listed, issue, registry, dash, archive>>
        /\ config'.value # "written" /\ config'.override = config.override
    BY <1>2, <1>11, PlacedAt DEF RestoreConfig, TypeOK
  <2> QED BY <1>1, <1>2, <1>3, <1>6, <2>1 DEF Faithful, ReportDone, DashboardReleased
<1> QED BY <1>7, <1>8, <1>9, <1>10, <1>11 DEF ActSteps

LEMMA ActsSteady ==
  ASSUME Steady, OneCaller, NEW c \in Callers, Standing', OneReportEach', ActSteps(c)
  PROVE  Steady'
<1> DEFINE k == caller[c]
<1>1. /\ caller'[c].mem = k.mem /\ caller'[c].item = k.item /\ caller'[c].view = k.view
      /\ caller'[c].token = k.token /\ rec' = rec /\ disturbed' = disturbed
      /\ caller'[c].pc \in {"acted", "readback", "writing"}
      /\ caller'[c].pc = "writing" => OpenArchive(c) \/ RestoreConfig(c)
  BY TurnSteps DEF Steady, Walks
<1>2. /\ rec # NoRecord => \E m : m = rec /\ Faithful(m)'
      /\ \A j \in Issues : issue'[j].open => issue[j].open
      /\ RestoreConfig(c) => config'.value # "written"
      /\ run'.reopens = run.reopens
  BY ActsFaithful
<1>3. Stale(c)' = Stale(c) /\ Alone(c) /\ k.item \in Issues \cup {NoItem}
  BY <1>1, <1>2, PlacedAt DEF Stale, Steady
<1>4. k.pc # "idle"
  BY DEF ActSteps, Act, ActLosesAnswer, ActFails, ReportRefused, RecordReport, OpenArchive, WriteArchive,
         WriteArchiveFails, ArchiveConflict, RestoreConfig, At
<1>5. HoldsRecord(c)'
  BY <1>1, <1>2, <1>3, <1>4 DEF Alone, HoldsRecord
<1>6. Op(c)' = Op(c)
  BY <1>1 DEF Op
<1>7. OpenArchive(c) => Op(c) = "archive"
  BY DEF OpenArchive
<1>8. SeesRight(c)'
  BY <1>1, <1>2, <1>3, <1>6, <1>7 DEF SeesRight, Alone
<1>9. PICK m : m = rec /\ (rec # NoRecord => Faithful(m)')
  BY <1>2
<1> QED BY <1>1, <1>5, <1>8, <1>9, SteadyAfter DEF Alone

LEMMA NotesSteady ==
  ASSUME Steady, OneCaller, NEW c \in Callers, Standing', OneReportEach', SaveActed(c) \/ SaveDecision(c)
  PROVE  Steady'
<1> DEFINE k == caller[c]
           m == k.mem
           i == k.item
           note == [m.items[i] EXCEPT !.acted = TRUE]
           marked == [m EXCEPT !.items = [m.items EXCEPT ![i] = note]]
           decided == [m EXCEPT !.decided = TRUE]
           w == IF SaveDecision(c) THEN decided ELSE IF Op(c) = "closed" THEN marked ELSE m
           pc == IF SaveDecision(c) THEN "acted" ELSE "readback"
<1>1. /\ Standing /\ m \in Record /\ k.pc \in {"acted", "writing"} /\ AtAnOp(c) /\ Alone(c)
      /\ caller \in [Callers -> CallerState]
  BY PlacedAt DEF SaveActed, SaveDecision, At, Steady
<1>2. Saves(c, w) /\ Goes(c, pc, w) /\ UNCHANGED <<world, troubles, disturbed>>
  BY DEF SaveActed, SaveDecision, At
<1>3. ASSUME SaveActed(c) /\ Op(c) = "closed" /\ ~SaveDecision(c)
      PROVE  w \in Record /\ (Faithful(m) /\ ~Stale(c) => Faithful(w))
  <2>1. i \in Issues /\ ~Final(m.steps["final_report_post"]) /\ ~Final(m.steps["archive"])
    BY <1>1, <1>3, OpComes, NamesAre
  <2>2. m.items \in [Issues -> Item] /\ m.items[i] \in Item
    BY <1>1, <2>1 DEF Record
  <2>3. note \in Item /\ note.ops = m.items[i].ops
    BY <2>2 DEF Item
  <2> HIDE DEF note
  <2>4. /\ marked \in Record /\ marked.steps = m.steps /\ marked.decided = m.decided
        /\ \A j \in Issues : marked.items[j] = IF j = i THEN note ELSE m.items[j]
    BY <1>1, <2>2, <2>3 DEF Record
  <2> HIDE DEF marked
  <2>5. \A j \in Issues : marked.items[j].ops = m.items[j].ops
    BY <2>3, <2>4
  <2>6. ASSUME Faithful(m) PROVE Faithful(marked)
    BY <2>1, <2>4, <2>5, <2>6 DEF Faithful, Final, TerminalStates
  <2>7. w = marked
    BY <1>3
  <2> HIDE DEF w
  <2> QED BY <2>4, <2>6, <2>7
<1>4. ASSUME SaveDecision(c)
      PROVE  w \in Record /\ (Faithful(m) /\ ~Stale(c) => Faithful(w))
  <2>1. decided \in Record /\ decided.steps = m.steps /\ decided.items = m.items /\ decided.decided
    BY <1>1 DEF Record
  <2>2. ~Stale(c) => config.value # "written"
    BY <1>1, <1>4 DEF Alone, SeesRight, SaveDecision, At
  <2> HIDE DEF decided
  <2>3. \A j \in Issues : ItemSettled(decided, j) = ItemSettled(m, j)
    <3>1. \A j \in Issues : Unfinished(decided, j) = Unfinished(m, j)
      BY <2>1, CloseAssumption DEF Unfinished, RowOf
    <3> QED BY <2>1, <3>1 DEF ItemSettled
  <2>4. ArchiveOf(decided) = ArchiveOf(m)
    BY <2>1 DEF ArchiveOf
  <2>5. ASSUME Faithful(m), ~Stale(c) PROVE Faithful(decided)
    BY <2>1, <2>2, <2>3, <2>4, <2>5 DEF Faithful, ReportDone
  <2>6. w = decided
    BY <1>4
  <2> HIDE DEF w
  <2> QED BY <2>1, <2>5, <2>6
<1>5. ASSUME SaveActed(c) /\ Op(c) # "closed" /\ ~SaveDecision(c)
      PROVE  w \in Record /\ (Faithful(m) /\ ~Stale(c) => Faithful(w))
  BY <1>1, <1>5
<1>6. w \in Record /\ (Faithful(m) /\ ~Stale(c) => Faithful(w))
  BY <1>3, <1>4, <1>5
<1> HIDE DEF w
<1>7. pc \in Pcs
  BY DEF Pcs
<1>8. /\ caller'[c].pc = pc /\ caller'[c].mem = w /\ caller'[c].item = i /\ caller'[c].view = k.view
      /\ caller'[c].token = k.token
  <2>1. Walks(c, pc, w)
    BY <1>1, <1>2, <1>6, <1>7, GoesWalks
  <2> QED BY <2>1 DEF Walks
<1>9. pc \in {"acted", "readback"}
  OBVIOUS
<1> HIDE DEF pc
<1>10. Stale(c)' = Stale(c)
  BY <1>2, <1>8 DEF Stale, world
<1>11. rec' = rec \/ (rec' = w /\ Faithful(w))
  BY <1>1, <1>2, <1>6, MemoryFaithful DEF Saves
<1>12. HoldsRecord(c)'
  BY <1>1, <1>2, <1>8, <1>10 DEF Alone, HoldsRecord, Saves, world
<1>13. SeesRight(c)'
  BY <1>1, <1>2, <1>8, <1>9 DEF Alone, SeesRight, world
<1>14. PICK x : x = w
  OBVIOUS
<1> QED BY <1>2, <1>11, <1>12, <1>13, <1>14, QuietSteady DEF Alone

LEMMA StartSteady ==
  ASSUME Steady, OneCaller, NEW c \in Callers, Standing', OneReportEach', NEW p \in BOOLEAN, Start(c, p)
  PROVE  Steady'
<1> DEFINE m == IF rec = NoRecord THEN NewRecord ELSE rec
           new == [Idle EXCEPT !.pc = "enter", !.token = run.reopens, !.mem = m, !.posts = p /\ run.delivered]
<1>1. /\ TypeOK /\ caller \in [Callers -> CallerState] /\ run.reopens \in Nat
  BY CloseAssumption DEF Steady, Standing, TypeOK, Tokens
<1>2. /\ rec' = m /\ caller' = [caller EXCEPT ![c] = IF m.state = "complete" THEN Idle ELSE new]
      /\ reported' = IF rec = NoRecord THEN "none" ELSE reported
      /\ UNCHANGED <<run, head, listed, issue, registry, dash, config, archive, troubles, disturbed>>
  BY DEF Start
<1>3. /\ new.mem = m /\ new.pc = "enter" /\ new.item = NoItem /\ new.view = Idle.view /\ new.token = run.reopens
      /\ Idle.item = NoItem /\ Idle.pc = "idle"
  BY DEF Idle
<1> HIDE DEF new
<1>4. caller'[c] = IF m.state = "complete" THEN Idle ELSE new
  BY <1>1, <1>2
<1>5. PICK x : x = m
  OBVIOUS
<1>6. Faithful(x)'
  <2>1. CASE rec = NoRecord
    <3>1. m = NewRecord
      BY <2>1
    <3> QED BY <1>5, <3>1, NamesAre DEF Faithful, NewRecord, Final, TerminalStates
  <2>2. CASE rec # NoRecord
    <3>1. m = rec /\ Faithful(x) /\ reported' = reported
      BY <1>2, <1>5, <2>2 DEF Steady
    <3> QED BY <1>2, <3>1 DEF Faithful, ReportDone, DashboardReleased
  <2> QED BY <2>1, <2>2
<1> HIDE DEF m
<1>7. Alone(c)'
  <2>1. caller'[c].item = NoItem /\ caller'[c].pc \in {"idle", "enter"}
    BY <1>3, <1>4
  <2>2. HoldsRecord(c)'
    BY <1>1, <1>2, <1>3, <1>4 DEF HoldsRecord, Stale
  <2> QED BY <2>1, <2>2 DEF Alone, SeesRight, Commenting
<1> QED BY <1>2, <1>5, <1>6, <1>7, SteadyAfter

LEMMA EndingsSteady ==
  ASSUME Steady, OneCaller, NEW c \in Callers, Standing', OneReportEach', Conflict(c) \/ Kill(c) \/ Finish(c)
  PROVE  Steady'
<1> DEFINE m == caller[c].mem
           done == [m EXCEPT !.state = "complete"]
<1>1. m \in Record /\ caller \in [Callers -> CallerState] /\ caller[c].pc # "idle"
  BY PlacedAt DEF Steady, Conflict, Kill, Finish, At
<1>2. Ends(c) /\ UNCHANGED <<world, disturbed>>
  BY <1>1, EndsAre DEF Conflict, Kill, Finish
<1>3. Alone(c)'
  BY <1>2 DEF Ends, Alone, HoldsRecord, SeesRight, Commenting, Idle
<1>4. done.steps = m.steps /\ done.items = m.items /\ done.decided = m.decided
  BY <1>1 DEF Record
<1>5. rec' = rec \/ (rec' = done /\ ~Stale(c))
  BY DEF Conflict, Kill, Finish, Saves
<1> HIDE DEF done
<1>6. ASSUME Faithful(m) PROVE Faithful(done)
  <2>1. \A j \in Issues : ItemSettled(done, j) = ItemSettled(m, j)
    <3>1. \A j \in Issues : Unfinished(done, j) = Unfinished(m, j)
      BY <1>4, CloseAssumption DEF Unfinished, RowOf
    <3> QED BY <1>4, <3>1 DEF ItemSettled
  <2>2. ArchiveOf(done) = ArchiveOf(m)
    BY <1>4 DEF ArchiveOf
  <2> QED BY <1>4, <1>6, <2>1, <2>2 DEF Faithful, ReportDone
<1>7. PICK x : x = done
  OBVIOUS
<1>8. rec' = rec \/ (rec' = x /\ Faithful(x))
  BY <1>1, <1>5, <1>6, <1>7, MemoryFaithful
<1> QED BY <1>2, <1>3, <1>8, QuietSteady

LEMMA TodoSteady ==
  ASSUME Steady, OneCaller, NEW c \in Callers, Standing', OneReportEach',
         \/ ItemDone(c) \/ PrepareReport(c) \/ \E i \in Issues : ReadIssueFails(c, i)
  PROVE  Steady'
<1>1. caller \in [Callers -> CallerState] /\ caller[c] \in CallerState /\ Alone(c) /\ Standing
  BY PlacedAt DEF Steady
<1>2. UNCHANGED <<world, rec, disturbed>>
  BY DEF ItemDone, PrepareReport, ReadIssueFails
<1>3. /\ caller'[c].pc = "items" /\ caller'[c].mem = caller[c].mem /\ caller'[c].item = NoItem
      /\ caller'[c].token = caller[c].token /\ caller[c].pc # "idle"
  <2>1. CASE ItemDone(c)
    BY <1>1, <2>1, ItemDoneLeaves DEF Leaves, ItemDone, At
  <2>2. CASE PrepareReport(c)
    <3>1. caller[c].item = NoItem
      <4>1. AtAnOp(c) /\ Op(c) = "final_report_post"
        BY <1>1, <2>2, PlacedAt DEF PrepareReport, At
      <4> QED BY <1>1, <4>1, OpComes, NamesAre
    <3>2. caller' = [caller EXCEPT ![c] = [caller[c] EXCEPT !.pc = "items", !.todo = Issues, !.head = head]]
      BY <2>2 DEF PrepareReport
    <3> QED BY <1>1, <2>2, <3>1, <3>2 DEF PrepareReport, At, CallerState
  <2>3. CASE \E i \in Issues : ReadIssueFails(c, i)
    <3>1. PICK i \in Issues : ReadIssueFails(c, i)
      BY <2>3
    <3>2. caller[c].pc = "items" /\ caller[c].item = NoItem
      BY <1>1, <3>1, PlacedAt DEF ReadIssueFails, At, Fine, Placed
    <3>3. caller' = [caller EXCEPT ![c] = [caller[c] EXCEPT !.todo = caller[c].todo \ {i}]]
      BY <3>1 DEF ReadIssueFails
    <3> QED BY <1>1, <3>2, <3>3 DEF CallerState
  <2> QED BY <2>1, <2>2, <2>3
<1>4. Stale(c)' = Stale(c)
  BY <1>2, <1>3 DEF Stale, world
<1>5. HoldsRecord(c)'
  BY <1>1, <1>2, <1>3, <1>4 DEF Alone, HoldsRecord, world
<1>6. SeesRight(c)'
  BY <1>3 DEF SeesRight, Commenting
<1> QED BY <1>2, <1>5, <1>6, QuietSteady DEF Alone

LEMMA ReadIssueSteady ==
  ASSUME Steady, OneCaller, NEW c \in Callers, Standing', OneReportEach', NEW i \in Issues, ReadIssue(c, i)
  PROVE  Steady'
<1> DEFINE k == caller[c]
           mine == issue[i].open \/ Ours(k, i) \/ issue[i].by = "pull_request"
           item == [k.mem.items[i] EXCEPT !.unpostable = ~mine]
           m == [k.mem EXCEPT !.items = [k.mem.items EXCEPT ![i] = item]]
           view == [open |-> issue[i].open, report |-> issue[i].reports # <<>>, by |-> issue[i].by]
           taken == [k EXCEPT !.pc = "enter", !.item = i, !.todo = k.todo \ {i}, !.mem = m, !.view = view]
           left == [k EXCEPT !.todo = k.todo \ {i}, !.mem = m]
           new == IF mine THEN taken ELSE left
<1>1. /\ Standing /\ Fine(c) /\ Alone(c) /\ caller \in [Callers -> CallerState] /\ k \in CallerState
      /\ k.mem \in Record /\ k.pc = "items" /\ k.item = NoItem /\ i # NoItem
  BY PlacedAt, CloseAssumption DEF ReadIssue, At, Fine, Placed, Steady
<1>2. /\ UNCHANGED <<world, troubles, disturbed>> /\ Saves(c, m) /\ caller' = [caller EXCEPT ![c] = new]
  BY DEF ReadIssue
<1>3. view.report = (issue[i].reports # <<>>) /\ view.open = issue[i].open
  OBVIOUS
<1>4. m.steps = k.mem.steps /\ m.decided = k.mem.decided /\ \A j \in Issues : m.items[j].ops = k.mem.items[j].ops
  <2>1. k.mem.items \in [Issues -> Item] /\ k.mem.items[i] \in Item
    BY <1>1 DEF Record
  <2>2. item.ops = k.mem.items[i].ops
    BY <2>1 DEF Item
  <2>3. m.items = [k.mem.items EXCEPT ![i] = item] /\ m.steps = k.mem.steps /\ m.decided = k.mem.decided
    BY <1>1 DEF Record
  <2> HIDE DEF m, item
  <2> QED BY <2>1, <2>2, <2>3
<1> HIDE DEF mine, view, m
<1>5. /\ taken.pc = "enter" /\ taken.item = i /\ taken.mem = m /\ taken.view = view /\ taken.token = k.token
      /\ left.pc = "items" /\ left.item = NoItem /\ left.mem = m /\ left.token = k.token
  BY <1>1 DEF CallerState
<1> HIDE DEF taken, left
<1>6. /\ caller'[c].mem = m /\ caller'[c].token = k.token
      /\ \/ caller'[c].pc = "enter" /\ caller'[c].item = i /\ caller'[c].view = view
         \/ caller'[c].pc = "items" /\ caller'[c].item = NoItem
  BY <1>1, <1>2, <1>5
<1>7. Stale(c)' = Stale(c)
  BY <1>2, <1>6 DEF Stale, world
<1>8. ASSUME Faithful(k.mem) PROVE Faithful(m)
  <2>1. m.steps["final_report_post"] # "complete" /\ m.steps["archive"] # "complete"
    BY <1>1, <1>4 DEF Fine, Placed, Ordered, Final, TerminalStates
  <2> QED BY <1>4, <1>8, <2>1 DEF Faithful
<1>9. HoldsRecord(c)'
  BY <1>1, <1>2, <1>6, <1>7 DEF Alone, HoldsRecord, Saves, world
<1>10. SeesRight(c)'
  BY <1>1, <1>2, <1>3, <1>6 DEF SeesRight, Commenting, world
<1>11. PICK x : x = m
  OBVIOUS
<1>12. rec' = rec \/ (rec' = x /\ Faithful(x))
  BY <1>1, <1>2, <1>8, <1>11, MemoryFaithful DEF Saves
<1> QED BY <1>2, <1>9, <1>10, <1>12, QuietSteady DEF Alone

\* A configuration is taken back, and a decision noted, only once the run is
\* closed, which no override survives.
LEMMA ClosedFirst ==
  ASSUME Steady, ~run.closed
  PROVE  /\ rec # NoRecord => ~rec.decided /\ rec.steps["config_restore"] # "complete"
         /\ \A c \in Callers : caller[c].pc = "writing" /\ ~Stale(c) => Op(c) # "config_restore"
<1>1. rec # NoRecord => ~Final(rec.steps["prepare"]) /\ ~rec.decided /\ \A s \in Steps : ~Final(rec.steps[s])
  BY DEF Steady, Standing, Faithful, Ordered
<1>2. rec # NoRecord => rec.steps["config_restore"] # "complete"
  BY <1>1, NamesAre DEF Final, TerminalStates
<1>3. ASSUME NEW c \in Callers, caller[c].pc = "writing", ~Stale(c) PROVE Op(c) # "config_restore"
  <2>1. AtAnOp(c) /\ rec = caller[c].mem /\ rec # NoRecord
    BY <1>3, PlacedAt, MemoryFaithful DEF Steady
  <2>2. Op(c) = "config_restore" => Final(caller[c].mem.steps["prepare"])
    BY <2>1, OpComes, NamesAre DEF Steady
  <2> QED BY <1>1, <2>1, <2>2
<1> QED BY <1>1, <1>2, <1>3

LEMMA OthersFaithful ==
  ASSUME Steady, SomebodyElse, NEW m, rec # NoRecord => m = rec
  PROVE  /\ rec' # NoRecord => rec' = m /\ Faithful(m)'
         /\ Reopen \/ (UNCHANGED <<rec>> /\ run'.reopens = run.reopens)
         /\ \A i \in Issues : issue'[i].open => issue[i].open \/ "closed" \in disturbed'
         /\ disturbed \subseteq disturbed'
         /\ config'.value # "written" \/ config' = config \/ ~run.closed
<1>1. TypeOK /\ (rec # NoRecord => Faithful(m)) /\ \A i \in Issues : issue'[i].reports = issue[i].reports
  BY OthersAre DEF Steady, Standing
<1>2. CASE Reopen
  BY <1>2 DEF Reopen
<1>3. CASE Deliver
  <2>1. UNCHANGED <<reported, listed, issue, registry, dash, config, archive, rec, disturbed>>
        /\ run'.closed = run.closed /\ run'.reopens = run.reopens
    BY <1>1, <1>3 DEF Deliver, TypeOK
  <2> QED BY <1>1, <2>1 DEF Faithful, ReportDone, DashboardReleased
<1>4. CASE Override
  <2>1. UNCHANGED <<run, reported, listed, issue, registry, dash, archive, rec, disturbed>> /\ ~run.closed
    BY <1>4 DEF Override
  <2>2. rec # NoRecord => ~rec.decided /\ rec.steps["config_restore"] # "complete"
    BY <2>1, ClosedFirst
  <2> QED BY <1>1, <2>1, <2>2 DEF Faithful, ReportDone, DashboardReleased
<1>5. CASE EditConfig
  <2>1. UNCHANGED <<run, reported, listed, issue, registry, dash, archive, rec>> /\ disturbed \subseteq disturbed'
        /\ config'.value = "edited" /\ config'.override = config.override
    BY <1>1, <1>5 DEF EditConfig, Elsewhere, TypeOK
  <2> QED BY <1>1, <2>1 DEF Faithful, ReportDone, DashboardReleased
<1>6. CASE DashboardTurns
  <2>1. UNCHANGED <<run, reported, listed, issue, registry, config, archive, rec>> /\ disturbed \subseteq disturbed'
        /\ "dashboard_shutdown" \in disturbed'
    BY <1>6 DEF DashboardTurns, Elsewhere
  <2> QED BY <1>1, <2>1 DEF Faithful, ReportDone
<1>7. CASE OtherEvent
  <2>1. UNCHANGED <<run, reported, listed, issue, registry, dash, config, archive, rec>> /\ disturbed \subseteq disturbed'
    BY <1>7 DEF OtherEvent, Elsewhere
  <2> QED BY <1>1, <2>1 DEF Faithful, ReportDone, DashboardReleased
<1>8. CASE \E i \in Issues : PersonTurnsIssue(i) \/ PullRequestCloses(i)
  <2>1. PICK i \in Issues : PersonTurnsIssue(i) \/ PullRequestCloses(i)
    BY <1>8
  <2>2. UNCHANGED <<run, reported, listed, registry, dash, config, archive, rec>> /\ disturbed \subseteq disturbed'
    BY <2>1 DEF PersonTurnsIssue, PullRequestCloses, Elsewhere
  <2>3. \A j \in Issues :
          /\ issue'[j].parent = issue[j].parent
          /\ issue'[j].open => issue[j].open \/ "closed" \in disturbed'
    <3>1. CASE PersonTurnsIssue(i)
      <4>1. "closed" \in disturbed'
        BY <3>1 DEF PersonTurnsIssue, Elsewhere
      <4>2. issue' = [issue EXCEPT ![i] = [issue[i] EXCEPT !.open = ~issue[i].open,
                                             !.by = IF issue[i].open THEN "person" ELSE "nobody"]]
        BY <1>1, <3>1 DEF PersonTurnsIssue, TypeOK
      <4> QED BY <1>1, <4>1, <4>2 DEF TypeOK
    <3>2. CASE PullRequestCloses(i)
      <4>1. issue' = [issue EXCEPT ![i] = [issue[i] EXCEPT !.open = FALSE, !.by = "pull_request"]]
        BY <1>1, <3>2 DEF PullRequestCloses, TypeOK
      <4> QED BY <1>1, <4>1 DEF TypeOK
    <3> QED BY <2>1, <3>1, <3>2
  <2> QED BY <1>1, <2>2, <2>3 DEF Faithful, ReportDone, DashboardReleased
<1> QED BY <1>2, <1>3, <1>4, <1>5, <1>6, <1>7, <1>8 DEF SomebodyElse

LEMMA OthersLeaveSteady ==
  ASSUME Steady, OneCaller, NEW c \in Callers, Standing', OneReportEach', SomebodyElse
  PROVE  Steady'
<1>1. PICK m : m = rec
  OBVIOUS
<1>2. /\ rec' # NoRecord => rec' = m /\ Faithful(m)'
      /\ Reopen \/ (UNCHANGED <<rec>> /\ run'.reopens = run.reopens)
      /\ \A i \in Issues : issue'[i].open => issue[i].open \/ "closed" \in disturbed'
      /\ disturbed \subseteq disturbed'
      /\ config'.value # "written" \/ config' = config \/ ~run.closed
  BY <1>1, OthersFaithful
<1>3. /\ caller' = caller /\ TypeOK /\ caller[c].item \in Issues \cup {NoItem} /\ caller[c].token \in Tokens
      /\ \A i \in Issues : issue'[i].reports = issue[i].reports
  BY OthersAre, PlacedAt DEF Steady, CallerState
<1>4. CASE Reopen
  <2>1. rec' = NoRecord /\ run'.reopens = run.reopens + 1 /\ issue' = issue /\ disturbed' = disturbed
    BY <1>3, <1>4 DEF Reopen, TypeOK
  <2>2. run.reopens \in Nat /\ caller[c].token \in Nat /\ (caller[c].pc # "idle" => caller[c].token <= run.reopens)
    BY <1>3, CloseAssumption DEF TypeOK, Tokens, Steady, Alone, HoldsRecord
  <2>3. caller[c].pc # "idle" => caller[c].token <= run'.reopens /\ Stale(c)'
    BY <1>3, <2>1, <2>2 DEF Stale
  <2>4. HoldsRecord(c)'
    BY <1>3, <2>1, <2>3 DEF HoldsRecord
  <2>5. SeesRight(c)'
    BY <1>3, <2>1, <2>3 DEF SeesRight, Commenting, Steady, Alone
  <2> QED BY <1>2, <2>4, <2>5, SteadyAfter DEF Alone
<1>5. CASE ~Reopen
  <2>1. rec' = rec /\ run'.reopens = run.reopens /\ Stale(c)' = Stale(c) /\ Op(c)' = Op(c)
    BY <1>2, <1>3, <1>5 DEF Stale, Op
  <2>2. HoldsRecord(c)'
    BY <1>3, <2>1 DEF HoldsRecord, Steady, Alone
  <2>3. caller[c].pc = "writing" /\ ~Stale(c) /\ Op(c) = "config_restore" => config'.value # "written"
    BY <1>2, ClosedFirst DEF Steady, Alone, SeesRight
  <2>4. SeesRight(c)'
    BY <1>2, <1>3, <2>1, <2>3 DEF SeesRight, Commenting, Steady, Alone
  <2> QED BY <1>2, <2>2, <2>4, SteadyAfter DEF Alone
<1> QED BY <1>4, <1>5

LEMMA CallSteady ==
  ASSUME Steady, OneCaller, NEW c \in Callers, Standing', OneReportEach', Continue(c) \/ Disturb(c)
  PROVE  Steady'
<1>1. Standing
  BY DEF Steady
<1>2. CASE Enter(c)
  <2>1. At(c, "enter")
    BY <1>2 DEF Enter
  <2> QED BY <1>1, <1>2, <2>1, RowSteps, RowStepSteady DEF At
<1>3. CASE Observe(c)
  <2>1. At(c, "observe") /\ UNCHANGED <<world, disturbed>> /\ AtAnOp(c)
    BY <1>1, <1>3, PlacedAt DEF Observe, At
  <2>2. SatisfiedAtFirst(c) => Stands(c)
    BY <2>1, SeenStands
  <2> QED BY <1>1, <1>3, <2>1, <2>2, RowSteps, RowStepSteady, TurnedSteady DEF At
<1>4. CASE ReadBack(c)
  <2>1. At(c, "readback") /\ AtAnOp(c)
    BY <1>1, <1>4, PlacedAt DEF ReadBack, At
  <2>2. Satisfied(c) => Stands(c)
    BY DEF Stands
  <2> QED BY <1>1, <1>4, <2>1, <2>2, RowSteps, RowStepSteady, RaisedSteady DEF At
<1>5. CASE ObserveFails(c) \/ ReadBackFails(c)
  <2>1. caller[c].pc # "idle"
    BY <1>5 DEF ObserveFails, ReadBackFails, At
  <2> QED BY <1>1, <1>5, <2>1, RowSteps, RaisedSteady
<1>6. CASE ActSteps(c)
  BY <1>6, ActsSteady
<1>7. CASE SaveActed(c) \/ SaveDecision(c)
  BY <1>7, NotesSteady
<1>8. CASE Conflict(c) \/ Kill(c) \/ Finish(c)
  BY <1>8, EndingsSteady
<1>9. CASE ItemDone(c) \/ PrepareReport(c) \/ \E i \in Issues : ReadIssueFails(c, i)
  BY <1>9, TodoSteady
<1>10. CASE \E i \in Issues : ReadIssue(c, i)
  BY <1>10, ReadIssueSteady
<1> QED BY <1>2, <1>3, <1>4, <1>5, <1>6, <1>7, <1>8, <1>9, <1>10 DEF Continue, Disturb, ActSteps

LEMMA StillSteady ==
  ASSUME Steady, OneCaller, [Next]_vars
  PROVE  Steady'
<1>1. Standing' /\ OneReportEach'
  BY StillStanding, OneReportStep DEF Steady
<1>2. CASE \E c \in Callers, p \in BOOLEAN : Start(c, p)
  BY <1>1, <1>2, StartSteady
<1>3. CASE \E c \in Callers : Continue(c) \/ Disturb(c)
  BY <1>1, <1>3, CallSteady
<1>4. CASE SomebodyElse
  <2>1. CASE Callers = {}
    <3>1. PICK m : m = rec
      OBVIOUS
    <3>2. rec' # NoRecord => rec' = m /\ Faithful(m)'
      BY <1>4, <3>1, OthersFaithful
    <3>3. (rec # NoRecord => Faithful(rec))'
      BY <3>2 DEF Faithful, ReportDone, DashboardReleased
    <3> QED BY <1>1, <2>1, <3>3 DEF Steady
  <2>2. CASE Callers # {}
    BY <1>1, <1>4, <2>2, OthersLeaveSteady
  <2> QED BY <2>1, <2>2
<1>5. CASE UNCHANGED vars
  <2>1. (rec # NoRecord => Faithful(rec))'
    BY <1>5 DEF Steady, Faithful, ReportDone, DashboardReleased, vars
  <2>2. ASSUME NEW c \in Callers PROVE Alone(c)'
    BY <1>5 DEF Steady, Alone, HoldsRecord, SeesRight, Stale, Commenting, Op, vars
  <2> QED BY <1>1, <2>1, <2>2 DEF Steady
<1> QED BY <1>2, <1>3, <1>4, <1>5 DEF Next, SomebodyElse

LEMMA BeginningSteady == Init => Steady
<1> SUFFICES ASSUME Init PROVE Steady
  OBVIOUS
<1>1. Standing
  BY Beginning
<1>2. \A i \in Issues : issue[i].reports = <<>>
  BY DEF Init
<1>3. OneReportEach
  BY <1>2 DEF OneReportEach
<1>4. ASSUME NEW c \in Callers PROVE Alone(c)
  BY DEF Init, Idle, Alone, HoldsRecord, SeesRight, Commenting
<1> QED BY <1>1, <1>3, <1>4 DEF Init, Steady

LEMMA AlwaysSteady == OneCaller => (Spec => []Steady)
<1> SUFFICES ASSUME OneCaller PROVE Spec => []Steady
  OBVIOUS
<1>1. Init => Steady
  BY BeginningSteady
<1>2. Steady /\ [Next]_vars => Steady'
  BY StillSteady
<1> QED BY <1>1, <1>2, PTL DEF Spec

\* When a run is closed by one call at a time, whatever the calls are cut short
\* in and taken up again, and whatever answers are lost: no issue carries two
\* reports.
THEOREM OneReportIsPosted == OneCaller => (Spec => []OneReportEach)
<1>1. Steady => OneReportEach
  BY DEF Steady
<1> QED BY <1>1, AlwaysSteady, PTL

\* When a run is closed by one call at a time, what its record calls complete is
\* so, unless somebody else undid it: the record outlives kills, and a call that
\* a reopening has overtaken writes no record of the new close.
THEOREM RecordIsTrue == OneCaller => (Spec => []CompleteIsSo)
<1>1. ASSUME Steady, rec # NoRecord PROVE CompleteIsSo
  <2>1. Faithful(rec) /\ Ordered(rec)
    BY <1>1 DEF Steady, Standing
  <2>2. rec.steps["prepare"] = "complete" => run.closed
    BY <2>1 DEF Faithful, Final, TerminalStates
  <2> QED BY <2>1, <2>2 DEF CompleteIsSo, Faithful
<1>2. Steady => CompleteIsSo
  BY <1>1 DEF CompleteIsSo
<1> QED BY <1>2, AlwaysSteady, PTL

-----------------------------------------------------------------------------
(* Mutation proofs: while nobody edited the source it is the one the proof   *)
(* began with and every run copied it; after one edit it is another.         *)

ProofAssumption ==
  /\ Confirmations \in Nat \ {0} /\ MaxVersion \in Nat \ {0} /\ MaxSpecs \in Nat \ {0}
  /\ MaxProofs \in Nat

Proofs == [at : {"clean", "probe", "mutated", "verdict", "record"},
           clean : Seq(Proof!Run), mutated : Seq(Proof!Run), source : Proof!Versions,
           spec : 1 .. MaxSpecs, broken : BOOLEAN, late : BOOLEAN, edits : 0 .. 2]

CopiedOf(runs, source) == \A i \in 1 .. Len(runs) : runs[i].source = source

\* What a proof under way has done when the source on disk is of version now.
ProofStands(p, now) ==
  /\ p \in Proofs
  /\ Len(p.clean) <= Confirmations /\ (p.at = "clean" => Len(p.clean) < Confirmations)
  /\ Len(p.mutated) <= Confirmations /\ (p.at = "mutated" => Len(p.mutated) < Confirmations)
  /\ p.mutated # <<>> => p.at \in {"mutated", "verdict", "record"}
  /\ p.edits = 0 => /\ now = p.source
                    /\ CopiedOf(p.clean, p.source) /\ CopiedOf(p.mutated, p.source)
  /\ p.edits = 1 => now # p.source
  /\ p.at = "record" =>
       /\ Proof!Exited(p.clean, {"pass"})
       /\ p.mutated # <<>> /\ Proof!Exited(p.mutated, {"fail"})

ProofRecordFits(r) ==
  /\ r.source \in Proof!Versions /\ r.spec \in 1 .. MaxSpecs
  /\ r.edits < 2 => \A i \in DOMAIN r.runs : r.runs[i].source = r.source
  /\ r.noticed >= 1
  /\ \A i \in DOMAIN r.runs :
        r.runs[i].exit = IF i > Len(r.runs) - r.noticed THEN "fail" ELSE "pass"

ProofInv ==
  /\ v1 \in Proof!Versions /\ v2 \in Proof!Versions /\ v3 \in 1 .. MaxSpecs
  /\ v4 = Proof!None \/ ProofStands(v4, v1)
  /\ v5 \in 0 .. MaxProofs
  /\ \A r \in v6 : ProofRecordFits(r)

LEMMA ProofStarts == ASSUME ProofAssumption, Proof!Init PROVE ProofInv
BY DEF ProofAssumption, Proof!Init, ProofInv, Proof!Versions

\* An edit takes the source away from the proof, a second one may bring it back.
LEMMA ProofAges ==
  ASSUME NEW p, NEW now, NEW later, ProofStands(p, now), later # now
  PROVE  ProofStands(IF p.edits = 2 THEN p ELSE [p EXCEPT !.edits = @ + 1], later)
<1> DEFINE q == [p EXCEPT !.edits = @ + 1]
<1>1. p \in Proofs
  BY DEF ProofStands
<1>2. CASE p.edits = 2
  BY <1>2 DEF ProofStands
<1>3. CASE p.edits # 2
  <2>1. p.edits \in {0, 1} /\ p.edits + 1 \in 0 .. 2
    BY <1>1, <1>3 DEF Proofs
  <2>2. /\ q \in Proofs /\ q.edits = p.edits + 1 /\ q.source = p.source /\ q.at = p.at
        /\ q.clean = p.clean /\ q.mutated = p.mutated
    BY <1>1, <2>1 DEF Proofs
  <2> HIDE DEF q
  <2>3. (q.edits = 1 => later # q.source) /\ q.edits # 0
    BY <2>1, <2>2 DEF ProofStands
  <2>4. ProofStands(q, later)
    BY <2>2, <2>3 DEF ProofStands
  <2> QED BY <1>3, <2>4 DEF q
<1> QED BY <1>2, <1>3

LEMMA CopyIs ==
  ASSUME ProofInv, NEW neutralised \in BOOLEAN, NEW made \in Proof!Copy(neutralised)
  PROVE  made \in Proof!Run /\ made.source = v1
BY DEF ProofInv, Proof!Copy, Proof!Exit, Proof!Exits, Proof!Run, Proof!Versions

\* One more run, made of the source on disk.
LEMMA RunsGrow ==
  ASSUME NEW runs \in Seq(Proof!Run), NEW made \in Proof!Run
  PROVE  /\ Append(runs, made) \in Seq(Proof!Run) /\ Append(runs, made) # <<>>
         /\ Len(Append(runs, made)) = Len(runs) + 1
         /\ CopiedOf(runs, made.source) => CopiedOf(Append(runs, made), made.source)
BY DEF CopiedOf

LEMMA ProofBegins == ASSUME ProofAssumption, ProofInv, Proof!Begin PROVE ProofInv'
<1> DEFINE p == [at |-> "clean", clean |-> <<>>, mutated |-> <<>>, source |-> v1,
                 spec |-> v3, broken |-> FALSE, late |-> FALSE, edits |-> 0]
<1>1. v4' = p /\ UNCHANGED <<v1, v2, v3, v6>> /\ v5' \in 0 .. MaxProofs
  BY DEF Proof!Begin, ProofInv, ProofAssumption
<1>2. ProofStands(p, v1)
  BY DEF ProofStands, Proofs, ProofInv, ProofAssumption, CopiedOf, Proof!Versions
<1> QED BY <1>1, <1>2 DEF ProofInv

LEMMA ProofRuns ==
  ASSUME ProofAssumption, ProofInv, Proof!CleanRun \/ Proof!MutatedRun \/ Proof!ImportProbe
  PROVE  ProofInv'
<1>1. UNCHANGED <<v1, v2, v3, v5, v6>>
  BY DEF Proof!CleanRun, Proof!MutatedRun, Proof!ImportProbe
<1>2. v4.at \in {"clean", "mutated", "probe"}
  BY DEF Proof!CleanRun, Proof!MutatedRun, Proof!ImportProbe
<1>3. ProofStands(v4, v1) /\ v4 \in Proofs
  BY <1>2 DEF ProofInv, Proof!None, ProofStands
<1>4. CASE Proof!CleanRun
  <2>1. PICK made \in Proof!Copy(FALSE), late \in Proof!Late :
          LET runs == Append(v4.clean, made)
          IN  v4' = [v4 EXCEPT !.clean = runs, !.late = late,
                        !.at = IF Len(runs) = Confirmations \/ runs[1].exit # made.exit \/ late
                               THEN "probe" ELSE "clean"]
    BY <1>4 DEF Proof!CleanRun
  <2> DEFINE runs == Append(v4.clean, made)
             at == IF Len(runs) = Confirmations \/ runs[1].exit # made.exit \/ late
                   THEN "probe" ELSE "clean"
  <2>2. v4' = [v4 EXCEPT !.clean = runs, !.late = late, !.at = at]
    BY <2>1
  <2>3. late \in BOOLEAN
    BY <1>3 DEF Proof!Late, Proofs
  <2>4. made \in Proof!Run /\ made.source = v1
    BY CopyIs
  <2>5. /\ runs \in Seq(Proof!Run) /\ Len(runs) = Len(v4.clean) + 1
        /\ v4.edits = 0 => v1 = v4.source /\ CopiedOf(runs, v4.source)
    BY <1>3, <2>4, RunsGrow DEF ProofStands, Proofs
  <2>6. at \in {"probe", "clean"} /\ (at = "clean" => Len(runs) # Confirmations)
    OBVIOUS
  <2>a. v4.at = "clean"
    BY <1>4 DEF Proof!CleanRun
  <2>7. v4.at = "clean" /\ v4.mutated = <<>> /\ Len(v4.clean) \in Nat
    BY <1>3, <2>a DEF ProofStands, Proofs
  <2> HIDE DEF runs, at
  <2>8. /\ v4' \in Proofs /\ v4'.clean = runs /\ v4'.at = at /\ v4'.source = v4.source /\ v4'.mutated = <<>>
        /\ v4'.edits = v4.edits
    BY <1>3, <2>2, <2>3, <2>5, <2>6, <2>7 DEF Proofs
  <2>9. ProofStands(v4', v1)
    BY <1>3, <2>5, <2>6, <2>7, <2>8 DEF ProofStands, ProofAssumption
  <2> QED BY <1>1, <2>9 DEF ProofInv
<1>5. CASE Proof!ImportProbe
  <2>1. PICK slow \in SUBSET {"before", "after"} :
          v4' = [v4 EXCEPT
                    !.broken = "before" \notin slow /\ (v1 \in Loading \/ "after" \in slow),
                    !.at = IF Proof!MayMutate THEN "mutated" ELSE "verdict"]
    BY <1>5 DEF Proof!ImportProbe
  <2> DEFINE broken == "before" \notin slow /\ (v1 \in Loading \/ "after" \in slow)
             at == IF Proof!MayMutate THEN "mutated" ELSE "verdict"
  <2>2. v4' = [v4 EXCEPT !.broken = broken, !.at = at]
    BY <2>1
  <2>3. broken \in BOOLEAN /\ at \in {"mutated", "verdict"}
    OBVIOUS
  <2>4. v4.at = "probe" /\ v4.mutated = <<>>
    BY <1>3, <1>5 DEF Proof!ImportProbe, ProofStands
  <2> HIDE DEF broken, at
  <2>5. /\ v4' \in Proofs /\ v4'.clean = v4.clean /\ v4'.at = at /\ v4'.source = v4.source /\ v4'.mutated = <<>>
        /\ v4'.edits = v4.edits
    BY <1>3, <2>2, <2>3, <2>4 DEF Proofs
  <2>6. ProofStands(v4', v1)
    BY <1>3, <2>3, <2>4, <2>5 DEF ProofStands, ProofAssumption
  <2> QED BY <1>1, <2>6 DEF ProofInv
<1>6. CASE Proof!MutatedRun
  <2>1. PICK made \in Proof!Copy(TRUE), late \in Proof!Late :
          LET runs == Append(v4.mutated, made)
          IN  v4' = [v4 EXCEPT !.mutated = runs, !.late = late,
                        !.at = IF Len(runs) = Confirmations \/ made.exit # "fail" \/ late
                               THEN "verdict" ELSE "mutated"]
    BY <1>6 DEF Proof!MutatedRun
  <2> DEFINE runs == Append(v4.mutated, made)
             at == IF Len(runs) = Confirmations \/ made.exit # "fail" \/ late THEN "verdict" ELSE "mutated"
  <2>2. v4' = [v4 EXCEPT !.mutated = runs, !.late = late, !.at = at]
    BY <2>1
  <2>3. late \in BOOLEAN
    BY <1>3 DEF Proof!Late, Proofs
  <2>4. made \in Proof!Run /\ made.source = v1
    BY CopyIs
  <2>5. /\ runs \in Seq(Proof!Run) /\ Len(runs) = Len(v4.mutated) + 1
        /\ v4.edits = 0 => v1 = v4.source /\ CopiedOf(runs, v4.source)
    BY <1>3, <2>4, RunsGrow DEF ProofStands, Proofs
  <2>6. at \in {"verdict", "mutated"} /\ (at = "mutated" => Len(runs) # Confirmations)
    OBVIOUS
  <2>a. v4.at = "mutated"
    BY <1>6 DEF Proof!MutatedRun
  <2>7. v4.at = "mutated" /\ Len(v4.mutated) \in Nat
    BY <1>3, <2>a DEF ProofStands, Proofs
  <2> HIDE DEF runs, at
  <2>8. /\ v4' \in Proofs /\ v4'.mutated = runs /\ v4'.at = at /\ v4'.source = v4.source /\ v4'.clean = v4.clean
        /\ v4'.edits = v4.edits
    BY <1>3, <2>2, <2>3, <2>5, <2>6, <2>7 DEF Proofs
  <2>9. ProofStands(v4', v1)
    BY <1>3, <2>5, <2>6, <2>7, <2>8 DEF ProofStands, ProofAssumption
  <2> QED BY <1>1, <2>9 DEF ProofInv
<1> QED BY <1>4, <1>5, <1>6

LEMMA ProofVerdict == ASSUME ProofAssumption, ProofInv, Proof!Verdict PROVE ProofInv'
<1>1. UNCHANGED <<v1, v2, v3, v5, v6>> /\ v4.at = "verdict"
  BY DEF Proof!Verdict
<1>2. ProofStands(v4, v1)
  BY <1>1 DEF ProofInv, Proof!None
<1>3. CASE Proof!Proved /\ v4' = [v4 EXCEPT !.at = "record"]
  <2>1. /\ v4' \in Proofs /\ v4'.clean = v4.clean /\ v4'.mutated = v4.mutated
        /\ v4'.source = v4.source /\ v4'.edits = v4.edits /\ v4'.at = "record"
    BY <1>2, <1>3 DEF ProofStands, Proofs
  <2>2. ProofStands(v4', v1)
    BY <1>2, <1>3, <2>1 DEF ProofStands, Proof!Proved
  <2> QED BY <1>1, <2>2 DEF ProofInv
<1>4. CASE v4' = Proof!None
  BY <1>1, <1>4 DEF ProofInv
<1> QED BY <1>3, <1>4 DEF Proof!Verdict

\* When the record is made the source is the one the proof began with, so it was
\* not edited once only; unedited, every run copied it.
LEMMA ProofRecords == ASSUME ProofAssumption, ProofInv, Proof!Record PROVE ProofInv'
<1>1. UNCHANGED <<v1, v2, v3, v5>> /\ v4.at = "record" /\ v4' = Proof!None
  BY DEF Proof!Record
<1>2. ProofStands(v4, v1) /\ v4 \in Proofs
  BY <1>1 DEF ProofInv, Proof!None, ProofStands
<1> DEFINE c == v4.clean
           m == v4.mutated
           r == [source |-> v1, tests |-> v2, spec |-> v4.spec, runs |-> c \o m, noticed |-> Len(m),
                 edits |-> v4.edits]
<1>3. CASE Proof!Unchanged
  <2>1. v6' = v6 \cup {r}
    BY <1>3 DEF Proof!Record
  <2>2. v1 = v4.source /\ v4.spec \in 1 .. MaxSpecs /\ v4.edits \in 0 .. 2
    BY <1>2, <1>3 DEF Proof!Unchanged, Proofs
  <2>a. v4.edits < 2 => v4.edits = 0 /\ CopiedOf(c, v1) /\ CopiedOf(m, v1)
    BY <1>2, <2>2 DEF ProofStands
  <2>3. c \in Seq(Proof!Run) /\ m \in Seq(Proof!Run) /\ Len(m) >= 1 /\ Len(m) \in Nat /\ Len(c) \in Nat
    BY <1>1, <1>2 DEF ProofStands, Proofs
  <2>4. ASSUME NEW i \in 1 .. Len(c)
        PROVE  (v4.edits < 2 => c[i].source = v1) /\ c[i].exit = "pass"
    <3>1. v4.edits < 2 => c[i].source = v1
      BY <2>a DEF CopiedOf
    <3>2. c[i].exit = "pass"
      BY <1>1, <1>2, <2>3 DEF ProofStands, Proof!Exited
    <3> QED BY <3>1, <3>2
  <2>5. ASSUME NEW i \in 1 .. Len(m)
        PROVE  (v4.edits < 2 => m[i].source = v1) /\ m[i].exit = "fail"
    <3>1. v4.edits < 2 => m[i].source = v1
      BY <2>a DEF CopiedOf
    <3>2. m[i].exit = "fail"
      BY <1>1, <1>2, <2>3 DEF ProofStands, Proof!Exited
    <3> QED BY <3>1, <3>2
  <2> HIDE DEF c, m
  <2> DEFINE runs == c \o m
  <2>6. Len(runs) = Len(c) + Len(m) /\ DOMAIN runs = 1 .. (Len(c) + Len(m))
    BY <2>3
  <2>7. ASSUME NEW i \in DOMAIN runs
        PROVE  (v4.edits < 2 => runs[i].source = v1) /\ runs[i].exit = IF i > Len(runs) - Len(m) THEN "fail" ELSE "pass"
    <3>1. CASE i <= Len(c)
      <4>1. runs[i] = c[i] /\ i \in 1 .. Len(c)
        BY <2>3, <2>6, <3>1
      <4> QED BY <2>3, <2>4, <2>6, <3>1, <4>1
    <3>2. CASE i > Len(c)
      <4>1. runs[i] = m[i - Len(c)] /\ i - Len(c) \in 1 .. Len(m)
        BY <2>3, <2>6, <3>2
      <4> QED BY <2>3, <2>5, <2>6, <3>2, <4>1
    <3> QED BY <2>3, <2>6, <3>1, <3>2
  <2> HIDE DEF runs
  <2>8. r.runs = runs /\ r.noticed = Len(m) /\ r.source = v1 /\ r.spec = v4.spec /\ r.edits = v4.edits
    BY DEF runs
  <2> HIDE DEF r
  <2>9. ProofRecordFits(r)
    BY <2>2, <2>3, <2>7, <2>8 DEF ProofRecordFits, ProofInv
  <2> QED BY <1>1, <2>1, <2>9 DEF ProofInv
<1>4. CASE ~Proof!Unchanged
  BY <1>1, <1>4 DEF Proof!Record, ProofInv
<1> QED BY <1>3, <1>4

LEMMA ProofNext == ASSUME ProofAssumption, ProofInv, Proof!Next PROVE ProofInv'
<1>1. CASE Proof!Killed \/ Proof!EditTests \/ Proof!CriterionUpdate
  BY <1>1 DEF Proof!Killed, Proof!EditTests, Proof!CriterionUpdate, ProofInv, ProofAssumption, Proof!Versions
<1>2. CASE Proof!EditSource
  <2>1. /\ v1' \in Proof!Versions /\ v1' # v1 /\ UNCHANGED <<v2, v3, v5, v6>>
        /\ v4' = IF v4 = Proof!None \/ v4.edits = 2 THEN v4 ELSE [v4 EXCEPT !.edits = @ + 1]
    BY <1>2 DEF Proof!EditSource
  <2>2. CASE v4 = Proof!None
    BY <2>1, <2>2 DEF ProofInv
  <2>3. CASE v4 # Proof!None
    <3>1. v4' = IF v4.edits = 2 THEN v4 ELSE [v4 EXCEPT !.edits = @ + 1]
      BY <2>1, <2>3
    <3>2. ProofStands(v4', v1')
      BY <2>1, <2>3, <3>1, ProofAges DEF ProofInv
    <3> QED BY <2>1, <3>2 DEF ProofInv
  <2> QED BY <2>2, <2>3
<1> QED BY <1>1, <1>2, ProofBegins, ProofRuns, ProofVerdict, ProofRecords DEF Proof!Next

LEMMA ProofStutter == ASSUME ProofInv, UNCHANGED Shared PROVE ProofInv'
<1>1. UNCHANGED <<v1, v2, v3, v4, v5, v6>>
  BY DEF Shared
<1> QED BY <1>1 DEF ProofInv

LEMMA ProofKeeps == ASSUME ProofInv PROVE Proof!TypeOK /\ Proof!ProofsAreOfTheirSource
<1>1. Proof!TypeOK
  BY DEF ProofInv, ProofStands, Proofs, ProofRecordFits, Proof!TypeOK
<1>2. Proof!ProofsAreOfTheirSource
  BY DEF ProofInv, ProofRecordFits, Proof!ProofsAreOfTheirSource
<1> QED BY <1>1, <1>2
-----------------------------------------------------------------------------
(* Design reviews: what is left of a grant is part of the rounds granted,    *)
(* and what was recorded beyond the limit, or launched, is the rest.         *)

ReviewsAssumption(who, grants, most) ==
  /\ ReviewLimit \in Nat /\ Allowance \in Nat /\ MaxAttempts \in Nat
  /\ most \in Nat /\ grants \subseteq 1 .. 5
  /\ Nothing \notin who /\ Nothing \notin Design(who, grants, most)!Grant

Left  == IF v6 = Nothing THEN 0 ELSE v6.rounds
Taken == IF v6 = Nothing \/ v6.by = Nothing THEN 0 ELSE 1

RoundsAccounted ==
  /\ v6 # Nothing => v4 >= ReviewLimit
  /\ v4 + Left <= ReviewLimit + v12
  /\ Left <= v12 /\ v13 + (Left - Taken) <= v12

ReviewsInv(who, grants, most) ==
  /\ Design(who, grants, most)!TypeOK /\ Len(v10) <= most
  /\ RoundsAccounted

ReviewsIn(who, grants, most) == ReviewsAssumption(who, grants, most) /\ ReviewsInv(who, grants, most)

\* A block that has an open reason keeps one.
StaysExplained(who, grants, most) ==
  Design(who, grants, most)!BlocksAreExplained => Design(who, grants, most)!BlocksAreExplained'

LEMMA ReviewsStart ==
  ASSUME NEW who, NEW grants, NEW most, ReviewsAssumption(who, grants, most),
         Design(who, grants, most)!Init
  PROVE  ReviewsInv(who, grants, most)
<1>1. /\ v1 = FALSE /\ v2 = "none" /\ v3 = FALSE /\ v4 = 0 /\ v5 = Nothing /\ v6 = Nothing /\ v7 = 0
      /\ v8 = "in_progress" /\ v9 = FALSE /\ v10 = <<>> /\ v12 = 0 /\ v13 = 0
      /\ v11 = [s \in who |-> [state |-> "none", input |-> {}]]
  BY DEF Design!Init
<1>2. v11 \in [who -> Design(who, grants, most)!Session]
  BY <1>1 DEF Design!Session
<1>3. RoundsAccounted /\ Len(v10) <= most
  BY <1>1 DEF RoundsAccounted, Left, Taken, ReviewsAssumption
<1>4. v1 \in BOOLEAN
  BY <1>1
<1>5. /\ v4 \in 0 .. MaxAttempts /\ v7 \in 0 .. Allowance /\ v12 \in Nat /\ v13 \in Nat
      /\ v10 \in Seq(Design(who, grants, most)!Question)
  BY <1>1 DEF ReviewsAssumption
<1>6. Design(who, grants, most)!TypeOK
  BY Zenon, <1>1, <1>2, <1>4, <1>5 DEF Design!TypeOK
<1> QED BY <1>3, <1>6 DEF ReviewsInv

\* One for one, a sequence is turned into another as long.
LEMMA OneForOne ==
  ASSUME NEW S, NEW T, NEW old \in Seq(S), NEW new,
         new = [i \in DOMAIN old |-> new[i]], \A i \in DOMAIN old : new[i] \in T
  PROVE  new \in Seq(T) /\ Len(new) = Len(old) /\ DOMAIN new = DOMAIN old
<1>1. Len(old) \in Nat /\ DOMAIN old = 1 .. Len(old)
  OBVIOUS
<1>2. new \in [1 .. Len(old) -> T] /\ DOMAIN new = 1 .. Len(old)
  BY <1>1
<1> QED BY <1>1, <1>2

\* Of the state the grants are about, and of the rest.
LEMMA RoundsKept ==
  ASSUME RoundsAccounted, UNCHANGED <<v4, v6, v12, v13>>
  PROVE  RoundsAccounted'
BY DEF RoundsAccounted, Left, Taken

LEMMA RoundSpent ==
  ASSUME NEW who, NEW grants, NEW most, ReviewsIn(who, grants, most),
         v4 < ReviewLimit \/ v6 # Nothing, v4' = v4 + 1, UNCHANGED v13,
         \/ v6' = Design(who, grants, most)!Spend /\ UNCHANGED v12
         \/ /\ Design(who, grants, most)!Spend = Nothing /\ v4' >= ReviewLimit
            /\ v6' = [rounds |-> 1, by |-> Nothing] /\ v12' = v12 + 1
  PROVE  RoundsAccounted' /\ v6' \in Design(who, grants, most)!Grant \cup {Nothing} /\ v12' \in Nat
<1> DEFINE One == [rounds |-> 1, by |-> Nothing]
           Less == [rounds |-> v6.rounds - 1, by |-> Nothing]
<1>1. /\ v4 \in Nat /\ v12 \in Nat /\ v13 \in Nat /\ ReviewLimit \in Nat
      /\ v6 \in Design(who, grants, most)!Grant \cup {Nothing}
      /\ Nothing \notin Design(who, grants, most)!Grant
  BY DEF ReviewsIn, ReviewsAssumption, ReviewsInv, Design!TypeOK
<1>2. One \in Design(who, grants, most)!Grant /\ One # Nothing /\ One.rounds = 1 /\ One.by = Nothing
  BY <1>1 DEF Design!Grant
<1>3. RoundsAccounted
  BY DEF ReviewsIn, ReviewsInv
<1>4. CASE v6 = Nothing
  <2>1. Design(who, grants, most)!Spend = Nothing
    BY <1>4 DEF Design!Spend, Design!Authorized
  <2>2. v4 < ReviewLimit /\ v13 <= v12
    BY <1>1, <1>3, <1>4 DEF RoundsAccounted, Left, Taken
  <2>3. CASE v6' = Nothing /\ UNCHANGED v12
    BY <1>1, <2>2, <2>3 DEF RoundsAccounted, Left, Taken
  <2>4. CASE v4' >= ReviewLimit /\ v6' = One /\ v12' = v12 + 1
    <3> HIDE DEF One
    <3> QED BY <1>1, <1>2, <2>2, <2>4 DEF RoundsAccounted, Left, Taken
  <2> QED BY <2>1, <2>3, <2>4
<1>5. CASE v6 # Nothing /\ v6.rounds = 1
  <2>1. Design(who, grants, most)!Spend = Nothing
    BY <1>5 DEF Design!Spend, Design!Authorized
  <2>2. v4 >= ReviewLimit /\ v4 + 1 <= ReviewLimit + v12 /\ v13 <= v12
    BY <1>1, <1>3, <1>5 DEF RoundsAccounted, Left, Taken
  <2>3. CASE v6' = Nothing /\ UNCHANGED v12
    BY <1>1, <2>2, <2>3 DEF RoundsAccounted, Left, Taken
  <2>4. CASE v4' >= ReviewLimit /\ v6' = One /\ v12' = v12 + 1
    <3> HIDE DEF One
    <3> QED BY <1>1, <1>2, <2>2, <2>4 DEF RoundsAccounted, Left, Taken
  <2> QED BY <2>1, <2>3, <2>4
<1>6. CASE v6 # Nothing /\ v6.rounds # 1
  <2>1. v6 \in Design(who, grants, most)!Grant /\ v6.rounds \in 2 .. 5
    BY <1>1, <1>6 DEF Design!Grant
  <2>2. Less \in Design(who, grants, most)!Grant /\ Less.rounds = v6.rounds - 1 /\ Less.by = Nothing
    BY <2>1 DEF Design!Grant
  <2>3. v6' = Less /\ UNCHANGED v12
    BY <1>1, <1>6, <2>2 DEF Design!Spend, Design!Authorized
  <2> HIDE DEF Less
  <2>4. Less # Nothing
    BY <1>1, <2>2
  <2>5. /\ v4 >= ReviewLimit /\ v4 + v6.rounds <= ReviewLimit + v12 /\ v6.rounds <= v12
        /\ v13 + (v6.rounds - 1) <= v12
    BY <1>1, <1>3, <1>6, <2>1 DEF RoundsAccounted, Left, Taken
  <2> QED BY <1>1, <2>1, <2>2, <2>3, <2>4, <2>5 DEF RoundsAccounted, Left, Taken
<1> QED BY <1>4, <1>5, <1>6

LEMMA ReviewsRecord ==
  ASSUME NEW who, NEW grants, NEW most, ReviewsIn(who, grants, most),
         NEW n \in Findings, Design(who, grants, most)!RecordDesignReview(n)
  PROVE  ReviewsInv(who, grants, most)' /\ StaysExplained(who, grants, most)
<1>1. /\ v4 < MaxAttempts /\ v4' = v4 + 1 /\ v5' = n /\ UNCHANGED <<v1, v10, v11, v13>>
      /\ Design(who, grants, most)!Approves(n) \/ Design(who, grants, most)!RequestsChanges(n)
  BY DEF Design!RecordDesignReview
<1>2. /\ v4 \in Nat /\ MaxAttempts \in Nat /\ ReviewLimit \in Nat /\ v7 \in 0 .. Allowance /\ Allowance \in Nat
      /\ v3 \in BOOLEAN /\ Design(who, grants, most)!TypeOK
  BY DEF ReviewsIn, ReviewsAssumption, ReviewsInv, Design!TypeOK
<1>3. v4 < ReviewLimit \/ v6 # Nothing
  BY <1>2 DEF Design!RecordDesignReview, Design!Exhausted, Design!OverLimit, Design!Authorized
<1>4. CASE Design(who, grants, most)!Approves(n)
  <2>1. v6' = Design(who, grants, most)!Spend /\ UNCHANGED <<v3, v7, v12>> /\ v2' = "approved"
    BY <1>4 DEF Design!Approves
  <2>2. RoundsAccounted' /\ v6' \in Design(who, grants, most)!Grant \cup {Nothing} /\ v12' \in Nat
    BY <1>1, <1>3, <2>1, RoundSpent
  <2>3. v8' \in {"in_progress", "blocked"} /\ v9' \in BOOLEAN /\ (v8' = "blocked" => ~v3')
    <3>1. \/ v8' = "in_progress" /\ v9' = FALSE
          \/ ~v3 /\ v8' = "blocked" /\ v9' = FALSE
      BY Zenon, <1>4 DEF Design!Approves, Design!Free, Design!Held
    <3>2. v3' = v3
      BY <2>1
    <3> QED BY <3>1, <3>2
  <2>4. StaysExplained(who, grants, most)
    BY <2>1, <2>3 DEF Design!BlocksAreExplained, StaysExplained
  <2>5. Design(who, grants, most)!TypeOK'
    BY <1>1, <1>2, <2>1, <2>2, <2>3 DEF Design!TypeOK
  <2>6. Len(v10') <= most
    BY <1>1 DEF ReviewsIn, ReviewsInv
  <2> QED BY <2>2, <2>4, <2>5, <2>6 DEF ReviewsInv
<1>5. CASE Design(who, grants, most)!RequestsChanges(n)
  <2>1. v2' = "changes" /\ v3' = FALSE
    BY <1>5 DEF Design!RequestsChanges
  <2>2. /\ \/ v6' = Design(who, grants, most)!Spend /\ UNCHANGED v12
           \/ /\ Design(who, grants, most)!Spend = Nothing /\ v4' >= ReviewLimit
              /\ v6' = [rounds |-> 1, by |-> Nothing] /\ v12' = v12 + 1
        /\ UNCHANGED v7 \/ (v7 < Allowance /\ v7' = v7 + 1)
        /\ \/ v8' = "in_progress" /\ v9' = FALSE
           \/ v8' = "blocked" /\ v9' = TRUE
    BY Zenon, <1>5 DEF Design!RequestsChanges, Design!Free, Design!Held, Design!Converges
  <2>a. v7' \in 0 .. Allowance
    BY <1>2, <2>2
  <2>b. v8' \in {"in_progress", "blocked"} /\ v9' \in BOOLEAN /\ (v8' = "blocked" => v9')
    BY <2>2
  <2>c. v4' \in 0 .. MaxAttempts
    BY <1>1, <1>2
  <2>3. RoundsAccounted' /\ v6' \in Design(who, grants, most)!Grant \cup {Nothing} /\ v12' \in Nat
    BY <1>1, <1>3, <2>2, RoundSpent
  <2>4. StaysExplained(who, grants, most)
    BY Zenon, <2>b DEF Design!BlocksAreExplained, StaysExplained
  <2>5. Design(who, grants, most)!TypeOK'
    BY Zenon, <1>1, <1>2, <2>1, <2>3, <2>a, <2>b, <2>c DEF Design!TypeOK
  <2>6. Len(v10') <= most
    BY <1>1 DEF ReviewsIn, ReviewsInv
  <2> QED BY <2>3, <2>4, <2>5, <2>6 DEF ReviewsInv
<1> QED BY <1>1, <1>4, <1>5

LEMMA ReviewsAuthorize ==
  ASSUME NEW who, NEW grants, NEW most, ReviewsIn(who, grants, most),
         NEW n \in grants, Design(who, grants, most)!Authorize(n)
  PROVE  ReviewsInv(who, grants, most)' /\ StaysExplained(who, grants, most)
<1> DEFINE g == [rounds |-> n, by |-> Nothing]
<1>1. /\ v6 = Nothing /\ v6' = g /\ v12' = v12 + n /\ v8' = "in_progress" /\ v9' = FALSE
      /\ UNCHANGED <<v1, v2, v3, v4, v5, v7, v10, v11, v13>>
  BY DEF Design!Authorize, Design!Authorized, Design!Free
<1>2. v4 >= ReviewLimit
  BY DEF Design!Authorize, Design!OverLimit
<1>3. /\ v4 \in Nat /\ v12 \in Nat /\ v13 \in Nat /\ ReviewLimit \in Nat /\ n \in 1 .. 5
      /\ Nothing \notin Design(who, grants, most)!Grant /\ Design(who, grants, most)!TypeOK
      /\ RoundsAccounted /\ Len(v10) <= most
  BY DEF ReviewsIn, ReviewsAssumption, ReviewsInv, Design!TypeOK
<1>4. g \in Design(who, grants, most)!Grant /\ g.rounds = n /\ g.by = Nothing
  BY <1>3 DEF Design!Grant
<1> HIDE DEF g
<1>5. g # Nothing
  BY <1>3, <1>4
<1>6. RoundsAccounted' /\ v12' \in Nat
  <2>1. Left = 0 /\ Taken = 0 /\ Left' = n /\ Taken' = 0
    BY <1>1, <1>4, <1>5 DEF Left, Taken
  <2> QED BY <1>1, <1>2, <1>3, <2>1 DEF RoundsAccounted
<1>7. Design(who, grants, most)!TypeOK'
  BY <1>1, <1>3, <1>4, <1>6 DEF Design!TypeOK
<1>8. StaysExplained(who, grants, most)
  BY <1>1 DEF Design!BlocksAreExplained, StaysExplained
<1> QED BY <1>1, <1>3, <1>6, <1>7, <1>8 DEF ReviewsInv

\* Commands that leave rounds, questions and sessions alone.
LEMMA ReviewsDecide ==
  ASSUME NEW who, NEW grants, NEW most, ReviewsIn(who, grants, most),
         \/ Design(who, grants, most)!RecordProposal \/ Design(who, grants, most)!DesignApprove
         \/ Design(who, grants, most)!DesignReject \/ Design(who, grants, most)!AdvanceHold
         \/ Design(who, grants, most)!ResumeAfterAuthorization
  PROVE  ReviewsInv(who, grants, most)' /\ StaysExplained(who, grants, most)
<1>1. UNCHANGED <<v4, v5, v6, v7, v10, v11, v12, v13>>
  BY DEF Design!RecordProposal, Design!DesignApprove, Design!DesignReject, Design!AdvanceHold,
         Design!ResumeAfterAuthorization, Design!budget
<1>2. /\ Design(who, grants, most)!TypeOK /\ RoundsAccounted /\ Len(v10) <= most
  BY DEF ReviewsIn, ReviewsInv, ReviewsAssumption
<1>3. /\ v1' \in BOOLEAN /\ v2' \in {"none", "approved", "changes"} /\ v3' \in BOOLEAN
      /\ v8' \in {"in_progress", "blocked"} /\ v9' \in BOOLEAN
  <2>1. /\ v1 \in BOOLEAN /\ v2 \in {"none", "approved", "changes"} /\ v3 \in BOOLEAN
        /\ v8 \in {"in_progress", "blocked"} /\ v9 \in BOOLEAN
    BY <1>2 DEF Design!TypeOK
  <2>2. (v8' = "in_progress" \/ v8' = "blocked" \/ v8' = v8) /\ (v9' = v9 \/ v9' = TRUE \/ v9' = FALSE)
    BY Zenon DEF Design!RecordProposal, Design!DesignApprove, Design!DesignReject, Design!AdvanceHold,
         Design!ResumeAfterAuthorization, Design!Held, Design!Free
  <2>3. (v1' = v1 \/ v1' = TRUE) /\ (v2' = "none" \/ v2' = v2) /\ (v3' = v3 \/ v3' = TRUE \/ v3' = FALSE)
    BY Zenon DEF Design!RecordProposal, Design!DesignApprove, Design!DesignReject, Design!AdvanceHold,
         Design!ResumeAfterAuthorization, Design!Held, Design!Free
  <2> QED BY Zenon, <2>1, <2>2, <2>3
<1>4. StaysExplained(who, grants, most)
  <2>1. v8' = "blocked" => \/ v9'
                           \/ v8 = "blocked" /\ v9' = v9 /\ ~(v2 = "approved")
    BY <1>2 DEF Design!TypeOK, Design!RecordProposal, Design!DesignApprove, Design!DesignReject, Design!AdvanceHold,
         Design!ResumeAfterAuthorization, Design!Held, Design!Free
  <2> QED BY <1>1, <1>2, <2>1 DEF Design!BlocksAreExplained, StaysExplained
<1>5. Design(who, grants, most)!TypeOK'
  BY <1>1, <1>2, <1>3 DEF Design!TypeOK
<1> QED BY <1>1, <1>2, <1>4, <1>5, RoundsKept DEF ReviewsInv

LEMMA ReviewsAsk ==
  ASSUME NEW who, NEW grants, NEW most, ReviewsIn(who, grants, most),
         NEW role \in Design(who, grants, most)!Roles, NEW mayHold \in BOOLEAN,
         Design(who, grants, most)!RaiseQuestion(role, mayHold)
  PROVE  ReviewsInv(who, grants, most)' /\ StaysExplained(who, grants, most)
<1> DEFINE blocking == mayHold /\ (v8 = "in_progress" \/ Design(who, grants, most)!Holding(v10) # {})
           q == [role |-> role, blocking |-> blocking, answered |-> FALSE, delivered |-> FALSE]
<1>1. /\ Len(v10) < most /\ v10' = Append(v10, q) /\ v8' = IF blocking THEN "blocked" ELSE v8
      /\ UNCHANGED <<v1, v2, v3, v4, v5, v6, v7, v9, v11, v12, v13>>
  BY DEF Design!RaiseQuestion, Design!budget
<1>2. /\ Design(who, grants, most)!TypeOK /\ RoundsAccounted
      /\ most \in Nat
  BY DEF ReviewsIn, ReviewsInv, ReviewsAssumption
<1>3. blocking \in BOOLEAN
  OBVIOUS
<1> HIDE DEF blocking
<1>4. q \in Design(who, grants, most)!Question /\ q.blocking = blocking /\ ~q.answered
  BY <1>3 DEF Design!Question
<1> HIDE DEF q
<1>5. v10 \in Seq(Design(who, grants, most)!Question) /\ Len(v10) \in Nat
  BY <1>2 DEF Design!TypeOK
<1>6. /\ v10' \in Seq(Design(who, grants, most)!Question) /\ Len(v10') = Len(v10) + 1
      /\ v10'[Len(v10) + 1] = q /\ \A i \in 1 .. Len(v10) : v10'[i] = v10[i]
  BY <1>1, <1>4, <1>5
<1>7. DOMAIN v10 = 1 .. Len(v10) /\ DOMAIN v10' = 1 .. (Len(v10) + 1)
  BY <1>5, <1>6
<1>8. StaysExplained(who, grants, most)
  <2>1. CASE blocking
    <3>1. Len(v10) + 1 \in DOMAIN v10'
      BY <1>5, <1>7
    <3>2. v10'[Len(v10) + 1].blocking /\ ~v10'[Len(v10) + 1].answered
      BY Zenon, <1>4, <1>6, <2>1
    <3> QED BY <3>1, <3>2 DEF Design!BlocksAreExplained, StaysExplained
  <2>2. CASE ~blocking
    <3>1. ASSUME NEW i \in DOMAIN v10 PROVE i \in DOMAIN v10' /\ v10'[i] = v10[i]
      BY <1>5, <1>6, <1>7
    <3> QED BY <1>1, <1>2, <2>2, <3>1 DEF Design!BlocksAreExplained, StaysExplained
  <2> QED BY <2>1, <2>2
<1>9. Design(who, grants, most)!TypeOK'
  BY <1>1, <1>2, <1>6 DEF Design!TypeOK
<1> QED BY <1>1, <1>2, <1>5, <1>6, <1>8, <1>9, RoundsKept DEF ReviewsInv

\* A record a field of which turns to TRUE for some.
LEMMA Answered ==
  ASSUME NEW who, NEW grants, NEW most, NEW q \in Design(who, grants, most)!Question, NEW yes \in BOOLEAN,
         NEW new, new = [q EXCEPT !.answered = q.answered \/ yes]
  PROVE  /\ new \in Design(who, grants, most)!Question
         /\ new.blocking = q.blocking /\ new.answered = (q.answered \/ yes)
BY DEF Design!Question

LEMMA HandedOver ==
  ASSUME NEW who, NEW grants, NEW most, NEW q \in Design(who, grants, most)!Question, NEW yes \in BOOLEAN,
         NEW new, new = [q EXCEPT !.delivered = q.delivered \/ yes]
  PROVE  /\ new \in Design(who, grants, most)!Question
         /\ new.blocking = q.blocking /\ new.answered = q.answered
BY DEF Design!Question

LEMMA ReviewsAnswer ==
  ASSUME NEW who, NEW grants, NEW most, ReviewsIn(who, grants, most),
         NEW ids, Design(who, grants, most)!Answer(ids)
  PROVE  ReviewsInv(who, grants, most)' /\ StaysExplained(who, grants, most)
<1>1. /\ v10' = [q \in DOMAIN v10 |-> [v10[q] EXCEPT !.answered = v10[q].answered \/ q \in ids]]
      /\ v8' = IF Design(who, grants, most)!LiftsHold(ids) THEN "in_progress" ELSE v8
      /\ UNCHANGED <<v1, v2, v3, v4, v5, v6, v7, v9, v11, v12, v13>>
  BY DEF Design!Answer, Design!budget
<1>2. /\ Design(who, grants, most)!TypeOK /\ RoundsAccounted /\ Len(v10) <= most
  BY DEF ReviewsIn, ReviewsInv
<1>3. v10 \in Seq(Design(who, grants, most)!Question)
  BY <1>2 DEF Design!TypeOK
<1>4. ASSUME NEW q \in DOMAIN v10
      PROVE  /\ v10'[q] \in Design(who, grants, most)!Question
             /\ v10'[q].blocking = v10[q].blocking /\ v10'[q].answered = (v10[q].answered \/ q \in ids)
  <2>1. v10[q] \in Design(who, grants, most)!Question
    BY <1>3
  <2>2. v10'[q] = [v10[q] EXCEPT !.answered = v10[q].answered \/ q \in ids]
    BY <1>1
  <2> DEFINE yes == q \in ids
  <2>3. yes \in BOOLEAN /\ v10'[q] = [v10[q] EXCEPT !.answered = v10[q].answered \/ yes]
    BY <2>2
  <2> HIDE DEF yes
  <2>4. /\ v10'[q] \in Design(who, grants, most)!Question /\ v10'[q].blocking = v10[q].blocking
        /\ v10'[q].answered = (v10[q].answered \/ yes)
    BY <2>1, <2>3, Answered
  <2> QED BY Zenon, <2>4 DEF yes
<1>5. v10' = [q \in DOMAIN v10 |-> v10'[q]]
  BY <1>1
<1>6. /\ v10' \in Seq(Design(who, grants, most)!Question) /\ Len(v10') = Len(v10)
      /\ DOMAIN v10' = DOMAIN v10
  BY <1>3, <1>4, <1>5, OneForOne
<1>7. StaysExplained(who, grants, most)
  <2> SUFFICES ASSUME Design(who, grants, most)!BlocksAreExplained, v8' = "blocked"
               PROVE  \/ \E q \in DOMAIN v10' : v10'[q].blocking /\ ~v10'[q].answered
                      \/ v9' \/ (v2' = "approved" /\ ~v3')
    BY DEF Design!BlocksAreExplained, StaysExplained
  <2>1. v8 = "blocked" /\ ~Design(who, grants, most)!LiftsHold(ids)
    BY <1>1
  <2>2. CASE \E q \in ids : v10[q].blocking
    <3>1. Design(who, grants, most)!Holding(v10') # {}
      BY <2>1, <2>2 DEF Design!LiftsHold
    <3>2. PICK q \in DOMAIN v10' : ~v10'[q].answered /\ v10'[q].blocking
      BY <3>1 DEF Design!Holding, Design!Open
    <3> QED BY <3>2
  <2>3. CASE ~\E q \in ids : v10[q].blocking
    <3>1. ASSUME NEW q \in DOMAIN v10, v10[q].blocking, ~v10[q].answered
          PROVE  q \in DOMAIN v10' /\ v10'[q].blocking /\ ~v10'[q].answered
      BY <1>4, <1>6, <2>3, <3>1
    <3> QED BY <1>1, <1>2, <2>1, <3>1 DEF Design!BlocksAreExplained
  <2> QED BY <2>2, <2>3
<1>8. Design(who, grants, most)!TypeOK'
  BY <1>1, <1>2, <1>6 DEF Design!TypeOK
<1> QED BY <1>1, <1>2, <1>6, <1>7, <1>8, RoundsKept DEF ReviewsInv

LEMMA ReviewsPrepare ==
  ASSUME NEW who, NEW grants, NEW most, ReviewsIn(who, grants, most),
         NEW s \in who, Design(who, grants, most)!Prepare(s)
  PROVE  ReviewsInv(who, grants, most)' /\ StaysExplained(who, grants, most)
<1> DEFINE due == Design(who, grants, most)!Due(Role[s])
           k == [state |-> "prepared", input |-> due]
<1>1. /\ v10' = [q \in DOMAIN v10 |-> [v10[q] EXCEPT !.delivered = v10[q].delivered \/ q \in due]]
      /\ v11' = [v11 EXCEPT ![s] = k]
      /\ UNCHANGED <<v1, v2, v3, v4, v5, v6, v7, v8, v9, v12, v13>>
  BY DEF Design!Prepare, Design!Input, Design!budget
<1>2. /\ Design(who, grants, most)!TypeOK /\ RoundsAccounted /\ Len(v10) <= most /\ most \in Nat
  BY DEF ReviewsIn, ReviewsInv, ReviewsAssumption
<1>3. v10 \in Seq(Design(who, grants, most)!Question) /\ Len(v10) \in Nat /\ DOMAIN v10 = 1 .. Len(v10)
  BY <1>2 DEF Design!TypeOK
<1>4. due \subseteq 1 .. most
  BY <1>2, <1>3 DEF Design!Due
<1>5. k \in Design(who, grants, most)!Session
  BY <1>4 DEF Design!Session
<1> HIDE DEF due, k
<1>6. ASSUME NEW q \in DOMAIN v10
      PROVE  /\ v10'[q] \in Design(who, grants, most)!Question
             /\ v10'[q].blocking = v10[q].blocking /\ v10'[q].answered = v10[q].answered
  <2>1. v10[q] \in Design(who, grants, most)!Question
    BY <1>3
  <2>2. v10'[q] = [v10[q] EXCEPT !.delivered = v10[q].delivered \/ q \in due]
    BY <1>1
  <2> DEFINE yes == q \in due
  <2>3. yes \in BOOLEAN /\ v10'[q] = [v10[q] EXCEPT !.delivered = v10[q].delivered \/ yes]
    BY <2>2
  <2> HIDE DEF yes
  <2> QED BY <2>1, <2>3, HandedOver
<1>7. v10' = [q \in DOMAIN v10 |-> v10'[q]]
  BY <1>1
<1>8. /\ v10' \in Seq(Design(who, grants, most)!Question) /\ Len(v10') = Len(v10)
      /\ DOMAIN v10' = DOMAIN v10
  BY <1>3, <1>6, <1>7, OneForOne
<1>9. StaysExplained(who, grants, most)
  BY <1>1, <1>6, <1>8 DEF Design!BlocksAreExplained, StaysExplained
<1>10. v11' \in [who -> Design(who, grants, most)!Session]
  BY <1>1, <1>2, <1>5 DEF Design!TypeOK
<1>11. Design(who, grants, most)!TypeOK'
  BY <1>1, <1>2, <1>8, <1>10 DEF Design!TypeOK
<1> QED BY <1>1, <1>2, <1>8, <1>9, <1>11, RoundsKept DEF ReviewsInv

LEMMA SessionMoves ==
  ASSUME NEW who, NEW grants, NEW most, v11 \in [who -> Design(who, grants, most)!Session],
         NEW s \in who, NEW to \in {"live", "ended", "refused"}, v11' = [v11 EXCEPT ![s].state = to]
  PROVE  v11' \in [who -> Design(who, grants, most)!Session]
BY DEF Design!Session

LEMMA ReviewsLaunch ==
  ASSUME NEW who, NEW grants, NEW most, ReviewsIn(who, grants, most),
         NEW s \in who, Design(who, grants, most)!Launch(s)
  PROVE  ReviewsInv(who, grants, most)' /\ StaysExplained(who, grants, most)
<1>1. /\ v11' = [v11 EXCEPT ![s].state = "live"]
      /\ UNCHANGED <<v1, v2, v3, v4, v5, v7, v8, v9, v10, v12>>
      /\ \/ /\ v4 >= ReviewLimit /\ v6 # Nothing /\ v6.by = Nothing
            /\ v6' = [v6 EXCEPT !.by = s] /\ v13' = v13 + 1
         \/ UNCHANGED <<v6, v13>>
  BY DEF Design!Launch, Design!OverLimit, Design!Unreserved, Design!Authorized
<1>2. /\ Design(who, grants, most)!TypeOK /\ RoundsAccounted /\ Len(v10) <= most
      /\ Nothing \notin who /\ Nothing \notin Design(who, grants, most)!Grant /\ ReviewLimit \in Nat
  BY DEF ReviewsIn, ReviewsInv, ReviewsAssumption
<1>3. v11' \in [who -> Design(who, grants, most)!Session]
  BY <1>1, <1>2, SessionMoves DEF Design!TypeOK
<1>4. /\ RoundsAccounted' /\ v13' \in Nat /\ v6' \in Design(who, grants, most)!Grant \cup {Nothing}
  <2>1. v4 \in Nat /\ v12 \in Nat /\ v13 \in Nat /\ v6 \in Design(who, grants, most)!Grant \cup {Nothing}
    BY <1>2 DEF Design!TypeOK
  <2>2. CASE UNCHANGED <<v6, v13>>
    BY <1>1, <1>2, <2>1, <2>2, RoundsKept
  <2>3. CASE v4 >= ReviewLimit /\ v6 # Nothing /\ v6.by = Nothing
             /\ v6' = [v6 EXCEPT !.by = s] /\ v13' = v13 + 1
    <3>1. /\ v6' \in Design(who, grants, most)!Grant /\ v6'.rounds = v6.rounds /\ v6'.by = s
          /\ v6.rounds \in 1 .. 5
      BY <2>1, <2>3 DEF Design!Grant
    <3>2. v6' # Nothing /\ s # Nothing
      BY <1>2, <3>1
    <3>3. Left = v6.rounds /\ Taken = 0 /\ Left' = v6.rounds /\ Taken' = 1
      BY <2>3, <3>1, <3>2 DEF Left, Taken
    <3> QED BY <1>1, <1>2, <2>1, <2>3, <3>1, <3>3 DEF RoundsAccounted
  <2> QED BY <1>1, <2>2, <2>3
<1>5. Design(who, grants, most)!TypeOK' /\ StaysExplained(who, grants, most)
  BY <1>1, <1>2, <1>3, <1>4 DEF Design!TypeOK, Design!BlocksAreExplained, StaysExplained
<1> QED BY <1>1, <1>2, <1>4, <1>5 DEF ReviewsInv

LEMMA ReviewsLeave ==
  ASSUME NEW who, NEW grants, NEW most, ReviewsIn(who, grants, most), NEW s \in who,
         Design(who, grants, most)!NotLaunched(s) \/ Design(who, grants, most)!End(s)
  PROVE  ReviewsInv(who, grants, most)' /\ StaysExplained(who, grants, most)
<1>1. /\ v11' = [v11 EXCEPT ![s].state = "refused"] \/ v11' = [v11 EXCEPT ![s].state = "ended"]
      /\ UNCHANGED <<v1, v2, v3, v4, v5, v6, v7, v8, v9, v10, v12, v13>>
  BY DEF Design!NotLaunched, Design!End, Design!budget
<1>2. /\ Design(who, grants, most)!TypeOK /\ RoundsAccounted /\ Len(v10) <= most
  BY DEF ReviewsIn, ReviewsInv
<1>3. v11' \in [who -> Design(who, grants, most)!Session]
  BY <1>1, <1>2, SessionMoves DEF Design!TypeOK
<1>4. Design(who, grants, most)!TypeOK' /\ StaysExplained(who, grants, most)
  BY <1>1, <1>2, <1>3 DEF Design!TypeOK, Design!BlocksAreExplained, StaysExplained
<1> QED BY <1>1, <1>2, <1>4, RoundsKept DEF ReviewsInv

\* The two that may leave a block without its reason.
LEMMA ReviewsUnexplain ==
  ASSUME NEW who, NEW grants, NEW most, ReviewsIn(who, grants, most),
         \/ Design(who, grants, most)!CriteriaEdit
         \/ \E to \in {"in_progress", "blocked"} : Design(who, grants, most)!AdvanceInPlace(to)
  PROVE  ReviewsInv(who, grants, most)'
<1>1. Design(who, grants, most)!TypeOK /\ RoundsAccounted /\ Len(v10) <= most
  BY DEF ReviewsIn, ReviewsInv
<1>2. CASE Design(who, grants, most)!CriteriaEdit
  <2>1. /\ v1' = FALSE /\ v2' = "none" /\ v3' = FALSE
        /\ UNCHANGED <<v4, v5, v6, v7, v8, v9, v10, v11, v12, v13>>
    BY <1>2 DEF Design!CriteriaEdit, Design!budget
  <2> QED BY <1>1, <2>1, RoundsKept DEF ReviewsInv, Design!TypeOK
<1>3. ASSUME NEW to \in {"in_progress", "blocked"}, Design(who, grants, most)!AdvanceInPlace(to)
      PROVE  ReviewsInv(who, grants, most)'
  <2>1. /\ v8' = to /\ v9' = FALSE
        /\ UNCHANGED <<v1, v2, v3, v4, v5, v6, v7, v10, v11, v12, v13>>
    BY <1>3 DEF Design!AdvanceInPlace, Design!budget
  <2> QED BY <1>1, <2>1, RoundsKept DEF ReviewsInv, Design!TypeOK
<1> QED BY <1>2, <1>3

LEMMA ReviewsNext ==
  ASSUME NEW who, NEW grants, NEW most, ReviewsIn(who, grants, most), Design(who, grants, most)!Next
  PROVE  ReviewsInv(who, grants, most)' /\ Design(who, grants, most)!BlocksStayExplained
<1> DEFINE Kept == ReviewsInv(who, grants, most)' /\ StaysExplained(who, grants, most)
<1>1. ASSUME \E s \in who : \/ Design(who, grants, most)!Prepare(s) \/ Design(who, grants, most)!Launch(s)
                            \/ Design(who, grants, most)!NotLaunched(s) \/ Design(who, grants, most)!End(s)
      PROVE  Kept
  BY <1>1, ReviewsPrepare, ReviewsLaunch, ReviewsLeave
<1>2. ASSUME \E n \in Findings : Design(who, grants, most)!RecordDesignReview(n)
      PROVE  Kept
  BY <1>2, ReviewsRecord
<1>3. ASSUME \E n \in grants : Design(who, grants, most)!Authorize(n)
      PROVE  Kept
  BY <1>3, ReviewsAuthorize
<1>4. ASSUME \E role \in Design(who, grants, most)!Roles, mayHold \in BOOLEAN :
                Design(who, grants, most)!RaiseQuestion(role, mayHold)
      PROVE  Kept
  BY <1>4, ReviewsAsk
<1>5. ASSUME \/ \E q \in Design(who, grants, most)!Open(v10) : Design(who, grants, most)!AnswerQuestion(q)
             \/ \E ids \in SUBSET Design(who, grants, most)!Open(v10) : Design(who, grants, most)!AnswerBatch(ids)
      PROVE  Kept
  BY <1>5, ReviewsAnswer DEF Design!AnswerQuestion, Design!AnswerBatch
<1>6. Kept => ReviewsInv(who, grants, most)' /\ Design(who, grants, most)!BlocksStayExplained
  BY DEF StaysExplained, Design!BlocksStayExplained
<1>7. CASE \/ Design(who, grants, most)!CriteriaEdit
           \/ \E to \in {"in_progress", "blocked"} : Design(who, grants, most)!AdvanceInPlace(to)
  BY <1>7, ReviewsUnexplain DEF Design!BlocksStayExplained
<1>8. ASSUME \/ Design(who, grants, most)!RecordProposal \/ Design(who, grants, most)!DesignApprove
             \/ Design(who, grants, most)!DesignReject \/ Design(who, grants, most)!AdvanceHold
             \/ Design(who, grants, most)!ResumeAfterAuthorization
      PROVE  Kept
  BY <1>8, ReviewsDecide
<1> HIDE DEF Kept
<1> QED BY <1>1, <1>2, <1>3, <1>4, <1>5, <1>6, <1>7, <1>8 DEF Design!Next

LEMMA ReviewsStutter ==
  ASSUME NEW who, NEW grants, NEW most, ReviewsInv(who, grants, most), UNCHANGED Shared
  PROVE  ReviewsInv(who, grants, most)' /\ Design(who, grants, most)!BlocksStayExplained
<1>1. UNCHANGED <<v1, v2, v3, v4, v5, v6, v7, v8, v9, v10, v11, v12, v13>>
  BY DEF Shared
<1>2. ReviewsInv(who, grants, most)'
  BY <1>1, RoundsKept DEF ReviewsInv, Design!TypeOK
<1>3. Design(who, grants, most)!BlocksStayExplained
  BY <1>1 DEF Design!BlocksStayExplained, Design!BlocksAreExplained
<1> QED BY <1>2, <1>3

LEMMA ReviewsKeep ==
  ASSUME NEW who, NEW grants, NEW most, ReviewsIn(who, grants, most)
  PROVE  Design(who, grants, most)!TypeOK /\ Design(who, grants, most)!RoundsAreGranted
<1>1. /\ v4 \in Nat /\ v12 \in Nat /\ v13 \in Nat /\ ReviewLimit \in Nat
      /\ v6 \in Design(who, grants, most)!Grant \cup {Nothing} /\ RoundsAccounted
  BY DEF ReviewsIn, ReviewsAssumption, ReviewsInv, Design!TypeOK
<1>2. v6 # Nothing => v6.rounds \in 1 .. 5
  BY <1>1 DEF Design!Grant
<1>3. Design(who, grants, most)!RoundsAreGranted
  BY <1>1, <1>2 DEF RoundsAccounted, Left, Taken, Design!RoundsAreGranted
<1> QED BY <1>3 DEF ReviewsIn, ReviewsInv
-----------------------------------------------------------------------------
(* Amendments: what was reviewed and approved was seen by those who did, and *)
(* the review of an open amendment is of the registry it leads to.           *)

AmendAssumption ==
  /\ First \in Amend!Registries /\ AmendEdits \in Nat
  /\ Nothing \notin Specs /\ Nothing \notin Amend!Registries
  /\ Nothing \notin [design : Amend!Registries, ok : BOOLEAN]
  /\ Nothing \notin Amend!Reviews /\ Nothing \notin Amend!Amendments

\* The amendment on record, if any, leads to the registry.
AmendmentLeads ==
  /\ v6 \in Amend!Amendments \cup {Nothing}
  /\ v6 # Nothing => v6.ops # <<>> /\ v6.frozen = v3 /\ Amend!Result(v6) = v1

AmendTypes ==
  /\ v1 \in Amend!Registries /\ v2 \in [Ids -> Specs \cup {Nothing}]
  /\ v3 \in 2 .. 6 /\ v7 \in 0 .. AmendEdits
  /\ v4 \in [design : Amend!Registries, ok : BOOLEAN] \cup {Nothing}
  /\ v5 \in Amend!Registries \cup {Nothing}

\* Decisions are about designs that somebody saw.
DecisionsWereMade ==
  /\ v4 # Nothing /\ v4.ok => v4.design \in v8
  /\ v5 # Nothing => v5 \in v9

AmendmentWasSeen ==
  v6 # Nothing /\ v6.review # Nothing /\ v6.review.ok /\ v6.review.hash = Amend!Hash(v6) => v1 \in v8

AmendInv ==
  /\ AmendTypes /\ AmendmentLeads /\ DecisionsWereMade /\ AmendmentWasSeen
  /\ Amend!AmendedIsReviewed

LEMMA AmendStarts == ASSUME AmendAssumption, Amend!Init PROVE AmendInv
<1>1. AmendTypes
  BY DEF AmendAssumption, Amend!Init, AmendTypes
<1> QED BY <1>1 DEF AmendAssumption, Amend!Init, AmendInv, AmendmentLeads, DecisionsWereMade, AmendmentWasSeen,
           Amend!AmendedIsReviewed

\* An open amendment is of Phase 3 to 5, where nothing is invalidated.
LEMMA OpenPhases ==
  ASSUME AmendInv
  PROVE  /\ v6 # Nothing => v6 \in Amend!Amendments /\ v3 \in 3 .. 5 /\ Amend!Invalidated = v3
         /\ v3 >= 3 => Amend!Invalidated \in 3 .. 5
<1>1. v3 \in 2 .. 6 /\ (v6 # Nothing => v6 \in Amend!Amendments /\ v6.frozen = v3)
  BY DEF AmendInv, AmendTypes, AmendmentLeads
<1>2. v6 # Nothing => v6.frozen \in 3 .. 5
  BY <1>1 DEF Amend!Amendments
<1> QED BY <1>1, <1>2 DEF Amend!Invalidated

\* A design that holds while nothing is open is the registry, seen and agreed.
LEMMA HoldsMeansSeen ==
  ASSUME AmendInv, v6 = Nothing, Amend!DesignHolds
  PROVE  v1 \in v8 /\ v1 \in v9
BY DEF AmendInv, DecisionsWereMade, Amend!DesignHolds, Amend!Current, Amend!Open

LEMMA ResetTyped ==
  ASSUME AmendTypes, NEW changed
  PROVE  [i \in Ids |-> IF i \in changed THEN Nothing ELSE v2[i]] \in [Ids -> Specs \cup {Nothing}]
BY DEF AmendTypes

LEMMA EditsTyped ==
  ASSUME AmendAssumption, AmendTypes, NEW r, Amend!Edits(r)
  PROVE  v1' = r /\ v7' \in 0 .. AmendEdits
BY DEF AmendAssumption, AmendTypes, Amend!Edits

LEMMA AmendApplies ==
  ASSUME AmendAssumption, AmendInv, NEW r \in Amend!Transactions, Amend!CriteriaApply(r)
  PROVE  AmendInv'
<1>1. /\ v6 = Nothing /\ v2' = Amend!Reset(r) /\ v3' = 2 /\ v4' = Nothing /\ v5' = Nothing
      /\ UNCHANGED <<v6, v8, v9>> /\ Amend!Edits(r)
  BY DEF Amend!CriteriaApply, Amend!Open
<1>2. r \in Amend!Registries /\ v1' = r /\ v7' \in 0 .. AmendEdits
  BY <1>1, EditsTyped DEF Amend!Transactions, AmendInv
<1>3. v2' \in [Ids -> Specs \cup {Nothing}]
  BY <1>1, ResetTyped DEF Amend!Reset, AmendInv
<1>4. AmendTypes'
  BY <1>1, <1>2, <1>3 DEF AmendTypes
<1> QED BY <1>1, <1>4 DEF AmendInv, AmendmentLeads, DecisionsWereMade, AmendmentWasSeen, Amend!AmendedIsReviewed

LEMMA AmendDecides ==
  ASSUME AmendAssumption, AmendInv,
         \/ \E ok \in BOOLEAN : Amend!RecordDesignReview(ok)
         \/ Amend!DesignApprove \/ Amend!AmendmentEscalate
  PROVE  AmendInv'
<1>1. CASE \E ok \in BOOLEAN : Amend!RecordDesignReview(ok)
  <2>1. PICK ok \in BOOLEAN : Amend!RecordDesignReview(ok)
    BY <1>1
  <2> DEFINE d == [design |-> v1, ok |-> ok]
  <2>2. /\ v3 = 2 /\ v4' = d /\ v5' = IF ok THEN v5 ELSE Nothing
        /\ v8' = IF ok THEN v8 \cup {v1} ELSE v8
        /\ UNCHANGED <<v1, v2, v3, v6, v7, v9>>
    BY <2>1 DEF Amend!RecordDesignReview
  <2>3. v6 = Nothing
    BY <2>2, OpenPhases
  <2>4. d \in [design : Amend!Registries, ok : BOOLEAN] /\ d.ok = ok /\ d.design = v1
    BY DEF AmendInv, AmendTypes
  <2> HIDE DEF d
  <2>5. AmendTypes'
    BY <2>2, <2>4 DEF AmendInv, AmendTypes
  <2>6. DecisionsWereMade'
    BY <2>2, <2>4 DEF AmendInv, DecisionsWereMade
  <2> QED BY <2>2, <2>3, <2>5, <2>6 DEF AmendInv, AmendmentLeads, AmendmentWasSeen, Amend!AmendedIsReviewed
<1>2. CASE Amend!DesignApprove
  <2>1. v5' = v1 /\ v9' = v9 \cup {v1} /\ UNCHANGED <<v1, v2, v3, v4, v6, v7, v8>>
    BY <1>2 DEF Amend!DesignApprove
  <2> QED BY <2>1 DEF AmendInv, AmendTypes, AmendmentLeads, DecisionsWereMade, AmendmentWasSeen,
             Amend!AmendedIsReviewed, Amend!Open, Amend!Result, Amend!Hash
<1>3. CASE Amend!AmendmentEscalate
  <2>1. /\ v6' = Nothing /\ v3' = 2 /\ v4' = Nothing /\ v5' = Nothing
        /\ UNCHANGED <<v1, v2, v7, v8, v9>>
    BY <1>3 DEF Amend!AmendmentEscalate
  <2> QED BY <2>1 DEF AmendInv, AmendTypes, AmendmentLeads, DecisionsWereMade, AmendmentWasSeen,
             Amend!AmendedIsReviewed
<1> QED BY <1>1, <1>2, <1>3

LEMMA AmendAdvances ==
  ASSUME AmendAssumption, AmendInv,
         \/ \E i \in Ids : Amend!RecordEvidence(i)
         \/ \E to \in 3 .. 6 : Amend!Advance(to)
  PROVE  AmendInv'
<1>1. CASE \E i \in Ids : Amend!RecordEvidence(i)
  <2>1. PICK i \in Ids : Amend!RecordEvidence(i)
    BY <1>1
  <2>2. /\ v1[i] # Nothing /\ v3 >= 3 /\ v2' = [v2 EXCEPT ![i] = v1[i]] /\ v3' = Amend!Invalidated
        /\ UNCHANGED <<v1, v4, v5, v6, v7, v8, v9>>
    BY <2>1 DEF Amend!RecordEvidence
  <2>3. v3' \in 2 .. 6 /\ (v6 # Nothing => v3' = v3)
    BY <2>2, OpenPhases
  <2>4. v1[i] \in Specs \cup {Nothing}
    BY DEF AmendInv, AmendTypes, Amend!Registries
  <2>5. AmendTypes'
    BY <2>2, <2>3, <2>4 DEF AmendInv, AmendTypes
  <2>6. AmendmentLeads' /\ AmendmentWasSeen' /\ DecisionsWereMade'
    BY <2>2, <2>3 DEF AmendInv, AmendmentLeads, AmendmentWasSeen, DecisionsWereMade, Amend!Result, Amend!Hash
  <2> QED BY <2>2, <2>5, <2>6 DEF AmendInv, Amend!AmendedIsReviewed, Amend!Open
<1>2. CASE \E to \in 3 .. 6 : Amend!Advance(to)
  <2>1. PICK to \in 3 .. 6 : Amend!Advance(to)
    BY <1>2
  <2>2. v6 = Nothing /\ v3' = to /\ UNCHANGED <<v1, v2, v4, v5, v6, v7, v8, v9>> /\ Amend!DesignHolds
    BY <2>1 DEF Amend!Advance, Amend!Open
  <2>3. v1 \in v8 /\ v1 \in v9
    BY <2>2, HoldsMeansSeen
  <2> QED BY <2>2, <2>3 DEF AmendInv, AmendTypes, AmendmentLeads, DecisionsWereMade, AmendmentWasSeen,
             Amend!AmendedIsReviewed
<1> QED BY <1>1, <1>2

LEMMA AmendOpens ==
  ASSUME AmendAssumption, AmendInv, NEW r \in Amend!Transactions, NEW by \in Actors, Amend!AmendmentOpen(r, by)
  PROVE  AmendInv'
<1> DEFINE a == [by |-> by, base |-> v1, ops |-> <<r>>, changed |-> Amend!Touched(r),
                 review |-> Nothing, frozen |-> Amend!Invalidated]
<1>1. /\ v2' = Amend!Reset(r) /\ v3' = Amend!Invalidated /\ v6' = a
      /\ UNCHANGED <<v4, v5, v8, v9>> /\ Amend!Edits(r) /\ v3 >= 3
  BY DEF Amend!AmendmentOpen, Amend!MayOpen
<1>2. r \in Amend!Registries /\ v1' = r /\ v7' \in 0 .. AmendEdits
  BY <1>1, EditsTyped DEF Amend!Transactions, AmendInv
<1>3. v2' \in [Ids -> Specs \cup {Nothing}]
  BY <1>1, ResetTyped DEF Amend!Reset, AmendInv
<1>4. Amend!Invalidated \in 3 .. 5
  BY <1>1, OpenPhases
<1>5. AmendTypes'
  BY <1>1, <1>2, <1>3, <1>4 DEF AmendInv, AmendTypes
<1>6. v1 \in Amend!Registries /\ Amend!Touched(r) \subseteq Ids
  BY DEF AmendInv, AmendTypes, Amend!Touched
<1>7. a \in Amend!Amendments
  BY <1>2, <1>4, <1>6 DEF Amend!Amendments
<1>8. a.ops = <<r>> /\ a.review = Nothing /\ a.frozen = Amend!Invalidated
  OBVIOUS
<1> HIDE DEF a
<1>9. a.ops # <<>> /\ Amend!Result(a) = r
  BY <1>8 DEF Amend!Result
<1>10. v6' # Nothing
  BY <1>1, <1>7 DEF AmendAssumption
<1>11. AmendmentLeads'
  BY <1>1, <1>2, <1>7, <1>8, <1>9 DEF AmendmentLeads, Amend!Result
<1>12. AmendmentWasSeen' /\ Amend!AmendedIsReviewed' /\ DecisionsWereMade'
  BY <1>1, <1>8, <1>10 DEF AmendmentWasSeen, Amend!AmendedIsReviewed, Amend!Open, AmendInv, DecisionsWereMade
<1> QED BY <1>5, <1>11, <1>12 DEF AmendInv

LEMMA AmendRevises ==
  ASSUME AmendAssumption, AmendInv, NEW r \in Amend!Transactions, Amend!AmendmentRevise(r)
  PROVE  AmendInv'
<1> DEFINE changed == v6.changed \cup Amend!Touched(r)
           ops == Append(v6.ops, r)
<1>1. /\ v2' = [i \in Ids |-> IF i \in changed THEN Nothing ELSE v2[i]] /\ v3' = Amend!Invalidated
      /\ v6' = [v6 EXCEPT !.ops = ops, !.changed = changed, !.review = Nothing]
      /\ UNCHANGED <<v4, v5, v8, v9>> /\ Amend!Edits(r) /\ v6 # Nothing
  BY DEF Amend!AmendmentRevise, Amend!MayRevise, Amend!Open
<1>2. r \in Amend!Registries /\ v1' = r /\ v7' \in 0 .. AmendEdits
  BY <1>1, EditsTyped DEF Amend!Transactions, AmendInv
<1>3. v2' \in [Ids -> Specs \cup {Nothing}]
  BY <1>1, ResetTyped DEF AmendInv
<1>4. v6 \in Amend!Amendments /\ v3' = v3 /\ v6.frozen = v3
  BY <1>1, OpenPhases DEF AmendInv, AmendmentLeads
<1>5. AmendTypes'
  BY <1>1, <1>2, <1>3, <1>4 DEF AmendInv, AmendTypes
<1>6. changed \subseteq Ids
  BY <1>4 DEF Amend!Touched, Amend!Amendments
<1>7. /\ ops \in Seq(Amend!Registries) /\ ops # <<>> /\ ops[Len(ops)] = r
  <2>1. v6.ops \in Seq(Amend!Registries)
    BY <1>4 DEF Amend!Amendments
  <2> QED BY <1>2, <2>1
<1> HIDE DEF changed, ops
<1>8. v6' \in Amend!Amendments /\ v6'.ops = ops /\ v6'.review = Nothing /\ v6'.frozen = v6.frozen
  BY <1>1, <1>4, <1>6, <1>7 DEF Amend!Amendments
<1>9. v6' # Nothing
  BY <1>8 DEF AmendAssumption
<1>10. AmendmentLeads'
  BY <1>2, <1>4, <1>7, <1>8 DEF AmendmentLeads, Amend!Result
<1>11. AmendmentWasSeen' /\ Amend!AmendedIsReviewed' /\ DecisionsWereMade'
  BY <1>1, <1>8, <1>9 DEF AmendmentWasSeen, Amend!AmendedIsReviewed, Amend!Open, AmendInv, DecisionsWereMade
<1> QED BY <1>5, <1>10, <1>11 DEF AmendInv

LEMMA AmendReviews ==
  ASSUME AmendAssumption, AmendInv, NEW by \in Actors, NEW ok \in BOOLEAN, Amend!AmendmentReview(by, ok)
  PROVE  AmendInv'
<1> DEFINE w == [by |-> by, ok |-> ok, hash |-> Amend!Hash(v6)]
<1>1. /\ v6 # Nothing /\ v6' = [v6 EXCEPT !.review = w]
      /\ v8' = IF ok THEN v8 \cup {v1} ELSE v8
      /\ UNCHANGED <<v1, v2, v3, v4, v5, v7, v9>>
  BY DEF Amend!AmendmentReview, Amend!Open
<1>2. v6 \in Amend!Amendments
  BY <1>1 DEF AmendInv, AmendmentLeads
<1>3. Amend!Hash(v6) \in Amend!Registries \X Seq(Amend!Registries)
  BY <1>2 DEF Amend!Amendments, Amend!Hash
<1>4. w \in Amend!Reviews /\ w.ok = ok
  BY <1>3 DEF Amend!Reviews
<1> HIDE DEF w
<1>5. /\ v6' \in Amend!Amendments /\ v6'.review = w
      /\ v6'.ops = v6.ops /\ v6'.frozen = v6.frozen
  BY <1>1, <1>2, <1>4 DEF Amend!Amendments
<1>6. v6' # Nothing
  BY <1>5 DEF AmendAssumption
<1>7. AmendTypes' /\ AmendmentLeads'
  BY <1>1, <1>5 DEF AmendInv, AmendTypes, AmendmentLeads, Amend!Result
<1>8. AmendmentWasSeen'
  BY <1>1, <1>4, <1>5 DEF AmendmentWasSeen
<1>9. DecisionsWereMade' /\ Amend!AmendedIsReviewed'
  BY <1>1, <1>6 DEF AmendInv, DecisionsWereMade, Amend!AmendedIsReviewed, Amend!Open
<1> QED BY <1>7, <1>8, <1>9 DEF AmendInv

LEMMA AmendApproves ==
  ASSUME AmendAssumption, AmendInv, NEW by \in Actors, Amend!AmendmentApprove(by)
  PROVE  AmendInv'
<1>1. /\ v6 # Nothing /\ v6.review # Nothing /\ v6.review.ok /\ v6.review.hash = Amend!Hash(v6)
      /\ v4' = IF v4 = Nothing THEN Nothing ELSE [v4 EXCEPT !.design = Amend!Result(v6)]
      /\ v5' = IF v5 = Nothing THEN Nothing ELSE Amend!Result(v6)
      /\ v6' = Nothing /\ v3' = v6.frozen /\ v9' = v9 \cup {v1} /\ UNCHANGED <<v1, v2, v7, v8>>
  BY DEF Amend!AmendmentApprove, Amend!Open
<1>2. v1 \in v8 /\ Amend!Result(v6) = v1 /\ v6.frozen = v3
  BY <1>1 DEF AmendInv, AmendmentWasSeen, AmendmentLeads
<1>3. /\ v4' \in [design : Amend!Registries, ok : BOOLEAN] \cup {Nothing}
      /\ v4' # Nothing => v4'.design = v1
  <2>1. CASE v4 = Nothing
    BY <1>1, <2>1
  <2>2. CASE v4 # Nothing
    <3>1. v4 \in [design : Amend!Registries, ok : BOOLEAN] /\ v1 \in Amend!Registries
      BY <2>2 DEF AmendInv, AmendTypes
    <3> QED BY <1>1, <1>2, <2>2, <3>1
  <2> QED BY <2>1, <2>2
<1>4. AmendTypes'
  BY <1>1, <1>2, <1>3 DEF AmendInv, AmendTypes
<1> QED BY <1>1, <1>2, <1>3, <1>4 DEF AmendInv, AmendmentLeads, AmendmentWasSeen, DecisionsWereMade,
           Amend!AmendedIsReviewed

LEMMA AmendNext == ASSUME AmendAssumption, AmendInv, Amend!Next PROVE AmendInv'
BY AmendApplies, AmendDecides, AmendAdvances, AmendOpens, AmendRevises, AmendReviews, AmendApproves DEF Amend!Next

LEMMA AmendStutter == ASSUME AmendInv, UNCHANGED Shared PROVE AmendInv'
<1>1. UNCHANGED <<v1, v2, v3, v4, v5, v6, v7, v8, v9>>
  BY DEF Shared
<1> QED BY <1>1 DEF AmendInv, AmendTypes, AmendmentLeads, DecisionsWereMade, AmendmentWasSeen,
           Amend!AmendedIsReviewed, Amend!Open, Amend!Result, Amend!Hash

LEMMA AmendKeeps == ASSUME AmendInv PROVE Amend!TypeOK /\ Amend!AmendedIsReviewed
BY DEF AmendInv, AmendTypes, AmendmentLeads, Amend!TypeOK, Amend!AmendedIsReviewed, Amend!Open, Amend!Reproduced
-----------------------------------------------------------------------------
(* Work items: what was decided is about the items that carry criteria.      *)

\* Sorting is possible: an item's place is the number of items up to it.
LEMMA SortedExists ==
  ASSUME NEW set \in SUBSET Nat, IsFiniteSet(set)
  PROVE  \E seq \in [1 .. Cardinality(set) -> set] : \A j, k \in DOMAIN seq : j < k => seq[j] < seq[k]
<1> DEFINE n == Cardinality(set)
           upto(x) == {y \in set : y <= x}
           place == [x \in set |-> Cardinality(upto(x))]
           seq == [k \in 1 .. n |-> CHOOSE x \in set : place[x] = k]
<1>1. n \in Nat
  BY FS_CardinalityType
<1>2. ASSUME NEW x \in set PROVE place[x] \in 1 .. n
  <2>1. upto(x) \subseteq set /\ x \in upto(x)
    OBVIOUS
  <2> HIDE DEF upto
  <2>2. IsFiniteSet(upto(x)) /\ Cardinality(upto(x)) <= n
    BY <2>1, FS_Subset
  <2>3. Cardinality(upto(x)) \in Nat
    BY <2>2, FS_CardinalityType
  <2>4. Cardinality(upto(x)) # 0
    BY <2>1, <2>2, FS_EmptySet
  <2> QED BY <1>1, <2>2, <2>3, <2>4
<1>3. ASSUME NEW x \in set, NEW y \in set, x < y PROVE place[x] < place[y]
  <2>1. upto(x) \subseteq upto(y) /\ y \in upto(y) /\ y \notin upto(x) /\ upto(y) \subseteq set
    <3>1. x \in Nat /\ y \in Nat
      OBVIOUS
    <3>2. ASSUME NEW z \in set, z <= x PROVE z <= y
      BY <1>3, <3>1, <3>2
    <3>3. y <= y /\ ~(y <= x)
      BY <1>3, <3>1
    <3> QED BY <3>2, <3>3
  <2> HIDE DEF upto
  <2>2. IsFiniteSet(upto(y)) /\ IsFiniteSet(upto(x))
    BY <2>1, FS_Subset
  <2>3. Cardinality(upto(x)) <= Cardinality(upto(y)) /\ Cardinality(upto(x)) # Cardinality(upto(y))
    BY <2>1, <2>2, FS_Subset
  <2>4. Cardinality(upto(x)) \in Nat /\ Cardinality(upto(y)) \in Nat
    BY <2>2, FS_CardinalityType
  <2> QED BY <2>3, <2>4
<1>4. place \in [set -> 1 .. n]
  BY <1>2 DEF place
<1> HIDE DEF place, n
<1>5. \A x, y \in set : place[x] = place[y] => x = y
  <2> SUFFICES ASSUME NEW x \in set, NEW y \in set, place[x] = place[y] PROVE x = y
    OBVIOUS
  <2>1. place[x] \in Nat /\ x \in Nat /\ y \in Nat
    BY <1>1, <1>4
  <2>2. ~(x < y) /\ ~(y < x)
    BY <1>3, <2>1
  <2> QED BY <2>1, <2>2
<1>6. place \in Injection(set, 1 .. n)
  BY <1>4, <1>5 DEF Injection, IsInjective
<1>7. IsFiniteSet(1 .. n) /\ Cardinality(1 .. n) = n
  BY <1>1, FS_Interval
<1>8. place \in Surjection(set, 1 .. n)
  BY <1>6, <1>7, FS_Injection DEF n
<1>9. \A k \in 1 .. n : seq[k] \in set /\ place[seq[k]] = k
  BY <1>8 DEF Surjection
<1>10. seq \in [1 .. n -> set]
  BY <1>9
<1>11. ASSUME NEW j \in 1 .. n, NEW k \in 1 .. n, j < k PROVE seq[j] < seq[k]
  <2> HIDE DEF seq
  <2>1. seq[j] \in Nat /\ seq[k] \in Nat /\ place[seq[j]] = j /\ place[seq[k]] = k /\ seq[j] \in set /\ seq[k] \in set
    BY <1>9
  <2>2. ~(seq[k] < seq[j])
    <3>1. seq[k] < seq[j] => k < j
      BY <1>3, <2>1
    <3> QED BY <1>1, <1>11, <3>1
  <2>3. seq[k] # seq[j]
    BY <1>1, <1>11, <2>1
  <2> QED BY <2>1, <2>2, <2>3
<1> HIDE DEF seq
<1>12. DOMAIN seq = 1 .. n
  BY <1>10
<1> QED BY <1>10, <1>11, <1>12 DEF n

Distinct(seq) == \A j, k \in DOMAIN seq : seq[j] = seq[k] => j = k

LEMMA SortedSeqs ==
  ASSUME NEW set \in SUBSET Nat, IsFiniteSet(set)
  PROVE  /\ Work!Sorted(set) \in Seq(set) /\ Distinct(Work!Sorted(set))
         /\ Work!Listed(Work!Sorted(set)) = set
<1> DEFINE n == Cardinality(set)
           seq == Work!Sorted(set)
<1>1. Work!Cardinality(set) = n
  BY Zenon DEF Cardinality, Work!Cardinality
<1>2. n \in Nat
  BY FS_CardinalityType
<1>3. seq \in [1 .. n -> set] /\ \A j, k \in DOMAIN seq : j < k => seq[j] < seq[k]
  BY <1>1, SortedExists DEF Work!Sorted
<1> HIDE DEF seq, n
<1>4. DOMAIN seq = 1 .. n /\ seq \in Seq(set) /\ \A j \in 1 .. n : seq[j] \in Nat
  <2>1. DOMAIN seq = 1 .. n /\ \A j \in 1 .. n : seq[j] \in set
    BY <1>3
  <2>2. seq \in Seq(set)
    BY <1>2, <1>3, SeqDef
  <2> QED BY <2>1, <2>2
<1>5. Distinct(seq)
  <2> SUFFICES ASSUME NEW j \in 1 .. n, NEW k \in 1 .. n, seq[j] = seq[k] PROVE j = k
    BY <1>4 DEF Distinct
  <2>1. ~(j < k) /\ ~(k < j)
    BY <1>3, <1>4
  <2> QED BY <1>2, <2>1
<1>6. seq \in Injection(1 .. n, set)
  BY <1>3, <1>4, <1>5 DEF Injection, IsInjective, Distinct
<1>7. IsFiniteSet(1 .. n) /\ Cardinality(1 .. n) = n
  BY <1>2, FS_Interval
<1>8. seq \in Surjection(1 .. n, set)
  BY <1>6, <1>7, FS_Injection DEF n
<1>9. Work!Listed(seq) = set
  BY <1>3, <1>4, <1>8 DEF Surjection, Work!Listed
<1> QED BY <1>4, <1>5, <1>9 DEF seq

\* The registry has as many entries as items.
LEMMA DistinctCount ==
  ASSUME NEW S, NEW seq \in Seq(S), Distinct(seq)
  PROVE  IsFiniteSet(Work!Listed(seq)) /\ Work!Cardinality(Work!Listed(seq)) = Len(seq)
<1> DEFINE n == Len(seq)
           T == Work!Listed(seq)
<1>1. n \in Nat /\ DOMAIN seq = 1 .. n /\ seq \in [1 .. n -> T]
  BY LenProperties DEF Work!Listed
<1>2. seq \in Surjection(1 .. n, T)
  BY <1>1 DEF Surjection, Work!Listed
<1>3. seq \in Injection(1 .. n, T)
  BY <1>1 DEF Injection, IsInjective, Distinct
<1>4. IsFiniteSet(1 .. n) /\ Cardinality(1 .. n) = n
  BY <1>1, FS_Interval
<1> HIDE DEF T, n
<1>5. IsFiniteSet(T) /\ Cardinality(T) = n
  BY <1>2, <1>3, <1>4, FS_Surjection
<1>6. Work!Cardinality(T) = Cardinality(T)
  BY Zenon DEF Cardinality, Work!Cardinality
<1> QED BY <1>5, <1>6 DEF T, n

WorkAssumption ==
  /\ Works \subseteq Nat /\ IsFiniteSet(Works) /\ Title \subseteq Works /\ Title # {}
  /\ Proposed \in Seq(Works) /\ Absent \notin Works /\ Absent # Untagged
  /\ Nothing \notin SUBSET Works /\ Nothing \notin [scope : SUBSET Works, approved : BOOLEAN]
  /\ WorkEdits \in Nat

Tags == [Criteria -> Works \cup {Untagged, Absent}]

WorkTypes ==
  /\ v1 \in Seq(Works) /\ v1 # <<>> /\ Distinct(v1)
  /\ v6 \subseteq Work!Listed(v1) /\ v2 \subseteq Works /\ v3 \in BOOLEAN
  /\ v4 \in Tags /\ v5 \subseteq Work!Live(v4)
  /\ v7 \in Works \cup {Nothing} /\ (v8 = Nothing \/ v8 \in Seq(Works))
  /\ v9 \in 1 .. 3 /\ v13 \in 0 .. WorkEdits /\ v12 \in BOOLEAN
  /\ v10 = Nothing \/ v10 \in [scope : SUBSET Works, approved : BOOLEAN]
  /\ v11 = Nothing \/ v11 \in SUBSET Works

\* Decisions are about the scope of some registry, with the tags of today.
ScopesWereTaken ==
  /\ v10 # Nothing => \E seq \in Seq(Works) : v10.scope = Work!Scope(seq, v4)
  /\ v11 # Nothing => \E seq \in Seq(Works) : v11 = Work!Scope(seq, v4)

\* Beyond Phase 2 both decisions stand and are about the scope of today.
DecidedScope ==
  v9 = 3 =>
    /\ v10 # Nothing /\ v10.approved /\ v11 # Nothing
    /\ (v10.scope = Work!Scope(v1, v4) /\ v11 = Work!Scope(v1, v4)) \/ Work!LastOneLeft

WorkInv == WorkTypes /\ ScopesWereTaken /\ DecidedScope

LEMMA WorkKeeps == ASSUME WorkAssumption, WorkInv PROVE Work!TypeOK /\ Work!ScopeIsDecided
<1>1. Work!Cardinality(Work!Listed(v1)) = Len(v1)
  BY DistinctCount DEF WorkInv, WorkTypes
<1>2. Work!TypeOK
  BY <1>1, Zenon DEF WorkInv, WorkTypes, Work!TypeOK, Tags
<1>3. Work!ScopeIsDecided
  BY DEF WorkInv, DecidedScope, Work!ScopeIsDecided, Work!ScopeStaysDecided, Work!DesignCurrent, Work!Matches
<1> QED BY <1>2, <1>3

\* What an untagged criterion belongs to is the one item there is, so that no
\* scope can pass for all items without being the scope of today.
LEMMA MatchingScopes ==
  ASSUME NEW seq \in Seq(Works), Distinct(seq), seq # <<>>, NEW old \in Seq(Works), NEW tags,
         Work!Scope(old, tags) \in {Work!Scope(seq, tags), Work!Listed(seq)}
  PROVE  Work!Scope(old, tags) = Work!Scope(seq, tags)
<1> SUFFICES ASSUME Work!Scope(old, tags) = Work!Listed(seq), Work!Scope(seq, tags) # Work!Listed(seq)
             PROVE  FALSE
  OBVIOUS
<1>1. PICK i \in Work!Listed(seq) : Work!Mapped(seq, tags, i) = {}
  BY DEF Work!Scope
<1>2. Work!Mapped(old, tags, i) # {}
  BY DEF Work!Scope
<1>3. old = <<i>>
  BY <1>1, <1>2 DEF Work!Mapped
<1>4. Work!Listed(seq) \subseteq {i}
  BY <1>3 DEF Work!Scope, Work!Listed
<1>5. Len(seq) \in Nat /\ DOMAIN seq = 1 .. Len(seq) /\ Len(seq) # 0
  BY LenProperties, EmptySeq
<1>6. \A j \in 1 .. Len(seq) : seq[j] = i
  BY <1>4, <1>5 DEF Work!Listed
<1>7. Len(seq) = 1
  <2>1. 1 \in 1 .. Len(seq) /\ Len(seq) \in 1 .. Len(seq)
    BY <1>5
  <2> QED BY <1>5, <1>6, <2>1 DEF Distinct
<1>8. seq = <<i>>
  BY <1>5, <1>6, <1>7
<1> QED BY <1>1, <1>2, <1>3, <1>8

\* What a decision covers is the scope of today if it matches it.
LEMMA CurrentScopes ==
  ASSUME WorkInv, Work!DesignCurrent
  PROVE  /\ v10 # Nothing /\ v10.approved /\ v11 # Nothing
         /\ v10.scope = Work!Scope(v1, v4) /\ v11 = Work!Scope(v1, v4)
<1>1. /\ v10 # Nothing /\ v10.approved /\ v11 # Nothing
      /\ v10.scope \in {Work!Scope(v1, v4), Work!Listed(v1)} /\ v11 \in {Work!Scope(v1, v4), Work!Listed(v1)}
  BY DEF Work!DesignCurrent, Work!Matches
<1>2. PICK old \in Seq(Works) : v10.scope = Work!Scope(old, v4)
  BY <1>1 DEF WorkInv, ScopesWereTaken
<1>3. PICK past \in Seq(Works) : v11 = Work!Scope(past, v4)
  BY <1>1 DEF WorkInv, ScopesWereTaken
<1>4. v1 \in Seq(Works) /\ v1 # <<>> /\ Distinct(v1)
  BY DEF WorkInv, WorkTypes
<1>5. Work!Scope(old, v4) = Work!Scope(v1, v4)
  BY <1>1, <1>2, <1>4, MatchingScopes
<1>6. Work!Scope(past, v4) = Work!Scope(v1, v4)
  BY <1>1, <1>3, <1>4, MatchingScopes
<1> QED BY <1>1, <1>2, <1>3, <1>5, <1>6

LEMMA ScopeIsOfWorks == ASSUME NEW seq \in Seq(Works), NEW tags PROVE Work!Scope(seq, tags) \in SUBSET Works
<1>1. Work!Listed(seq) \subseteq Works
  BY DEF Work!Listed
<1> QED BY <1>1 DEF Work!Scope

LEMMA DerivedIsOfWorks ==
  ASSUME WorkAssumption, NEW tags \in Tags, NEW named \in SUBSET Works
  PROVE  Work!Tagged(tags) \subseteq Works /\ Work!Derived(tags, named) \subseteq Works
<1>1. Work!Tagged(tags) \subseteq Works
  BY DEF Work!Tagged, Work!Live, Tags
<1> QED BY <1>1 DEF Work!Derived, WorkAssumption

\* Synchronizing forgets no item.
LEMMA SyncedKeeps ==
  ASSUME WorkAssumption, WorkTypes, NEW tags \in Tags
  PROVE  /\ Work!Synced(tags) \in Seq(Works) /\ Distinct(Work!Synced(tags)) /\ Work!Synced(tags) # <<>>
         /\ Work!Listed(v1) \subseteq Work!Listed(Work!Synced(tags))
<1> DEFINE set == Work!Listed(v1) \cup (Work!Derived(tags, {}) \ Work!Unwanted(tags, Work!Listed(v1)))
<1>1. Work!Listed(v1) \subseteq Works /\ 1 \in DOMAIN v1
  <2>1. v1 \in Seq(Works) /\ Len(v1) \in Nat /\ DOMAIN v1 = 1 .. Len(v1) /\ v1 # <<>>
    BY LenProperties DEF WorkTypes
  <2>2. Len(v1) # 0
    BY <2>1, EmptySeq
  <2> QED BY <2>1, <2>2 DEF Work!Listed
<1>2. Work!Derived(tags, {}) \subseteq Works
  BY DerivedIsOfWorks
<1>3. set \subseteq Works /\ v1[1] \in set
  BY <1>1, <1>2 DEF Work!Listed
<1>4. Work!Synced(tags) = Work!Sorted(set) /\ Work!Listed(v1) \subseteq set
  BY DEF Work!Synced
<1> HIDE DEF set
<1>5. set \in SUBSET Nat /\ IsFiniteSet(set)
  BY <1>3, FS_Subset DEF WorkAssumption
<1>6. /\ Work!Sorted(set) \in Seq(set) /\ Distinct(Work!Sorted(set))
      /\ Work!Listed(Work!Sorted(set)) = set
  BY <1>5, SortedSeqs
<1>7. Work!Sorted(set) # <<>>
  BY <1>3, <1>6 DEF Work!Listed
<1>8. Work!Sorted(set) \in Seq(Works)
  BY <1>3, <1>6, SeqMonotonic
<1> QED BY <1>4, <1>6, <1>7, <1>8

LEMMA WorkStarts == ASSUME WorkAssumption, Work!Init PROVE WorkInv
<1>1. PICK named \in SUBSET Works :
         /\ v3 = (named # {}) /\ v1 = Work!Sorted(IF named # {} THEN named ELSE Title)
  BY DEF Work!Init
<1> DEFINE set == IF named # {} THEN named ELSE Title
<1>2. set \in SUBSET Works /\ set # {} /\ v1 = Work!Sorted(set) /\ v3 \in BOOLEAN
  BY <1>1 DEF WorkAssumption
<1> HIDE DEF set
<1>3. set \in SUBSET Nat /\ IsFiniteSet(set)
  BY <1>2, FS_Subset DEF WorkAssumption
<1>4. v1 \in Seq(set) /\ Distinct(v1) /\ Work!Listed(v1) = set
  BY <1>2, <1>3, SortedSeqs
<1>5. v1 # <<>>
  BY <1>2, <1>4 DEF Work!Listed
<1>6. v1 \in Seq(Works)
  BY <1>2, <1>4, SeqMonotonic
<1>7. /\ v4 \in [Criteria -> {Untagged, Absent}]
      /\ v6 = {} /\ v2 = {} /\ v5 = {} /\ v13 = 0 /\ v7 = Nothing /\ v8 = Nothing
      /\ v9 = 1 /\ v10 = Nothing /\ v11 = Nothing /\ v12 = FALSE
  BY DEF Work!Init
<1>8. v4 \in Tags /\ v13 \in 0 .. WorkEdits /\ v9 \in 1 .. 3 /\ v2 \subseteq Works
      /\ v6 \subseteq Work!Listed(v1) /\ v5 \subseteq Work!Live(v4)
  BY <1>7 DEF Tags, WorkAssumption
<1>9. v12 \in BOOLEAN
  BY <1>7, Zenon
<1>10. WorkTypes
  BY <1>2, <1>4, <1>5, <1>6, <1>7, <1>8, <1>9, Zenon DEF WorkTypes
<1> QED BY <1>7, <1>10 DEF WorkInv, ScopesWereTaken, DecidedScope

\* Where the decisions are invalidated, only types remain to be shown.
LEMMA InvalidatedDecisions ==
  ASSUME WorkTypes, Work!InvalidateDecisions
  PROVE  /\ v10' = Nothing /\ v11' = Nothing /\ v12' \in BOOLEAN /\ v9' \in 1 .. 3
         /\ ScopesWereTaken' /\ DecidedScope'
<1>1. /\ v10' = Nothing /\ v11' = Nothing /\ v12' = FALSE
      /\ v9' = IF v9 >= 3 THEN 2 ELSE v9
  BY Zenon DEF Work!InvalidateDecisions
<1>2. v9' \in 1 .. 2
  BY <1>1 DEF WorkTypes
<1>3. v12' \in BOOLEAN
  BY <1>1, Zenon
<1> QED BY <1>1, <1>2, <1>3 DEF ScopesWereTaken, DecidedScope

LEMMA CriterionSets ==
  ASSUME WorkAssumption, WorkInv, NEW c \in Criteria, NEW t \in Works \cup {Untagged},
         Work!CriterionAdd(c, t) \/ Work!CriterionUpdate(c, t)
  PROVE  WorkInv'
<1>1. /\ v13 < WorkEdits /\ v13' = v13 + 1 /\ v4' = [v4 EXCEPT ![c] = t] /\ v1' = Work!Synced(v4')
      /\ UNCHANGED <<v6, v2, v3, v7, v8>> /\ Work!InvalidateDecisions /\ v5' \subseteq v5
  BY DEF Work!CriterionAdd, Work!CriterionUpdate, Work!SetCriterion
<1>2. WorkTypes
  BY DEF WorkInv
<1>3. v4' \in Tags /\ t # Absent
  BY <1>1, <1>2 DEF WorkTypes, Tags, WorkAssumption
<1>4. v1' \in Seq(Works) /\ Distinct(v1') /\ v1' # <<>> /\ Work!Listed(v1) \subseteq Work!Listed(v1')
  BY <1>1, <1>2, <1>3, SyncedKeeps
<1>5. v5' \subseteq Work!Live(v4')
  BY <1>1, <1>2, <1>3 DEF WorkTypes, Work!Live, Tags
<1>6. v13' \in 0 .. WorkEdits
  BY <1>1, <1>2 DEF WorkTypes, WorkAssumption
<1>7. /\ v10' = Nothing /\ v11' = Nothing /\ v12' \in BOOLEAN /\ v9' \in 1 .. 3
      /\ ScopesWereTaken' /\ DecidedScope'
  BY <1>1, <1>2, InvalidatedDecisions
<1>8. WorkTypes'
  BY <1>1, <1>2, <1>3, <1>4, <1>5, <1>6, <1>7, Zenon DEF WorkTypes
<1> QED BY <1>7, <1>8 DEF WorkInv

LEMMA CriterionGoes ==
  ASSUME WorkAssumption, WorkInv, NEW c \in Criteria, Work!CriterionRemove(c)
  PROVE  WorkInv'
<1>1. /\ v13 < WorkEdits /\ v13' = v13 + 1 /\ v4' = [v4 EXCEPT ![c] = Absent] /\ v5' = v5 \ {c}
      /\ UNCHANGED <<v1, v6, v2, v3, v7, v8>> /\ Work!InvalidateDecisions
  BY DEF Work!CriterionRemove, Work!registry
<1>2. WorkTypes
  BY DEF WorkInv
<1>3. v4' \in Tags /\ v5' \subseteq Work!Live(v4')
  BY <1>1, <1>2 DEF WorkTypes, Tags, Work!Live
<1>6. v13' \in 0 .. WorkEdits
  BY <1>1, <1>2 DEF WorkTypes, WorkAssumption
<1>7. /\ v10' = Nothing /\ v11' = Nothing /\ v12' \in BOOLEAN /\ v9' \in 1 .. 3
      /\ ScopesWereTaken' /\ DecidedScope'
  BY <1>1, <1>2, InvalidatedDecisions
<1>8. WorkTypes'
  BY <1>1, <1>2, <1>3, <1>6, <1>7, Zenon DEF WorkTypes
<1> QED BY <1>7, <1>8 DEF WorkInv

LEMMA CriteriaApplied ==
  ASSUME WorkAssumption, WorkInv, NEW tags \in Tags, NEW respecified \in SUBSET Criteria,
         Work!CriteriaApply(tags, respecified)
  PROVE  WorkInv'
<1>1. /\ v13 < WorkEdits /\ v13' = v13 + 1 /\ v4' = tags /\ v1' = Work!Synced(tags)
      /\ v5' = {c \in v5 \ respecified : tags[c] = v4[c]} /\ v2' = v2 \ Work!Tagged(tags)
      /\ UNCHANGED <<v6, v3, v7, v8>> /\ Work!InvalidateDecisions
  BY DEF Work!CriteriaApply
<1>2. WorkTypes
  BY DEF WorkInv
<1>4. v1' \in Seq(Works) /\ Distinct(v1') /\ v1' # <<>> /\ Work!Listed(v1) \subseteq Work!Listed(v1')
  BY <1>1, <1>2, SyncedKeeps
<1>5. v5' \subseteq Work!Live(v4') /\ v2' \subseteq Works
  BY <1>1, <1>2 DEF WorkTypes, Work!Live, Tags
<1>6. v13' \in 0 .. WorkEdits
  BY <1>1, <1>2 DEF WorkTypes, WorkAssumption
<1>7. /\ v10' = Nothing /\ v11' = Nothing /\ v12' \in BOOLEAN /\ v9' \in 1 .. 3
      /\ ScopesWereTaken' /\ DecidedScope'
  BY <1>1, <1>2, InvalidatedDecisions
<1>8. WorkTypes'
  BY <1>1, <1>2, <1>4, <1>5, <1>6, <1>7, Zenon DEF WorkTypes
<1> QED BY <1>7, <1>8 DEF WorkInv

LEMMA CriterionJudged ==
  ASSUME WorkAssumption, WorkInv, NEW c \in Criteria, NEW ok \in BOOLEAN, Work!Verify(c, ok)
  PROVE  WorkInv'
<1>1. /\ v4[c] # Absent /\ v5' \subseteq v5 \cup {c}
      /\ UNCHANGED <<v1, v6, v2, v3, v7, v8, v4, v9, v10, v11, v13>>
  BY DEF Work!Verify, Work!registry
<1>2. WorkTypes
  BY DEF WorkInv
<1>3. v12' \in BOOLEAN
  BY <1>2, Zenon DEF Work!Verify, WorkTypes
<1>4. v5' \subseteq Work!Live(v4')
  BY <1>1, <1>2 DEF WorkTypes, Work!Live
<1>5. WorkTypes'
  BY <1>1, <1>2, <1>3, <1>4, Zenon DEF WorkTypes
<1> QED BY <1>1, <1>5 DEF WorkInv, ScopesWereTaken, DecidedScope, Work!LastOneLeft

\* Appending what is new keeps every item, once.
LEMMA AppendNew ==
  ASSUME WorkTypes, NEW more \in Seq(Works), Distinct(more),
         Work!Listed(more) \cap Work!Listed(v1) = {}
  PROVE  /\ v1 \o more \in Seq(Works) /\ Distinct(v1 \o more) /\ v1 \o more # <<>>
         /\ Work!Listed(v1) \subseteq Work!Listed(v1 \o more)
<1> DEFINE n == Len(v1)
           m == Len(more)
           both == v1 \o more
<1>1. v1 \in Seq(Works) /\ v1 # <<>> /\ Distinct(v1)
  BY DEF WorkTypes
<1>2. /\ n \in Nat /\ m \in Nat /\ DOMAIN v1 = 1 .. n /\ DOMAIN more = 1 .. m
      /\ both \in Seq(Works) /\ DOMAIN both = 1 .. n + m /\ Len(both) = n + m /\ n # 0
  BY <1>1, LenProperties, ConcatProperties, EmptySeq
<1>3. /\ \A j \in 1 .. n : both[j] = v1[j]
      /\ \A j \in n + 1 .. n + m : both[j] = more[j - n] /\ j - n \in 1 .. m
  BY <1>1, <1>2
<1> HIDE DEF both, n, m
<1>4. \A j \in 1 .. n + m : j \in 1 .. n \/ j \in n + 1 .. n + m
  BY <1>2
<1>5. \A j \in 1 .. n, k \in 1 .. m : v1[j] # more[k]
  BY <1>2 DEF Work!Listed
<1>6. Distinct(both)
  <2> SUFFICES ASSUME NEW j \in 1 .. n + m, NEW k \in 1 .. n + m, both[j] = both[k] PROVE j = k
    BY <1>2 DEF Distinct
  <2>1. CASE j \in 1 .. n /\ k \in 1 .. n
    BY <1>1, <1>2, <1>3, <2>1 DEF Distinct
  <2>2. CASE j \in n + 1 .. n + m /\ k \in n + 1 .. n + m
    <3>1. j - n \in 1 .. m /\ k - n \in 1 .. m /\ more[j - n] = more[k - n]
      BY <1>3, <2>2
    <3>2. j - n = k - n
      BY <1>2, <3>1 DEF Distinct
    <3> QED BY <1>2, <3>2
  <2>3. ~(j \in 1 .. n /\ k \in n + 1 .. n + m)
    BY <1>3, <1>5
  <2>4. ~(k \in 1 .. n /\ j \in n + 1 .. n + m)
    BY <1>3, <1>5
  <2> QED BY <1>4, <2>1, <2>2, <2>3, <2>4
<1>7. Work!Listed(v1) \subseteq Work!Listed(both)
  <2>1. 1 .. n \subseteq 1 .. n + m
    BY <1>2
  <2> QED BY <1>2, <1>3, <2>1 DEF Work!Listed
<1>8. both # <<>>
  <2>1. Len(both) # 0
    BY <1>2
  <2> QED BY <2>1, EmptySeq
<1> QED BY <1>2, <1>6, <1>7, <1>8 DEF both

LEMMA WorkSynced ==
  ASSUME WorkAssumption, WorkInv, NEW named \in SUBSET Works, Work!WorkItemsSync(named)
  PROVE  WorkInv'
<1> DEFINE derived == Work!Derived(v4, named)
           kept == IF named # {} THEN derived ELSE derived \ Work!Unwanted(v4, Work!Listed(v1) \cup derived)
           more == Work!Sorted(kept \ Work!Listed(v1))
           now  == Work!Scope(v1', v4)
<1>1. /\ v1' = v1 \o more /\ v2' = v2 \ named
      /\ Work!RevisitDecisions(Work!Scope(v1, v4), now)
      /\ UNCHANGED <<v6, v3, v4, v5, v7, v8, v13>>
  BY DEF Work!WorkItemsSync
<1>2. WorkTypes
  BY DEF WorkInv
<1>3. derived \subseteq Works
  BY <1>2, DerivedIsOfWorks DEF WorkTypes
<1>4. kept \subseteq Works
  BY <1>3
<1> HIDE DEF kept
<1>5. kept \ Work!Listed(v1) \in SUBSET Nat /\ IsFiniteSet(kept \ Work!Listed(v1))
  BY <1>4, FS_Subset DEF WorkAssumption
<1>6. /\ more \in Seq(kept \ Work!Listed(v1)) /\ Distinct(more) /\ Work!Listed(more) = kept \ Work!Listed(v1)
  BY <1>5, SortedSeqs
<1>7. more \in Seq(Works) /\ Work!Listed(more) \cap Work!Listed(v1) = {}
  BY <1>4, <1>6, SeqMonotonic
<1> HIDE DEF more
<1>8. v1' \in Seq(Works) /\ Distinct(v1') /\ v1' # <<>> /\ Work!Listed(v1) \subseteq Work!Listed(v1')
  BY <1>1, <1>2, <1>6, <1>7, AppendNew
<1> HIDE DEF now
<1>9. CASE Work!Rescoped(Work!Scope(v1, v4), now)
  <2>1. v10' = Nothing /\ v11' = Nothing /\ v9' = (IF v9 >= 3 THEN 2 ELSE v9) /\ v12' = v12
    BY <1>1, <1>9 DEF Work!RevisitDecisions
  <2>2. v9' \in 1 .. 2
    BY <1>2, <2>1 DEF WorkTypes
  <2>3. v9' \in 1 .. 3 /\ v9' # 3 /\ v2' \subseteq Works /\ v6 \subseteq Work!Listed(v1')
    BY <1>1, <1>2, <1>8, <2>2 DEF WorkTypes
  <2>4. WorkTypes'
    BY <1>1, <1>2, <1>8, <2>1, <2>3, Zenon DEF WorkTypes
  <2> QED BY <2>1, <2>3, <2>4 DEF WorkInv, ScopesWereTaken, DecidedScope
<1>10. CASE ~Work!Rescoped(Work!Scope(v1, v4), now)
  <2>1. UNCHANGED <<v9, v10, v11, v12>>
    BY <1>1, <1>10 DEF Work!RevisitDecisions, Work!decisions
  <2>2. Work!Scope(v1, v4) = now /\ (v10 # Nothing => v10.scope = now) /\ (v11 # Nothing => v11 = now)
    BY <1>10 DEF Work!Rescoped, Work!Bound
  <2>3. v2' \subseteq Works /\ v6 \subseteq Work!Listed(v1')
    BY <1>1, <1>2, <1>8 DEF WorkTypes
  <2>4. WorkTypes'
    BY <1>1, <1>2, <1>8, <2>1, <2>3, Zenon DEF WorkTypes
  <2>5. DecidedScope'
    <3>1. v9 = 3 => v10 # Nothing /\ v10.approved /\ v11 # Nothing
      BY DEF WorkInv, DecidedScope
    <3> QED BY <1>1, <2>1, <2>2, <3>1 DEF DecidedScope, now
  <2> QED BY <1>1, <2>1, <2>4, <2>5 DEF WorkInv, ScopesWereTaken
<1> QED BY <1>9, <1>10

\* What concerns neither the scope nor the decisions.
LEMMA ItemMarked ==
  ASSUME WorkAssumption, WorkInv, NEW i \in Works, NEW yes \in BOOLEAN,
         Work!WorkItemUpdate(i, yes) \/ Work!WorkItemActivate(i, yes)
  PROVE  WorkInv'
<1>1. /\ v6' \subseteq v6 \cup {i} /\ v7' \in {v7, i} /\ i \in Work!Listed(v1)
      /\ UNCHANGED <<v1, v2, v3, v8, v4, v5, v13, v9, v10, v11, v12>>
  BY DEF Work!WorkItemUpdate, Work!WorkItemActivate, Work!decisions
<1>2. WorkTypes
  BY DEF WorkInv
<1>3. v6' \subseteq Work!Listed(v1) /\ v7' \in Works \cup {Nothing}
  BY <1>1, <1>2 DEF WorkTypes
<1>4. WorkTypes'
  BY <1>1, <1>2, <1>3, Zenon DEF WorkTypes
<1> QED BY <1>1, <1>4 DEF WorkInv, ScopesWereTaken, DecidedScope, Work!LastOneLeft

\* Without the k-th entry.
Shorter(seq, k) == SubSeq(seq, 1, k - 1) \o SubSeq(seq, k + 1, Len(seq))

LEMMA RemovedAt ==
  ASSUME NEW S, NEW seq \in Seq(S), NEW k \in DOMAIN seq
  PROVE  LET rest == Shorter(seq, k)
         IN  /\ rest \in Seq(S) /\ Len(rest) = Len(seq) - 1
             /\ \A j \in 1 .. Len(seq) - 1 : rest[j] = IF j < k THEN seq[j] ELSE seq[j + 1]
<1> DEFINE n == Len(seq)
           left == SubSeq(seq, 1, k - 1)
           right == SubSeq(seq, k + 1, n)
<1>1. n \in Nat /\ DOMAIN seq = 1 .. n /\ k \in 1 .. n
  BY LenProperties
<1>2. /\ left \in Seq(S) /\ Len(left) = k - 1
      /\ \A j \in 1 .. k - 1 : left[j] = seq[j]
  BY <1>1
<1>3. /\ right \in Seq(S) /\ Len(right) = n - k
      /\ \A j \in 1 .. n - k : right[j] = seq[k + j]
  BY <1>1
<1> HIDE DEF left, right, n
<1>4. /\ left \o right \in Seq(S) /\ Len(left \o right) = n - 1
      /\ \A j \in 1 .. n - 1 : (left \o right)[j] = IF j <= k - 1 THEN left[j] ELSE right[j - (k - 1)]
  <2>1. left \in Seq(S) /\ right \in Seq(S)
    BY <1>2, <1>3
  <2>2. /\ left \o right \in Seq(S) /\ Len(left \o right) = Len(left) + Len(right)
        /\ \A j \in 1 .. Len(left) + Len(right) :
              (left \o right)[j] = IF j <= Len(left) THEN left[j] ELSE right[j - Len(left)]
    BY <2>1, ConcatProperties
  <2>3. Len(left) + Len(right) = n - 1 /\ Len(left) = k - 1
    BY <1>1, <1>2, <1>3
  <2> QED BY <2>2, <2>3
<1>5. \A j \in 1 .. n - 1 : (left \o right)[j] = IF j < k THEN seq[j] ELSE seq[j + 1]
  <2> SUFFICES ASSUME NEW j \in 1 .. n - 1 PROVE (left \o right)[j] = IF j < k THEN seq[j] ELSE seq[j + 1]
    OBVIOUS
  <2>1. CASE j < k
    <3>1. j \in 1 .. k - 1 /\ j <= k - 1
      BY <1>1, <2>1
    <3> QED BY <1>2, <1>4, <2>1, <3>1
  <2>2. CASE ~(j < k)
    <3>1. j - (k - 1) \in 1 .. n - k /\ ~(j <= k - 1) /\ k + (j - (k - 1)) = j + 1
      BY <1>1, <2>2
    <3> QED BY <1>3, <1>4, <2>2, <3>1
  <2> QED BY <2>1, <2>2
<1> QED BY <1>4, <1>5 DEF Shorter, left, right, n

\* Taking one entry out of a registry takes one item out.
LEMMA OneItemLess ==
  ASSUME NEW seq \in Seq(Works), Distinct(seq), NEW k \in DOMAIN seq,
         NEW rest, rest = Shorter(seq, k)
  PROVE  /\ rest \in Seq(Works) /\ Distinct(rest) /\ Len(rest) = Len(seq) - 1
         /\ Work!Listed(rest) = Work!Listed(seq) \ {seq[k]}
<1> DEFINE n == Len(seq)
<1>1. n \in Nat /\ DOMAIN seq = 1 .. n /\ k \in 1 .. n
  BY LenProperties
<1>2. /\ rest \in Seq(Works) /\ Len(rest) = n - 1
      /\ \A j \in 1 .. n - 1 : rest[j] = IF j < k THEN seq[j] ELSE seq[j + 1]
  BY RemovedAt
<1>3. DOMAIN rest = 1 .. n - 1
  BY <1>2, LenProperties
<1> HIDE DEF n
<1> DEFINE at(j) == IF j < k THEN j ELSE j + 1
<1>4. \A j \in 1 .. n - 1 : at(j) \in 1 .. n /\ at(j) # k /\ rest[j] = seq[at(j)]
  BY <1>1, <1>2
<1>5. \A j, l \in 1 .. n - 1 : at(j) = at(l) => j = l
  BY <1>1
<1>6. \A j \in 1 .. n : j # k => \E l \in 1 .. n - 1 : at(l) = j
  <2> SUFFICES ASSUME NEW j \in 1 .. n, j # k PROVE \E l \in 1 .. n - 1 : at(l) = j
    OBVIOUS
  <2>1. CASE j < k
    BY <1>1, <2>1
  <2>2. CASE k < j
    <3>1. j - 1 \in 1 .. n - 1 /\ at(j - 1) = j
      BY <1>1, <2>2
    <3> QED BY <3>1
  <2> QED BY <1>1, <2>1, <2>2
<1> HIDE DEF at
<1>7. Distinct(rest)
  BY <1>1, <1>3, <1>4, <1>5 DEF Distinct
<1>8. Work!Listed(rest) = Work!Listed(seq) \ {seq[k]}
  <2>1. ASSUME NEW j \in 1 .. n - 1 PROVE rest[j] \in Work!Listed(seq) \ {seq[k]}
    <3>1. rest[j] \in Work!Listed(seq)
      BY <1>1, <1>4 DEF Work!Listed
    <3>2. rest[j] # seq[k]
      BY <1>1, <1>4 DEF Distinct
    <3> QED BY <3>1, <3>2
  <2>2. ASSUME NEW j \in 1 .. n, seq[j] # seq[k] PROVE seq[j] \in Work!Listed(rest)
    <3>1. PICK l \in 1 .. n - 1 : at(l) = j
      BY <1>6, <2>2
    <3> QED BY <1>3, <1>4, <3>1 DEF Work!Listed
  <2> QED BY <1>1, <1>3, <2>1, <2>2 DEF Work!Listed
<1> QED BY <1>2, <1>7, <1>8 DEF n

\* Without an item that has no criteria the scope stays, unless one item is
\* left that had none of its own.
LEMMA ScopeWithout ==
  ASSUME NEW seq \in Seq(Works), NEW rest \in Seq(Works), NEW tags, NEW i \in Works,
         Work!Listed(rest) = Work!Listed(seq) \ {i}, i \in Work!Listed(seq), Work!Mapped(seq, tags, i) = {},
         Len(rest) = Len(seq) - 1, Len(rest) # 0
  PROVE  \/ Work!Scope(rest, tags) = Work!Scope(seq, tags)
         \/ Len(rest) = 1 /\ Work!Scope(seq, tags) = {}
<1>1. Len(seq) \in Nat /\ Len(rest) \in Nat /\ DOMAIN rest = 1 .. Len(rest)
  BY LenProperties
<1>2. \A j : seq # <<j>>
  <2>1. Len(seq) # 1
    BY <1>1
  <2> QED BY <2>1
<1>3. \A j : Work!Mapped(seq, tags, j) = {c \in Work!Live(tags) : tags[c] = j}
  BY <1>2 DEF Work!Mapped
<1>4. CASE Len(rest) # 1
  <2>1. \A j : Len(<<j>>) = 1
    OBVIOUS
  <2>2. \A j : rest # <<j>>
    BY <1>4, <2>1
  <2>3. \A j : Work!Mapped(rest, tags, j) = {c \in Work!Live(tags) : tags[c] = j}
    BY <2>2 DEF Work!Mapped
  <2> QED BY <1>3, <2>3 DEF Work!Scope
<1>5. CASE Len(rest) = 1
  <2>1. Work!Listed(rest) = {rest[1]}
    BY <1>1, <1>5 DEF Work!Listed
  <2>2. \A j \in Work!Scope(seq, tags) : j = rest[1] /\ j \in Work!Listed(rest) /\ Work!Mapped(seq, tags, j) # {}
    BY <2>1 DEF Work!Scope
  <2>3. ASSUME NEW j \in Work!Scope(seq, tags) PROVE Work!Scope(rest, tags) = {rest[1]}
    <3>1. Work!Mapped(rest, tags, j) # {}
      BY <1>3, <2>2 DEF Work!Mapped
    <3> QED BY <2>1, <2>2, <3>1 DEF Work!Scope
  <2>4. CASE Work!Scope(seq, tags) # {}
    <3>1. Work!Scope(seq, tags) = {rest[1]}
      BY <2>2, <2>4
    <3> QED BY <2>3, <2>4, <3>1
  <2> QED BY <1>5, <2>4
<1> QED BY <1>4, <1>5

LEMMA ItemRemoved ==
  ASSUME WorkAssumption, WorkInv, NEW i \in Works, Work!WorkItemRemove(i)
  PROVE  WorkInv'
<1>1. /\ i \in Work!Listed(v1) /\ Work!Mapped(v1, v4, i) = {} /\ v1' # <<>>
      /\ v6' = v6 \ {i} /\ v2' = v2 \cup {i}
      /\ UNCHANGED <<v3, v7, v8, v4, v5, v13, v9, v10, v11, v12>>
  BY DEF Work!WorkItemRemove, Work!decisions
<1>2. PICK k \in DOMAIN v1 : v1[k] = i /\ v1' = Shorter(v1, k)
  BY DEF Work!WorkItemRemove, Shorter
<1>3. WorkTypes /\ v1 \in Seq(Works) /\ Distinct(v1)
  BY DEF WorkInv, WorkTypes
<1>4. /\ v1' \in Seq(Works) /\ Distinct(v1') /\ Len(v1') = Len(v1) - 1
      /\ Work!Listed(v1') = Work!Listed(v1) \ {i}
  BY <1>2, <1>3, OneItemLess
<1>5. Len(v1') # 0 /\ Len(v1) \in Nat
  BY <1>1, <1>3, <1>4, EmptySeq, LenProperties
<1>6. v6' \subseteq Work!Listed(v1') /\ v2' \subseteq Works
  BY <1>1, <1>3, <1>4 DEF WorkTypes
<1>7. WorkTypes'
  BY <1>1, <1>3, <1>4, <1>6, Zenon DEF WorkTypes
<1>8. \/ Work!Scope(v1', v4) = Work!Scope(v1, v4)
      \/ Len(v1') = 1 /\ Work!Scope(v1, v4) = {}
  BY <1>1, <1>3, <1>4, <1>5, ScopeWithout
<1>9. DecidedScope'
  <2> SUFFICES ASSUME v9 = 3
               PROVE  /\ v10 # Nothing /\ v10.approved /\ v11 # Nothing
                      /\ (v10.scope = Work!Scope(v1', v4) /\ v11 = Work!Scope(v1', v4)) \/ Work!LastOneLeft'
    BY <1>1 DEF DecidedScope
  <2>1. /\ v10 # Nothing /\ v10.approved /\ v11 # Nothing
        /\ (v10.scope = Work!Scope(v1, v4) /\ v11 = Work!Scope(v1, v4)) \/ Work!LastOneLeft
    BY DEF WorkInv, DecidedScope
  <2>2. ~Work!LastOneLeft
    BY <1>4, <1>5 DEF Work!LastOneLeft
  <2>3. CASE Work!Scope(v1', v4) = Work!Scope(v1, v4)
    BY <2>1, <2>2, <2>3
  <2>4. CASE Len(v1') = 1 /\ Work!Scope(v1, v4) = {}
    <3>1. Len(v1') = 1 /\ v2' # {} /\ v10' # Nothing /\ v10'.scope = {}
      BY <1>1, <2>1, <2>2, <2>4
    <3>2. Work!LastOneLeft'
      BY <3>1 DEF Work!LastOneLeft
    <3> QED BY <2>1, <3>2
  <2> QED BY <1>8, <2>3, <2>4
<1> QED BY <1>1, <1>7, <1>9 DEF WorkInv, ScopesWereTaken

LEMMA TrancheApproved ==
  ASSUME WorkAssumption, WorkInv, NEW order \in Work!Orders, Work!TrancheApprove(order)
  PROVE  WorkInv'
<1>1. /\ v9 = 1 /\ v1' = order /\ v6' = {} /\ v8' = order /\ v7' = order[1]
      /\ UNCHANGED <<v2, v3, v4, v5, v13, v9, v10, v11, v12>>
  BY DEF Work!TrancheApprove, Work!decisions
<1>2. PICK n \in 1 .. Len(Proposed) :
        order \in [1 .. n -> Work!Listed(Proposed)] /\ Work!Cardinality(Work!Listed(order)) = n
  BY DEF Work!Orders
<1>3. WorkTypes /\ n \in Nat /\ n # 0
  BY <1>2, LenProperties DEF WorkInv, WorkAssumption
<1>4. Work!Listed(Proposed) \subseteq Works
  BY DEF WorkAssumption, Work!Listed
<1>5. order \in [1 .. n -> Works] /\ DOMAIN order = 1 .. n
  BY <1>2, <1>4
<1>6. order \in Seq(Works)
  BY <1>3, <1>5, SeqDef
<1>7. order \in Surjection(1 .. n, Work!Listed(order))
  BY <1>5 DEF Surjection, Work!Listed
<1>8. IsFiniteSet(1 .. n) /\ Cardinality(1 .. n) = n
  BY <1>3, FS_Interval
<1>9. Work!Cardinality(Work!Listed(order)) = Cardinality(Work!Listed(order))
  BY Zenon DEF Cardinality, Work!Cardinality
<1>10. order \in Injection(1 .. n, Work!Listed(order))
  BY <1>2, <1>7, <1>8, <1>9, FS_Surjection
<1>11. Distinct(order)
  BY <1>5, <1>10 DEF Injection, IsInjective, Distinct
<1>12. order # <<>> /\ order[1] \in Works
  BY <1>3, <1>5
<1>13. WorkTypes'
  <2>1. v6' \subseteq Work!Listed(v1') /\ v7' \in Works \cup {Nothing}
    BY <1>1, <1>12
  <2> QED BY <1>1, <1>3, <1>6, <1>11, <1>12, <2>1, Zenon DEF WorkTypes
<1> QED BY <1>1, <1>13 DEF WorkInv, ScopesWereTaken, DecidedScope

LEMMA WorkDecides ==
  ASSUME WorkAssumption, WorkInv,
         \/ \E ok \in BOOLEAN : Work!RecordDesignReview(ok)
         \/ Work!DesignApprove \/ Work!DesignReject
  PROVE  WorkInv'
<1> DEFINE now == Work!Scope(v1, v4)
<1>1. WorkTypes /\ now \in SUBSET Works
  BY ScopeIsOfWorks DEF WorkInv, WorkTypes
<1>2. \E seq \in Seq(Works) : now = Work!Scope(seq, v4)
  BY DEF WorkInv, WorkTypes
<1>3. CASE \E ok \in BOOLEAN : Work!RecordDesignReview(ok)
  <2>1. PICK ok \in BOOLEAN : Work!RecordDesignReview(ok)
    BY <1>3
  <2> DEFINE d == [scope |-> now, approved |-> ok]
  <2>2. /\ v9 = 2 /\ v10' = d /\ v11' = IF ok THEN v11 ELSE Nothing
        /\ UNCHANGED <<v1, v6, v2, v3, v7, v8, v4, v5, v13, v9, v12>>
    BY <2>1 DEF Work!RecordDesignReview, Work!registry
  <2>3. d \in [scope : SUBSET Works, approved : BOOLEAN] /\ d.scope = now
    BY <1>1
  <2> HIDE DEF d, now
  <2>4. v11' = Nothing \/ v11' = v11
    BY <2>2
  <2>5. WorkTypes'
    BY <1>1, <2>2, <2>3, <2>4, Zenon DEF WorkTypes
  <2>6. ScopesWereTaken'
    BY <1>2, <2>2, <2>3, <2>4, Zenon DEF WorkInv, ScopesWereTaken
  <2> QED BY <2>2, <2>5, <2>6 DEF WorkInv, DecidedScope
<1>4. CASE Work!DesignApprove
  <2>1. v11' = now /\ UNCHANGED <<v1, v6, v2, v3, v7, v8, v4, v5, v13, v9, v10, v12>>
    BY <1>4 DEF Work!DesignApprove, Work!registry
  <2> HIDE DEF now
  <2>2. WorkTypes'
    BY <1>1, <2>1, Zenon DEF WorkTypes
  <2>3. ScopesWereTaken'
    BY <1>2, <2>1 DEF WorkInv, ScopesWereTaken
  <2>4. v11' # Nothing
    BY <1>1, <2>1 DEF WorkAssumption
  <2>5. DecidedScope'
    BY <2>1, <2>4 DEF now, WorkInv, DecidedScope, Work!LastOneLeft
  <2> QED BY <2>2, <2>3, <2>5 DEF WorkInv
<1>5. CASE Work!DesignReject
  <2>1. v9 = 2 /\ v10' = Nothing /\ UNCHANGED <<v1, v6, v2, v3, v7, v8, v4, v5, v13, v9, v11, v12>>
    BY <1>5 DEF Work!DesignReject, Work!registry
  <2>2. WorkTypes'
    BY <1>1, <2>1, Zenon DEF WorkTypes
  <2> QED BY <2>1, <2>2 DEF WorkInv, ScopesWereTaken, DecidedScope
<1> QED BY <1>3, <1>4, <1>5

LEMMA WorkMoves ==
  ASSUME WorkAssumption, WorkInv, Work!Advance \/ Work!DeploymentApprove \/ Work!DeploymentRevoke
  PROVE  WorkInv'
<1>1. WorkTypes
  BY DEF WorkInv
<1>2. CASE Work!Advance
  <2>1. /\ v9 < 3 /\ v9' = v9 + 1 /\ (v9 = 2 => Work!DesignCurrent)
        /\ UNCHANGED <<v1, v6, v2, v3, v7, v8, v4, v5, v13, v10, v11, v12>>
    BY <1>2 DEF Work!Advance, Work!registry
  <2>2. v9' \in 1 .. 3 /\ (v9' = 3 => v9 = 2)
    BY <1>1, <2>1 DEF WorkTypes
  <2>3. WorkTypes'
    BY <1>1, <2>1, <2>2, Zenon DEF WorkTypes
  <2>4. DecidedScope'
    BY <2>1, <2>2, CurrentScopes DEF DecidedScope
  <2> QED BY <2>1, <2>3, <2>4 DEF WorkInv, ScopesWereTaken
<1>3. CASE Work!DeploymentApprove \/ Work!DeploymentRevoke
  <2>1. UNCHANGED <<v1, v6, v2, v3, v7, v8, v4, v5, v13, v9, v10, v11>>
    BY <1>3 DEF Work!DeploymentApprove, Work!DeploymentRevoke, Work!registry
  <2>2. v12' \in BOOLEAN
    BY <1>3, Zenon DEF Work!DeploymentApprove, Work!DeploymentRevoke
  <2>3. WorkTypes'
    BY <1>1, <2>1, <2>2, Zenon DEF WorkTypes
  <2> QED BY <2>1, <2>3 DEF WorkInv, ScopesWereTaken, DecidedScope, Work!LastOneLeft
<1> QED BY <1>2, <1>3

LEMMA WorkNext == ASSUME WorkAssumption, WorkInv, Work!Next PROVE WorkInv'
<1>1. CASE \E c \in Criteria : Work!CriterionRemove(c) \/ \E ok \in BOOLEAN : Work!Verify(c, ok)
  BY <1>1, CriterionGoes, CriterionJudged
<1>2. CASE \E c \in Criteria, t \in Works \cup {Untagged} : Work!CriterionAdd(c, t) \/ Work!CriterionUpdate(c, t)
  BY <1>2, CriterionSets
<1>3. CASE \E tags \in Tags, respecified \in SUBSET Criteria : Work!CriteriaApply(tags, respecified)
  BY <1>3, CriteriaApplied
<1>4. CASE \E named \in SUBSET Works : Work!WorkItemsSync(named)
  BY <1>4, WorkSynced
<1>5. CASE \E i \in Works, yes \in BOOLEAN : Work!WorkItemUpdate(i, yes) \/ Work!WorkItemActivate(i, yes)
  BY <1>5, ItemMarked
<1>6. CASE \E i \in Works : Work!WorkItemRemove(i)
  BY <1>6, ItemRemoved
<1>7. CASE \E order \in Work!Orders : Work!TrancheApprove(order)
  BY <1>7, TrancheApproved
<1>8. CASE \/ \E ok \in BOOLEAN : Work!RecordDesignReview(ok)
           \/ Work!DesignApprove \/ Work!DesignReject
  BY <1>8, WorkDecides
<1>9. CASE Work!Advance \/ Work!DeploymentApprove \/ Work!DeploymentRevoke
  BY <1>9, WorkMoves
<1> QED BY <1>1, <1>2, <1>3, <1>4, <1>5, <1>6, <1>7, <1>8, <1>9 DEF Work!Next, Tags

LEMMA WorkStutter == ASSUME WorkInv, UNCHANGED Shared PROVE WorkInv'
BY DEF Shared, WorkInv, WorkTypes, ScopesWereTaken, DecidedScope, Work!LastOneLeft

\* Appending adds nothing but what is appended.
LEMMA AppendedItems ==
  ASSUME NEW seq \in Seq(Works), NEW more \in Seq(Works)
  PROVE  Work!Listed(seq \o more) \subseteq Work!Listed(seq) \cup Work!Listed(more)
<1> DEFINE both == seq \o more
<1>1. both \in Seq(Works) /\ Len(both) = Len(seq) + Len(more)
  BY ConcatProperties
<1>2. DOMAIN both = 1 .. Len(seq) + Len(more) /\ Len(seq) \in Nat /\ Len(more) \in Nat
      /\ DOMAIN seq = 1 .. Len(seq) /\ DOMAIN more = 1 .. Len(more)
  BY <1>1, LenProperties
<1>3. \A j \in 1 .. Len(seq) + Len(more) : both[j] = IF j <= Len(seq) THEN seq[j] ELSE more[j - Len(seq)]
  BY ConcatProperties
<1> HIDE DEF both
<1>4. ASSUME NEW j \in DOMAIN both PROVE both[j] \in Work!Listed(seq) \cup Work!Listed(more)
  <2>1. CASE j <= Len(seq)
    <3>1. j \in DOMAIN seq /\ both[j] = seq[j]
      BY <1>2, <1>3, <2>1
    <3> QED BY <3>1 DEF Work!Listed
  <2>2. CASE ~(j <= Len(seq))
    <3>1. j - Len(seq) \in DOMAIN more /\ both[j] = more[j - Len(seq)]
      BY <1>2, <1>3, <2>2
    <3> QED BY <3>1 DEF Work!Listed
  <2> QED BY <2>1, <2>2
<1>5. Work!Listed(both) \subseteq Work!Listed(seq) \cup Work!Listed(more)
  BY <1>4 DEF Work!Listed
<1> QED BY <1>5 DEF both

\* What synchronizing adds is derived, and what is derived is no tombstone.
LEMMA SyncedIsDerived ==
  ASSUME WorkAssumption, WorkTypes, NEW tags \in Tags, NEW i \in v2 \ Work!Listed(v1),
         i \in Work!Listed(Work!Synced(tags))
  PROVE  i \in Work!Tagged(tags)
<1> DEFINE set == Work!Listed(v1) \cup (Work!Derived(tags, {}) \ Work!Unwanted(tags, Work!Listed(v1)))
<1>1. set \subseteq Works
  <2>1. Work!Listed(v1) \subseteq Works
    BY DEF Work!Listed, WorkTypes
  <2> QED BY <2>1, DerivedIsOfWorks
<1>2. set \in SUBSET Nat /\ IsFiniteSet(set)
  BY <1>1, FS_Subset DEF WorkAssumption
<1>3. Work!Listed(Work!Synced(tags)) = set
  BY <1>2, SortedSeqs DEF Work!Synced
<1>4. i \in Work!Derived(tags, {})
  BY <1>3
<1> QED BY <1>4 DEF Work!Derived, Work!Buried

LEMMA RemovedStaysStep == ASSUME WorkAssumption, WorkInv, Work!Next PROVE Work!RemovedStays
<1> SUFFICES ASSUME NEW i \in v2 \ Work!Listed(v1), i \in Work!Listed(v1')
             PROVE  i \in Work!Tagged(v4') \/ i \notin v2' \/ v1' = v8'
  BY DEF Work!RemovedStays
<1>1. WorkTypes
  BY DEF WorkInv
<1>2. v1' # v1
  OBVIOUS
<1>3. CASE \E c \in Criteria, t \in Works \cup {Untagged} : Work!CriterionAdd(c, t) \/ Work!CriterionUpdate(c, t)
  <2>1. PICK c \in Criteria, t \in Works \cup {Untagged} : Work!CriterionAdd(c, t) \/ Work!CriterionUpdate(c, t)
    BY <1>3
  <2>2. v4' = [v4 EXCEPT ![c] = t] /\ v1' = Work!Synced(v4')
    BY <2>1 DEF Work!CriterionAdd, Work!CriterionUpdate, Work!SetCriterion
  <2>3. v4' \in Tags
    BY <1>1, <2>2 DEF WorkTypes, Tags
  <2> QED BY <1>1, <2>2, <2>3, SyncedIsDerived
<1>4. CASE \E tags \in Tags, respecified \in SUBSET Criteria : Work!CriteriaApply(tags, respecified)
  <2>1. PICK tags \in Tags : v1' = Work!Synced(tags) /\ v4' = tags
    BY <1>4 DEF Work!CriteriaApply
  <2> QED BY <1>1, <2>1, SyncedIsDerived
<1>5. CASE \E named \in SUBSET Works : Work!WorkItemsSync(named)
  <2>1. PICK named \in SUBSET Works : Work!WorkItemsSync(named)
    BY <1>5
  <2> DEFINE derived == Work!Derived(v4, named)
             kept == IF named # {} THEN derived ELSE derived \ Work!Unwanted(v4, Work!Listed(v1) \cup derived)
             more == Work!Sorted(kept \ Work!Listed(v1))
  <2>2. v1' = v1 \o more /\ v2' = v2 \ named /\ v4' = v4
    BY <2>1 DEF Work!WorkItemsSync
  <2>3. kept \subseteq derived /\ derived \subseteq Works
    BY <1>1, DerivedIsOfWorks DEF WorkTypes
  <2> HIDE DEF kept
  <2>4. kept \ Work!Listed(v1) \in SUBSET Nat /\ IsFiniteSet(kept \ Work!Listed(v1))
    BY <2>3, FS_Subset DEF WorkAssumption
  <2>5. more \in Seq(kept \ Work!Listed(v1)) /\ Work!Listed(more) = kept \ Work!Listed(v1)
    BY <2>4, SortedSeqs
  <2>6. more \in Seq(Works)
    BY <2>3, <2>5, SeqMonotonic
  <2> HIDE DEF more
  <2>7. i \in Work!Listed(v1) \cup Work!Listed(more)
    BY <1>1, <2>2, <2>6, AppendedItems DEF WorkTypes
  <2>8. i \in derived
    BY <2>3, <2>5, <2>7
  <2> QED BY <2>2, <2>8 DEF Work!Derived, Work!Buried
<1>6. CASE \E j \in Works : Work!WorkItemRemove(j)
  <2>1. PICK j \in Works, k \in DOMAIN v1 : v1[k] = j /\ v1' = Shorter(v1, k)
    BY <1>6 DEF Work!WorkItemRemove, Shorter
  <2>2. Work!Listed(v1') = Work!Listed(v1) \ {v1[k]}
    BY <1>1, <2>1, OneItemLess DEF WorkTypes
  <2> QED BY <2>2
<1>7. CASE \E order \in Work!Orders : Work!TrancheApprove(order)
  BY <1>7 DEF Work!TrancheApprove
<1>8. CASE \E c \in Criteria : Work!CriterionRemove(c) \/ \E ok \in BOOLEAN : Work!Verify(c, ok)
  BY <1>2, <1>8 DEF Work!CriterionRemove, Work!Verify, Work!registry
<1>9. CASE \E j \in Works, yes \in BOOLEAN : Work!WorkItemUpdate(j, yes) \/ Work!WorkItemActivate(j, yes)
  BY <1>2, <1>9 DEF Work!WorkItemUpdate, Work!WorkItemActivate
<1>10. CASE \/ \E ok \in BOOLEAN : Work!RecordDesignReview(ok)
            \/ Work!DesignApprove \/ Work!DesignReject
  BY <1>2, <1>10 DEF Work!RecordDesignReview, Work!DesignApprove, Work!DesignReject, Work!registry
<1>11. CASE Work!Advance \/ Work!DeploymentApprove \/ Work!DeploymentRevoke
  BY <1>2, <1>11 DEF Work!Advance, Work!DeploymentApprove, Work!DeploymentRevoke, Work!registry
<1> QED BY <1>3, <1>4, <1>5, <1>6, <1>7, <1>8, <1>9, <1>10, <1>11 DEF Work!Next, Tags

LEMMA RemovedStaysStutter == ASSUME UNCHANGED Shared PROVE Work!RemovedStays
BY DEF Shared, Work!RemovedStays, Work!Listed
-----------------------------------------------------------------------------
(* Mission Control: a click is bound to the page it was made on.             *)

ClicksAssumption(stamps, designs, marks) ==
  /\ stamps \in Nat /\ designs \in Nat \ {0} /\ marks \in Nat /\ PageLimit \in Nat /\ Commands # {}

RequestRecord(designs) ==
  [command : Commands, version : 0 .. designs,
   state : {"awaiting_approval", "accepted", "declined", "cancelled", "invalidated"}]

Pending(seq) == {r \in DOMAIN seq : seq[r].state \in {"awaiting_approval", "accepted"}}

RequestsTyped(designs, seq) ==
  /\ seq \in Seq(RequestRecord(designs))
  /\ IsFiniteSet(Pending(seq)) /\ Cardinality(Pending(seq)) <= 1

MissionTypes(stamps, designs, marks) ==
  /\ v1 \in 0 .. stamps /\ v2 \in {2, 5, 7}
  /\ v3 \in [version : 1 .. designs, reviewed : 0 .. designs, approved : 0 .. designs]
  /\ v4 \in [used : 0 .. PageLimit, granted : BOOLEAN, tier : BOOLEAN]
  /\ v5 \in BOOLEAN /\ v6 \in 0 .. marks /\ v7 \in BOOLEAN
  /\ v7 => v2 = 7
  /\ v8 \in [on : BOOLEAN, logged : BOOLEAN] /\ v9 \in BOOLEAN
  /\ RequestsTyped(designs, v10)

\* But for the banner's kinds, what a thread is about to do is what its page
\* showed, of the state the page showed.
ClicksBound ==
  /\ v12 = [t \in Threads |-> v12[t]]
  /\ \A t \in Threads :
        v12[t] # Nothing /\ v12[t].kind \notin {"design_approve", "design_review_authorize", "deployment_approve"} =>
           /\ v12[t].page = v12[t].stamp
           /\ v12[t].request \in DOMAIN v10 \cup {0}
           /\ v12[t].request \in DOMAIN v10 => v10[v12[t].request].command = v12[t].command

MissionInv(stamps, designs, marks) == MissionTypes(stamps, designs, marks) /\ ClicksBound

LEMMA MissionKeeps ==
  ASSUME NEW stamps, NEW designs, NEW marks, MissionInv(stamps, designs, marks)
  PROVE  Mission(stamps, designs, marks)!TypeOK
<1>1. Mission(stamps, designs, marks)!Cardinality(Pending(v10)) = Cardinality(Pending(v10))
  BY Zenon DEF Cardinality, Mission!Cardinality
<1>2. MissionTypes(stamps, designs, marks)
  BY Zenon DEF MissionInv
<1> QED BY <1>1, <1>2, Zenon DEF MissionTypes, RequestsTyped, RequestRecord, Pending, Mission!TypeOK, Mission!Versions

\* Requests are only added, and only their state changes.
RequestsKept ==
  /\ DOMAIN v10 \subseteq DOMAIN v10' /\ 0 \notin DOMAIN v10'
  /\ \A r \in DOMAIN v10 : v10'[r].command = v10[r].command

LEMMA RequestChanges ==
  ASSUME NEW designs \in Nat, RequestsTyped(designs, v10), NEW r \in Pending(v10),
         NEW state \in {"awaiting_approval", "accepted", "declined", "cancelled", "invalidated"},
         v10' = [v10 EXCEPT ![r].state = state]
  PROVE  RequestsTyped(designs, v10') /\ RequestsKept
<1>1. v10 \in Seq(RequestRecord(designs)) /\ Len(v10) \in Nat /\ DOMAIN v10 = 1 .. Len(v10) /\ r \in DOMAIN v10
  BY LenProperties DEF RequestsTyped, Pending
<1>2. v10[r] \in RequestRecord(designs)
  BY <1>1
<1> DEFINE new == [v10[r] EXCEPT !.state = state]
<1>3. new \in RequestRecord(designs) /\ new.command = v10[r].command
  BY <1>2 DEF RequestRecord
<1>4. v10' = [v10 EXCEPT ![r] = new]
  OBVIOUS
<1> HIDE DEF new
<1>5. /\ v10' \in Seq(RequestRecord(designs)) /\ DOMAIN v10' = DOMAIN v10
      /\ \A s \in DOMAIN v10 : v10'[s] = IF s = r THEN new ELSE v10[s]
  BY <1>1, <1>3, <1>4
<1>6. Pending(v10') \subseteq Pending(v10)
  BY <1>5 DEF Pending
<1>7. IsFiniteSet(Pending(v10')) /\ Cardinality(Pending(v10')) <= Cardinality(Pending(v10))
      /\ Cardinality(Pending(v10)) \in Nat /\ Cardinality(Pending(v10')) \in Nat
  BY <1>6, FS_Subset, FS_CardinalityType DEF RequestsTyped
<1>8. Cardinality(Pending(v10')) <= 1
  BY <1>7 DEF RequestsTyped
<1>9. RequestsKept
  BY <1>1, <1>3, <1>5 DEF RequestsKept
<1> QED BY <1>5, <1>7, <1>8, <1>9 DEF RequestsTyped

LEMMA RequestAdded ==
  ASSUME NEW designs \in Nat, RequestsTyped(designs, v10), Pending(v10) = {},
         NEW new \in RequestRecord(designs), v10' = Append(v10, new)
  PROVE  RequestsTyped(designs, v10') /\ RequestsKept
<1> DEFINE n == Len(v10)
<1>1. v10 \in Seq(RequestRecord(designs)) /\ n \in Nat /\ DOMAIN v10 = 1 .. n
  BY LenProperties DEF RequestsTyped
<1>2. /\ v10' \in Seq(RequestRecord(designs)) /\ DOMAIN v10' = 1 .. n + 1
      /\ \A s \in 1 .. n : v10'[s] = v10[s]
  BY <1>1, AppendProperties, LenProperties
<1> HIDE DEF n
<1>3. 1 .. n \subseteq 1 .. n + 1 /\ 0 \notin 1 .. n + 1
  BY <1>1
<1>4. Pending(v10') \subseteq {n + 1}
  <2> SUFFICES ASSUME NEW s \in Pending(v10'), s # n + 1 PROVE FALSE
    OBVIOUS
  <2>1. s \in 1 .. n
    BY <1>1, <1>2 DEF Pending
  <2> QED BY <1>1, <1>2, <2>1 DEF Pending
<1>5. IsFiniteSet({n + 1}) /\ Cardinality({n + 1}) = 1
  BY FS_Singleton
<1>6. IsFiniteSet(Pending(v10')) /\ Cardinality(Pending(v10')) <= 1
  BY <1>4, <1>5, FS_Subset
<1> QED BY <1>1, <1>2, <1>3, <1>6 DEF RequestsTyped, RequestsKept

LEMMA RequestsStay ==
  ASSUME NEW designs, RequestsTyped(designs, v10), UNCHANGED v10
  PROVE  RequestsTyped(designs, v10') /\ RequestsKept
<1>1. DOMAIN v10 = 1 .. Len(v10) /\ Len(v10) \in Nat
  BY LenProperties DEF RequestsTyped
<1> QED BY <1>1 DEF RequestsKept

\* Threads that have run their command are idle again.
ThreadsFree == v12' = v12 \/ \E t \in Threads : v12' = [v12 EXCEPT ![t] = Nothing]

LEMMA ClicksStayBound ==
  ASSUME ClicksBound, RequestsKept, ThreadsFree
  PROVE  ClicksBound'
<1>1. v12 = [t \in Threads |-> v12[t]]
  BY DEF ClicksBound
<1>2. v12' = [t \in Threads |-> v12'[t]] /\ \A t \in Threads : v12'[t] \in {v12[t], Nothing}
  <2>1. CASE v12' = v12
    BY <1>1, <2>1
  <2>2. CASE \E t \in Threads : v12' = [v12 EXCEPT ![t] = Nothing]
    <3>1. PICK t \in Threads : v12' = [v12 EXCEPT ![t] = Nothing]
      BY <2>2
    <3>2. v12' = [s \in Threads |-> IF s = t THEN Nothing ELSE v12[s]]
      BY <1>1, <3>1
    <3> QED BY <3>2
  <2> QED BY <2>1, <2>2 DEF ThreadsFree
<1>3. ASSUME NEW t \in Threads, v12'[t] # Nothing,
             v12'[t].kind \notin {"design_approve", "design_review_authorize", "deployment_approve"}
      PROVE  /\ v12'[t].page = v12'[t].stamp
             /\ v12'[t].request \in DOMAIN v10' \cup {0}
             /\ v12'[t].request \in DOMAIN v10' => v10'[v12'[t].request].command = v12'[t].command
  <2>1. v12'[t] = v12[t]
    BY <1>2, <1>3
  <2>2. /\ v12[t].page = v12[t].stamp
        /\ v12[t].request \in DOMAIN v10 \cup {0}
        /\ v12[t].request \in DOMAIN v10 => v10[v12[t].request].command = v12[t].command
    BY <1>3, <2>1 DEF ClicksBound
  <2> QED BY <2>1, <2>2 DEF RequestsKept
<1> QED BY <1>2, <1>3 DEF ClicksBound

LEMMA RunsFree ==
  ASSUME ClicksBound, NEW stamps, NEW designs, NEW marks, NEW t \in Threads \cup {Nothing}, NEW kind,
         Mission(stamps, designs, marks)!Runs(t, kind)
  PROVE  /\ ThreadsFree
         /\ \A s \in Threads : v12'[s] # v12[s] =>
                s = t /\ t # Nothing /\ v12[s] # Nothing /\ v12[s].kind = kind
<1>1. CASE t = Nothing
  BY <1>1 DEF Mission!Runs, ThreadsFree
<1>2. CASE t # Nothing
  <2>1. t \in Threads /\ v12[t] # Nothing /\ v12[t].kind = kind /\ v12' = [v12 EXCEPT ![t] = Nothing]
    BY <1>2 DEF Mission!Runs
  <2>2. v12' = [s \in Threads |-> IF s = t THEN Nothing ELSE v12[s]]
    BY <2>1 DEF ClicksBound
  <2>3. \A s \in Threads : v12'[s] # v12[s] => s = t
    BY <2>2
  <2>4. ThreadsFree
    BY <2>1, Zenon DEF ThreadsFree
  <2> QED BY <1>2, <2>1, <2>3, <2>4
<1> QED BY <1>1, <1>2

LEMMA StampedTyped ==
  ASSUME NEW stamps \in Nat, NEW designs, NEW marks, v1 \in 0 .. stamps,
         Mission(stamps, designs, marks)!Stamped
  PROVE  v1' \in 0 .. stamps
BY DEF Mission!Stamped

\* A click keeps what its page showed, of a state that is on the page.
LEMMA ClickIsBound ==
  ASSUME ClicksBound, NEW stamps, NEW designs, NEW marks, RequestsTyped(designs, v10), NEW t \in Threads, NEW kind,
         Mission(stamps, designs, marks)!Click(t, kind) \/ Mission(stamps, designs, marks)!ClickBanner(t, kind)
  PROVE  ClicksBound' /\ UNCHANGED <<v1, v2, v3, v4, v5, v6, v7, v8, v9, v10>>
<1> DEFINE new == Mission(stamps, designs, marks)!Checked(kind)
           pending == Pending(v10)
           banner == {"design_approve", "design_review_authorize", "deployment_approve"}
<1>1. /\ v12[t] = Nothing /\ v12' = [v12 EXCEPT ![t] = new]
      /\ UNCHANGED <<v1, v2, v3, v4, v5, v6, v7, v8, v9, v10>>
  BY DEF Mission!Click, Mission!ClickBanner, Mission!Idle, Mission!core
<1>2. /\ new.kind = kind /\ new.command = v11.binding.command /\ new.page = v11.binding.stamp /\ new.stamp = v1
      /\ new.request = IF pending = {} THEN 0 ELSE CHOOSE r \in pending : TRUE
  BY DEF Mission!Checked, Mission!LiveRequest, Mission!Live, Pending
<1>3. kind \notin banner => v11.binding = Mission(stamps, designs, marks)!Binding
  BY DEF Mission!Click, Mission!ClickBanner, Mission!Legacy
<1>4. /\ Mission(stamps, designs, marks)!Binding.stamp = v1
      /\ Mission(stamps, designs, marks)!Binding.command =
            IF pending = {} THEN Nothing ELSE v10[CHOOSE r \in pending : TRUE].command
  BY DEF Mission!Binding, Mission!Shown, Mission!Live, Pending
<1> HIDE DEF new
<1>5. pending # {} => (CHOOSE r \in pending : TRUE) \in DOMAIN v10 /\ new.request = CHOOSE r \in pending : TRUE
  BY <1>2 DEF Pending
<1>6. 0 \notin DOMAIN v10
  <2>1. DOMAIN v10 = 1 .. Len(v10) /\ Len(v10) \in Nat
    BY LenProperties DEF RequestsTyped
  <2> QED BY <2>1
<1> HIDE DEF pending
<1>7. kind \notin banner =>
         /\ new.page = new.stamp /\ new.request \in DOMAIN v10 \cup {0}
         /\ new.request \in DOMAIN v10 => v10[new.request].command = new.command
  BY <1>2, <1>3, <1>4, <1>5, <1>6
<1>8. v12' = [s \in Threads |-> IF s = t THEN new ELSE v12[s]]
  BY <1>1 DEF ClicksBound
<1>9. ASSUME NEW s \in Threads, v12'[s] # Nothing, v12'[s].kind \notin banner
      PROVE  /\ v12'[s].page = v12'[s].stamp
             /\ v12'[s].request \in DOMAIN v10' \cup {0}
             /\ v12'[s].request \in DOMAIN v10' => v10'[v12'[s].request].command = v12'[s].command
  <2>1. CASE s = t
    BY <1>1, <1>2, <1>7, <1>8, <1>9, <2>1
  <2>2. CASE s # t
    BY <1>1, <1>8, <1>9, <2>2 DEF ClicksBound
  <2> QED BY <2>1, <2>2
<1>10. v12' = [s \in Threads |-> v12'[s]]
  BY <1>8
<1> QED BY <1>1, <1>9, <1>10 DEF ClicksBound

\* A finished click that is none of the three kinds, or changed nothing.
LEMMA HarmlessClicks ==
  ASSUME NEW stamps, NEW designs, NEW marks,
         \A s \in Threads : v12'[s] # v12[s] /\ v12[s] # Nothing =>
             \/ v12[s].kind \notin {"run_reopen", "regression_accept", "design_reject"}
             \/ UNCHANGED <<v2, v3, v4, v5, v6, v7, v8, v9, v10>>
  PROVE  Mission(stamps, designs, marks)!LateClickDoesNoMore
<1>1. ASSUME NEW s \in Threads, NEW kind \in {"run_reopen", "regression_accept", "design_reject"},
             Mission(stamps, designs, marks)!Finishes(s, kind)
      PROVE  FALSE
  <2>1. /\ v12[s] # Nothing /\ v12'[s] = Nothing /\ v12[s].kind = kind
        /\ ~UNCHANGED <<v2, v3, v4, v5, v6, v7, v8, v9, v10>>
    BY <1>1 DEF Mission!Finishes, Mission!core
  <2> QED BY <2>1
<1> QED BY <1>1 DEF Mission!LateClickDoesNoMore

\* The decisions about the design and its budget.
LEMMA DesignClicks ==
  ASSUME NEW stamps, NEW designs, NEW marks, ClicksAssumption(stamps, designs, marks),
         MissionInv(stamps, designs, marks), NEW t \in Threads \cup {Nothing},
         \/ Mission(stamps, designs, marks)!DesignApprove(t) \/ Mission(stamps, designs, marks)!DesignReject(t)
         \/ Mission(stamps, designs, marks)!DesignReviewAuthorize(t)
         \/ Mission(stamps, designs, marks)!DesignReviewEscalate(t)
  PROVE  MissionInv(stamps, designs, marks)' /\ Mission(stamps, designs, marks)!LateClickDoesNoMore
<1>1. /\ MissionTypes(stamps, designs, marks) /\ ClicksBound /\ stamps \in Nat /\ designs \in Nat \ {0}
      /\ RequestsTyped(designs, v10)
  BY DEF MissionInv, MissionTypes, ClicksAssumption
<1>2. /\ v1 \in 0 .. stamps
      /\ v3 \in [version : 1 .. designs, reviewed : 0 .. designs, approved : 0 .. designs]
      /\ v4 \in [used : 0 .. PageLimit, granted : BOOLEAN, tier : BOOLEAN]
  BY <1>1 DEF MissionTypes
<1>3. v3.version \in 0 .. designs
  BY <1>1, <1>2
<1>4. CASE Mission(stamps, designs, marks)!DesignApprove(t)
  <2>1. /\ Mission(stamps, designs, marks)!Runs(t, "design_approve") /\ v3' = [v3 EXCEPT !.approved = v3.version]
        /\ v1' = v1 \/ Mission(stamps, designs, marks)!Stamped
        /\ UNCHANGED <<v2, v4, v5, v6, v7, v8, v9, v10>>
    BY <1>4 DEF Mission!DesignApprove
  <2>2. v1' \in 0 .. stamps
    BY <1>1, <1>2, <2>1, StampedTyped
  <2>3. v3' \in [version : 1 .. designs, reviewed : 0 .. designs, approved : 0 .. designs]
    BY <1>2, <1>3, <2>1
  <2>4. RequestsTyped(designs, v10') /\ RequestsKept
    BY <1>1, <2>1, RequestsStay
  <2>5. /\ ThreadsFree
        /\ \A s \in Threads : v12'[s] # v12[s] => v12[s].kind = "design_approve"
    BY <1>1, <2>1, RunsFree
  <2>6. ClicksBound'
    BY <1>1, <2>4, <2>5, ClicksStayBound
  <2>7. MissionTypes(stamps, designs, marks)'
    BY <1>1, <2>1, <2>2, <2>3, <2>4, Zenon DEF MissionTypes
  <2>8. \A s \in Threads : v12'[s] # v12[s] => v12[s].kind \notin {"run_reopen", "regression_accept", "design_reject"}
    BY <2>5
  <2>9. Mission(stamps, designs, marks)!LateClickDoesNoMore
    BY <2>8, HarmlessClicks
  <2> QED BY <2>6, <2>7, <2>9, Zenon DEF MissionInv
<1>5. CASE Mission(stamps, designs, marks)!DesignReject(t)
  <2>1. /\ Mission(stamps, designs, marks)!Runs(t, "design_reject") /\ v3' = [v3 EXCEPT !.reviewed = 0, !.approved = 0]
        /\ Mission(stamps, designs, marks)!Stamped /\ v3.approved = 0
        /\ UNCHANGED <<v2, v4, v5, v6, v7, v8, v9, v10>>
    BY <1>5 DEF Mission!DesignReject, Mission!Rejectable
  <2>2. v1' \in 0 .. stamps
    BY <1>1, <1>2, <2>1, StampedTyped
  <2>3. v3' \in [version : 1 .. designs, reviewed : 0 .. designs, approved : 0 .. designs]
    <3>1. v3' = [version |-> v3.version, reviewed |-> 0, approved |-> 0] /\ 0 \in 0 .. designs
      BY <1>1, <1>2, <2>1
    <3> QED BY <1>2, <3>1
  <2>4. RequestsTyped(designs, v10') /\ RequestsKept
    BY <1>1, <2>1, RequestsStay
  <2>5. /\ ThreadsFree
        /\ \A s \in Threads : v12'[s] # v12[s] => v12[s].kind = "design_reject"
    BY <1>1, <2>1, RunsFree
  <2>6. ClicksBound'
    BY <1>1, <2>4, <2>5, ClicksStayBound
  <2>7. MissionTypes(stamps, designs, marks)'
    BY <1>1, <2>1, <2>2, <2>3, <2>4, Zenon DEF MissionTypes
  <2>8. ASSUME NEW s \in Threads, NEW kind \in {"run_reopen", "regression_accept"},
               Mission(stamps, designs, marks)!Finishes(s, kind)
        PROVE  FALSE
    BY <2>5, <2>8 DEF Mission!Finishes
  <2>9. Mission(stamps, designs, marks)!LateClickDoesNoMore
    BY <2>1, <2>8 DEF Mission!LateClickDoesNoMore
  <2> QED BY <2>6, <2>7, <2>9, Zenon DEF MissionInv
<1>6. CASE Mission(stamps, designs, marks)!DesignReviewAuthorize(t) \/ Mission(stamps, designs, marks)!DesignReviewEscalate(t)
  <2>1. PICK kind \in {"design_review_authorize", "design_review_escalate"} :
           Mission(stamps, designs, marks)!Runs(t, kind)
    BY <1>6 DEF Mission!DesignReviewAuthorize, Mission!DesignReviewEscalate
  <2>2. /\ v4' = [v4 EXCEPT !.granted = TRUE] \/ v4' = [v4 EXCEPT !.tier = TRUE]
        /\ Mission(stamps, designs, marks)!Stamped
        /\ UNCHANGED <<v2, v3, v5, v6, v7, v8, v9, v10>>
    BY <1>6 DEF Mission!DesignReviewAuthorize, Mission!DesignReviewEscalate
  <2>3. v1' \in 0 .. stamps
    BY <1>1, <1>2, <2>2, StampedTyped
  <2>4. v4' \in [used : 0 .. PageLimit, granted : BOOLEAN, tier : BOOLEAN]
    BY <1>2, <2>2
  <2>5. RequestsTyped(designs, v10') /\ RequestsKept
    BY <1>1, <2>2, RequestsStay
  <2>6. /\ ThreadsFree
        /\ \A s \in Threads : v12'[s] # v12[s] => v12[s].kind = kind
    BY <1>1, <2>1, RunsFree
  <2>7. ClicksBound'
    BY <1>1, <2>5, <2>6, ClicksStayBound
  <2>8. MissionTypes(stamps, designs, marks)'
    BY <1>1, <2>2, <2>3, <2>4, <2>5, Zenon DEF MissionTypes
  <2>9. \A s \in Threads : v12'[s] # v12[s] => v12[s].kind \notin {"run_reopen", "regression_accept", "design_reject"}
    BY <2>6
  <2>10. Mission(stamps, designs, marks)!LateClickDoesNoMore
    BY <2>9, HarmlessClicks
  <2> QED BY <2>7, <2>8, <2>10, Zenon DEF MissionInv
<1> QED BY <1>4, <1>5, <1>6

\* The other buttons, but for those about a regression and reopening.
LEMMA OtherClicks ==
  ASSUME NEW stamps, NEW designs, NEW marks, ClicksAssumption(stamps, designs, marks),
         MissionInv(stamps, designs, marks), NEW t \in Threads \cup {Nothing},
         \/ Mission(stamps, designs, marks)!ReviewCapOverride(t) \/ Mission(stamps, designs, marks)!DeploymentGate(t)
         \/ Mission(stamps, designs, marks)!HumanPauseStart(t) \/ Mission(stamps, designs, marks)!HumanPauseEnd(t)
  PROVE  MissionInv(stamps, designs, marks)' /\ Mission(stamps, designs, marks)!LateClickDoesNoMore
<1>1. /\ MissionTypes(stamps, designs, marks) /\ ClicksBound /\ stamps \in Nat /\ marks \in Nat
      /\ RequestsTyped(designs, v10)
  BY DEF MissionInv, MissionTypes, ClicksAssumption
<1>2. v1 \in 0 .. stamps /\ v6 \in 0 .. marks
  BY <1>1 DEF MissionTypes
<1>3. PICK kind \in {"review_cap_override", "deployment_approve", "pause", "deployment_hold", "resume"} :
         Mission(stamps, designs, marks)!Runs(t, kind)
  BY DEF Mission!ReviewCapOverride, Mission!DeploymentGate, Mission!HumanPauseStart, Mission!HumanPauseEnd
<1>4. UNCHANGED <<v2, v3, v4, v9, v10>>
  BY DEF Mission!ReviewCapOverride, Mission!DeploymentGate, Mission!HumanPauseStart, Mission!HumanPauseEnd
<1>5. RequestsTyped(designs, v10') /\ RequestsKept
  BY <1>1, <1>4, RequestsStay
<1>6. /\ ThreadsFree
      /\ \A s \in Threads : v12'[s] # v12[s] => v12[s].kind = kind
  BY <1>1, <1>3, RunsFree
<1>7. ClicksBound'
  BY <1>1, <1>5, <1>6, ClicksStayBound
<1>8. \A s \in Threads : v12'[s] # v12[s] => v12[s].kind \notin {"run_reopen", "regression_accept", "design_reject"}
  BY <1>6
<1>9. Mission(stamps, designs, marks)!LateClickDoesNoMore
  BY <1>8, HarmlessClicks
<1>10. MissionTypes(stamps, designs, marks)'
  <2>1. CASE Mission(stamps, designs, marks)!ReviewCapOverride(t)
    <3>1. v6 < marks /\ v6' = v6 + 1 /\ UNCHANGED <<v1, v2, v7, v8, v9>>
      BY <2>1 DEF Mission!ReviewCapOverride
    <3>2. v6' \in 0 .. marks
      BY <1>1, <1>2, <3>1
    <3>3. v5' = FALSE
      BY <2>1, Zenon DEF Mission!ReviewCapOverride
    <3> QED BY <1>1, <1>4, <1>5, <3>1, <3>2, <3>3, Zenon DEF MissionTypes
  <2>2. CASE Mission(stamps, designs, marks)!DeploymentGate(t)
    <3>1. v2 = 7 /\ Mission(stamps, designs, marks)!Stamped /\ UNCHANGED <<v5, v6, v8, v9>>
      BY <2>2 DEF Mission!DeploymentGate
    <3>2. v7' = TRUE
      BY <2>2, Zenon DEF Mission!DeploymentGate
    <3>3. v1' \in 0 .. stamps
      BY <1>1, <1>2, <3>1, StampedTyped
    <3> QED BY <1>1, <1>4, <1>5, <3>1, <3>2, <3>3, Zenon DEF MissionTypes
  <2>3. CASE Mission(stamps, designs, marks)!HumanPauseStart(t) \/ Mission(stamps, designs, marks)!HumanPauseEnd(t)
    <3>1. /\ v8' \in {[on |-> TRUE, logged |-> TRUE], [on |-> FALSE, logged |-> FALSE]}
          /\ UNCHANGED <<v1, v5, v6, v7, v9>>
      BY <2>3 DEF Mission!HumanPauseStart, Mission!HumanPauseEnd
    <3>2. \A yes \in BOOLEAN : [on |-> yes, logged |-> yes] \in [on : BOOLEAN, logged : BOOLEAN]
      OBVIOUS
    <3>3. v8' \in [on : BOOLEAN, logged : BOOLEAN]
      BY <3>1, <3>2, Zenon
    <3> QED BY <1>1, <1>4, <1>5, <3>1, <3>3, Zenon DEF MissionTypes
  <2> QED BY <2>1, <2>2, <2>3
<1> QED BY <1>7, <1>9, <1>10, Zenon DEF MissionInv

\* The request a thread decides is the one its page showed.
LEMMA RegressionClicks ==
  ASSUME NEW stamps, NEW designs, NEW marks, ClicksAssumption(stamps, designs, marks),
         MissionInv(stamps, designs, marks), NEW t \in Threads \cup {Nothing},
         \/ \E decision \in {"accepted", "declined"} : Mission(stamps, designs, marks)!RegressionDecide(t, decision)
         \/ Mission(stamps, designs, marks)!RegressionCancel(t)
  PROVE  MissionInv(stamps, designs, marks)' /\ Mission(stamps, designs, marks)!LateClickDoesNoMore
<1>1. /\ MissionTypes(stamps, designs, marks) /\ ClicksBound /\ stamps \in Nat /\ designs \in Nat
      /\ RequestsTyped(designs, v10) /\ v1 \in 0 .. stamps
  BY DEF MissionInv, MissionTypes, ClicksAssumption
<1>2. /\ Mission(stamps, designs, marks)!Stamped /\ UNCHANGED <<v2, v3, v4, v5, v6, v7, v8, v9>>
  BY DEF Mission!RegressionDecide, Mission!RegressionCancel
<1>3. PICK kind \in {"regression_accept", "regression_decline", "regression_cancel"},
           r \in Pending(v10), state \in {"accepted", "declined", "cancelled", "invalidated"} :
         /\ Mission(stamps, designs, marks)!Runs(t, kind)
         /\ v10' = [v10 EXCEPT ![r].state = state]
         /\ t # Nothing => r = v12[t].request
         /\ state = "accepted" => kind = "regression_accept"
  <2>1. CASE Mission(stamps, designs, marks)!RegressionCancel(t)
    <3>1. PICK r \in Mission(stamps, designs, marks)!Live :
             /\ r \in Mission(stamps, designs, marks)!Named(t, IF t = Nothing THEN "" ELSE "regression_cancel")
             /\ v10' = [v10 EXCEPT ![r].state = "cancelled"]
      BY <2>1 DEF Mission!RegressionCancel, Mission!SetRequest
    <3>2. r \in Pending(v10)
      BY <3>1 DEF Mission!Live, Pending
    <3>3. t # Nothing => r = v12[t].request
      BY <3>1 DEF Mission!Named
    <3>4. Mission(stamps, designs, marks)!Runs(t, "regression_cancel")
      BY <2>1 DEF Mission!RegressionCancel
    <3> QED BY <3>1, <3>2, <3>3, <3>4
  <2>2. CASE \E decision \in {"accepted", "declined"} : Mission(stamps, designs, marks)!RegressionDecide(t, decision)
    <3>1. PICK decision \in {"accepted", "declined"} : Mission(stamps, designs, marks)!RegressionDecide(t, decision)
      BY <2>2
    <3> DEFINE kind == IF decision = "accepted" THEN "regression_accept" ELSE "regression_decline"
    <3>2. /\ Mission(stamps, designs, marks)!Runs(t, kind)
          /\ \E r \in Mission(stamps, designs, marks)!Named(t, IF t = Nothing THEN "" ELSE kind)
                        \cap Mission(stamps, designs, marks)!Awaiting :
                Mission(stamps, designs, marks)!SetRequest(r,
                    IF v10[r].version # v3.version THEN "invalidated" ELSE decision)
      BY <3>1 DEF Mission!RegressionDecide
    <3>3. PICK r \in Mission(stamps, designs, marks)!Awaiting, state \in {decision, "invalidated"} :
             /\ r \in Mission(stamps, designs, marks)!Named(t, IF t = Nothing THEN "" ELSE kind)
             /\ v10' = [v10 EXCEPT ![r].state = state]
      BY <3>2 DEF Mission!SetRequest
    <3>4. r \in Pending(v10)
      BY <3>3 DEF Mission!Awaiting, Pending
    <3>5. kind # "" /\ (state = "accepted" => kind = "regression_accept")
          /\ kind \in {"regression_accept", "regression_decline", "regression_cancel"}
      OBVIOUS
    <3>6. t # Nothing => r = v12[t].request
      BY <3>3, <3>5 DEF Mission!Named
    <3> HIDE DEF kind
    <3> QED BY <3>2, <3>3, <3>4, <3>5, <3>6
  <2> QED BY <2>1, <2>2
<1>4. RequestsTyped(designs, v10') /\ RequestsKept
  BY <1>1, <1>3, RequestChanges
<1>5. /\ ThreadsFree
      /\ \A s \in Threads : v12'[s] # v12[s] => s = t /\ t # Nothing /\ v12[s] # Nothing /\ v12[s].kind = kind
  BY <1>1, <1>3, RunsFree
<1>6. ClicksBound'
  BY <1>1, <1>4, <1>5, ClicksStayBound
<1>7. v1' \in 0 .. stamps
  BY <1>1, <1>2, StampedTyped
<1>8. MissionTypes(stamps, designs, marks)'
  BY <1>1, <1>2, <1>4, <1>7, Zenon DEF MissionTypes
<1>9. ASSUME NEW s \in Threads, NEW q \in DOMAIN v10, Mission(stamps, designs, marks)!Finishes(s, "regression_accept"),
             v10'[q].state = "accepted", v10[q].state # "accepted"
      PROVE  v10[q].command = v12[s].command
  <2>1. v12[s] # Nothing /\ v12[s].kind = "regression_accept" /\ s = t /\ t # Nothing
    BY <1>5, <1>9 DEF Mission!Finishes
  <2>2. q = r
    BY <1>1, <1>3, <1>9 DEF RequestsTyped
  <2>3. q = v12[s].request
    BY <1>3, <2>1, <2>2
  <2> QED BY <1>1, <2>1, <2>3 DEF ClicksBound
<1>10. ASSUME NEW s \in Threads, NEW k \in {"run_reopen", "design_reject"},
              Mission(stamps, designs, marks)!Finishes(s, k)
       PROVE  FALSE
  BY <1>5, <1>10 DEF Mission!Finishes
<1>11. Mission(stamps, designs, marks)!LateClickDoesNoMore
  BY <1>9, <1>10 DEF Mission!LateClickDoesNoMore
<1> QED BY <1>6, <1>8, <1>11, Zenon DEF MissionInv

\* A closure is reopened only from a page of the state that still stands.
LEMMA ReopenClicks ==
  ASSUME NEW stamps, NEW designs, NEW marks, ClicksAssumption(stamps, designs, marks),
         MissionInv(stamps, designs, marks), NEW t \in Threads \cup {Nothing},
         Mission(stamps, designs, marks)!RunReopen(t)
  PROVE  MissionInv(stamps, designs, marks)' /\ Mission(stamps, designs, marks)!LateClickDoesNoMore
<1>1. /\ MissionTypes(stamps, designs, marks) /\ ClicksBound /\ stamps \in Nat
      /\ RequestsTyped(designs, v10) /\ v1 \in 0 .. stamps
  BY DEF MissionInv, MissionTypes, ClicksAssumption
<1>2. /\ Mission(stamps, designs, marks)!Runs(t, "run_reopen") /\ (t # Nothing => v12[t].stamp = v1)
      /\ Mission(stamps, designs, marks)!Stamped
      /\ UNCHANGED <<v2, v3, v4, v5, v6, v7, v8, v10>>
  BY DEF Mission!RunReopen, Mission!Expected
<1>3. v9' = FALSE
  BY Zenon DEF Mission!RunReopen
<1>4. RequestsTyped(designs, v10') /\ RequestsKept
  BY <1>1, <1>2, RequestsStay
<1>5. /\ ThreadsFree
      /\ \A s \in Threads : v12'[s] # v12[s] => s = t /\ t # Nothing /\ v12[s] # Nothing /\ v12[s].kind = "run_reopen"
  BY <1>1, <1>2, RunsFree
<1>6. ClicksBound'
  BY <1>1, <1>4, <1>5, ClicksStayBound
<1>7. v1' \in 0 .. stamps
  BY <1>1, <1>2, StampedTyped
<1>8. MissionTypes(stamps, designs, marks)'
  BY <1>1, <1>2, <1>3, <1>4, <1>7, Zenon DEF MissionTypes
<1>9. ASSUME NEW s \in Threads, Mission(stamps, designs, marks)!Finishes(s, "run_reopen")
      PROVE  v12[s].page = v1
  <2>1. v12[s] # Nothing /\ v12[s].kind = "run_reopen" /\ s = t /\ t # Nothing
    BY <1>5, <1>9 DEF Mission!Finishes
  <2>2. v12[s].page = v12[s].stamp
    BY <1>1, <2>1 DEF ClicksBound
  <2> QED BY <1>2, <2>1, <2>2
<1>10. ASSUME NEW s \in Threads, NEW k \in {"regression_accept", "design_reject"},
              Mission(stamps, designs, marks)!Finishes(s, k)
       PROVE  FALSE
  BY <1>5, <1>10 DEF Mission!Finishes
<1>11. Mission(stamps, designs, marks)!LateClickDoesNoMore
  BY <1>9, <1>10 DEF Mission!LateClickDoesNoMore
<1> QED BY <1>6, <1>8, <1>11, Zenon DEF MissionInv

\* Clicks that are checked, refused or die, and pages that are shown.
LEMMA PageSteps ==
  ASSUME NEW stamps, NEW designs, NEW marks, ClicksAssumption(stamps, designs, marks),
         MissionInv(stamps, designs, marks),
         \/ Mission(stamps, designs, marks)!Refresh
         \/ \E t \in Threads, kind \in Mission(stamps, designs, marks)!Kinds :
               Mission(stamps, designs, marks)!Click(t, kind) \/ Mission(stamps, designs, marks)!ClickBanner(t, kind)
         \/ \E t \in Threads : Mission(stamps, designs, marks)!Refused(t)
         \/ \E t \in Threads \cup {Nothing} : Mission(stamps, designs, marks)!RunCloseFromPage(t)
  PROVE  MissionInv(stamps, designs, marks)' /\ Mission(stamps, designs, marks)!LateClickDoesNoMore
<1>1. /\ MissionTypes(stamps, designs, marks) /\ ClicksBound /\ RequestsTyped(designs, v10)
  BY DEF MissionInv, MissionTypes
<1>2. UNCHANGED <<v1, v2, v3, v4, v5, v6, v7, v8, v9, v10>>
  BY DEF Mission!Refresh, Mission!Click, Mission!ClickBanner, Mission!Refused, Mission!RunCloseFromPage, Mission!core
<1>3. RequestsTyped(designs, v10') /\ RequestsKept
  BY <1>1, <1>2, RequestsStay
<1>4. MissionTypes(stamps, designs, marks)'
  BY <1>1, <1>2, <1>3, Zenon DEF MissionTypes
<1>5. Mission(stamps, designs, marks)!LateClickDoesNoMore
  BY <1>2, HarmlessClicks
<1>6. CASE \E t \in Threads, kind \in Mission(stamps, designs, marks)!Kinds :
              Mission(stamps, designs, marks)!Click(t, kind) \/ Mission(stamps, designs, marks)!ClickBanner(t, kind)
  <2>1. ClicksBound'
    BY <1>1, <1>6, ClickIsBound
  <2> QED BY <1>4, <1>5, <2>1, Zenon DEF MissionInv
<1>7. CASE \/ Mission(stamps, designs, marks)!Refresh
           \/ \E t \in Threads : Mission(stamps, designs, marks)!Refused(t)
           \/ \E t \in Threads \cup {Nothing} : Mission(stamps, designs, marks)!RunCloseFromPage(t)
  <2>1. ThreadsFree
    BY <1>7 DEF ThreadsFree, Mission!Refresh, Mission!Refused, Mission!RunCloseFromPage, Mission!Runs
  <2>2. ClicksBound'
    BY <1>1, <1>3, <2>1, ClicksStayBound
  <2> QED BY <1>4, <1>5, <2>2, Zenon DEF MissionInv
<1> QED BY <1>6, <1>7

\* The rest of the crew finishes no click.
LEMMA CrewSteps ==
  ASSUME NEW stamps, NEW designs, NEW marks, ClicksAssumption(stamps, designs, marks),
         MissionInv(stamps, designs, marks),
         \/ Mission(stamps, designs, marks)!DeploymentRevoke \/ Mission(stamps, designs, marks)!RunClose
         \/ \E approves \in BOOLEAN : Mission(stamps, designs, marks)!RecordDesignReview(approves)
         \/ Mission(stamps, designs, marks)!Revise \/ Mission(stamps, designs, marks)!Advance
         \/ Mission(stamps, designs, marks)!ReviewCapReached
         \/ \E command \in Commands : Mission(stamps, designs, marks)!RegressionRequest(command)
  PROVE  MissionInv(stamps, designs, marks)' /\ Mission(stamps, designs, marks)!LateClickDoesNoMore
<1>1. /\ MissionTypes(stamps, designs, marks) /\ ClicksBound /\ stamps \in Nat /\ designs \in Nat \ {0}
      /\ RequestsTyped(designs, v10) /\ v1 \in 0 .. stamps /\ PageLimit \in Nat
  BY DEF MissionInv, MissionTypes, ClicksAssumption
<1>2. v12' = v12
  BY DEF Mission!DeploymentRevoke, Mission!RunClose, Mission!RecordDesignReview, Mission!Revise, Mission!Advance,
         Mission!ReviewCapReached, Mission!RegressionRequest
<1>3. v1' = v1 \/ Mission(stamps, designs, marks)!Stamped
  BY DEF Mission!DeploymentRevoke, Mission!RunClose, Mission!RecordDesignReview, Mission!Revise, Mission!Advance,
         Mission!ReviewCapReached, Mission!RegressionRequest
<1>4. v1' \in 0 .. stamps
  BY <1>1, <1>3, StampedTyped
<1>5. Mission(stamps, designs, marks)!LateClickDoesNoMore
  BY <1>2, HarmlessClicks
<1>6. ThreadsFree
  BY <1>2 DEF ThreadsFree
<1>7. SUFFICES MissionTypes(stamps, designs, marks)' /\ RequestsKept
  <2>1. ASSUME MissionTypes(stamps, designs, marks)' /\ RequestsKept PROVE ClicksBound'
    BY <1>1, <1>6, <2>1, ClicksStayBound
  <2> QED BY <1>5, <2>1, Zenon DEF MissionInv
<1>8. UNCHANGED v10 => RequestsTyped(designs, v10') /\ RequestsKept
  BY <1>1, RequestsStay
<1>9. CASE Mission(stamps, designs, marks)!DeploymentRevoke
  <2>1. UNCHANGED <<v2, v3, v4, v5, v6, v8, v9, v10>>
    BY <1>9 DEF Mission!DeploymentRevoke
  <2>2. v7' = FALSE
    BY <1>9, Zenon DEF Mission!DeploymentRevoke
  <2> QED BY <1>1, <1>4, <1>8, <2>1, <2>2, Zenon DEF MissionTypes
<1>10. CASE Mission(stamps, designs, marks)!RunClose
  <2>1. v8' = [v8 EXCEPT !.on = FALSE] /\ UNCHANGED <<v2, v3, v4, v5, v6, v7, v10>>
    BY <1>10 DEF Mission!RunClose
  <2>2. v9' = TRUE
    BY <1>10, Zenon DEF Mission!RunClose
  <2>3. v8' \in [on : BOOLEAN, logged : BOOLEAN]
    BY <1>1, <2>1 DEF MissionTypes
  <2> QED BY <1>1, <1>4, <1>8, <2>1, <2>2, <2>3, Zenon DEF MissionTypes
<1>11. CASE \E approves \in BOOLEAN : Mission(stamps, designs, marks)!RecordDesignReview(approves)
  <2>1. PICK approves \in BOOLEAN : Mission(stamps, designs, marks)!RecordDesignReview(approves)
    BY <1>11
  <2> DEFINE used == IF Mission(stamps, designs, marks)!OverLimit THEN PageLimit ELSE v4.used + 1
             d == [version |-> v3.version, reviewed |-> IF approves THEN v3.version ELSE 0,
                   approved |-> IF approves THEN v3.approved ELSE 0]
  <2>2. /\ v3' = [v3 EXCEPT !.reviewed = IF approves THEN v3.version ELSE 0,
                            !.approved = IF approves THEN @ ELSE 0]
        /\ v4' = [used |-> used, granted |-> FALSE, tier |-> FALSE]
        /\ UNCHANGED <<v2, v5, v6, v7, v8, v9, v10>>
    BY <2>1 DEF Mission!RecordDesignReview
  <2>3. /\ v3 \in [version : 1 .. designs, reviewed : 0 .. designs, approved : 0 .. designs]
        /\ v4 \in [used : 0 .. PageLimit, granted : BOOLEAN, tier : BOOLEAN]
    BY <1>1 DEF MissionTypes
  <2>4. v3' = d
    BY <2>2, <2>3
  <2>5. v3.version \in 1 .. designs /\ v3.version \in 0 .. designs /\ v3.approved \in 0 .. designs /\ 0 \in 0 .. designs
    BY <1>1, <2>3
  <2>6. v3' \in [version : 1 .. designs, reviewed : 0 .. designs, approved : 0 .. designs]
    BY <2>4, <2>5
  <2>7. used \in 0 .. PageLimit
    <3>1. v4.used \in 0 .. PageLimit
      BY <2>3
    <3> QED BY <1>1, <3>1 DEF Mission!OverLimit
  <2> HIDE DEF used
  <2>8. v4' \in [used : 0 .. PageLimit, granted : BOOLEAN, tier : BOOLEAN]
    BY <2>2, <2>7
  <2> QED BY <1>1, <1>4, <1>8, <2>2, <2>6, <2>8, Zenon DEF MissionTypes
<1>12. CASE Mission(stamps, designs, marks)!Revise
  <2>1. /\ v3.version < designs /\ v3' = [version |-> v3.version + 1, reviewed |-> 0, approved |-> 0]
        /\ v2' = 2 /\ UNCHANGED <<v4, v5, v6, v8, v9, v10>>
    BY <1>12 DEF Mission!Revise
  <2>2. v7' = FALSE
    BY <1>12, Zenon DEF Mission!Revise
  <2>3. v3.version \in 1 .. designs
    BY <1>1 DEF MissionTypes
  <2>4. v3.version + 1 \in 1 .. designs /\ 0 \in 0 .. designs
    BY <1>1, <2>1, <2>3
  <2>5. v3' \in [version : 1 .. designs, reviewed : 0 .. designs, approved : 0 .. designs] /\ v2' \in {2, 5, 7}
    BY <2>1, <2>4
  <2> QED BY <1>1, <1>4, <1>8, <2>1, <2>2, <2>5, Zenon DEF MissionTypes
<1>13. CASE Mission(stamps, designs, marks)!Advance
  <2>1. v2' \in {5, 7} /\ v2 \in {2, 5} /\ UNCHANGED <<v3, v4, v5, v6, v7, v8, v9, v10>>
    BY <1>13 DEF Mission!Advance
  <2>2. v2 # 7 /\ v2' \in {2, 5, 7}
    BY <2>1
  <2>3. ~v7
    BY <1>1, <2>2 DEF MissionTypes
  <2> QED BY <1>1, <1>4, <1>8, <2>1, <2>2, <2>3, Zenon DEF MissionTypes
<1>14. CASE Mission(stamps, designs, marks)!ReviewCapReached
  <2>1. UNCHANGED <<v2, v3, v4, v6, v7, v8, v9, v10>>
    BY <1>14 DEF Mission!ReviewCapReached
  <2>2. v5' = TRUE
    BY <1>14, Zenon DEF Mission!ReviewCapReached
  <2> QED BY <1>1, <1>4, <1>8, <2>1, <2>2, Zenon DEF MissionTypes
<1>15. CASE \E command \in Commands : Mission(stamps, designs, marks)!RegressionRequest(command)
  <2>1. PICK command \in Commands : Mission(stamps, designs, marks)!RegressionRequest(command)
    BY <1>15
  <2> DEFINE new == [command |-> command, version |-> v3.version, state |-> "awaiting_approval"]
  <2>2. /\ Pending(v10) = {} /\ v10' = Append(v10, new) /\ UNCHANGED <<v2, v3, v4, v5, v6, v7, v8, v9>>
    BY <2>1 DEF Mission!RegressionRequest, Mission!Live, Pending
  <2>3. v3.version \in 1 .. designs
    BY <1>1 DEF MissionTypes
  <2>4. v3.version \in 0 .. designs
    BY <1>1, <2>3
  <2>5. new \in RequestRecord(designs)
    BY <2>4 DEF RequestRecord
  <2> HIDE DEF new
  <2>6. RequestsTyped(designs, v10') /\ RequestsKept
    BY <1>1, <2>2, <2>5, RequestAdded
  <2> QED BY <1>1, <1>4, <2>2, <2>6, Zenon DEF MissionTypes
<1> QED BY <1>9, <1>10, <1>11, <1>12, <1>13, <1>14, <1>15

LEMMA MissionStarts ==
  ASSUME NEW stamps, NEW designs, NEW marks, ClicksAssumption(stamps, designs, marks),
         Mission(stamps, designs, marks)!Init
  PROVE  MissionInv(stamps, designs, marks)
<1>1. /\ stamps \in Nat /\ designs \in Nat \ {0} /\ marks \in Nat /\ PageLimit \in Nat /\ Commands # {}
  BY DEF ClicksAssumption
<1>2. PICK reviewed \in {0, 1} :
         /\ v3 = [version |-> 1, reviewed |-> reviewed, approved |-> IF v2 = 2 THEN 0 ELSE 1]
         /\ v4 = [used |-> IF reviewed > PageLimit THEN PageLimit ELSE reviewed, granted |-> FALSE, tier |-> FALSE]
  BY DEF Mission!Init
<1>3. /\ v1 = 0 /\ v2 \in {2, 5, 7} /\ v6 = 0 /\ v8 = [on |-> FALSE, logged |-> FALSE]
      /\ v12 = [t \in Threads |-> Nothing]
  BY DEF Mission!Init
<1>4. v5 = FALSE /\ v7 = FALSE /\ v9 \in {FALSE, v2 = 5}
  BY Zenon DEF Mission!Init
<1>5. v9 \in BOOLEAN
  BY <1>4
<1>6. v3 \in [version : 1 .. designs, reviewed : 0 .. designs, approved : 0 .. designs]
  BY <1>1, <1>2
<1>7. v4 \in [used : 0 .. PageLimit, granted : BOOLEAN, tier : BOOLEAN]
  <2>1. (IF reviewed > PageLimit THEN PageLimit ELSE reviewed) \in 0 .. PageLimit
    BY <1>1
  <2> QED BY <1>2, <2>1
<1>8. v8 \in [on : BOOLEAN, logged : BOOLEAN] /\ v1 \in 0 .. stamps /\ v6 \in 0 .. marks
  BY <1>1, <1>3
<1>9. RequestsTyped(designs, v10)
  <2>1. CASE v2 # 7
    <3>1. v10 = <<>>
      BY <2>1 DEF Mission!Init
    <3>2. Pending(v10) = {} /\ v10 \in Seq(RequestRecord(designs))
      BY <3>1 DEF Pending
    <3> QED BY <3>2, FS_EmptySet DEF RequestsTyped
  <2>2. CASE v2 = 7
    <3> DEFINE new == [command |-> CHOOSE c \in Commands : TRUE, version |-> 1, state |-> "awaiting_approval"]
    <3>1. v10 = <<new>>
      BY <2>2 DEF Mission!Init
    <3>2. new \in RequestRecord(designs)
      BY <1>1 DEF RequestRecord
    <3> HIDE DEF new
    <3>3. v10 \in Seq(RequestRecord(designs)) /\ Pending(v10) \subseteq {1}
      BY <3>1, <3>2 DEF Pending
    <3>4. IsFiniteSet({1}) /\ Cardinality({1}) = 1
      BY FS_Singleton
    <3>5. IsFiniteSet(Pending(v10)) /\ Cardinality(Pending(v10)) <= 1
      BY <3>3, <3>4, FS_Subset
    <3> QED BY <3>3, <3>5 DEF RequestsTyped
  <2> QED BY <2>1, <2>2
<1>10. MissionTypes(stamps, designs, marks)
  BY <1>3, <1>4, <1>5, <1>6, <1>7, <1>8, <1>9, Zenon DEF MissionTypes
<1>11. ClicksBound
  BY <1>3 DEF ClicksBound
<1> QED BY <1>10, <1>11, Zenon DEF MissionInv

LEMMA MissionNext ==
  ASSUME NEW stamps, NEW designs, NEW marks, ClicksAssumption(stamps, designs, marks),
         MissionInv(stamps, designs, marks), Mission(stamps, designs, marks)!Next
  PROVE  MissionInv(stamps, designs, marks)' /\ Mission(stamps, designs, marks)!LateClickDoesNoMore
<1> DEFINE Clicked(t) ==
             \/ Mission(stamps, designs, marks)!DesignApprove(t) \/ Mission(stamps, designs, marks)!DesignReject(t)
             \/ Mission(stamps, designs, marks)!DesignReviewAuthorize(t)
             \/ Mission(stamps, designs, marks)!DesignReviewEscalate(t)
           Clicked2(t) ==
             \/ Mission(stamps, designs, marks)!ReviewCapOverride(t) \/ Mission(stamps, designs, marks)!DeploymentGate(t)
             \/ Mission(stamps, designs, marks)!HumanPauseStart(t) \/ Mission(stamps, designs, marks)!HumanPauseEnd(t)
           Clicked3(t) ==
             \/ \E decision \in {"accepted", "declined"} : Mission(stamps, designs, marks)!RegressionDecide(t, decision)
             \/ Mission(stamps, designs, marks)!RegressionCancel(t)
           Paged ==
             \/ Mission(stamps, designs, marks)!Refresh
             \/ \E t \in Threads, kind \in Mission(stamps, designs, marks)!Kinds :
                   Mission(stamps, designs, marks)!Click(t, kind) \/ Mission(stamps, designs, marks)!ClickBanner(t, kind)
             \/ \E t \in Threads : Mission(stamps, designs, marks)!Refused(t)
             \/ \E t \in Threads \cup {Nothing} : Mission(stamps, designs, marks)!RunCloseFromPage(t)
           Crew ==
             \/ Mission(stamps, designs, marks)!DeploymentRevoke \/ Mission(stamps, designs, marks)!RunClose
             \/ \E approves \in BOOLEAN : Mission(stamps, designs, marks)!RecordDesignReview(approves)
             \/ Mission(stamps, designs, marks)!Revise \/ Mission(stamps, designs, marks)!Advance
             \/ Mission(stamps, designs, marks)!ReviewCapReached
             \/ \E command \in Commands : Mission(stamps, designs, marks)!RegressionRequest(command)
<1>1. \/ Paged \/ Crew
      \/ \E t \in Threads \cup {Nothing} :
           Clicked(t) \/ Clicked2(t) \/ Clicked3(t) \/ Mission(stamps, designs, marks)!RunReopen(t)
  BY DEF Mission!Next
<1>2. CASE Paged
  BY <1>2, PageSteps
<1>3. CASE Crew
  BY <1>3, CrewSteps
<1>4. ASSUME NEW t \in Threads \cup {Nothing}, Clicked(t)
      PROVE  MissionInv(stamps, designs, marks)' /\ Mission(stamps, designs, marks)!LateClickDoesNoMore
  BY <1>4, DesignClicks
<1>5. ASSUME NEW t \in Threads \cup {Nothing}, Clicked2(t)
      PROVE  MissionInv(stamps, designs, marks)' /\ Mission(stamps, designs, marks)!LateClickDoesNoMore
  BY <1>5, OtherClicks
<1>6. ASSUME NEW t \in Threads \cup {Nothing}, Clicked3(t)
      PROVE  MissionInv(stamps, designs, marks)' /\ Mission(stamps, designs, marks)!LateClickDoesNoMore
  BY <1>6, RegressionClicks
<1>7. ASSUME NEW t \in Threads \cup {Nothing}, Mission(stamps, designs, marks)!RunReopen(t)
      PROVE  MissionInv(stamps, designs, marks)' /\ Mission(stamps, designs, marks)!LateClickDoesNoMore
  BY <1>7, ReopenClicks
<1> HIDE DEF Paged, Crew, Clicked, Clicked2, Clicked3
<1> QED BY <1>1, <1>2, <1>3, <1>4, <1>5, <1>6, <1>7

LEMMA MissionStutter ==
  ASSUME NEW stamps, NEW designs, NEW marks, MissionInv(stamps, designs, marks), UNCHANGED Shared
  PROVE  MissionInv(stamps, designs, marks)' /\ Mission(stamps, designs, marks)!LateClickDoesNoMore
<1>1. UNCHANGED <<v1, v2, v3, v4, v5, v6, v7, v8, v9, v10, v12>>
  BY DEF Shared
<1>2. Mission(stamps, designs, marks)!LateClickDoesNoMore
  BY <1>1, HarmlessClicks
<1>3. MissionTypes(stamps, designs, marks) /\ ClicksBound
  BY DEF MissionInv
<1>4. MissionTypes(stamps, designs, marks)'
  BY <1>1, <1>3, Zenon DEF MissionTypes
<1>5. ClicksBound'
  BY <1>1, <1>3 DEF ClicksBound
<1> QED BY <1>2, <1>4, <1>5, Zenon DEF MissionInv
-----------------------------------------------------------------------------
(* The hand-off loop: it launches a role again only after news.              *)

HandAssumption ==
  /\ Loop # Others /\ Nothing \notin Handing!Session
  /\ \A s \in Stretches : s \subseteq 1 .. 5 /\ (5 \in s => 4 \in s)
  /\ MaxSessions \in Nat /\ MaxNews \in Nat /\ MaxStops \in Nat

HandTypes ==
  /\ v1 \in Hosted /\ v2 \in Stretches /\ v3 \in v2 /\ v4 \in BOOLEAN
  /\ v5 \in [proposed : BOOLEAN, verdict : {Nothing, "approved", "changes"}, approved : BOOLEAN]
  /\ v6 \in BOOLEAN /\ v7 \in BOOLEAN
  /\ v8 \subseteq Stops /\ v9 \in 0 .. MaxStops
  /\ v10 \in [role : Handing!Roles \cup {Nothing}, state : {"none", "open", "answered"}]
  /\ v11 \in 0 .. MaxNews
  /\ v12 \in [Handing!Roles -> Handing!Session \cup {Nothing}]
  /\ \A r \in Handing!Roles : v12[r] # Nothing => v12[r].role = r
  /\ v13 \in Seq(Handing!Ended) /\ v14 \in BOOLEAN
  /\ v15 \in [role : Handing!Roles \cup {Nothing}, at : {"idle", "deciding", "running"}]
  /\ v15.at # "idle" => v15.role \in Handing!Roles

LiveRoles(sessions) == {r \in Handing!Roles : sessions[r] # Nothing}
Room == Cardinality(LiveRoles(v12)) + Len(v13) <= MaxSessions

\* A session is of the phase it was started in, and a phase that changed is news.
Dated(s, news, phase) == s.news \in Nat /\ s.news <= news /\ (s.news = news => s.phase = phase)
SessionsDated ==
  /\ \A r \in Handing!Roles : v12[r] # Nothing => Dated(v12[r], v11, v3)
  /\ \A i \in DOMAIN v13 : Dated(v13[i], v11, v3)

\* An answer that nobody was launched with is newer than its role's sessions.
AnsweredSince ==
  v10.state = "answered" =>
    /\ \A r \in Handing!Roles : v12[r] # Nothing /\ r = v10.role => v12[r].news < v11
    /\ \A i \in DOMAIN v13 : v13[i].role = v10.role => v13[i].news < v11

\* The loop waits for each session it launched.
LoopIsBehind ==
  \A r \in Handing!Roles : v12[r] # Nothing /\ v12[r].by = Loop => v15 = [role |-> r, at |-> "running"]

FirstComesFirst == v14 => v15 = Handing!Idle /\ \A i \in DOMAIN v13 : v13[i].by # Loop

\* Since each session the loop had of that role, there has been news.
Justified(role, past, news) ==
  \A l \in DOMAIN past : past[l].role = role /\ past[l].by = Loop =>
    (\E i \in DOMAIN past : i > l /\ past[i].role # role) \/ past[l].news < news
DecisionStands == v15.at = "deciding" => Justified(v15.role, v13, v11)

HandStory == SessionsDated /\ AnsweredSince /\ LoopIsBehind /\ FirstComesFirst /\ DecisionStands
HandInv == HandTypes /\ Room /\ HandStory

LEMMA RolesFinite == IsFiniteSet(Handing!Roles) /\ Cardinality(LiveRoles([r \in Handing!Roles |-> Nothing])) = 0
<1>1. IsFiniteSet({"architect", "supervisor", "implementer"} \cup {"reviewer"})
  <2>1. IsFiniteSet({"architect"})
    BY FS_Singleton
  <2>2. IsFiniteSet({"architect"} \cup {"supervisor"})
    BY <2>1, FS_AddElement
  <2>3. IsFiniteSet(({"architect"} \cup {"supervisor"}) \cup {"implementer"})
    BY <2>2, FS_AddElement
  <2>4. ({"architect"} \cup {"supervisor"}) \cup {"implementer"} = {"architect", "supervisor", "implementer"}
    OBVIOUS
  <2> QED BY <2>3, <2>4, FS_AddElement
<1>2. {"architect", "supervisor", "implementer"} \cup {"reviewer"} = Handing!Roles
  BY DEF Handing!Roles
<1>3. LiveRoles([r \in Handing!Roles |-> Nothing]) = {}
  BY DEF LiveRoles
<1> QED BY <1>1, <1>2, <1>3, FS_EmptySet

LEMMA LiveRolesFinite ==
  ASSUME NEW sessions
  PROVE  IsFiniteSet(LiveRoles(sessions)) /\ Cardinality(LiveRoles(sessions)) \in Nat
<1>1. LiveRoles(sessions) \subseteq Handing!Roles
  BY DEF LiveRoles
<1> QED BY <1>1, RolesFinite, FS_Subset, FS_CardinalityType

LEMMA HandKeeps == ASSUME HandAssumption, HandInv PROVE Handing!TypeOK
<1>1. HandTypes /\ Room
  BY DEF HandInv
<1>2. Len(v13) \in Nat /\ Cardinality(LiveRoles(v12)) \in Nat
  BY <1>1, LiveRolesFinite, LenProperties DEF HandTypes
<1>3. Len(v13) <= MaxSessions
  BY <1>1, <1>2 DEF Room, HandAssumption
<1>4. \A r \in Handing!Roles : v12[r] = Nothing \/ (v12[r] \in Handing!Session /\ v12[r].role = r)
  BY <1>1 DEF HandTypes
<1> QED BY <1>1, <1>3, <1>4, Zenon DEF HandTypes, Handing!TypeOK

LEMMA HandStarts == ASSUME HandAssumption, Handing!Init PROVE HandInv
<1>1. /\ v1 \in Hosted /\ v2 \in Stretches /\ v3 \in v2 /\ v8 = {} /\ v9 = 0
      /\ v10 = [role |-> Nothing, state |-> "none"] /\ v11 = 0
      /\ v12 = [r \in Handing!Roles |-> Nothing] /\ v13 = <<>>
      /\ v15 = [role |-> Nothing, at |-> "idle"]
  BY DEF Handing!Init, Handing!NoQuestion, Handing!Idle
<1>2. v4 = TRUE /\ v6 \in BOOLEAN /\ v7 = FALSE /\ v14 \in BOOLEAN
  <2>1. v4 = TRUE /\ v7 = FALSE
    BY Zenon DEF Handing!Init
  <2>2. v6 = (v3 = 5) /\ v14 = (v3 = 1)
    BY Zenon DEF Handing!Init
  <2> QED BY <2>1, <2>2
<1>3. v5 \in [proposed : BOOLEAN, verdict : {Nothing, "approved", "changes"}, approved : BOOLEAN]
  <2>1. \/ v5 = [proposed |-> FALSE, verdict |-> Nothing, approved |-> FALSE]
        \/ v5 = [proposed |-> TRUE, verdict |-> "approved", approved |-> TRUE]
    BY DEF Handing!Init
  <2>2. \A yes \in BOOLEAN, v \in {Nothing, "approved"} :
           [proposed |-> yes, verdict |-> v, approved |-> yes]
             \in [proposed : BOOLEAN, verdict : {Nothing, "approved", "changes"}, approved : BOOLEAN]
    OBVIOUS
  <2>3. TRUE \in BOOLEAN /\ FALSE \in BOOLEAN /\ Nothing \in {Nothing, "approved"} /\ "approved" \in {Nothing, "approved"}
    OBVIOUS
  <2> QED BY <2>1, <2>2, <2>3, Zenon
<1>4. HandTypes
  <2>1. v9 \in 0 .. MaxStops /\ v11 \in 0 .. MaxNews /\ v8 \subseteq Stops
    BY <1>1 DEF HandAssumption
  <2>2. v10 \in [role : Handing!Roles \cup {Nothing}, state : {"none", "open", "answered"}]
    BY <1>1
  <2>3. /\ v15 \in [role : Handing!Roles \cup {Nothing}, at : {"idle", "deciding", "running"}] /\ v15.at = "idle"
    BY <1>1
  <2>4. /\ v12 \in [Handing!Roles -> Handing!Session \cup {Nothing}] /\ v13 \in Seq(Handing!Ended)
        /\ \A r \in Handing!Roles : v12[r] = Nothing
    BY <1>1
  <2>5. v4 \in BOOLEAN /\ v7 \in BOOLEAN
    BY <1>2, Zenon
  <2> QED BY <1>1, <1>2, <1>3, <2>1, <2>2, <2>3, <2>4, <2>5, Zenon DEF HandTypes
<1>5. Room
  <2>1. Cardinality(LiveRoles(v12)) = 0 /\ Len(v13) = 0
    BY <1>1, RolesFinite
  <2> QED BY <2>1 DEF Room, HandAssumption
<1>6. HandStory
  BY <1>1 DEF HandStory, SessionsDated, AnsweredSince, LoopIsBehind, FirstComesFirst, DecisionStands, Handing!Idle
<1> QED BY <1>4, <1>5, <1>6 DEF HandInv

\* Commands of others: no session starts or ends, time goes forward, and a
\* changed phase or an answer is news.
TimePasses ==
  /\ UNCHANGED <<v12, v13, v14, v15>> /\ v11' \in Nat
  /\ v11 <= v11' /\ (v3' # v3 => v11 < v11')
  /\ v10'.state = "answered" => v10' = v10 \/ v11 < v11'

LEMMA StoryGoesOn == ASSUME HandTypes, HandStory, TimePasses PROVE HandStory'
<1>1. v11 \in Nat /\ v11' \in Nat /\ v11 <= v11' /\ UNCHANGED <<v12, v13, v14, v15>>
  BY DEF HandTypes, TimePasses
<1>2. ASSUME NEW s, Dated(s, v11, v3) PROVE Dated(s, v11', v3')
  BY <1>1, <1>2 DEF Dated, TimePasses
<1>3. SessionsDated'
  BY <1>1, <1>2 DEF HandStory, SessionsDated
<1>4. ASSUME NEW s, Dated(s, v11, v3), v11 < v11' PROVE s.news < v11'
  BY <1>1, <1>4 DEF Dated
<1>5. ASSUME NEW s, Dated(s, v11, v3), s.news < v11 PROVE s.news < v11'
  BY <1>1, <1>5 DEF Dated
<1>6. AnsweredSince'
  <2>1. CASE v11 < v11'
    BY <1>1, <1>4, <2>1 DEF HandStory, SessionsDated, AnsweredSince
  <2>2. CASE v10' = v10
    BY <1>1, <1>5, <2>2 DEF HandStory, SessionsDated, AnsweredSince
  <2>3. CASE v10'.state # "answered"
    BY <2>3 DEF AnsweredSince
  <2> QED BY <2>1, <2>2, <2>3 DEF TimePasses
<1>7. DecisionStands'
  BY <1>1, <1>5 DEF HandStory, SessionsDated, DecisionStands, Justified
<1>8. LoopIsBehind' /\ FirstComesFirst'
  BY <1>1 DEF HandStory, LoopIsBehind, FirstComesFirst, Handing!Idle
<1> QED BY <1>3, <1>6, <1>7, <1>8 DEF HandStory

LEMMA SomebodyCommands ==
  ASSUME HandAssumption, HandInv, Handing!AdvanceApprovedDesign \/ Handing!Command
  PROVE  HandInv'
<1>1. HandTypes /\ Room /\ HandStory /\ v11 \in Nat /\ v11 \in 0 .. MaxNews /\ MaxNews \in Nat
  BY DEF HandInv, HandTypes, HandAssumption
<1>2. v2 \subseteq 1 .. 5 /\ (5 \in v2 => 4 \in v2) /\ v3 \in v2
  BY <1>1 DEF HandTypes, HandAssumption
<1>3. UNCHANGED <<v1, v2, v4, v8, v9, v10, v12, v13, v14, v15>>
  BY DEF Handing!AdvanceApprovedDesign, Handing!Command, Handing!config, Handing!waits
<1>4. v11' \in 0 .. MaxNews /\ v11 <= v11' /\ (v3' # v3 => v11 < v11')
  <2>1. CASE Handing!AdvanceApprovedDesign
    <3>1. v11 < MaxNews /\ v11' = v11 + 1
      BY <2>1 DEF Handing!AdvanceApprovedDesign
    <3> QED BY <1>1, <3>1
  <2>2. CASE Handing!Command
    <3>1. v11' = (IF v3' = v3 THEN v11 ELSE v11 + 1) /\ v11' <= MaxNews
      BY <2>2 DEF Handing!Command
    <3> QED BY <1>1, <3>1
  <2> QED BY <2>1, <2>2
<1>5. v3' \in v2
  <2>1. CASE Handing!AdvanceApprovedDesign
    BY <1>3, <2>1 DEF Handing!AdvanceApprovedDesign
  <2>2. CASE Handing!RecordReview
    BY <1>2, <2>2 DEF Handing!RecordReview
  <2>3. CASE Handing!Advance
    BY <1>3, <2>3 DEF Handing!Advance
  <2>4. CASE Handing!Propose \/ Handing!DesignVerdict \/ Handing!DesignApproved \/ Handing!EvidenceComplete
    BY <1>2, <2>4 DEF Handing!Propose, Handing!DesignVerdict, Handing!DesignApproved, Handing!EvidenceComplete
  <2> QED BY <2>1, <2>2, <2>3, <2>4 DEF Handing!Command
<1>6. v6' \in BOOLEAN /\ v7' \in BOOLEAN
  <2>1. v6 \in BOOLEAN /\ v7 \in BOOLEAN
    BY <1>1 DEF HandTypes
  <2>2. (v6' = v6 \/ v6' = TRUE) /\ (v7' = v7 \/ v7' = TRUE \/ v7' = FALSE)
    BY Zenon DEF Handing!AdvanceApprovedDesign, Handing!Command, Handing!RecordReview, Handing!Advance,
       Handing!Propose, Handing!DesignVerdict, Handing!DesignApproved, Handing!EvidenceComplete
  <2> QED BY <2>1, <2>2, Zenon
<1>7. v5' \in [proposed : BOOLEAN, verdict : {Nothing, "approved", "changes"}, approved : BOOLEAN]
  <2> DEFINE Designs == [proposed : BOOLEAN, verdict : {Nothing, "approved", "changes"}, approved : BOOLEAN]
  <2>1. v5 \in Designs /\ v5.verdict \in {Nothing, "approved", "changes"}
    BY <1>1 DEF HandTypes
  <2>2. \A p \in BOOLEAN, q \in BOOLEAN, v \in {Nothing, "approved", "changes"} :
           [proposed |-> p, verdict |-> v, approved |-> q] \in Designs
    OBVIOUS
  <2>3. CASE Handing!Propose
    <3>1. v5' = [proposed |-> TRUE, verdict |-> v5.verdict, approved |-> FALSE]
      BY <2>3 DEF Handing!Propose
    <3> HIDE DEF Designs
    <3> QED BY <2>1, <2>2, <3>1, Zenon
  <2>4. CASE Handing!DesignVerdict
    <3>1. PICK v \in {"approved", "changes"} :
             v5' = [proposed |-> v = "approved", verdict |-> v, approved |-> FALSE]
      BY <2>4, Zenon DEF Handing!DesignVerdict
    <3>2. (v = "approved") \in BOOLEAN /\ v \in {Nothing, "approved", "changes"} /\ FALSE \in BOOLEAN
      OBVIOUS
    <3> HIDE DEF Designs
    <3> QED BY <2>2, <3>1, <3>2, Zenon
  <2>5. CASE Handing!DesignApproved
    <3>1. v5' = [v5 EXCEPT !.approved = TRUE]
      BY <2>5 DEF Handing!DesignApproved
    <3> QED BY <2>1, <3>1
  <2>6. CASE Handing!AdvanceApprovedDesign \/ Handing!EvidenceComplete \/ Handing!RecordReview \/ Handing!Advance
    <3>1. v5' = v5
      BY <2>6 DEF Handing!AdvanceApprovedDesign, Handing!EvidenceComplete, Handing!RecordReview, Handing!Advance
    <3> QED BY <2>1, <3>1
  <2> QED BY <2>3, <2>4, <2>5, <2>6 DEF Handing!Command
<1>8. HandTypes'
  BY <1>1, <1>3, <1>4, <1>5, <1>6, <1>7, Zenon DEF HandTypes
<1>9. TimePasses
  BY <1>1, <1>3, <1>4 DEF TimePasses
<1>10. HandStory'
  BY <1>1, <1>9, StoryGoesOn
<1>11. Room'
  BY <1>1, <1>3 DEF Room
<1> QED BY <1>8, <1>10, <1>11 DEF HandInv

LEMMA SomebodyWaits ==
  ASSUME HandAssumption, HandInv,
         \/ Handing!Answer \/ Handing!Close
         \/ \E r \in Handing!Roles : Handing!Ask(r)
         \/ \E k \in Stops : Handing!Stop(k) \/ Handing!Resume(k)
  PROVE  HandInv'
<1>1. HandTypes /\ Room /\ HandStory /\ v11 \in Nat /\ v11 \in 0 .. MaxNews /\ MaxNews \in Nat /\ MaxStops \in Nat
  BY DEF HandInv, HandTypes, HandAssumption
<1>2. v10 \in [role : Handing!Roles \cup {Nothing}, state : {"none", "open", "answered"}]
      /\ v8 \subseteq Stops /\ v9 \in 0 .. MaxStops
  BY <1>1 DEF HandTypes
<1>3. UNCHANGED <<v1, v2, v3, v5, v6, v7, v12, v13, v14, v15>>
  BY DEF Handing!Answer, Handing!Close, Handing!Ask, Handing!Stop, Handing!Resume, Handing!config, Handing!run
<1>4. v4' = v4 \/ v4' = FALSE
  BY Zenon DEF Handing!Answer, Handing!Close, Handing!Ask, Handing!Stop, Handing!Resume, Handing!run
<1>5. v4' \in BOOLEAN
  BY <1>1, <1>4, Zenon DEF HandTypes
<1>6. v8' \subseteq Stops
  BY <1>2 DEF Handing!Answer, Handing!Close, Handing!Ask, Handing!Stop, Handing!Resume, Handing!waits
<1>7. v9' \in 0 .. MaxStops
  <2>1. v9' = v9 \/ (v9 < MaxStops /\ v9' = v9 + 1)
    BY DEF Handing!Answer, Handing!Close, Handing!Ask, Handing!Stop, Handing!Resume, Handing!waits
  <2> QED BY <1>1, <1>2, <2>1
<1>8. v11' = v11 \/ (v11 < MaxNews /\ v11' = v11 + 1)
  BY DEF Handing!Answer, Handing!Close, Handing!Ask, Handing!Stop, Handing!Resume
<1>9. v11' \in 0 .. MaxNews /\ v11 <= v11'
  BY <1>1, <1>8
<1>10. /\ v10' \in [role : Handing!Roles \cup {Nothing}, state : {"none", "open", "answered"}]
       /\ v10'.state = "answered" => v10' = v10 \/ v11 < v11'
  <2>1. CASE Handing!Answer
    <3>1. v10' = [v10 EXCEPT !.state = "answered"] /\ v11' = v11 + 1
      BY <2>1 DEF Handing!Answer
    <3> QED BY <1>1, <1>2, <3>1
  <2>2. CASE \E r \in Handing!Roles : Handing!Ask(r)
    <3>1. PICK r \in Handing!Roles : v10' = [role |-> r, state |-> "open"]
      BY <2>2 DEF Handing!Ask
    <3> QED BY <3>1
  <2>3. CASE Handing!Close \/ \E k \in Stops : Handing!Stop(k) \/ Handing!Resume(k)
    <3>1. v10' = v10
      BY <2>3 DEF Handing!Close, Handing!Stop, Handing!Resume
    <3> QED BY <1>2, <3>1
  <2> QED BY <2>1, <2>2, <2>3
<1>11. HandTypes'
  BY <1>1, <1>3, <1>5, <1>6, <1>7, <1>9, <1>10, Zenon DEF HandTypes
<1>12. TimePasses
  BY <1>1, <1>3, <1>9, <1>10 DEF TimePasses
<1>13. HandStory'
  BY <1>1, <1>12, StoryGoesOn
<1>14. Room'
  BY <1>1, <1>3 DEF Room
<1> QED BY <1>11, <1>13, <1>14 DEF HandInv

\* Every set of naturals that is not empty has a least element.
LEMMA LeastOf ==
  ASSUME NEW T \in SUBSET Nat, T # {}
  PROVE  \E x \in T : \A y \in T : x <= y
<1>1. PICK x \in T : \A y \in T : ~ (<<y, x>> \in OpToRel(<, Nat))
  BY NatLessThanWellFounded, WFMin
<1>2. \A y \in T : ~ (<<y, x>> \in {ss \in Nat \X Nat : ss[1] < ss[2]})
  BY <1>1, Zenon DEF OpToRel
<1>3. ASSUME NEW y \in T
      PROVE  x <= y
  <2>1. x \in Nat /\ y \in Nat /\ <<y, x>> \in Nat \X Nat /\ <<y, x>>[1] = y /\ <<y, x>>[2] = x
    OBVIOUS
  <2>2. ~ (y < x)
    BY <1>2, <2>1
  <2> QED BY <2>1, <2>2
<1> QED BY <1>3

\* And if it has a bound, a last one.
LEMMA LastOf ==
  ASSUME NEW n \in Nat, NEW T \in SUBSET (1 .. n), T # {}
  PROVE  Handing!Last(T) \in T /\ \A j \in T : j <= Handing!Last(T)
<1> DEFINE bounds == {b \in Nat : \A j \in T : j <= b}
<1>1. n \in bounds
  OBVIOUS
<1>2. PICK x \in bounds : \A y \in bounds : x <= y
  BY <1>1, LeastOf
<1>3. x \in T
  <2> SUFFICES ASSUME x \notin T PROVE FALSE
    OBVIOUS
  <2>1. \A j \in T : j \in Nat /\ j <= x - 1 /\ 1 <= j
    BY <1>2
  <2>2. x - 1 \in Nat
    <3>1. PICK j : j \in T
      OBVIOUS
    <3>2. j \in Nat /\ j <= x - 1 /\ 1 <= j /\ x \in Nat
      BY <1>2, <2>1, <3>1
    <3> QED BY <3>2
  <2>3. x - 1 \in bounds
    BY <2>1, <2>2
  <2> QED BY <1>2, <2>3
<1>4. \E i \in T : \A j \in T : j <= i
  BY <1>2, <1>3
<1> QED BY <1>4 DEF Handing!Last

\* The role that is handed the run has had no session since the one before it,
\* or the phase has changed since; the role that asked has its answer.
LEMMA HandoffJustified ==
  ASSUME HandAssumption, HandInv, NEW r, r = Handing!HandoffRole, r # Nothing
  PROVE  r \in Handing!Roles /\ Justified(r, v13, v11)
<1>1. HandTypes /\ HandStory /\ v11 \in Nat
  BY DEF HandInv, HandTypes
<1>2. CASE \E q \in Handing!Roles : Handing!AskerReturns(q)
  <2>1. PICK q \in Handing!Roles : Handing!AskerReturns(q)
    BY <1>2
  <2>2. v10.state = "answered" /\ v10.role = q
    BY <2>1 DEF Handing!AskerReturns
  <2>3. r = q
    BY <1>2, <2>2 DEF Handing!HandoffRole
  <2>4. \A i \in DOMAIN v13 : v13[i].role = r => v13[i].news < v11
    BY <1>1, <2>2, <2>3 DEF HandStory, AnsweredSince
  <2> QED BY <2>3, <2>4 DEF Justified
<1>3. CASE ~ \E q \in Handing!Roles : Handing!AskerReturns(q)
  <2>1. r = Handing!AssignedRole /\ Handing!Handed(r)
    BY <1>3 DEF Handing!HandoffRole
  <2>2. r \in Handing!Roles
    BY <2>1 DEF Handing!AssignedRole, Handing!Roles
  <2> DEFINE recent == Handing!Relevant
             newest == Handing!Last(recent)
  <2>3. recent # {} /\ v13[newest].role # r /\ \A i \in Handing!OfTarget(r) : i < newest
    BY <2>1 DEF Handing!Handed, Handing!Due
  <2>4. DOMAIN v13 = 1 .. Len(v13) /\ Len(v13) \in Nat
    BY <1>1, LenProperties DEF HandTypes
  <2>5. recent \subseteq 1 .. Len(v13)
    BY <2>4 DEF Handing!Relevant, Handing!Indices
  <2>6. newest \in recent
    BY <2>3, <2>4, <2>5, LastOf
  <2> HIDE DEF recent, newest
  <2>7. newest \in DOMAIN v13 /\ newest \in Nat
    BY <2>4, <2>5, <2>6
  <2>8. ASSUME NEW l \in DOMAIN v13, v13[l].role = r, ~(newest > l) PROVE v13[l].news < v11
    <3>1. l \notin Handing!OfTarget(r)
      BY <2>3, <2>4, <2>7, <2>8
    <3>2. v13[l].phase # v3
      BY <2>8, <3>1 DEF Handing!OfTarget, Handing!Indices
    <3>3. Dated(v13[l], v11, v3)
      BY <1>1 DEF HandStory, SessionsDated
    <3> QED BY <1>1, <3>2, <3>3 DEF Dated
  <2> QED BY <2>2, <2>3, <2>7, <2>8 DEF Justified
<1> QED BY <1>2, <1>3

\* The loop makes up its mind; nobody else does anything.
LEMMA LoopDecides ==
  ASSUME HandAssumption, HandInv, Handing!FirstLaunch \/ Handing!Decide \/ Handing!Refused
  PROVE  HandInv'
<1>1. HandTypes /\ Room /\ HandStory
  BY DEF HandInv
<1>2. /\ v10 \in [role : Handing!Roles \cup {Nothing}, state : {"none", "open", "answered"}]
      /\ v15 \in [role : Handing!Roles \cup {Nothing}, at : {"idle", "deciding", "running"}]
  BY <1>1 DEF HandTypes
<1>3. UNCHANGED <<v1, v2, v3, v4, v5, v6, v7, v8, v9, v11, v12, v13>>
  BY DEF Handing!FirstLaunch, Handing!Decide, Handing!Refused, Handing!config, Handing!run, Handing!waits
<1>4. v10' = v10 \/ v10' = [role |-> Nothing, state |-> "none"]
  BY DEF Handing!FirstLaunch, Handing!Decide, Handing!Refused, Handing!NoQuestion
<1>5. v10' \in [role : Handing!Roles \cup {Nothing}, state : {"none", "open", "answered"}]
  BY <1>2, <1>4
<1>6. v14' = FALSE \/ v14' = v14
  BY Zenon DEF Handing!FirstLaunch, Handing!Decide, Handing!Refused
<1>7. v14' \in BOOLEAN
  BY <1>1, <1>6, Zenon DEF HandTypes
<1>8. /\ v15.at # "running"
      /\ v15' = [role |-> Nothing, at |-> "idle"]
           \/ \E r \in Handing!Roles : v15' = [role |-> r, at |-> "deciding"] /\ Justified(r, v13, v11)
  <2>1. CASE Handing!FirstLaunch
    <3>1. /\ v15 = [role |-> Nothing, at |-> "idle"] /\ \A i \in DOMAIN v13 : v13[i].by # Loop
      BY <1>1, <2>1 DEF Handing!FirstLaunch, Handing!Idle, HandStory, FirstComesFirst
    <3>2. Justified("architect", v13, v11)
      BY <3>1 DEF Justified
    <3>3. v15' \in {[role |-> "architect", at |-> "deciding"], [role |-> Nothing, at |-> "idle"]}
      BY <2>1 DEF Handing!FirstLaunch, Handing!Idle
    <3> QED BY <3>1, <3>2, <3>3 DEF Handing!Roles
  <2>2. CASE Handing!Decide
    <3> DEFINE r == Handing!HandoffRole
    <3>1. v15 = [role |-> Nothing, at |-> "idle"] /\ r # Nothing /\ v15' = [role |-> r, at |-> "deciding"]
      BY <2>2 DEF Handing!Decide, Handing!Idle
    <3>2. r \in Handing!Roles /\ Justified(r, v13, v11)
      BY <3>1, HandoffJustified
    <3> HIDE DEF r
    <3> QED BY <3>1, <3>2
  <2>3. CASE Handing!Refused
    BY <2>3 DEF Handing!Refused, Handing!Idle
  <2> QED BY <2>1, <2>2, <2>3
<1>9. /\ v15' \in [role : Handing!Roles \cup {Nothing}, at : {"idle", "deciding", "running"}]
      /\ v15'.at # "idle" => v15'.role \in Handing!Roles
  BY <1>8
<1>10. HandTypes'
  BY <1>1, <1>3, <1>5, <1>7, <1>9, Zenon DEF HandTypes
<1>11. DecisionStands'
  BY <1>3, <1>8 DEF DecisionStands, Justified
<1>12. SessionsDated'
  BY <1>1, <1>3 DEF HandStory, SessionsDated
<1>13. AnsweredSince'
  <2>1. v10'.state = "answered" => v10' = v10
    BY <1>4
  <2> QED BY <1>1, <1>3, <2>1 DEF HandStory, AnsweredSince
<1>14. LoopIsBehind'
  <2>1. \A r : v15 # [role |-> r, at |-> "running"]
    BY <1>8
  <2> QED BY <1>1, <1>3, <2>1 DEF HandStory, LoopIsBehind
<1>15. FirstComesFirst'
  <2>1. ~v14'
    <3>1. CASE Handing!FirstLaunch \/ Handing!Decide
      BY <3>1, Zenon DEF Handing!FirstLaunch, Handing!Decide
    <3>2. CASE Handing!Refused
      <4>1. v15.at = "deciding" /\ (v14' <=> v14)
        BY <3>2 DEF Handing!Refused
      <4>2. v14 => v15 = [role |-> Nothing, at |-> "idle"]
        BY <1>1 DEF HandStory, FirstComesFirst, Handing!Idle
      <4> QED BY <4>1, <4>2
    <3> QED BY <3>1, <3>2
  <2> QED BY <2>1 DEF FirstComesFirst
<1>16. Room'
  BY <1>1, <1>3 DEF Room
<1> QED BY <1>10, <1>11, <1>12, <1>13, <1>14, <1>15, <1>16 DEF HandInv, HandStory

\* One more live session, and the answer of its role handed over.
LEMMA SessionStarts ==
  ASSUME HandAssumption, HandInv, NEW r \in Handing!Roles, NEW by \in {Loop, Others},
         Handing!Started(r, by), UNCHANGED <<v3, v11, v13>>
  PROVE  /\ v12 [r] = Nothing /\ v12'[r] # Nothing /\ v12'[r].by = by
         /\ v12' \in [Handing!Roles -> Handing!Session \cup {Nothing}]
         /\ \A q \in Handing!Roles : v12'[q] # Nothing => v12'[q].role = q
         /\ \A q \in Handing!Roles : q # r => v12'[q] = v12[q]
         /\ v10' \in [role : Handing!Roles \cup {Nothing}, state : {"none", "open", "answered"}]
         /\ Room' /\ SessionsDated' /\ AnsweredSince'
<1>1. HandTypes /\ Room /\ HandStory /\ v11 \in Nat
  BY DEF HandInv, HandTypes
<1>2. /\ v12 \in [Handing!Roles -> Handing!Session \cup {Nothing}]
      /\ v10 \in [role : Handing!Roles \cup {Nothing}, state : {"none", "open", "answered"}]
      /\ v3 \in 1 .. 5 /\ v11 \in 0 .. MaxNews /\ v13 \in Seq(Handing!Ended)
  BY <1>1 DEF HandTypes, HandAssumption
<1> DEFINE new == [role |-> r, phase |-> v3, by |-> by, news |-> v11]
<1>3. /\ v12[r] = Nothing /\ v12' = [v12 EXCEPT ![r] = new]
      /\ Handing!Cardinality({q \in Handing!Roles : v12[q] # Nothing}) + Len(v13) < MaxSessions
      /\ v10' = IF v10 = [role |-> r, state |-> "answered"] THEN [role |-> Nothing, state |-> "none"] ELSE v10
  BY DEF Handing!Started, Handing!NoQuestion
<1>4. new \in Handing!Session
  BY <1>2 DEF Handing!Session
<1>5. new # Nothing /\ new.role = r /\ new.by = by /\ new.news = v11 /\ new.phase = v3
  BY <1>4 DEF HandAssumption
<1> HIDE DEF new
<1>6. \A q \in Handing!Roles : v12'[q] = IF q = r THEN new ELSE v12[q]
  BY <1>2, <1>3
<1>7. v12' \in [Handing!Roles -> Handing!Session \cup {Nothing}]
  BY <1>2, <1>3, <1>4
<1>8. Room'
  <2>1. LiveRoles(v12') = LiveRoles(v12) \cup {r} /\ r \notin LiveRoles(v12)
    BY <1>3, <1>5, <1>6 DEF LiveRoles
  <2>2. Cardinality(LiveRoles(v12')) = Cardinality(LiveRoles(v12)) + 1
    BY <2>1, LiveRolesFinite, FS_AddElement
  <2>3. Handing!Cardinality(LiveRoles(v12)) = Cardinality(LiveRoles(v12))
    BY Zenon DEF Cardinality, Handing!Cardinality
  <2>4. Handing!Cardinality(LiveRoles(v12)) + Len(v13) < MaxSessions
    BY <1>3 DEF LiveRoles
  <2>5. Cardinality(LiveRoles(v12)) \in Nat /\ Len(v13) \in Nat /\ MaxSessions \in Nat
    BY <1>2, LiveRolesFinite, LenProperties DEF HandAssumption
  <2> HIDE DEF LiveRoles
  <2> QED BY <2>2, <2>3, <2>4, <2>5 DEF Room
<1>9. SessionsDated'
  <2>1. Dated(new, v11, v3)
    BY <1>1, <1>5 DEF Dated
  <2> QED BY <1>1, <1>6, <2>1 DEF HandStory, SessionsDated
<1>10. v10' \in [role : Handing!Roles \cup {Nothing}, state : {"none", "open", "answered"}]
  BY <1>2, <1>3
<1>11. AnsweredSince'
  <2> SUFFICES ASSUME v10'.state = "answered" PROVE AnsweredSince'
    BY DEF AnsweredSince
  <2>1. v10' = v10 /\ v10 # [role |-> r, state |-> "answered"]
    BY <1>3
  <2>2. v10.role # r
    BY <1>2, <2>1
  <2> QED BY <1>1, <1>6, <2>1, <2>2 DEF HandStory, AnsweredSince
<1>12. \A q \in Handing!Roles : v12'[q] # Nothing => v12'[q].role = q
  BY <1>1, <1>5, <1>6 DEF HandTypes
<1> QED BY <1>3, <1>5, <1>6, <1>7, <1>8, <1>9, <1>10, <1>11, <1>12

LEMMA LoopLaunches ==
  ASSUME HandAssumption, HandInv, Handing!Launch
  PROVE  HandInv' /\ Handing!LaunchFollowsNews
<1>1. HandTypes /\ Room /\ HandStory /\ v11 \in Nat
  BY DEF HandInv, HandTypes
<1> DEFINE r == v15.role
<1>2. /\ v15 \in [role : Handing!Roles \cup {Nothing}, at : {"idle", "deciding", "running"}]
      /\ v15.at = "deciding" /\ r \in Handing!Roles
  BY <1>1 DEF HandTypes, Handing!Launch
<1>3. /\ Handing!Started(r, Loop) /\ v15' = [v15 EXCEPT !.at = "running"]
      /\ UNCHANGED <<v1, v2, v3, v4, v5, v6, v7, v8, v9, v11, v13, v14>>
  BY DEF Handing!Launch, Handing!config, Handing!run, Handing!waits
<1>4. /\ v12[r] = Nothing /\ v12'[r] # Nothing /\ v12'[r].by = Loop
      /\ v12' \in [Handing!Roles -> Handing!Session \cup {Nothing}]
      /\ \A q \in Handing!Roles : v12'[q] # Nothing => v12'[q].role = q
      /\ \A q \in Handing!Roles : q # r => v12'[q] = v12[q]
      /\ v10' \in [role : Handing!Roles \cup {Nothing}, state : {"none", "open", "answered"}]
      /\ Room' /\ SessionsDated' /\ AnsweredSince'
  BY <1>2, <1>3, SessionStarts
<1>5. v15' = [role |-> r, at |-> "running"]
  BY <1>2, <1>3
<1>6. /\ v15' \in [role : Handing!Roles \cup {Nothing}, at : {"idle", "deciding", "running"}]
      /\ v15'.role \in Handing!Roles /\ v15'.at = "running"
  BY <1>2, <1>5
<1>7. Justified(r, v13, v11)
  BY <1>1, <1>2 DEF HandStory, DecisionStands
<1>8. ~v14
  BY <1>1, <1>2 DEF HandStory, FirstComesFirst, Handing!Idle
<1> HIDE DEF r
<1>9. HandTypes'
  BY <1>1, <1>3, <1>4, <1>6, Zenon DEF HandTypes
<1>10. LoopIsBehind'
  <2>1. ASSUME NEW q \in Handing!Roles, v12'[q] # Nothing, v12'[q].by = Loop PROVE q = r
    <3>1. CASE q # r
      <4>1. v15 = [role |-> q, at |-> "running"]
        BY <1>1, <1>4, <2>1, <3>1 DEF HandStory, LoopIsBehind
      <4> QED BY <1>2, <4>1
    <3> QED BY <3>1
  <2> QED BY <1>5, <2>1 DEF LoopIsBehind
<1>11. DecisionStands' /\ FirstComesFirst'
  BY <1>3, <1>6, <1>8 DEF DecisionStands, FirstComesFirst
<1>12. HandInv'
  BY <1>4, <1>9, <1>10, <1>11 DEF HandInv, HandStory
<1>13. Handing!LaunchFollowsNews
  <2> SUFFICES ASSUME NEW q \in Handing!Roles, v12[q] = Nothing, v12'[q] # Nothing, Handing!ByLoop(q) # {}
               PROVE  LET l == Handing!Last(Handing!ByLoop(q)) IN
                      \/ \E i \in DOMAIN v13 : i > l /\ v13[i].role # q
                      \/ v13[l].news < v11
    BY DEF Handing!LaunchFollowsNews
  <2>1. q = r
    BY <1>4
  <2> DEFINE mine == Handing!ByLoop(q)
             l == Handing!Last(mine)
  <2>2. DOMAIN v13 = 1 .. Len(v13) /\ Len(v13) \in Nat
    BY <1>1, LenProperties DEF HandTypes
  <2>3. mine \subseteq 1 .. Len(v13)
    BY <2>2 DEF Handing!ByLoop, Handing!Indices
  <2>4. l \in mine
    BY <2>2, <2>3, LastOf
  <2> HIDE DEF l
  <2>5. l \in DOMAIN v13 /\ v13[l].role = q /\ v13[l].by = Loop
    BY <2>4 DEF Handing!ByLoop, Handing!Indices
  <2>6. \/ \E i \in DOMAIN v13 : i > l /\ v13[i].role # q
        \/ v13[l].news < v11
    BY <1>7, <2>1, <2>5 DEF Justified
  <2> QED BY <2>6 DEF l
<1> QED BY <1>12, <1>13

LEMMA OthersLaunched ==
  ASSUME HandAssumption, HandInv, NEW r \in Handing!Roles, Handing!OthersLaunch(r)
  PROVE  HandInv' /\ Handing!LaunchFollowsNews
<1>1. HandTypes /\ Room /\ HandStory
  BY DEF HandInv
<1>2. Handing!Started(r, Others) /\ UNCHANGED <<v1, v2, v3, v4, v5, v6, v7, v8, v9, v11, v13, v14, v15>>
  BY DEF Handing!OthersLaunch, Handing!config, Handing!run, Handing!waits
<1>3. /\ v12[r] = Nothing /\ v12'[r] # Nothing /\ v12'[r].by = Others
      /\ v12' \in [Handing!Roles -> Handing!Session \cup {Nothing}]
      /\ \A q \in Handing!Roles : v12'[q] # Nothing => v12'[q].role = q
      /\ \A q \in Handing!Roles : q # r => v12'[q] = v12[q]
      /\ v10' \in [role : Handing!Roles \cup {Nothing}, state : {"none", "open", "answered"}]
      /\ Room' /\ SessionsDated' /\ AnsweredSince'
  BY <1>2, SessionStarts
<1>4. HandTypes'
  BY <1>1, <1>2, <1>3, Zenon DEF HandTypes
<1>5. LoopIsBehind'
  BY <1>1, <1>2, <1>3 DEF HandStory, LoopIsBehind, HandAssumption
<1>6. DecisionStands' /\ FirstComesFirst'
  BY <1>1, <1>2 DEF HandStory, DecisionStands, FirstComesFirst, Handing!Idle
<1>7. Handing!LaunchFollowsNews
  <2>1. ASSUME NEW q \in Handing!Roles, v12[q] = Nothing, v12'[q] # Nothing PROVE v12'[q].by # Loop
    BY <1>3, <2>1 DEF HandAssumption
  <2> QED BY <2>1 DEF Handing!LaunchFollowsNews
<1> QED BY <1>3, <1>4, <1>5, <1>6, <1>7 DEF HandInv, HandStory

LEMMA SessionFinishes ==
  ASSUME HandAssumption, HandInv, NEW r \in Handing!Roles, Handing!SessionEnds(r)
  PROVE  HandInv' /\ Handing!LaunchFollowsNews
<1>1. HandTypes /\ Room /\ HandStory /\ v11 \in Nat
  BY DEF HandInv, HandTypes
<1> DEFINE s == v12[r]
           n == Len(v13)
<1>2. PICK state \in Handing!EndStates :
         v13' = Append(v13, [role |-> r, phase |-> s.phase, by |-> s.by, news |-> s.news, state |-> state])
  BY DEF Handing!SessionEnds
<1> DEFINE new == [role |-> r, phase |-> s.phase, by |-> s.by, news |-> s.news, state |-> state]
<1>3. /\ s # Nothing /\ v12' = [v12 EXCEPT ![r] = Nothing]
      /\ v15' = IF v15 = [role |-> r, at |-> "running"] /\ s.by = Loop THEN [role |-> Nothing, at |-> "idle"] ELSE v15
      /\ UNCHANGED <<v1, v2, v3, v4, v5, v6, v7, v8, v9, v10, v11, v14>>
  BY DEF Handing!SessionEnds, Handing!config, Handing!run, Handing!waits, Handing!Idle
<1>4. /\ v12 \in [Handing!Roles -> Handing!Session \cup {Nothing}] /\ s \in Handing!Session /\ s.role = r
      /\ v13 \in Seq(Handing!Ended) /\ n \in Nat /\ DOMAIN v13 = 1 .. n
  BY <1>1, <1>3, LenProperties DEF HandTypes
<1>5. new \in Handing!Ended
  BY <1>4 DEF Handing!Ended, Handing!Session
<1>6. new.role = r /\ new.by = s.by /\ new.news = s.news /\ new.phase = s.phase
  OBVIOUS
<1> HIDE DEF new
<1>7. /\ v13' \in Seq(Handing!Ended) /\ Len(v13') = n + 1 /\ DOMAIN v13' = 1 .. n + 1
      /\ v13'[n + 1] = new /\ \A i \in 1 .. n : v13'[i] = v13[i]
  <2>1. v13' = Append(v13, new)
    BY <1>2 DEF new
  <2>2. v13' \in Seq(Handing!Ended) /\ Len(v13') = n + 1 /\ v13'[n + 1] = new /\ \A i \in 1 .. n : v13'[i] = v13[i]
    BY <1>4, <1>5, <2>1, AppendProperties
  <2> QED BY <2>2, LenProperties
<1>8. \A q \in Handing!Roles : v12'[q] = IF q = r THEN Nothing ELSE v12[q]
  BY <1>3, <1>4
<1>9. v12' \in [Handing!Roles -> Handing!Session \cup {Nothing}]
  BY <1>3, <1>4
<1> HIDE DEF n
<1>10. \A i \in DOMAIN v13' : i \in DOMAIN v13 \/ i = n + 1
  BY <1>4, <1>7
<1>11. DOMAIN v13 \subseteq DOMAIN v13'
  BY <1>4, <1>7
<1>12. Room'
  <2>1. LiveRoles(v12') = LiveRoles(v12) \ {r} /\ r \in LiveRoles(v12)
    BY <1>3, <1>8 DEF LiveRoles
  <2>2. Cardinality(LiveRoles(v12')) = Cardinality(LiveRoles(v12)) - 1
    BY <2>1, LiveRolesFinite, FS_RemoveElement
  <2>3. Cardinality(LiveRoles(v12)) \in Nat
    BY LiveRolesFinite
  <2> HIDE DEF LiveRoles
  <2> QED BY <1>1, <1>4, <1>7, <2>2, <2>3 DEF Room, n, HandAssumption
<1>13. Dated(s, v11, v3)
  BY <1>1, <1>3 DEF HandStory, SessionsDated
<1>14. SessionsDated'
  <2>1. Dated(new, v11, v3)
    BY <1>6, <1>13 DEF Dated
  <2> QED BY <1>1, <1>3, <1>4, <1>7, <1>8, <1>10, <2>1 DEF HandStory, SessionsDated
<1>15. AnsweredSince'
  <2>1. v10.state = "answered" /\ r = v10.role => s.news < v11
    BY <1>1, <1>3 DEF HandStory, AnsweredSince
  <2> QED BY <1>1, <1>3, <1>4, <1>6, <1>7, <1>8, <1>10, <2>1 DEF HandStory, AnsweredSince
<1>16. LoopIsBehind'
  <2>1. ASSUME NEW q \in Handing!Roles, v12'[q] # Nothing, v12'[q].by = Loop
        PROVE  v15' = [role |-> q, at |-> "running"]
    <3>1. q # r /\ v12'[q] = v12[q]
      BY <1>8, <2>1
    <3>2. v15 = [role |-> q, at |-> "running"]
      BY <1>1, <2>1, <3>1 DEF HandStory, LoopIsBehind
    <3>3. v15 # [role |-> r, at |-> "running"]
      BY <3>1, <3>2
    <3> QED BY <1>3, <3>2, <3>3
  <2> QED BY <2>1 DEF LoopIsBehind
<1>17. s.by = Loop => v15 = [role |-> r, at |-> "running"]
  BY <1>1, <1>3 DEF HandStory, LoopIsBehind
<1>18. FirstComesFirst'
  <2> SUFFICES ASSUME v14 PROVE v15' = Handing!Idle /\ \A i \in DOMAIN v13' : v13'[i].by # Loop
    BY <1>3 DEF FirstComesFirst, Handing!Idle
  <2>1. v15 = [role |-> Nothing, at |-> "idle"] /\ \A i \in DOMAIN v13 : v13[i].by # Loop
    BY <1>1 DEF HandStory, FirstComesFirst, Handing!Idle
  <2>2. s.by # Loop
    BY <1>17, <2>1
  <2> QED BY <1>3, <1>4, <1>6, <1>7, <1>10, <2>1, <2>2 DEF Handing!Idle
<1>19. DecisionStands'
  <2> SUFFICES ASSUME v15'.at = "deciding" PROVE Justified(v15'.role, v13', v11)
    BY <1>3 DEF DecisionStands
  <2>1. v15' = v15 /\ v15.at = "deciding" /\ Justified(v15.role, v13, v11)
    <3>1. v15' = v15
      BY <1>3
    <3> QED BY <1>1, <3>1 DEF HandStory, DecisionStands
  <2>2. s.by # Loop
    BY <1>17, <2>1
  <2>3. ASSUME NEW l \in DOMAIN v13', v13'[l].role = v15.role, v13'[l].by = Loop
        PROVE  (\E i \in DOMAIN v13' : i > l /\ v13'[i].role # v15.role) \/ v13'[l].news < v11
    <3>1. l \in DOMAIN v13 /\ v13'[l] = v13[l]
      BY <1>4, <1>6, <1>7, <1>10, <2>2, <2>3
    <3>2. (\E i \in DOMAIN v13 : i > l /\ v13[i].role # v15.role) \/ v13[l].news < v11
      BY <2>1, <2>3, <3>1 DEF Justified
    <3>3. \A i \in DOMAIN v13 : i \in DOMAIN v13' /\ v13'[i] = v13[i]
      BY <1>4, <1>7, <1>11
    <3> QED BY <3>1, <3>2, <3>3
  <2> QED BY <2>1, <2>3 DEF Justified
<1>20. /\ v15' \in [role : Handing!Roles \cup {Nothing}, at : {"idle", "deciding", "running"}]
       /\ v15'.at # "idle" => v15'.role \in Handing!Roles
  BY <1>1, <1>3 DEF HandTypes
<1>21. \A q \in Handing!Roles : v12'[q] # Nothing => v12'[q].role = q
  BY <1>1, <1>8 DEF HandTypes
<1>22. HandTypes'
  BY <1>1, <1>3, <1>7, <1>9, <1>20, <1>21, Zenon DEF HandTypes
<1>23. Handing!LaunchFollowsNews
  <2>1. \A q \in Handing!Roles : ~(v12[q] = Nothing /\ v12'[q] # Nothing)
    BY <1>8
  <2> QED BY <2>1 DEF Handing!LaunchFollowsNews
<1> QED BY <1>12, <1>14, <1>15, <1>16, <1>18, <1>19, <1>22, <1>23 DEF HandInv, HandStory

LEMMA HandNext == ASSUME HandAssumption, HandInv, Handing!Next PROVE HandInv' /\ Handing!LaunchFollowsNews
<1>1. ASSUME UNCHANGED v12 PROVE Handing!LaunchFollowsNews
  BY <1>1 DEF Handing!LaunchFollowsNews
<1>2. CASE Handing!FirstLaunch \/ Handing!Decide \/ Handing!Refused
  <2>1. UNCHANGED v12
    BY <1>2 DEF Handing!FirstLaunch, Handing!Decide, Handing!Refused
  <2> QED BY <1>1, <1>2, <2>1, LoopDecides
<1>3. CASE Handing!AdvanceApprovedDesign \/ Handing!Command
  <2>1. UNCHANGED v12
    BY <1>3 DEF Handing!AdvanceApprovedDesign, Handing!Command
  <2> QED BY <1>1, <1>3, <2>1, SomebodyCommands
<1>4. CASE \/ Handing!Answer \/ Handing!Close
           \/ \E r \in Handing!Roles : Handing!Ask(r)
           \/ \E k \in Stops : Handing!Stop(k) \/ Handing!Resume(k)
  <2>1. UNCHANGED v12
    BY <1>4 DEF Handing!Answer, Handing!Close, Handing!Ask, Handing!Stop, Handing!Resume
  <2> QED BY <1>1, <1>4, <2>1, SomebodyWaits
<1>5. CASE Handing!Launch
  BY <1>5, LoopLaunches
<1>6. CASE \E r \in Handing!Roles : Handing!SessionEnds(r) \/ Handing!OthersLaunch(r)
  BY <1>6, SessionFinishes, OthersLaunched
<1> QED BY <1>2, <1>3, <1>4, <1>5, <1>6 DEF Handing!Next

LEMMA HandStutter == ASSUME HandInv, UNCHANGED Shared PROVE HandInv' /\ Handing!LaunchFollowsNews
<1>1. UNCHANGED <<v1, v2, v3, v4, v5, v6, v7, v8, v9, v10, v11, v12, v13, v14, v15>>
  BY DEF Shared
<1>a. HandTypes
  BY DEF HandInv
<1>2. HandTypes'
  <2>1. /\ v10' \in [role : Handing!Roles \cup {Nothing}, state : {"none", "open", "answered"}]
        /\ v12' \in [Handing!Roles -> Handing!Session \cup {Nothing}]
        /\ \A r \in Handing!Roles : v12'[r] # Nothing => v12'[r].role = r
        /\ v15' \in [role : Handing!Roles \cup {Nothing}, at : {"idle", "deciding", "running"}]
        /\ v15'.at # "idle" => v15'.role \in Handing!Roles
    BY <1>1, <1>a DEF HandTypes
  <2>2. UNCHANGED <<v1, v2, v3, v4, v5, v6, v7, v8, v9, v11, v13, v14>>
    BY <1>1
  <2> QED BY <1>a, <2>1, <2>2, Zenon DEF HandTypes
<1>3. Room' /\ HandStory'
  BY <1>1 DEF HandInv, Room, HandStory, SessionsDated, AnsweredSince, LoopIsBehind, FirstComesFirst, DecisionStands,
     Handing!Idle
<1>4. Handing!LaunchFollowsNews
  BY <1>1 DEF Handing!LaunchFollowsNews
<1> QED BY <1>2, <1>3, <1>4 DEF HandInv

-----------------------------------------------------------------------------
(* The parts together: whichever of them runs, its invariant holds, and the  *)
(* steps of the others are none of its business.                             *)

LEMMA PartsAssumptions ==
  /\ ProofAssumption /\ AmendAssumption /\ WorkAssumption /\ HandAssumption
  /\ ReviewsAssumption(Sessions, Rounds, MaxQuestions)
  /\ ReviewsAssumption(Asking, AskingRounds, AskingQuestions)
  /\ ClicksAssumption(MaxStamp, MaxDesigns, MaxMarks)
  /\ ClicksAssumption(LateStamp, LateDesigns, LateMarks)
<1>1. ProofAssumption /\ HandAssumption
  BY PilotAssumption DEF ProofAssumption, HandAssumption
<1>2. AmendAssumption
  BY PilotAssumption DEF AmendAssumption
<1>3. Nothing \notin SUBSET Works
  BY PilotAssumption
<1>4. WorkAssumption
  BY <1>3, PilotAssumption DEF WorkAssumption
<1>5. /\ ReviewsAssumption(Sessions, Rounds, MaxQuestions)
      /\ ReviewsAssumption(Asking, AskingRounds, AskingQuestions)
  BY PilotAssumption DEF ReviewsAssumption
<1>6. /\ ClicksAssumption(MaxStamp, MaxDesigns, MaxMarks)
      /\ ClicksAssumption(LateStamp, LateDesigns, LateMarks)
  BY PilotAssumption DEF ClicksAssumption
<1> QED BY <1>1, <1>2, <1>4, <1>5, <1>6

PilotInv ==
  /\ part \in {"CloseTransaction", "DesignReview", "Questions", "Amendment", "WorkItems", "MutationProof",
               "MissionControl", "LateClicks", "Handoff"}
  /\ part = "DesignReview"   => ReviewsInv(Sessions, Rounds, MaxQuestions)
  /\ part = "Questions"      => ReviewsInv(Asking, AskingRounds, AskingQuestions)
  /\ part = "Amendment"      => AmendInv
  /\ part = "WorkItems"      => WorkInv
  /\ part = "MutationProof"  => ProofInv
  /\ part = "MissionControl" => MissionInv(MaxStamp, MaxDesigns, MaxMarks)
  /\ part = "LateClicks"     => MissionInv(LateStamp, LateDesigns, LateMarks)
  /\ part = "Handoff"        => HandInv

\* What the parts owe to whoever asked, as one step shows it.
AsAskedStep ==
  /\ part = "DesignReview"   => Design(Sessions, Rounds, MaxQuestions)!BlocksStayExplained
  /\ part = "Questions"      => Design(Asking, AskingRounds, AskingQuestions)!BlocksStayExplained
  /\ part = "WorkItems"      => Work!RemovedStays
  /\ part = "MissionControl" => Mission(MaxStamp, MaxDesigns, MaxMarks)!LateClickDoesNoMore
  /\ part = "LateClicks"     => Mission(LateStamp, LateDesigns, LateMarks)!LateClickDoesNoMore
  /\ part = "Handoff"        => Handing!LaunchFollowsNews

LEMMA PilotInit == FirstState => PilotInv /\ Init
BY PartsAssumptions, ReviewsStart, AmendStarts, WorkStarts, ProofStarts, MissionStarts, HandStarts
DEF FirstState, FirstOfMany, PilotInv

LEMMA PilotStutter ==
  ASSUME PilotInv, UNCHANGED All
  PROVE  PilotInv' /\ AsAskedStep
<1>1. UNCHANGED <<part, Shared>>
  BY DEF All
<1>2. PilotInv'
  BY <1>1, ReviewsStutter, AmendStutter, WorkStutter, ProofStutter, MissionStutter, HandStutter DEF PilotInv
<1>3. AsAskedStep
  BY <1>1, ReviewsStutter, RemovedStaysStutter, MissionStutter, HandStutter DEF PilotInv, AsAskedStep
<1> QED BY <1>2, <1>3

LEMMA PilotNext ==
  ASSUME PilotInv, Step
  PROVE  PilotInv' /\ AsAskedStep
<1>1. CASE part = "CloseTransaction" /\ Next /\ UNCHANGED <<part, Shared>>
  BY <1>1 DEF PilotInv, AsAskedStep
<1>2. CASE /\ part = "DesignReview" /\ Design(Sessions, Rounds, MaxQuestions)!Next
           /\ UNCHANGED <<vars, part, v14, v15>>
  <2>1. ReviewsIn(Sessions, Rounds, MaxQuestions)
    BY <1>2, PartsAssumptions DEF PilotInv, ReviewsIn
  <2>2. ReviewsInv(Sessions, Rounds, MaxQuestions)' /\ Design(Sessions, Rounds, MaxQuestions)!BlocksStayExplained
    BY <1>2, <2>1, ReviewsNext
  <2> QED BY <1>2, <2>2 DEF PilotInv, AsAskedStep
<1>3. CASE /\ part = "Questions" /\ Design(Asking, AskingRounds, AskingQuestions)!Next
           /\ UNCHANGED <<vars, part, v14, v15>>
  <2>1. ReviewsIn(Asking, AskingRounds, AskingQuestions)
    BY <1>3, PartsAssumptions DEF PilotInv, ReviewsIn
  <2>2. ReviewsInv(Asking, AskingRounds, AskingQuestions)' /\ Design(Asking, AskingRounds, AskingQuestions)!BlocksStayExplained
    BY <1>3, <2>1, ReviewsNext
  <2> QED BY <1>3, <2>2 DEF PilotInv, AsAskedStep
<1>4. CASE part = "Amendment" /\ Amend!Next /\ UNCHANGED <<vars, part, v10, v11, v12, v13, v14, v15>>
  BY <1>4, AmendNext, PartsAssumptions DEF PilotInv, AsAskedStep
<1>5. CASE part = "WorkItems" /\ Work!Next /\ UNCHANGED <<vars, part, v14, v15>>
  BY <1>5, WorkNext, RemovedStaysStep, PartsAssumptions DEF PilotInv, AsAskedStep
<1>6. CASE part = "MutationProof" /\ Proof!Next /\ UNCHANGED <<vars, part, v7, v8, v9, v10, v11, v12, v13, v14, v15>>
  BY <1>6, ProofNext, PartsAssumptions DEF PilotInv, AsAskedStep
<1>7. CASE /\ part = "MissionControl" /\ Mission(MaxStamp, MaxDesigns, MaxMarks)!Next
           /\ UNCHANGED <<vars, part, v13, v14, v15>>
  BY <1>7, MissionNext, PartsAssumptions DEF PilotInv, AsAskedStep
<1>8. CASE /\ part = "LateClicks" /\ Mission(LateStamp, LateDesigns, LateMarks)!Next
           /\ UNCHANGED <<vars, part, v13, v14, v15>>
  BY <1>8, MissionNext, PartsAssumptions DEF PilotInv, AsAskedStep
<1>9. CASE part = "Handoff" /\ Handing!Next /\ UNCHANGED <<vars, part>>
  BY <1>9, HandNext, PartsAssumptions DEF PilotInv, AsAskedStep
<1> QED BY <1>1, <1>2, <1>3, <1>4, <1>5, <1>6, <1>7, <1>8, <1>9 DEF Step

\* What happens to a close beside the other parts is what happens to it alone.
LEMMA CloseAmongOthers == [Step]_All => [Next]_vars
<1>1. UNCHANGED All => UNCHANGED vars
  BY DEF All
<1>2. ASSUME Step PROVE Next \/ UNCHANGED vars
  BY <1>2 DEF Step
<1> QED BY <1>1, <1>2

LEMMA PilotInvariance == FairParts => []PilotInv
<1>1. PilotInv /\ [Step]_All => PilotInv'
  BY PilotNext, PilotStutter
<1> QED BY PilotInit, <1>1, PTL DEF FairParts

LEMMA PilotCloses == FairParts => Spec
BY PilotInit, CloseAmongOthers, PTL DEF FairParts, Spec

\* Whatever people decide, in whatever order and for any bounds: rounds of
\* design review were granted; an amended registry was reviewed and approved as
\* a whole; a decided scope is that of the items of today; a proof that stands
\* is of the source it names, unless that was changed and changed back while it
\* ran.  (create_agent_session, cmd_amendment_approve, work_item_scope,
\* cmd_mutation_proof)
THEOREM AlwaysDecidedOnWhatIsThere == FairParts => []DecidedOnWhatIsThere
<1>1. PilotInv => DecidedOnWhatIsThere
  BY PartsAssumptions, ReviewsKeep, AmendKeeps, WorkKeeps, ProofKeeps DEF PilotInv, ReviewsIn, DecidedOnWhatIsThere
<1> QED BY PilotInvariance, <1>1, PTL

\* The state of every part is well typed, the close's included.
THEOREM PilotTypeCorrect == FairParts => []TypesOK
<1>1. PilotInv /\ TypeOK => TypesOK
  BY PartsAssumptions, ReviewsKeep, AmendKeeps, WorkKeeps, ProofKeeps, MissionKeeps, HandKeeps
  DEF PilotInv, ReviewsIn, TypesOK
<1> QED BY PilotInvariance, PilotCloses, TypeCorrect, <1>1, PTL

\* No step of any part does more than was asked for: whoever posts a report had
\* not found the issue closed by a person; a removed work item returns only with
\* a criterion or a tranche that names it; a click on a page that is late does
\* what that page showed or nothing; the loop launches a role again only after
\* news of it; and a block that has an open reason keeps one, unless criteria
\* are edited or the run is advanced in place.  (close_issue,
\* cmd_work_item_remove, _execute_approved, decide, record_question_answer)
THEOREM NoMoreThanAsked == FairParts => OnlyAsAsked
<1>1. PilotInv /\ [Step]_All =>
        [CASE part = "WorkItems"      -> Work!RemovedStays
           [] part = "DesignReview"   -> Design(Sessions, Rounds, MaxQuestions)!BlocksStayExplained
           [] part = "Questions"      -> Design(Asking, AskingRounds, AskingQuestions)!BlocksStayExplained
           [] part = "MissionControl" -> Mission(MaxStamp, MaxDesigns, MaxMarks)!LateClickDoesNoMore
           [] part = "LateClicks"     -> Mission(LateStamp, LateDesigns, LateMarks)!LateClickDoesNoMore
           [] part = "Handoff"        -> Handing!LaunchFollowsNews
           [] OTHER                   -> TRUE]_All
  BY PilotNext, PilotStutter DEF AsAskedStep
<1>2. FairParts =>
        [][CASE part = "WorkItems"      -> Work!RemovedStays
             [] part = "DesignReview"   -> Design(Sessions, Rounds, MaxQuestions)!BlocksStayExplained
             [] part = "Questions"      -> Design(Asking, AskingRounds, AskingQuestions)!BlocksStayExplained
             [] part = "MissionControl" -> Mission(MaxStamp, MaxDesigns, MaxMarks)!LateClickDoesNoMore
             [] part = "LateClicks"     -> Mission(LateStamp, LateDesigns, LateMarks)!LateClickDoesNoMore
             [] part = "Handoff"        -> Handing!LaunchFollowsNews
             [] OTHER                   -> TRUE]_All
  BY PilotInvariance, <1>1, PTL DEF FairParts
<1>3. FairParts => PersonsClosureStands
  BY PilotCloses, PersonsClosuresStand, PTL
<1> QED BY <1>2, <1>3, PTL DEF OnlyAsAsked
=============================================================================
