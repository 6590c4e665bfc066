---------------------- MODULE ReleaseTransactionProofs ----------------------
(* Proofs about ReleaseTransaction: its types, and that the record is the  *)
(* truth about a world nobody else changes.                                *)
EXTENDS ReleaseTransaction, TLAPS

USE DEF Tag, Release, Wheel, Checksum, Install, Manifest

LEMMA Constants ==
  /\ NoObject \in Objects
  /\ NoRecord \in Record
  /\ NotPlanned \in ReleasePlans
  /\ Idle \in Call
BY DEF NoObject, Objects, NoRecord, Record, NotPlanned, ReleasePlans, Idle, Call, Holding, States, Steps

\* What a call keeps in memory has its type, whatever becomes of its pc.
LEMMA CallTypes ==
  ASSUME TypeOK, NEW r \in Runners
  PROVE  /\ call[r] \in Call
         /\ Plan(r) \in Plans \cup {None} /\ Step(r) \in Steps /\ StateOf(r) \in States
         /\ call[r].record \in Record /\ call[r].seen \in Nat
         /\ \A state \in States : Moved(r, state) \in Record
<1>1. call[r] \in Call  BY DEF TypeOK
<1>2. /\ Plan(r) \in Plans \cup {None} /\ Step(r) \in Steps
      /\ call[r].record \in Record /\ call[r].seen \in Nat
  BY <1>1 DEF Call, Plan, Step
<1>3. call[r].record.state \in [Steps -> States]  BY <1>2 DEF Record
<1>4. StateOf(r) \in States  BY <1>2, <1>3 DEF StateOf
<1>5. ASSUME NEW state \in States PROVE Moved(r, state) \in Record
  <2>1. [call[r].record.state EXCEPT ![Step(r)] = state] \in [Steps -> States]  BY <1>3
  <2>. QED  BY <1>2, <2>1 DEF Moved, Record
<1>. QED  BY <1>1, <1>2, <1>4, <1>5

LEMMA GoesType ==
  ASSUME TypeOK, NEW r \in Runners,
         NEW pc \in {"idle", "load", "report"} \cup Holding, Goes(r, pc)
  PROVE  call' \in [Runners -> Call]
BY DEF TypeOK, Call, Goes

LEMMA RaiseType ==
  ASSUME TypeOK, NEW r \in Runners, Raise(r)
  PROVE  call' \in [Runners -> Call]
BY Constants DEF TypeOK, Raise

LEMMA SavesType ==
  ASSUME TypeOK, NEW r \in Runners, NEW new \in Record,
         NEW pc \in {"idle", "load", "report"} \cup Holding, Saves(r, new, pc)
  PROVE  record' \in Record /\ call' \in [Runners -> Call]
<1>1. call[r] \in Call  BY DEF TypeOK
<1>2. [call[r] EXCEPT !.record = new, !.pc = pc] \in Call  BY <1>1 DEF Call
<1>3. call' = [call EXCEPT ![r] = [call[r] EXCEPT !.record = new, !.pc = pc]]  BY DEF Saves, TypeOK
<1>. QED  BY <1>2, <1>3 DEF TypeOK, Saves

LEMMA FollowingType ==
  ASSUME TypeOK, NEW r \in Runners
  PROVE  Following(r) \in Call
<1>1. call[r] \in Call  BY DEF TypeOK
<1>2. CASE Step(r) = Manifest  BY <1>1, <1>2 DEF Call, Following, Holding
<1>3. CASE Step(r) # Manifest
  <2>1. call[r].step + 1 \in Steps  BY <1>1, <1>3 DEF Call, Step, Steps
  <2>. QED  BY <1>1, <1>3, <2>1 DEF Call, Following, Holding
<1>. QED  BY <1>2, <1>3

LEMMA ObjectType ==
  ASSUME TypeOK, NEW p \in Plans, NEW s \in Published
  PROVE  Object(p, s) \in Objects /\ Fresh(p) \in Objects /\ VersionOf[p] \in Versions
BY ReleaseAssumption DEF TypeOK, Object, Fresh, Objects

LEMMA IdentifierType ==
  ASSUME TypeOK, NEW p \in Plans, NEW s \in Steps
  PROVE  Identifier(p, s) \in Nat
BY ObjectType DEF Identifier, Objects

LEMMA AdoptsType ==
  ASSUME TypeOK, NEW r \in Runners, Plan(r) \in Plans, Adopts(r)
  PROVE  call' \in [Runners -> Call]
<1>1. Identifier(Plan(r), Step(r)) \in Nat  BY CallTypes, IdentifierType
<1>2. call[r] \in Call  BY DEF TypeOK
<1>3. [call[r] EXCEPT !.pc = "persist", !.seen = Identifier(Plan(r), Step(r))] \in Call
  BY <1>1, <1>2 DEF Call, Holding
<1>4. call' = [call EXCEPT ![r] = [call[r] EXCEPT !.pc = "persist", !.seen = Identifier(Plan(r), Step(r))]]
  BY DEF Adopts, TypeOK
<1>. QED  BY <1>3, <1>4 DEF TypeOK

LEMMA PlaceType ==
  ASSUME TypeOK, NEW p \in Plans, NEW s \in Published, NEW object \in Objects, Place(p, s, object)
  PROVE  remote' \in [Versions -> [Published -> Objects]]
BY ObjectType, ReleaseAssumption DEF TypeOK, Place

LEMMA ReadsType ==
  ASSUME TypeOK, NEW p, NEW s, NEW verdict, Reads(p, s, verdict)
  PROVE  faults' \in 0..MaxFaults
BY ReleaseAssumption DEF TypeOK, Reads

-----------------------------------------------------------------------------
(* Types *)

\* A call that goes on has a plan.
Owned == \A r \in Runners : call[r].pc # "idle" => Plan(r) \in Plans

\* A step of a call's own either ends it or keeps its plan.
LEMMA StillOwned ==
  ASSUME TypeOK, Owned, NEW r \in Runners, call[r].pc # "idle",
         \/ Raise(r)
         \/ Adopts(r)
         \/ \E pc \in {"idle", "load", "report"} \cup Holding : Goes(r, pc)
         \/ \E new \in Record, pc \in {"idle", "load", "report"} \cup Holding : Saves(r, new, pc)
         \/ call' = [call EXCEPT ![r] = Following(r)]
  PROVE  Owned'
<1>1. Plan(r) \in Plans /\ call[r] \in Call  BY DEF Owned, TypeOK
<1>2. CASE Raise(r)  BY <1>2 DEF Raise, Owned, Plan, Idle, TypeOK
<1>3. SUFFICES ASSUME Plan(r)' = Plan(r), \A q \in Runners \ {r} : call'[q] = call[q]
               PROVE  Owned'
  <2>1. CASE Adopts(r)  BY <1>1, <1>3, <2>1 DEF Adopts, Plan, Call, TypeOK
  <2>2. CASE \E pc \in {"idle", "load", "report"} \cup Holding : Goes(r, pc)
    BY <1>1, <1>3, <2>2 DEF Goes, Plan, Call, TypeOK
  <2>3. CASE \E new \in Record, pc \in {"idle", "load", "report"} \cup Holding : Saves(r, new, pc)
    BY <1>1, <1>3, <2>3 DEF Saves, Plan, Call, TypeOK
  <2>4. CASE call' = [call EXCEPT ![r] = Following(r)]
    BY <1>1, <1>3, <2>4 DEF Following, Plan, Call, TypeOK
  <2>. QED  BY <1>2, <2>1, <2>2, <2>3, <2>4
<1>. QED  BY <1>1, <1>3 DEF Owned, Plan

LEMMA TypeInit == Init => TypeOK /\ Owned
<1>. SUFFICES ASSUME Init PROVE TypeOK /\ Owned  OBVIOUS
<1>1. InitiallyInstalled \subseteq Plans \cup {None} /\ MaxPlanned \in Nat /\ MaxFaults \in Nat /\ MaxMeddles \in Nat
  BY ReleaseAssumption
<1>2. Owned  BY DEF Init, Owned, Idle
<1>3. NotReported \in [plan: Plans \cup {None}, bound: ReleasePlans]
  BY Constants DEF NotReported
<1>. QED  BY <1>1, <1>2, <1>3, Constants DEF Init, TypeOK

LEMMA TypeNext == TypeOK /\ Owned /\ [Next]_vars => TypeOK' /\ Owned'
<1>. SUFFICES ASSUME TypeOK, Owned, [Next]_vars PROVE TypeOK' /\ Owned'  OBVIOUS
<1>. USE DEF status, world
<1>1. ASSUME NEW r \in Runners, NEW p \in Plans, Gate(r, p) PROVE TypeOK' /\ Owned'
  <2>1. [Idle EXCEPT !.pc = "load", !.plan = p, !.bound = planned] \in Call
    BY Constants DEF TypeOK, Call
  <2>2. call' \in [Runners -> Call]  BY <1>1, <2>1 DEF TypeOK, Gate
  <2>3. Owned'  BY <1>1 DEF Owned, Plan, Gate, TypeOK
  <2>. QED  BY <1>1, <2>2, <2>3 DEF TypeOK, Gate
<1>2. ASSUME NEW r \in Runners, Load(r) PROVE TypeOK' /\ Owned'
  <2>. DEFINE loaded == IF record = NoRecord THEN [NoRecord EXCEPT !.plan = Plan(r)] ELSE record
  <2>1. Plan(r) \in Plans  BY <1>2 DEF Load, Owned
  <2>2. loaded \in Record  BY <2>1, Constants DEF TypeOK, Record
  <2>3. record' \in Record /\ call' \in [Runners -> Call]
    <3>1. CASE loaded.plan = Plan(r)
      <4>1. Saves(r, loaded, "enter")  BY <1>2, <3>1 DEF Load
      <4>. QED  BY <2>2, <4>1, SavesType DEF Holding
    <3>2. CASE loaded.plan # Plan(r)
      <4>1. Raise(r) /\ UNCHANGED record  BY <1>2, <3>2 DEF Load
      <4>. QED  BY <4>1, RaiseType DEF TypeOK
    <3>. QED  BY <3>1, <3>2
  <2>4. Owned'  BY <1>2, <2>2, StillOwned DEF Load, Holding
  <2>. QED  BY <1>2, <2>3, <2>4 DEF TypeOK, Load
<1>3. ASSUME NEW r \in Runners, Recheck(r) PROVE TypeOK' /\ Owned'
  <2>1. PICK verdict \in {"missing", "exact", "conflict"} :
          /\ Reads(Plan(r), Step(r), verdict)
          /\ call' = [call EXCEPT ![r] = Following(r)] \/ Raise(r)
    BY <1>3 DEF Recheck
  <2>2. faults' \in 0..MaxFaults  BY <2>1, ReadsType
  <2>3. call' \in [Runners -> Call]
    BY <2>1, FollowingType, RaiseType DEF TypeOK
  <2>4. Owned'  BY <1>3, <2>1, StillOwned DEF Recheck, Holding
  <2>. QED  BY <1>3, <2>2, <2>3, <2>4 DEF TypeOK, Recheck
<1>4. ASSUME NEW r \in Runners, Intend(r) PROVE TypeOK' /\ Owned'
  <2>1. Moved(r, "intent") \in Record  BY CallTypes DEF States
  <2>2. record' \in Record /\ call' \in [Runners -> Call]
    BY <1>4, <2>1, SavesType DEF Intend, Holding
  <2>3. Owned'  BY <1>4, <2>1, StillOwned DEF Intend, Holding
  <2>. QED  BY <1>4, <2>2, <2>3 DEF TypeOK, Intend
<1>5. ASSUME NEW r \in Runners, PreRead(r) PROVE TypeOK' /\ Owned'
  <2>1. PICK verdict \in {"missing", "exact", "conflict"} :
          /\ Reads(Plan(r), Step(r), verdict)
          /\ Adopts(r) \/ Raise(r) \/ Goes(r, "mark") \/ Goes(r, "act")
    BY <1>5 DEF PreRead
  <2>2. faults' \in 0..MaxFaults  BY <2>1, ReadsType
  <2>3. Plan(r) \in Plans  BY <1>5 DEF PreRead, Owned
  <2>4. call' \in [Runners -> Call]
    BY <2>1, <2>3, AdoptsType, RaiseType, GoesType DEF Holding
  <2>5. Owned'  BY <1>5, <2>1, StillOwned DEF PreRead, Holding
  <2>. QED  BY <1>5, <2>2, <2>4, <2>5 DEF TypeOK, PreRead
<1>6. ASSUME NEW r \in Runners, Mark(r) PROVE TypeOK' /\ Owned'
  <2>1. Moved(r, "action") \in Record  BY CallTypes DEF States
  <2>2. record' \in Record /\ call' \in [Runners -> Call]
    BY <1>6, <2>1, SavesType DEF Mark, Holding
  <2>3. Owned'  BY <1>6, <2>1, StillOwned DEF Mark, Holding
  <2>. QED  BY <1>6, <2>2, <2>3 DEF TypeOK, Mark
<1>7. ASSUME NEW r \in Runners, TagLocally(r) PROVE TypeOK' /\ Owned'
  <2>1. Plan(r) \in Plans  BY <1>7 DEF TagLocally, Owned
  <2>2. Goes(r, "push") \/ Raise(r)  BY <1>7 DEF TagLocally
  <2>3. call' \in [Runners -> Call]  BY <2>2, GoesType, RaiseType DEF Holding
  <2>4. local' \in [Versions -> Objects] /\ made' \in Nat
    BY <1>7, <2>1, ObjectType DEF TagLocally, TypeOK, Published
  <2>5. Owned'  BY <1>7, <2>2, StillOwned DEF TagLocally, Holding
  <2>. QED  BY <1>7, <2>3, <2>4, <2>5 DEF TypeOK, TagLocally
<1>8. ASSUME NEW r \in Runners, Push(r) PROVE TypeOK' /\ Owned'
  <2>1. Plan(r) \in Plans  BY <1>8 DEF Push, Owned
  <2>2. Goes(r, "verify") \/ Raise(r)  BY <1>8 DEF Push
  <2>3. call' \in [Runners -> Call]  BY <2>2, GoesType, RaiseType DEF Holding
  <2>4. remote' \in [Versions -> [Published -> Objects]]
    <3>1. local[VersionOf[Plan(r)]] \in Objects  BY <2>1, ReleaseAssumption DEF TypeOK
    <3>. QED  BY <1>8, <2>1, <3>1, PlaceType DEF Push, TypeOK, Published
  <2>5. Owned'  BY <1>8, <2>2, StillOwned DEF Push, Holding
  <2>. QED  BY <1>8, <2>3, <2>4, <2>5 DEF TypeOK, Push
<1>9. ASSUME NEW r \in Runners, Create(r) PROVE TypeOK' /\ Owned'
  <2>1. Plan(r) \in Plans /\ Step(r) \in Published  BY <1>9 DEF Create, Owned, Published
  <2>2. Goes(r, "verify") \/ Raise(r)  BY <1>9 DEF Create
  <2>3. call' \in [Runners -> Call]  BY <2>2, GoesType, RaiseType DEF Holding
  <2>4. remote' \in [Versions -> [Published -> Objects]] /\ made' \in Nat
    BY <1>9, <2>1, PlaceType, ObjectType DEF Create, TypeOK
  <2>5. Owned'  BY <1>9, <2>2, StillOwned DEF Create, Holding
  <2>. QED  BY <1>9, <2>3, <2>4, <2>5 DEF TypeOK, Create
<1>10. ASSUME NEW r \in Runners, ReadWheel(r) PROVE TypeOK' /\ Owned'
  <2>1. PICK verdict : Reads(Plan(r), Wheel, verdict) /\ (Goes(r, "pip") \/ Raise(r))
    BY <1>10 DEF ReadWheel
  <2>2. faults' \in 0..MaxFaults  BY <2>1, ReadsType
  <2>3. call' \in [Runners -> Call]  BY <2>1, GoesType, RaiseType DEF Holding
  <2>4. Owned'  BY <1>10, <2>1, StillOwned DEF ReadWheel, Holding
  <2>. QED  BY <1>10, <2>2, <2>3, <2>4 DEF TypeOK, ReadWheel
<1>11. ASSUME NEW r \in Runners, Pip(r) PROVE TypeOK' /\ Owned'
  <2>1. Plan(r) \in Plans  BY <1>11 DEF Pip, Owned
  <2>2. Goes(r, "marker") \/ Raise(r)  BY <1>11 DEF Pip
  <2>3. call' \in [Runners -> Call]  BY <2>2, GoesType, RaiseType DEF Holding
  <2>4. installed' \in Plans \cup {None}
    BY <1>11, <2>1, ObjectType DEF Pip, TypeOK, Published, Objects
  <2>5. Owned'  BY <1>11, <2>2, StillOwned DEF Pip, Holding
  <2>. QED  BY <1>11, <2>3, <2>4, <2>5 DEF TypeOK, Pip
<1>12. ASSUME NEW r \in Runners, WriteMarker(r) PROVE TypeOK' /\ Owned'
  <2>1. Plan(r) \in Plans /\ Goes(r, "verify")  BY <1>12 DEF WriteMarker, Owned
  <2>2. call' \in [Runners -> Call]  BY <2>1, GoesType DEF Holding
  <2>3. Owned'  BY <1>12, <2>1, StillOwned DEF WriteMarker, Holding
  <2>. QED  BY <1>12, <2>1, <2>2, <2>3 DEF TypeOK, WriteMarker
<1>13. ASSUME NEW r \in Runners, ReadManifest(r) PROVE TypeOK' /\ Owned'
  <2>1. PICK verdict : Reads(Plan(r), Manifest, verdict) /\ (Goes(r, "verify") \/ Raise(r))
    BY <1>13 DEF ReadManifest
  <2>2. faults' \in 0..MaxFaults  BY <2>1, ReadsType
  <2>3. call' \in [Runners -> Call]  BY <2>1, GoesType, RaiseType DEF Holding
  <2>4. Owned'  BY <1>13, <2>1, StillOwned DEF ReadManifest, Holding
  <2>. QED  BY <1>13, <2>2, <2>3, <2>4 DEF TypeOK, ReadManifest
<1>14. ASSUME NEW r \in Runners, Verify(r) PROVE TypeOK' /\ Owned'
  <2>1. PICK verdict : Reads(Plan(r), Step(r), verdict) /\ (Adopts(r) \/ Raise(r))
    BY <1>14 DEF Verify
  <2>2. faults' \in 0..MaxFaults  BY <2>1, ReadsType
  <2>3. Plan(r) \in Plans  BY <1>14 DEF Verify, Owned
  <2>4. call' \in [Runners -> Call]  BY <2>1, <2>3, AdoptsType, RaiseType
  <2>5. Owned'  BY <1>14, <2>1, StillOwned DEF Verify, Holding
  <2>. QED  BY <1>14, <2>2, <2>4, <2>5 DEF TypeOK, Verify
<1>15. ASSUME NEW r \in Runners, Persist(r) PROVE TypeOK' /\ Owned'
  <2>. DEFINE new == [Moved(r, "read_back") EXCEPT !.result[Step(r)] = call[r].seen]
  <2>1. Moved(r, "read_back") \in Record /\ Step(r) \in Steps /\ call[r].seen \in Nat
    BY CallTypes DEF States
  <2>2. new \in Record  BY <2>1 DEF Record
  <2>3. Saves(r, new, "persist")  BY <1>15 DEF Persist
  <2>4. record' \in Record /\ call' \in [Runners -> Call]
    BY <2>2, <2>3, SavesType DEF Holding
  <2>5. Owned'  BY <1>15, <2>2, <2>3, StillOwned DEF Persist, Holding
  <2>. QED  BY <1>15, <2>4, <2>5 DEF TypeOK, Persist
<1>16. ASSUME NEW r \in Runners, Complete(r) PROVE TypeOK' /\ Owned'
  <2>1. Moved(r, "complete") \in Record  BY CallTypes DEF States
  <2>2. [Following(r) EXCEPT !.record = Moved(r, "complete")] \in Call
    BY <2>1, FollowingType DEF Call
  <2>3. record' \in Record /\ call' \in [Runners -> Call]  BY <1>16, <2>1, <2>2 DEF Complete, TypeOK
  <2>4. Owned'
    <3>1. Plan(r)' = Plan(r)
      BY <1>16, CallTypes DEF Complete, Following, Plan, TypeOK, Call
    <3>. QED  BY <1>16, <3>1 DEF Owned, Plan, Complete, TypeOK
  <2>. QED  BY <1>16, <2>3, <2>4 DEF TypeOK, Complete
<1>17. ASSUME NEW r \in Runners, Finish(r) PROVE TypeOK' /\ Owned'
  <2>. DEFINE new == [call[r].record EXCEPT !.complete = TRUE]
  <2>1. new \in Record  BY CallTypes DEF Record
  <2>2. Saves(r, new, "report")  BY <1>17 DEF Finish
  <2>3. record' \in Record /\ call' \in [Runners -> Call]  BY <2>1, <2>2, SavesType
  <2>4. Owned'  BY <1>17, <2>1, <2>2, StillOwned DEF Finish, Holding
  <2>. QED  BY <1>17, <2>3, <2>4 DEF TypeOK, Finish
<1>18. ASSUME NEW r \in Runners, Report(r) PROVE TypeOK' /\ Owned'
  <2>1. Raise(r)  BY <1>18 DEF Report
  <2>2. call' \in [Runners -> Call]  BY <2>1, RaiseType
  <2>3. reported' \in [plan: Plans \cup {None}, bound: ReleasePlans]
    BY <1>18, CallTypes DEF Report, TypeOK
  <2>4. Owned'  BY <1>18, <2>1, StillOwned DEF Report, Holding
  <2>. QED  BY <1>18, <2>2, <2>3, <2>4 DEF TypeOK, Report
<1>19. ASSUME NEW r \in Runners, Stop(r) PROVE TypeOK' /\ Owned'
  <2>1. Raise(r)  BY <1>19 DEF Stop
  <2>2. call' \in [Runners -> Call]  BY <2>1, RaiseType
  <2>3. Owned'  BY <1>19, <2>1, StillOwned DEF Stop, Holding
  <2>4. faults' \in 0..MaxFaults  BY <1>19, ReleaseAssumption DEF Stop, TypeOK
  <2>. QED  BY <1>19, <2>2, <2>3, <2>4 DEF TypeOK, Stop
<1>20. ASSUME NEW v \in Versions, ReleasePlan(v) PROVE TypeOK' /\ Owned'
  <2>1. stamps' \in 0..MaxPlanned /\ planned' \in ReleasePlans
    BY <1>20, ReleaseAssumption DEF ReleasePlan, TypeOK, ReleasePlans
  <2>. QED  BY <1>20, <2>1 DEF TypeOK, Owned, Plan, ReleasePlan
<1>21. ASSUME Ship PROVE TypeOK' /\ Owned'
  BY <1>21 DEF TypeOK, Owned, Plan, Ship
<1>22. ASSUME NextMission PROVE TypeOK' /\ Owned'
  BY <1>22, Constants DEF TypeOK, Owned, Plan, NextMission, NotReported
<1>23. ASSUME Meddle PROVE TypeOK' /\ Owned'
  <2>1. \A r \in Runners : call[r] \in Call  BY DEF TypeOK
  <2>2. call' \in [Runners -> Call]  BY <1>23, <2>1 DEF Meddle, Call
  <2>3. Owned'  BY <1>23, <2>1 DEF Meddle, Owned, Plan, TypeOK, Call
  <2>4. \A p \in Plans : Fresh(p) \in Objects /\ made + 1 \in Nat  BY DEF TypeOK, Fresh, Objects
  <2>5. remote' \in [Versions -> [Published -> Objects]]
    <3>1. CASE UNCHANGED remote  BY <3>1 DEF TypeOK
    <3>2. CASE \E v \in Versions, s \in Published, p \in Plans \cup {None} :
                 remote' = [remote EXCEPT ![v][s] = IF p = None THEN NoObject ELSE Fresh(p)]
      <4>1. PICK v \in Versions, s \in Published, object \in Objects :
              remote' = [remote EXCEPT ![v][s] = object]
        BY <3>2, <2>4, Constants
      <4>2. remote[v] \in [Published -> Objects]  BY DEF TypeOK
      <4>. QED  BY <4>1, <4>2 DEF TypeOK
    <3>. QED  BY <1>23, <3>1, <3>2 DEF Meddle
  <2>6. local' \in [Versions -> Objects] /\ installed' \in Plans \cup {None} /\ made' \in Nat
    BY <1>23, <2>4 DEF Meddle, TypeOK
  <2>7. meddles' \in 0..MaxMeddles  BY <1>23, ReleaseAssumption DEF Meddle, TypeOK
  <2>. QED  BY <1>23, <2>2, <2>3, <2>5, <2>6, <2>7 DEF TypeOK, Meddle
<1>24. CASE UNCHANGED vars
  BY <1>24 DEF vars, TypeOK, Owned, Plan
<1>. QED
  BY <1>1, <1>2, <1>3, <1>4, <1>5, <1>6, <1>7, <1>8, <1>9, <1>10, <1>11, <1>12, <1>13, <1>14, <1>15,
     <1>16, <1>17, <1>18, <1>19, <1>20, <1>21, <1>22, <1>23, <1>24 DEF Next, Continue, Acts

\* Every variable keeps its type: the bounds, the six steps and the states of
\* the record are never left, whatever calls, faults and others do.
THEOREM TypeCorrect == Spec => []TypeOK
<1>1. Init => TypeOK /\ Owned  BY TypeInit
<1>2. (TypeOK /\ Owned) /\ [Next]_vars => (TypeOK /\ Owned)'  BY TypeNext
<1>. QED  BY <1>1, <1>2, PTL DEF Spec

-----------------------------------------------------------------------------
(* The lock and the places of a call *)

\* The release lock: one call at a time works on the record, and holds in
\* memory what is on disk.
InMemoryIsOnDisk ==
  \A r \in Runners : call[r].pc \in Holding =>
    /\ call[r].record = record /\ record.plan = Plan(r)
    /\ \A q \in Runners \ {r} : call[q].pc \notin Holding

\* What a call is about to do fits its step, and was announced before.
AtPlace(r) ==
  /\ call[r].pc \in {"act", "push", "pip", "marker", "verify"} => StateOf(r) \in {"action", "read_back"}
  /\ call[r].pc = "push" => Step(r) = Tag
  /\ call[r].pc \in {"pip", "marker"} => Step(r) = Install
InPlace == \A r \in Runners : AtPlace(r)

\* Without a plan there is no record at all.
RecordHasPlan == record.plan = None => record = NoRecord

LEMMA KeepsLock ==
  ASSUME TypeOK, InMemoryIsOnDisk, NEW r \in Runners, call[r].pc \in Holding, UNCHANGED record,
         \/ Raise(r)
         \/ Adopts(r)
         \/ \E pc \in {"idle", "load", "report"} \cup Holding : Goes(r, pc)
         \/ call' = [call EXCEPT ![r] = Following(r)]
  PROVE  InMemoryIsOnDisk'
<1>1. call[r] \in Call /\ \A q \in Runners \ {r} : call'[q] = call[q] /\ call[q].pc \notin Holding
  BY DEF InMemoryIsOnDisk, Raise, Adopts, Goes, TypeOK
<1>2. call[r].record = record /\ record.plan = Plan(r)  BY DEF InMemoryIsOnDisk
<1>3. CASE Raise(r)
  BY <1>1, <1>3 DEF InMemoryIsOnDisk, Raise, Idle, Holding, TypeOK
<1>4. CASE call'[r].record = call[r].record /\ Plan(r)' = Plan(r)
  BY <1>1, <1>2, <1>4 DEF InMemoryIsOnDisk
<1>5. CASE Adopts(r)  BY <1>1, <1>4, <1>5 DEF Adopts, TypeOK, Call, Plan
<1>6. CASE \E pc \in {"idle", "load", "report"} \cup Holding : Goes(r, pc)
  BY <1>1, <1>4, <1>6 DEF Goes, TypeOK, Call, Plan
<1>7. CASE call' = [call EXCEPT ![r] = Following(r)]
  BY <1>1, <1>4, <1>7 DEF Following, TypeOK, Call, Plan
<1>. QED  BY <1>3, <1>5, <1>6, <1>7

LEMMA SavesUnderLock ==
  ASSUME TypeOK, InMemoryIsOnDisk, NEW r \in Runners, call[r].pc \in Holding,
         NEW new \in Record, new.plan = Plan(r),
         NEW pc \in {"idle", "load", "report"} \cup Holding, Saves(r, new, pc)
  PROVE  InMemoryIsOnDisk'
<1>1. call[r] \in Call /\ \A q \in Runners \ {r} : call'[q] = call[q] /\ call[q].pc \notin Holding
  BY DEF InMemoryIsOnDisk, Saves, TypeOK
<1>2. call'[r].record = record' /\ record'.plan = Plan(r)'
  BY <1>1 DEF Saves, TypeOK, Call, Plan
<1>. QED  BY <1>1, <1>2 DEF InMemoryIsOnDisk

\* The place of a call after a step of its own, by where the step goes.
LEMMA PlaceAfter ==
  ASSUME TypeOK, InPlace, NEW r \in Runners,
         \/ Raise(r)
         \/ Adopts(r)
         \/ \E pc \in {"mark", "report"} : Goes(r, pc)
         \/ /\ \E pc \in {"act", "verify"} : Goes(r, pc)
            /\ StateOf(r) \in {"action", "read_back"}
         \/ Goes(r, "push") /\ Step(r) = Tag /\ StateOf(r) \in {"action", "read_back"}
         \/ /\ \E pc \in {"pip", "marker"} : Goes(r, pc)
            /\ Step(r) = Install /\ StateOf(r) \in {"action", "read_back"}
         \/ \E new \in Record, pc \in {"enter", "persist", "report"} : Saves(r, new, pc)
         \/ Saves(r, Moved(r, "action"), "act")
         \/ call' = [call EXCEPT ![r] = Following(r)]
  PROVE  InPlace'
<1>1. call[r] \in Call /\ Step(r) \in Steps  BY CallTypes
<1>2. \A q \in Runners \ {r} : call'[q] = call[q]
  BY DEF Raise, Adopts, Goes, Saves, TypeOK
<1>3. \A q \in Runners \ {r} : AtPlace(q)'
  BY <1>2 DEF InPlace, AtPlace, StateOf, Step
<1>4. AtPlace(r)'
  <2>1. CASE Raise(r)  BY <2>1 DEF Raise, Idle, AtPlace, TypeOK
  <2>2. CASE Adopts(r)  BY <1>1, <2>2 DEF Adopts, AtPlace, TypeOK, Call
  <2>3. CASE \E pc \in {"mark", "report"} : Goes(r, pc)
    BY <1>1, <2>3 DEF Goes, AtPlace, TypeOK, Call
  <2>4. CASE /\ \E pc \in {"act", "verify", "push", "pip", "marker"} : Goes(r, pc)
             /\ StateOf(r) \in {"action", "read_back"}
             /\ Goes(r, "push") => Step(r) = Tag
             /\ (Goes(r, "pip") \/ Goes(r, "marker")) => Step(r) = Install
    <3>1. call'[r].record = call[r].record /\ call'[r].step = call[r].step
      BY <1>1, <2>4 DEF Goes, TypeOK, Call
    <3>2. StateOf(r)' = StateOf(r) /\ Step(r)' = Step(r)  BY <3>1 DEF StateOf, Step
    <3>3. \A pc : Goes(r, pc) => call'[r].pc = pc  BY <1>1 DEF Goes, TypeOK, Call
    <3>. QED  BY <2>4, <3>2, <3>3 DEF AtPlace
  <2>5. CASE \E new \in Record, pc \in {"enter", "persist", "report"} : Saves(r, new, pc)
    BY <1>1, <2>5 DEF Saves, AtPlace, TypeOK, Call
  <2>6. CASE Saves(r, Moved(r, "action"), "act")
    <3>1. call'[r].record = Moved(r, "action") /\ call'[r].step = call[r].step /\ call'[r].pc = "act"
      BY <1>1, <2>6 DEF Saves, TypeOK, Call
    <3>2. StateOf(r)' = "action"
      BY <1>1, <3>1, CallTypes DEF StateOf, Step, Moved, Record
    <3>. QED  BY <3>1, <3>2 DEF AtPlace
  <2>7. CASE call' = [call EXCEPT ![r] = Following(r)]
    BY <1>1, <2>7 DEF Following, AtPlace, TypeOK, Call
  <2>8. \A pc, other : Goes(r, pc) /\ Goes(r, other) => pc = other
    BY <1>1 DEF Goes, TypeOK, Call
  <2>. QED  BY <2>1, <2>2, <2>3, <2>4, <2>5, <2>6, <2>7, <2>8
<1>. QED  BY <1>3, <1>4 DEF InPlace

LEMMA LockNext ==
  ASSUME TypeOK, Owned, InMemoryIsOnDisk, InPlace, RecordHasPlan, [Next]_vars
  PROVE  InMemoryIsOnDisk' /\ InPlace' /\ RecordHasPlan'
<1>. DEFINE Inv == InMemoryIsOnDisk /\ InPlace /\ RecordHasPlan
<1>. SUFFICES Inv'  OBVIOUS
<1>. USE DEF status, world
<1>0. ASSUME NEW r \in Runners, call[r].pc \in Holding
      PROVE  /\ call[r].record = record /\ record.plan = Plan(r) /\ Plan(r) \in Plans
             /\ Plan(r) # None
  BY <1>0, ReleaseAssumption DEF InMemoryIsOnDisk, Owned, Holding
<1>1. ASSUME NEW r \in Runners, NEW p \in Plans, Gate(r, p) PROVE Inv'
  <2>1. /\ \A q \in Runners \ {r} : call'[q] = call[q]
        /\ call'[r].pc = "load" /\ UNCHANGED record
    BY <1>1, Constants DEF Gate, TypeOK, Call
  <2>2. call[r].pc \notin Holding  BY <1>1 DEF Gate, Holding
  <2>3. InMemoryIsOnDisk'
    BY <2>1, <2>2 DEF InMemoryIsOnDisk, Holding, Plan
  <2>4. InPlace'  BY <2>1 DEF InPlace, AtPlace, StateOf, Step
  <2>. QED  BY <2>1, <2>3, <2>4 DEF RecordHasPlan
<1>2. ASSUME NEW r \in Runners, Load(r) PROVE Inv'
  <2>. DEFINE loaded == IF record = NoRecord THEN [NoRecord EXCEPT !.plan = Plan(r)] ELSE record
  <2>1. Plan(r) \in Plans /\ Plan(r) # None  BY <1>2, ReleaseAssumption DEF Load, Owned
  <2>2. loaded \in Record  BY <2>1, Constants DEF TypeOK, Record
  <2>3. call[r] \in Call /\ \A q \in Runners \ {r} : call'[q] = call[q] /\ call[q].pc \notin Holding
    BY <1>2 DEF Load, Unlocked, Saves, Raise, TypeOK
  <2>4. CASE loaded.plan = Plan(r)
    <3>1. Saves(r, loaded, "enter")  BY <1>2, <2>4 DEF Load
    <3>2. call'[r].record = record' /\ record' = loaded /\ Plan(r)' = Plan(r)
      BY <2>3, <3>1 DEF Saves, TypeOK, Call, Plan
    <3>3. InMemoryIsOnDisk'  BY <2>3, <2>4, <3>2 DEF InMemoryIsOnDisk
    <3>4. InPlace'  BY <2>2, <3>1, PlaceAfter
    <3>. QED  BY <2>1, <2>4, <3>2, <3>3, <3>4 DEF RecordHasPlan
  <2>5. CASE loaded.plan # Plan(r)
    <3>1. Raise(r) /\ UNCHANGED record  BY <1>2, <2>5 DEF Load
    <3>2. InMemoryIsOnDisk'
      BY <2>3, <3>1 DEF InMemoryIsOnDisk, Raise, Idle, Holding, TypeOK
    <3>. QED  BY <3>1, <3>2, PlaceAfter DEF RecordHasPlan
  <2>. QED  BY <2>4, <2>5
<1>3. ASSUME NEW r \in Runners, Recheck(r) PROVE Inv'
  <2>1. /\ call' = [call EXCEPT ![r] = Following(r)] \/ Raise(r)
        /\ UNCHANGED record /\ call[r].pc \in Holding
    BY <1>3 DEF Recheck, Holding
  <2>. QED  BY <2>1, KeepsLock, PlaceAfter DEF RecordHasPlan
<1>4. ASSUME NEW r \in Runners, Intend(r) PROVE Inv'
  <2>1. /\ Saves(r, Moved(r, "intent"), "enter") /\ call[r].pc \in Holding
        /\ Moved(r, "intent") \in Record
    BY <1>4, CallTypes DEF Intend, Holding, States
  <2>2. Moved(r, "intent").plan = Plan(r)  BY <1>0, <2>1, CallTypes DEF Moved, Record
  <2>3. InMemoryIsOnDisk'  BY <2>1, <2>2, SavesUnderLock DEF Holding
  <2>. QED  BY <1>0, <2>1, <2>2, <2>3, PlaceAfter DEF RecordHasPlan, Saves
<1>5. ASSUME NEW r \in Runners, PreRead(r) PROVE Inv'
  <2>1. PICK verdict \in {"missing", "exact", "conflict"} :
          CASE verdict = "exact" -> Adopts(r)
            [] verdict = "conflict" -> Raise(r)
            [] verdict = "missing" -> Goes(r, IF StateOf(r) = "intent" THEN "mark" ELSE "act")
    BY <1>5 DEF PreRead
  <2>2. \/ Adopts(r) \/ Raise(r) \/ Goes(r, "mark")
        \/ Goes(r, "act") /\ StateOf(r) \in {"action", "read_back"}
    BY <1>5, <2>1 DEF PreRead
  <2>3. UNCHANGED record /\ call[r].pc \in Holding  BY <1>5 DEF PreRead, Holding
  <2>4. InMemoryIsOnDisk'  BY <2>2, <2>3, KeepsLock DEF Holding
  <2>. QED  BY <2>2, <2>3, <2>4, PlaceAfter DEF RecordHasPlan
<1>6. ASSUME NEW r \in Runners, Mark(r) PROVE Inv'
  <2>1. /\ Saves(r, Moved(r, "action"), "act") /\ call[r].pc \in Holding
        /\ Moved(r, "action") \in Record
    BY <1>6, CallTypes DEF Mark, Holding, States
  <2>2. Moved(r, "action").plan = Plan(r)  BY <1>0, <2>1, CallTypes DEF Moved, Record
  <2>3. InMemoryIsOnDisk'  BY <2>1, <2>2, SavesUnderLock DEF Holding
  <2>. QED  BY <1>0, <2>1, <2>2, <2>3, PlaceAfter DEF RecordHasPlan, Saves
<1>7. ASSUME NEW r \in Runners, Acts(r) PROVE Inv'
  <2>1. UNCHANGED record /\ call[r].pc \in Holding
    BY <1>7 DEF Acts, TagLocally, Push, Create, ReadWheel, Pip, WriteMarker, ReadManifest, Holding
  <2>2. AtPlace(r)  BY DEF InPlace
  <2>3. StateOf(r) \in {"action", "read_back"}
    BY <1>7, <2>2 DEF Acts, TagLocally, Push, Create, ReadWheel, Pip, WriteMarker, ReadManifest, AtPlace
  <2>4. Pip(r) \/ WriteMarker(r) => Step(r) = Install
    BY <2>2 DEF Pip, WriteMarker, AtPlace
  <2>5. \/ Raise(r) \/ Goes(r, "verify")
        \/ Goes(r, "push") /\ Step(r) = Tag
        \/ (Goes(r, "pip") \/ Goes(r, "marker")) /\ Step(r) = Install
    <3>1. CASE TagLocally(r)  BY <3>1 DEF TagLocally
    <3>2. CASE Push(r) \/ Create(r) \/ ReadManifest(r)  BY <3>2 DEF Push, Create, ReadManifest
    <3>3. CASE ReadWheel(r)  BY <3>3 DEF ReadWheel
    <3>4. CASE Pip(r) \/ WriteMarker(r)  BY <2>4, <3>4 DEF Pip, WriteMarker
    <3>. QED  BY <1>7, <3>1, <3>2, <3>3, <3>4 DEF Acts
  <2>6. InMemoryIsOnDisk'  BY <2>1, <2>5, KeepsLock DEF Holding
  <2>. QED  BY <2>1, <2>3, <2>5, <2>6, PlaceAfter DEF RecordHasPlan
<1>8. ASSUME NEW r \in Runners, Verify(r) PROVE Inv'
  <2>1. (Adopts(r) \/ Raise(r)) /\ UNCHANGED record /\ call[r].pc \in Holding
    BY <1>8 DEF Verify, Holding
  <2>. QED  BY <2>1, KeepsLock, PlaceAfter DEF RecordHasPlan
<1>9. ASSUME NEW r \in Runners, Persist(r) PROVE Inv'
  <2>. DEFINE new == [Moved(r, "read_back") EXCEPT !.result[Step(r)] = call[r].seen]
  <2>1. /\ Saves(r, new, "persist") /\ call[r].pc \in Holding
        /\ Moved(r, "read_back") \in Record /\ Step(r) \in Steps /\ call[r].seen \in Nat
    BY <1>9, CallTypes DEF Persist, Holding, States
  <2>2. new \in Record  BY <2>1 DEF Record
  <2>3. new.plan = Plan(r)  BY <1>0, <2>1, CallTypes DEF Moved, Record
  <2>4. InMemoryIsOnDisk'  BY <2>1, <2>2, <2>3, SavesUnderLock DEF Holding
  <2>5. InPlace'  BY <2>1, <2>2, PlaceAfter
  <2>. QED  BY <1>0, <2>1, <2>3, <2>4, <2>5 DEF RecordHasPlan, Saves
<1>10. ASSUME NEW r \in Runners, Complete(r) PROVE Inv'
  <2>. DEFINE new == Moved(r, "complete")
  <2>1. /\ call[r] \in Call /\ call[r].pc \in Holding /\ new \in Record /\ record' = new
        /\ call' = [call EXCEPT ![r] = [Following(r) EXCEPT !.record = new]]
    BY <1>10, CallTypes DEF Complete, Holding, States
  <2>2. new.plan = Plan(r)  BY <1>0, <2>1, CallTypes DEF Moved, Record
  <2>3. Following(r) \in Call /\ Following(r).pc \in {"enter", "finish"} /\ Following(r).plan = Plan(r)
    BY <2>1, FollowingType DEF Following, Call, Plan
  <2>4. /\ call'[r].record = new /\ call'[r].pc \in {"enter", "finish"} /\ Plan(r)' = Plan(r)
        /\ \A q \in Runners \ {r} : call'[q] = call[q] /\ call[q].pc \notin Holding
    BY <2>1, <2>3 DEF TypeOK, Call, Plan, InMemoryIsOnDisk
  <2>5. InMemoryIsOnDisk'  BY <2>1, <2>2, <2>4 DEF InMemoryIsOnDisk
  <2>6. InPlace'  BY <2>4 DEF InPlace, AtPlace, StateOf, Step
  <2>. QED  BY <1>0, <2>1, <2>2, <2>5, <2>6 DEF RecordHasPlan
<1>11. ASSUME NEW r \in Runners, Finish(r) PROVE Inv'
  <2>. DEFINE new == [call[r].record EXCEPT !.complete = TRUE]
  <2>1. Saves(r, new, "report") /\ call[r].pc \in Holding  BY <1>11 DEF Finish, Holding
  <2>2. new \in Record /\ new.plan = Plan(r)  BY <1>0, <2>1, CallTypes DEF Record
  <2>3. InMemoryIsOnDisk'  BY <2>1, <2>2, SavesUnderLock
  <2>4. InPlace'  BY <2>1, <2>2, PlaceAfter
  <2>. QED  BY <1>0, <2>1, <2>2, <2>3, <2>4 DEF RecordHasPlan, Saves
<1>12. ASSUME NEW r \in Runners, Report(r) \/ Stop(r) PROVE Inv'
  <2>1. Raise(r) /\ UNCHANGED record  BY <1>12 DEF Report, Stop
  <2>2. InMemoryIsOnDisk'
    BY <2>1 DEF InMemoryIsOnDisk, Raise, Idle, Holding, TypeOK, Plan
  <2>. QED  BY <2>1, <2>2, PlaceAfter DEF RecordHasPlan
<1>13. ASSUME (\E v \in Versions : ReleasePlan(v)) \/ Ship \/ NextMission \/ UNCHANGED vars PROVE Inv'
  <2>1. UNCHANGED <<record, call>>  BY <1>13 DEF ReleasePlan, Ship, NextMission, vars
  <2>. QED  BY <2>1 DEF InMemoryIsOnDisk, InPlace, AtPlace, RecordHasPlan, Plan, StateOf, Step
<1>14. ASSUME Meddle PROVE Inv'
  <2>1. /\ UNCHANGED record
        /\ \A r \in Runners : /\ call'[r].pc = call[r].pc /\ call'[r].plan = call[r].plan
                              /\ call'[r].step = call[r].step /\ call'[r].record = call[r].record
    BY <1>14 DEF Meddle, TypeOK, Call
  <2>. QED  BY <2>1 DEF InMemoryIsOnDisk, InPlace, AtPlace, RecordHasPlan, Plan, StateOf, Step
<1>. QED
  BY <1>1, <1>2, <1>3, <1>4, <1>5, <1>6, <1>7, <1>8, <1>9, <1>10, <1>11, <1>12, <1>13, <1>14
  DEF Next, Continue

-----------------------------------------------------------------------------
(* What it takes for a read to find the exact thing *)

ExactMeans(p) ==
  /\ Found(p, Tag) = "exact" <=> Object(p, Tag).of = p
  /\ Found(p, Release) = "exact" <=> Object(p, Release).of = p /\ Object(p, Tag).of = p
  /\ \A s \in {Wheel, Checksum} :
       Found(p, s) = "exact" <=>
         Object(p, s).of = p /\ Object(p, Release).of = p /\ Object(p, Tag).of = p
  /\ Found(p, Install) = "exact" <=> SameVersion(p) /\ marker = p
  /\ Found(p, Manifest) = "exact" <=> installed = p /\ marker = p

LEMMA Exact ==
  ASSUME NEW p \in Plans
  PROVE  ExactMeans(p) /\ ExactMeans(p)'
<1>. p # None  BY ReleaseAssumption
<1>1. ExactMeans(p)
  BY DEF ExactMeans, Found, Matched, ReleaseFound, AssetFound, InstallFound, ManifestFound
<1>2. ExactMeans(p)'
  BY DEF ExactMeans, Found, Matched, ReleaseFound, AssetFound, InstallFound, ManifestFound
<1>. QED  BY <1>1, <1>2

LEMMA SameWorld ==
  ASSUME UNCHANGED <<remote, installed, marker>>, NEW p, NEW s
  PROVE  Found(p, s)' = Found(p, s) /\ Identifier(p, s)' = Identifier(p, s)
BY DEF Found, Identifier, Object, Matched, ReleaseFound, AssetFound, InstallFound, ManifestFound, SameVersion

\* An object made where there was none takes no exact object away.
LEMMA MadeWhereMissing ==
  ASSUME TypeOK, NEW p \in Plans, NEW place \in Published, NEW object \in Objects,
         Object(p, place).of = None, Place(p, place, object), UNCHANGED <<installed, marker>>,
         NEW s \in Steps, Found(p, s) = "exact"
  PROVE  Found(p, s)' = "exact" /\ Identifier(p, s)' = Identifier(p, s)
<1>1. p # None /\ VersionOf[p] \in Versions  BY ReleaseAssumption
<1>2. \A t \in Published : Object(p, t)' = IF t = place THEN object ELSE Object(p, t)
  BY <1>1 DEF TypeOK, Place, Object
<1>3. Tag \in Published /\ Release \in Published /\ Wheel \in Published /\ Checksum \in Published
  BY DEF Published
<1>4. s \in {Tag, Release, Wheel, Checksum, Install, Manifest}  BY DEF Steps
<1>5. SameVersion(p)' = SameVersion(p)  BY DEF SameVersion
<1>6. ExactMeans(p) /\ ExactMeans(p)'  BY Exact
<1>7. CASE s \in {Install, Manifest}
  <2>1. s \notin Published  BY <1>7 DEF Published
  <2>. QED  BY <1>5, <1>6, <1>7, <2>1 DEF ExactMeans, Identifier
<1>8. CASE s \in {Tag, Release, Wheel, Checksum}
  <2>1. s # place /\ s \in Published  BY <1>1, <1>3, <1>6, <1>8 DEF ExactMeans
  <2>2. Object(p, s)' = Object(p, s)  BY <1>2, <2>1
  <2>3. Object(p, Tag).of = p /\ (s # Tag => Object(p, Release).of = p)
    BY <1>6, <1>8 DEF ExactMeans
  <2>4. Object(p, Tag)' = Object(p, Tag) /\ (s # Tag => Object(p, Release)' = Object(p, Release))
    BY <1>1, <1>2, <1>3, <2>3
  <2>5. Found(p, s)' = "exact"  BY <1>6, <1>8, <2>2, <2>3, <2>4 DEF ExactMeans
  <2>. QED  BY <2>1, <2>2, <2>5 DEF Identifier
<1>. QED  BY <1>4, <1>7, <1>8

-----------------------------------------------------------------------------
(* The truth of the record *)

Announced(s) == record.state[s] \notin {"pending", "intent"}
IsTrue(s) ==
  /\ Found(record.plan, s) = "exact"
  /\ Identifier(record.plan, s) = record.result[s]

RemoteIsAnnounced ==
  \A v \in Versions, s \in Published : remote[v][s] # NoObject =>
    remote[v][s].of = record.plan /\ v = VersionOf[record.plan] /\ Announced(s)
LocalIsAnnounced ==
  \A v \in Versions : local[v] # NoObject =>
    local[v].of = record.plan /\ v = VersionOf[record.plan] /\ Announced(Tag)
MarkerIsAnnounced == marker # None => marker = record.plan /\ Announced(Install)

\* What was read back is true before it is called complete, and so is what a
\* call is about to save as read back.
ReadBackIsTrue == \A s \in Steps : record.state[s] \in {"read_back", "complete"} => IsTrue(s)
AboutToSave(r) ==
  call[r].pc = "persist" =>
    /\ Found(record.plan, Step(r)) = "exact"
    /\ StateOf(r) # "read_back" => call[r].seen = Identifier(record.plan, Step(r))

Truth ==
  /\ RemoteIsAnnounced /\ LocalIsAnnounced /\ MarkerIsAnnounced
  /\ ReadBackIsTrue /\ \A r \in Runners : AboutToSave(r)

Structure == TypeOK /\ Owned /\ InMemoryIsOnDisk /\ InPlace /\ RecordHasPlan
IInv == Structure /\ (meddles = 0 => Truth)

\* The facts a call holding the lock relies on.
LEMMA Holds ==
  ASSUME Structure, NEW r \in Runners, call[r].pc \in Holding
  PROVE  /\ call[r] \in Call /\ call[r].record = record /\ record \in Record
         /\ Plan(r) = record.plan /\ record.plan \in Plans /\ record.plan # None
         /\ Step(r) \in Steps /\ StateOf(r) = record.state[Step(r)]
         /\ VersionOf[record.plan] \in Versions
         /\ \A q \in Runners \ {r} : call[q].pc \notin Holding
BY ReleaseAssumption, CallTypes
DEF Structure, InMemoryIsOnDisk, Owned, Holding, TypeOK, StateOf, Step

\* With world and record as they were, only what a call is about to save can
\* become untrue.
LEMMA QuietStep ==
  ASSUME Truth, UNCHANGED <<remote, local, installed, marker, record>>,
         \A r \in Runners : AboutToSave(r)'
  PROVE  Truth'
<1>1. RemoteIsAnnounced' /\ LocalIsAnnounced' /\ MarkerIsAnnounced'
  BY DEF Truth, RemoteIsAnnounced, LocalIsAnnounced, MarkerIsAnnounced, Announced
<1>2. ReadBackIsTrue'  BY SameWorld DEF Truth, ReadBackIsTrue, IsTrue
<1>. QED  BY <1>1, <1>2 DEF Truth

LEMMA OthersSave ==
  ASSUME Truth, UNCHANGED <<remote, installed, marker, record>>, NEW q \in Runners, call'[q] = call[q]
  PROVE  AboutToSave(q)'
<1>1. AboutToSave(q)  BY DEF Truth
<1>. QED  BY <1>1, SameWorld DEF AboutToSave, Step, StateOf

\* A call that reads, or ends, or begins: it saves what it found exact.
LEMMA CallStep ==
  ASSUME Structure, Truth, UNCHANGED <<remote, local, installed, marker, record>>, NEW r \in Runners,
         \A q \in Runners \ {r} : call'[q] = call[q],
         \/ call'[r].pc # "persist"
         \/ /\ Adopts(r) /\ Found(Plan(r), Step(r)) = "exact" /\ call[r].pc \in Holding
  PROVE  Truth'
<1>1. AboutToSave(r)'
  <2>1. CASE call'[r].pc # "persist"  BY <2>1 DEF AboutToSave
  <2>2. CASE /\ Adopts(r) /\ Found(Plan(r), Step(r)) = "exact" /\ call[r].pc \in Holding
    <3>1. call[r] \in Call /\ Plan(r) = record.plan  BY <2>2, Holds
    <3>2. call'[r].seen = Identifier(Plan(r), Step(r)) /\ call'[r].step = call[r].step
      BY <2>2, <3>1 DEF Adopts, Structure, TypeOK, Call
    <3>. QED  BY <2>2, <3>1, <3>2, SameWorld DEF AboutToSave, Step
  <2>. QED  BY <2>1, <2>2
<1>. QED  BY <1>1, OthersSave, QuietStep

\* The lock holder replaces the record: it must announce no less, and what it
\* calls read back must be true.
LEMMA RecordStep ==
  ASSUME Structure, Truth, UNCHANGED <<remote, local, installed, marker>>,
         NEW r \in Runners, call[r].pc \in Holding,
         \A q \in Runners \ {r} : call'[q] = call[q],
         record'.plan = record.plan,
         \A s \in Steps : Announced(s) => Announced(s)',
         \A s \in Steps : record'.state[s] \in {"read_back", "complete"} =>
           Found(record.plan, s) = "exact" /\ Identifier(record.plan, s) = record'.result[s],
         call'[r].pc = "persist" =>
           Found(record.plan, Step(r)') = "exact" /\ StateOf(r)' = "read_back"
  PROVE  Truth'
<1>1. Tag \in Steps /\ Install \in Steps /\ \A s \in Published : s \in Steps  BY DEF Steps, Published
<1>2. RemoteIsAnnounced' /\ LocalIsAnnounced' /\ MarkerIsAnnounced'
  BY <1>1 DEF Truth, RemoteIsAnnounced, LocalIsAnnounced, MarkerIsAnnounced
<1>3. ReadBackIsTrue'  BY SameWorld DEF ReadBackIsTrue, IsTrue
<1>4. AboutToSave(r)'  BY SameWorld DEF AboutToSave
<1>5. ASSUME NEW q \in Runners \ {r} PROVE AboutToSave(q)'
  <2>1. call'[q].pc \notin Holding  BY Holds
  <2>. QED  BY <2>1 DEF AboutToSave, Holding
<1>. QED  BY <1>2, <1>3, <1>4, <1>5 DEF Truth

\* The lock holder changes the world: the changes must be announced, and leave
\* exact what is exact.
LEMMA WorldStep ==
  ASSUME Structure, Truth, UNCHANGED record, NEW r \in Runners, call[r].pc \in Holding,
         \A q \in Runners \ {r} : call'[q] = call[q], call'[r].pc # "persist",
         RemoteIsAnnounced', LocalIsAnnounced', MarkerIsAnnounced',
         \A s \in Steps : Found(record.plan, s) = "exact" =>
           Found(record.plan, s)' = "exact" /\ Identifier(record.plan, s)' = Identifier(record.plan, s)
  PROVE  Truth'
<1>1. ASSUME NEW s \in Steps, record.state[s] \in {"read_back", "complete"} PROVE IsTrue(s)'
  <2>1. IsTrue(s)  BY <1>1 DEF Truth, ReadBackIsTrue
  <2>2. Found(record.plan, s)' = "exact" /\ Identifier(record.plan, s)' = Identifier(record.plan, s)
    BY <2>1 DEF IsTrue
  <2>. QED  BY <2>1, <2>2 DEF IsTrue
<1>2. ReadBackIsTrue'  BY <1>1 DEF ReadBackIsTrue
<1>3. ASSUME NEW q \in Runners PROVE AboutToSave(q)'
  <2>1. CASE q = r  BY <2>1 DEF AboutToSave
  <2>2. CASE q # r
    <3>1. call'[q].pc \notin Holding  BY <2>2, Holds
    <3>. QED  BY <3>1 DEF AboutToSave, Holding
  <2>. QED  BY <2>1, <2>2
<1>. QED  BY <1>2, <1>3 DEF Truth

LEMMA TruthNext ==
  ASSUME Structure, Truth, Next, meddles' = 0, meddles = 0
  PROVE  Truth'
<1>. USE DEF status, world
<1>0. TypeOK  BY DEF Structure
<1>1. ASSUME NEW r \in Runners,
             \/ \E p \in Plans : Gate(r, p)
             \/ Report(r) \/ Stop(r) \/ Recheck(r) \/ ReadWheel(r) \/ ReadManifest(r)
      PROVE  Truth'
  <2>1. UNCHANGED <<remote, local, installed, marker, record>>
    BY <1>1 DEF Gate, Report, Stop, Recheck, ReadWheel, ReadManifest
  <2>2. /\ \A q \in Runners \ {r} : call'[q] = call[q]
        /\ call'[r].pc # "persist"
    <3>1. CASE \E p \in Plans : Gate(r, p)
      <4>1. PICK p \in Plans : Gate(r, p)  BY <3>1
      <4>. QED  BY <1>0, <4>1, Constants DEF Gate, TypeOK, Call
    <3>2. CASE Raise(r)  BY <1>0, <3>2 DEF Raise, Idle, TypeOK
    <3>3. CASE \E pc \in {"pip", "verify"} : Goes(r, pc)  BY <1>0, <3>3 DEF Goes, TypeOK, Call
    <3>4. CASE call' = [call EXCEPT ![r] = Following(r)]
      BY <1>0, <3>4, FollowingType DEF Following, TypeOK, Call
    <3>. QED  BY <1>1, <3>1, <3>2, <3>3, <3>4 DEF Report, Stop, Recheck, ReadWheel, ReadManifest
  <2>. QED  BY <2>1, <2>2, CallStep
<1>2. ASSUME NEW r \in Runners, PreRead(r) \/ Verify(r) PROVE Truth'
  <2>1. /\ UNCHANGED <<remote, local, installed, marker, record>>
        /\ call[r].pc \in Holding
    BY <1>2 DEF PreRead, Verify, Holding
  <2>2. \/ Adopts(r) /\ Reads(Plan(r), Step(r), "exact")
        \/ Raise(r) \/ Goes(r, "mark") \/ Goes(r, "act")
    BY <1>2 DEF PreRead, Verify
  <2>3. /\ \A q \in Runners \ {r} : call'[q] = call[q]
        /\ call'[r].pc # "persist" \/ (Adopts(r) /\ Found(Plan(r), Step(r)) = "exact")
    <3>1. CASE Adopts(r) /\ Reads(Plan(r), Step(r), "exact")
      <4>1. Found(Plan(r), Step(r)) = "exact"  BY <3>1 DEF Reads
      <4>. QED  BY <1>0, <3>1, <4>1 DEF Adopts, TypeOK
    <3>2. CASE Raise(r)  BY <1>0, <3>2 DEF Raise, Idle, TypeOK
    <3>3. CASE Goes(r, "mark") \/ Goes(r, "act")  BY <1>0, <3>3 DEF Goes, TypeOK, Call
    <3>. QED  BY <2>2, <3>1, <3>2, <3>3
  <2>. QED  BY <2>1, <2>3, CallStep
<1>3. ASSUME NEW r \in Runners, Load(r) PROVE Truth'
  <2>. DEFINE loaded == IF record = NoRecord THEN [NoRecord EXCEPT !.plan = Plan(r)] ELSE record
  <2>1. UNCHANGED <<remote, local, installed, marker>>  BY <1>3 DEF Load
  <2>2. /\ \A q \in Runners \ {r} : call'[q] = call[q] /\ call[q].pc # "persist"
        /\ call'[r].pc # "persist"
    BY <1>0, <1>3 DEF Load, Unlocked, Saves, Raise, Idle, Holding, TypeOK, Call
  <2>3. record' \in {record, loaded}  BY <1>3 DEF Load, Saves
  <2>4. \A s \in Steps : record'.state[s] = record.state[s] /\ record'.result[s] = record.result[s]
    BY <2>3 DEF NoRecord
  <2>5. CASE record' = record  BY <2>1, <2>2, <2>5, CallStep
  <2>6. CASE record = NoRecord
    <3>1. \A s \in Steps : ~Announced(s)  BY <2>6 DEF Announced, NoRecord
    <3>2. Tag \in Steps /\ Install \in Steps /\ \A s \in Published : s \in Steps
      BY DEF Steps, Published
    <3>3. /\ \A v \in Versions, s \in Published : remote[v][s] = NoObject
          /\ \A v \in Versions : local[v] = NoObject
          /\ marker = None
      BY <3>1, <3>2 DEF Truth, RemoteIsAnnounced, LocalIsAnnounced, MarkerIsAnnounced
    <3>4. RemoteIsAnnounced' /\ LocalIsAnnounced' /\ MarkerIsAnnounced'
      BY <2>1, <3>3 DEF RemoteIsAnnounced, LocalIsAnnounced, MarkerIsAnnounced
    <3>5. ReadBackIsTrue'  BY <2>4, <2>6 DEF ReadBackIsTrue, NoRecord
    <3>6. \A q \in Runners : AboutToSave(q)'  BY <2>2 DEF AboutToSave
    <3>. QED  BY <3>4, <3>5, <3>6 DEF Truth
  <2>. QED  BY <2>3, <2>5, <2>6
<1>4. ASSUME NEW r \in Runners, NEW state \in {"intent", "action"}, NEW pc \in {"enter", "act"},
             Saves(r, Moved(r, state), pc), call[r].pc \in Holding,
             UNCHANGED <<remote, local, installed, marker>>,
             state = "intent" => StateOf(r) = "pending"
      PROVE  Truth'
  <2>1. /\ call[r] \in Call /\ call[r].record = record /\ record \in Record /\ Step(r) \in Steps
        /\ StateOf(r) = record.state[Step(r)]
    BY <1>4, Holds
  <2>2. /\ record'.plan = record.plan /\ record'.result = record.result
        /\ \A s \in Steps : record'.state[s] = IF s = Step(r) THEN state ELSE record.state[s]
    BY <1>4, <2>1 DEF Saves, Moved, Record
  <2>3. /\ \A q \in Runners \ {r} : call'[q] = call[q]
        /\ call'[r].pc # "persist"
    BY <1>0, <1>4, <2>1 DEF Saves, TypeOK, Call
  <2>4. \A s \in Steps : Announced(s) => Announced(s)'  BY <1>4, <2>1, <2>2 DEF Announced
  <2>5. \A s \in Steps : record'.state[s] \in {"read_back", "complete"} =>
          Found(record.plan, s) = "exact" /\ Identifier(record.plan, s) = record'.result[s]
    BY <2>2 DEF Truth, ReadBackIsTrue, IsTrue
  <2>. QED  BY <1>4, <2>2, <2>3, <2>4, <2>5, RecordStep
<1>5. ASSUME NEW r \in Runners, Persist(r) PROVE Truth'
  <2>. DEFINE new == [Moved(r, "read_back") EXCEPT !.result[Step(r)] = call[r].seen]
  <2>1. Saves(r, new, "persist") /\ call[r].pc \in Holding /\ UNCHANGED <<remote, local, installed, marker>>
    BY <1>5 DEF Persist, Holding
  <2>2. /\ call[r] \in Call /\ call[r].record = record /\ record \in Record /\ Step(r) \in Steps
    BY <2>1, Holds
  <2>3. /\ record'.plan = record.plan
        /\ \A s \in Steps :
             /\ record'.state[s] = IF s = Step(r) THEN "read_back" ELSE record.state[s]
             /\ record'.result[s] = IF s = Step(r) THEN call[r].seen ELSE record.result[s]
    BY <2>1, <2>2 DEF Saves, Moved, Record
  <2>4. /\ \A q \in Runners \ {r} : call'[q] = call[q]
        /\ Step(r)' = Step(r) /\ StateOf(r)' = "read_back"
    <3>1. /\ \A q \in Runners \ {r} : call'[q] = call[q]
          /\ call'[r].step = call[r].step /\ call'[r].record = record'
      BY <1>0, <2>1, <2>2 DEF Saves, TypeOK, Call
    <3>. QED  BY <2>2, <2>3, <3>1 DEF Step, StateOf
  <2>5. Found(record.plan, Step(r)) = "exact" /\ call[r].seen = Identifier(record.plan, Step(r))
    BY <1>5 DEF Persist, Truth, AboutToSave
  <2>6. \A s \in Steps : Announced(s) => Announced(s)'  BY <2>3 DEF Announced
  <2>7. \A s \in Steps : record'.state[s] \in {"read_back", "complete"} =>
          Found(record.plan, s) = "exact" /\ Identifier(record.plan, s) = record'.result[s]
    BY <2>3, <2>5 DEF Truth, ReadBackIsTrue, IsTrue
  <2>. QED  BY <2>1, <2>3, <2>4, <2>5, <2>6, <2>7, RecordStep
<1>6. ASSUME NEW r \in Runners, Complete(r) PROVE Truth'
  <2>1. /\ record' = Moved(r, "complete") /\ call[r].pc \in Holding
        /\ UNCHANGED <<remote, local, installed, marker>>
    BY <1>6 DEF Complete, Holding
  <2>2. /\ call[r] \in Call /\ call[r].record = record /\ record \in Record /\ Step(r) \in Steps
        /\ StateOf(r) = record.state[Step(r)] /\ StateOf(r) = "read_back"
    BY <1>6, <2>1, Holds DEF Complete
  <2>3. /\ record'.plan = record.plan /\ record'.result = record.result
        /\ \A s \in Steps : record'.state[s] = IF s = Step(r) THEN "complete" ELSE record.state[s]
    BY <2>1, <2>2 DEF Moved, Record
  <2>4. /\ \A q \in Runners \ {r} : call'[q] = call[q]
        /\ call'[r].pc # "persist"
    <3>1. Following(r) \in Call /\ Following(r).pc # "persist"
      BY <1>0, <2>2, FollowingType DEF Following, Call
    <3>. QED  BY <1>0, <1>6, <3>1 DEF Complete, TypeOK, Call
  <2>5. \A s \in Steps : Announced(s) => Announced(s)'  BY <2>3 DEF Announced
  <2>6. \A s \in Steps : record'.state[s] \in {"read_back", "complete"} =>
          Found(record.plan, s) = "exact" /\ Identifier(record.plan, s) = record'.result[s]
    BY <2>2, <2>3 DEF Truth, ReadBackIsTrue, IsTrue
  <2>. QED  BY <2>1, <2>3, <2>4, <2>5, <2>6, RecordStep
<1>7. ASSUME NEW r \in Runners, Finish(r) PROVE Truth'
  <2>. DEFINE new == [call[r].record EXCEPT !.complete = TRUE]
  <2>1. Saves(r, new, "report") /\ call[r].pc \in Holding /\ UNCHANGED <<remote, local, installed, marker>>
    BY <1>7 DEF Finish, Holding
  <2>2. call[r] \in Call /\ call[r].record = record /\ record \in Record  BY <2>1, Holds
  <2>3. record'.plan = record.plan /\ record'.state = record.state /\ record'.result = record.result
    BY <2>1, <2>2 DEF Saves, Record
  <2>4. /\ \A q \in Runners \ {r} : call'[q] = call[q]
        /\ call'[r].pc # "persist"
    BY <1>0, <2>1, <2>2 DEF Saves, TypeOK, Call
  <2>5. \A s \in Steps : record'.state[s] \in {"read_back", "complete"} =>
          Found(record.plan, s) = "exact" /\ Identifier(record.plan, s) = record'.result[s]
    BY <2>3 DEF Truth, ReadBackIsTrue, IsTrue
  <2>. QED  BY <2>1, <2>3, <2>4, <2>5, RecordStep DEF Announced
<1>8. ASSUME NEW r \in Runners, TagLocally(r) \/ Push(r) \/ Create(r) \/ Pip(r) \/ WriteMarker(r)
      PROVE  Truth'
  <2>. DEFINE P == record.plan
  <2>1. /\ call[r].pc \in Holding /\ UNCHANGED record
        /\ Raise(r) \/ \E pc \in {"push", "verify", "marker"} : Goes(r, pc)
    BY <1>8 DEF TagLocally, Push, Create, Pip, WriteMarker, Holding
  <2>2. /\ call[r] \in Call /\ Plan(r) = P /\ P \in Plans /\ P # None
        /\ Step(r) \in Steps /\ StateOf(r) = record.state[Step(r)] /\ VersionOf[P] \in Versions
    BY <2>1, Holds
  <2>3. /\ \A q \in Runners \ {r} : call'[q] = call[q]
        /\ call'[r].pc # "persist"
    BY <1>0, <2>1, <2>2 DEF Raise, Idle, Goes, TypeOK, Call
  <2>4. AtPlace(r)  BY DEF Structure, InPlace
  <2>5. Announced(Step(r))
    BY <1>8, <2>2, <2>4 DEF AtPlace, Announced, TagLocally, Push, Create, Pip, WriteMarker
  <2>6. \A s : Announced(s)' <=> Announced(s)  BY <2>1 DEF Announced
  <2>7. RemoteIsAnnounced /\ LocalIsAnnounced /\ MarkerIsAnnounced  BY DEF Truth
  <2>8. CASE TagLocally(r)
    <3>1. UNCHANGED <<remote, installed, marker>> /\ Step(r) = Tag  BY <2>8 DEF TagLocally
    <3>2. LocalIsAnnounced'
      <4>1. CASE local' = local  BY <2>1, <2>7, <4>1 DEF LocalIsAnnounced, Announced
      <4>2. CASE local' = [local EXCEPT ![VersionOf[P]] = Fresh(P)]
        <5>1. \A v \in Versions : local'[v] = IF v = VersionOf[P] THEN Fresh(P) ELSE local[v]
          BY <1>0, <2>2, <4>2 DEF TypeOK
        <5>. QED  BY <2>1, <2>5, <2>6, <2>7, <3>1, <5>1 DEF LocalIsAnnounced, Fresh
      <4>. QED  BY <2>2, <2>8, <4>1, <4>2 DEF TagLocally
    <3>3. RemoteIsAnnounced' /\ MarkerIsAnnounced'
      BY <2>1, <2>7, <3>1 DEF RemoteIsAnnounced, MarkerIsAnnounced, Announced
    <3>. QED  BY <2>1, <2>3, <3>1, <3>2, <3>3, SameWorld, WorldStep
  <2>9. ASSUME NEW s \in Published, NEW object \in Objects, Place(P, s, object),
               Object(P, s).of = None, object = NoObject \/ object.of = P, Announced(s),
               UNCHANGED <<local, installed, marker>>
        PROVE  Truth'
    <3>1. RemoteIsAnnounced'
      <4>1. \A v \in Versions, t \in Published :
              remote'[v][t] = IF v = VersionOf[P] /\ t = s THEN object ELSE remote[v][t]
        BY <1>0, <2>2, <2>9 DEF Place, TypeOK
      <4>. QED  BY <2>1, <2>6, <2>7, <2>9, <4>1 DEF RemoteIsAnnounced
    <3>2. LocalIsAnnounced' /\ MarkerIsAnnounced'
      BY <2>1, <2>7, <2>9 DEF LocalIsAnnounced, MarkerIsAnnounced, Announced
    <3>3. ASSUME NEW t \in Steps, Found(P, t) = "exact"
          PROVE  Found(P, t)' = "exact" /\ Identifier(P, t)' = Identifier(P, t)
      <4>1. PICK p \in Plans : p = P  BY <2>2
      <4>2. /\ Object(p, s).of = None /\ Place(p, s, object) /\ Found(p, t) = "exact"
        BY <2>9, <3>3, <4>1
      <4>3. Found(p, t)' = "exact" /\ Identifier(p, t)' = Identifier(p, t)
        BY <1>0, <2>9, <4>2, MadeWhereMissing
      <4>4. P' = p  BY <2>1, <4>1
      <4>5. Found(P, t)' = Found(p, t)' /\ Identifier(P, t)' = Identifier(p, t)'
        BY <4>4
        DEF Found, Identifier, Object, Matched, ReleaseFound, AssetFound, InstallFound, ManifestFound, SameVersion
      <4>. QED  BY <4>1, <4>3, <4>5
    <3>. QED  BY <2>1, <2>3, <3>1, <3>2, <3>3, WorldStep
  <2>10. ASSUME UNCHANGED <<remote, local, installed, marker>> PROVE Truth'
    BY <2>1, <2>3, <2>10, CallStep
  <2>11. CASE Push(r)
    <3>. DEFINE tag == local[VersionOf[P]]
    <3>1. Step(r) = Tag /\ UNCHANGED <<local, installed, marker>>
      BY <2>4, <2>11 DEF Push, AtPlace
    <3>2. tag \in Objects /\ (tag = NoObject \/ tag.of = P)
      BY <1>0, <2>2, <2>7 DEF TypeOK, LocalIsAnnounced
    <3>3. Tag \in Published  BY DEF Published
    <3>4. CASE Object(P, Tag) = NoObject /\ Place(P, Tag, tag)
      BY <2>5, <2>9, <3>1, <3>2, <3>3, <3>4 DEF NoObject
    <3>5. CASE Object(P, Tag) = tag /\ Place(P, Tag, tag)
      <4>1. remote' = remote  BY <1>0, <2>2, <3>3, <3>5 DEF Place, Object, TypeOK
      <4>. QED  BY <2>10, <3>1, <4>1
    <3>6. CASE remote' = remote  BY <2>10, <3>1, <3>6
    <3>. QED  BY <2>2, <2>11, <3>4, <3>5, <3>6 DEF Push
  <2>12. CASE Create(r)
    <3>1. Step(r) \in Published /\ UNCHANGED <<local, installed, marker>>
      BY <2>12 DEF Create, Published
    <3>2. Fresh(P) \in Objects /\ Fresh(P).of = P  BY <1>0, <2>2, <3>1, ObjectType DEF Fresh
    <3>3. CASE Object(P, Step(r)).of = None /\ Place(P, Step(r), Fresh(P))
      BY <2>5, <2>9, <3>1, <3>2, <3>3
    <3>4. CASE remote' = remote  BY <2>10, <3>1, <3>4
    <3>. QED  BY <2>2, <2>12, <3>3, <3>4 DEF Create
  <2>13. ASSUME UNCHANGED <<remote, local>>, marker' \in {marker, P}, installed' \in {installed, P},
                Step(r) = Install
         PROVE  Truth'
    <3>1. RemoteIsAnnounced' /\ LocalIsAnnounced'
      BY <2>1, <2>7, <2>13 DEF RemoteIsAnnounced, LocalIsAnnounced, Announced
    <3>2. MarkerIsAnnounced'  BY <2>1, <2>5, <2>6, <2>7, <2>13 DEF MarkerIsAnnounced
    <3>3. ASSUME NEW t \in Steps, Found(P, t) = "exact"
          PROVE  Found(P, t)' = "exact" /\ Identifier(P, t)' = Identifier(P, t)
      <4>1. \A s : Object(P, s)' = Object(P, s)  BY <2>1, <2>13 DEF Object
      <4>2. SameVersion(P) => SameVersion(P)'  BY <2>1, <2>2, <2>13 DEF SameVersion
      <4>3. t \in {Tag, Release, Wheel, Checksum, Install, Manifest}  BY DEF Steps
      <4>4. ExactMeans(P) /\ ExactMeans(P)'
        <5>1. \A p \in Plans : ExactMeans(p) /\ ExactMeans(p)'  BY Exact
        <5>2. P' = P  BY <2>1
        <5>. QED  BY <2>2, <5>1, <5>2 DEF ExactMeans, Found, Matched, ReleaseFound, AssetFound, InstallFound, ManifestFound, SameVersion, Object
      <4>5. Found(P, t)' = "exact"  BY <2>1, <2>13, <3>3, <4>1, <4>2, <4>3, <4>4 DEF ExactMeans
      <4>. QED  BY <2>1, <4>1, <4>5 DEF Identifier
    <3>. QED  BY <2>1, <2>3, <3>1, <3>2, <3>3, WorldStep
  <2>14. CASE Pip(r)
    <3>1. Step(r) = Install /\ UNCHANGED <<remote, local, marker>>  BY <2>4, <2>14 DEF Pip, AtPlace
    <3>2. Object(P, Wheel) # NoObject => Object(P, Wheel).of = P
      BY <2>2, <2>7 DEF RemoteIsAnnounced, Object, Published
    <3>3. installed' \in {installed, P}  BY <2>2, <2>14, <3>2 DEF Pip, NoObject
    <3>. QED  BY <2>13, <3>1, <3>3
  <2>15. CASE WriteMarker(r)
    BY <2>2, <2>4, <2>13, <2>15 DEF WriteMarker, AtPlace
  <2>. QED  BY <1>8, <2>8, <2>11, <2>12, <2>14, <2>15
<1>9. ASSUME (\E v \in Versions : ReleasePlan(v)) \/ Ship \/ NextMission PROVE Truth'
  <2>1. UNCHANGED <<remote, local, installed, marker, record, call>>
    BY <1>9 DEF ReleasePlan, Ship, NextMission
  <2>. QED  BY <2>1, OthersSave, QuietStep
<1>10. ~Meddle  BY <1>0 DEF Meddle, TypeOK
<1>11. ASSUME NEW r \in Runners, Intend(r) \/ Mark(r) PROVE Truth'
  BY <1>4, <1>11 DEF Intend, Mark, Holding
<1>. QED
  BY <1>1, <1>2, <1>3, <1>5, <1>6, <1>7, <1>8, <1>9, <1>10, <1>11 DEF Next, Continue, Acts

LEMMA TruthInit == Init => IInv
<1>. SUFFICES ASSUME Init PROVE IInv  OBVIOUS
<1>1. TypeOK /\ Owned  BY TypeInit
<1>2. InMemoryIsOnDisk /\ InPlace /\ RecordHasPlan
  BY DEF Init, Idle, InMemoryIsOnDisk, Holding, InPlace, AtPlace, RecordHasPlan
<1>3. RemoteIsAnnounced /\ LocalIsAnnounced /\ MarkerIsAnnounced
  BY DEF Init, RemoteIsAnnounced, LocalIsAnnounced, MarkerIsAnnounced
<1>4. ReadBackIsTrue /\ \A r \in Runners : AboutToSave(r)
  BY DEF Init, Idle, NoRecord, ReadBackIsTrue, AboutToSave
<1>. QED  BY <1>1, <1>2, <1>3, <1>4 DEF IInv, Structure, Truth

LEMMA MeddlingIsCounted == TypeOK /\ [Next]_vars /\ meddles' = 0 => meddles = 0
<1>. SUFFICES ASSUME TypeOK, [Next]_vars, meddles' = 0 PROVE meddles = 0  OBVIOUS
<1>1. ~Meddle  BY DEF Meddle, TypeOK
<1>2. UNCHANGED meddles
  BY <1>1
  DEF Next, Gate, Continue, Load, Recheck, Intend, PreRead, Mark, Acts, TagLocally, Push, Create, ReadWheel,
      Pip, WriteMarker, ReadManifest, Verify, Persist, Complete, Finish, Report, Stop, ReleasePlan, Ship,
      NextMission, vars
<1>. QED  BY <1>2

LEMMA TruthStep == IInv /\ [Next]_vars => IInv'
<1>. SUFFICES ASSUME IInv, [Next]_vars PROVE IInv'  OBVIOUS
<1>1. Structure'
  BY TypeNext, LockNext DEF IInv, Structure
<1>2. ASSUME meddles' = 0 PROVE Truth'
  <2>1. meddles = 0 /\ Structure /\ Truth  BY <1>2, MeddlingIsCounted DEF IInv, Structure
  <2>2. CASE Next  BY <1>2, <2>1, <2>2, TruthNext
  <2>3. CASE UNCHANGED vars
    <3>1. UNCHANGED <<remote, local, installed, marker, record, call>>
      BY <2>3 DEF vars, world
    <3>. QED  BY <2>1, <3>1, OthersSave, QuietStep
  <2>. QED  BY <2>2, <2>3
<1>. QED  BY <1>1, <1>2 DEF IInv

LEMMA Inductive == Spec => []IInv
BY TruthInit, TruthStep, PTL DEF Spec

\* One call at a time works on the record, and what it holds in memory is what
\* is on disk: no save of a call undoes what another call saved.
THEOREM LockProtectsRecord == Spec => []InMemoryIsOnDisk
<1>1. IInv => InMemoryIsOnDisk  BY DEF IInv, Structure
<1>. QED  BY <1>1, Inductive, PTL

\* Wherever calls are cut short, and whatever their reads miss: while nobody
\* else changes the world, each step the record calls complete is there, exact,
\* and the very object that was read back.
THEOREM TruthfulRecord == Spec => []RecordIsTruthful
<1>1. IInv => RecordIsTruthful
  BY DEF IInv, Truth, ReadBackIsTrue, IsTrue, RecordIsTruthful
<1>. QED  BY <1>1, Inductive, PTL

\* While nobody else changes the world, what is published or installed was
\* announced in the record, under its plan, before it was made.
THEOREM AnnouncedFirst == Spec => []NothingUnannounced
<1>1. IInv => NothingUnannounced
  BY DEF IInv, Truth, RemoteIsAnnounced, MarkerIsAnnounced, Announced, NothingUnannounced
<1>. QED  BY <1>1, Inductive, PTL
-----------------------------------------------------------------------------
(* What a report claims: the steps a call has passed are there, unless somebody *)
(* else has changed the world since the call began.                            *)

\* A finished record stays finished: no call works on its steps any more.
Whole == record.complete => \A s \in Steps : record.state[s] = "complete"

Passed(r) == {s \in Steps : s < Step(r) \/ call[r].pc \in {"finish", "report"}}
Undisturbed(r) == call[r].pc \in Holding \cup {"report"} /\ ~call[r].disturbed

Seen(r) ==
  /\ Undisturbed(r) => \A s \in Passed(r) : Found(Plan(r), s) = "exact"
  /\ Undisturbed(r) /\ call[r].pc = "persist" => Found(Plan(r), Step(r)) = "exact"
Through(r) ==
  /\ call[r].pc # "idle" => VersionOf[Plan(r)] = call[r].bound.version
  /\ call[r].pc = "load" => Step(r) = Tag
  /\ call[r].pc \in Holding => \A s \in Passed(r) : record.state[s] = "complete"
  /\ call[r].pc \in {"mark", "persist"} => StateOf(r) # "complete"
  /\ call[r].pc = "report" => record.complete /\ record.plan = Plan(r)
  /\ Seen(r)

ReportInv == Whole /\ \A r \in Runners : Through(r)

\* Another call is where it was: it does not hold the lock, and the world only
\* changes while none waits to report.
LEMMA OthersGetThrough ==
  ASSUME Structure, ReportInv, NEW q \in Runners, call'[q] = call[q], call[q].pc \notin Holding,
         record.complete => record'.complete,
         record.plan # None => record'.plan = record.plan,
         UNCHANGED <<remote, installed, marker>> \/ call[q].pc # "report"
  PROVE  Through(q)'
<1>1. Through(q) /\ (call[q].pc # "idle" => Plan(q) \in Plans /\ Plan(q) # None)
  BY ReleaseAssumption DEF ReportInv, Structure, Owned
<1>2. Step(q)' = Step(q) /\ Plan(q)' = Plan(q) /\ Passed(q)' = Passed(q) /\ Undisturbed(q)' = Undisturbed(q)
  BY DEF Step, Plan, Passed, Undisturbed
<1>3. call[q].pc # "mark" /\ call[q].pc # "persist"
  BY DEF Holding
<1>4. Seen(q)'
  <2>1. CASE UNCHANGED <<remote, installed, marker>>
    BY <1>1, <1>2, <2>1, SameWorld DEF Seen, Through
  <2>2. CASE call[q].pc # "report"
    BY <1>2, <2>2 DEF Seen, Undisturbed
  <2> QED BY <2>1, <2>2
<1> QED BY <1>1, <1>2, <1>3, <1>4 DEF Through

\* The lock holder passes nothing it has not found, and keeps what it passed.
LEMMA HolderGetsThrough ==
  ASSUME Structure, ReportInv, NEW r \in Runners, call[r].pc \in Holding \ {"finish"},
         call'[r].plan = call[r].plan, call'[r].bound = call[r].bound,
         call'[r].disturbed = call[r].disturbed, call'[r].pc \in Holding,
         \A s \in Passed(r)' :
           /\ record'.state[s] = "complete"
           /\ ~call[r].disturbed => Found(Plan(r), s)' = "exact",
         call'[r].pc \in {"mark", "persist"} => StateOf(r)' # "complete",
         call'[r].pc = "persist" /\ ~call[r].disturbed => Found(Plan(r), Step(r))' = "exact"
  PROVE  Through(r)'
<1>1. Through(r) /\ call[r].pc # "idle" /\ call'[r].pc \notin {"idle", "load", "report"}
  BY DEF ReportInv, Holding
<1>2. Plan(r)' = Plan(r)
  BY DEF Plan
<1>3. Seen(r)'
  BY <1>2 DEF Seen, Undisturbed
<1> QED BY <1>1, <1>2, <1>3 DEF Through

\* A call that has ended claims nothing.
LEMMA EndedIsThrough ==
  ASSUME TypeOK, NEW r \in Runners, Raise(r)
  PROVE  Through(r)' /\ \A q \in Runners \ {r} : call'[q] = call[q]
<1>1. call'[r] = Idle
  BY DEF Raise, TypeOK
<1>2. call'[r].pc = "idle" /\ "idle" \notin Holding
  BY <1>1 DEF Idle, Holding
<1> QED BY <1>2 DEF Raise, TypeOK, Through, Seen, Undisturbed

\* With world and record as they were, a call at the same step has passed the same.
LEMMA SameStepPassed ==
  ASSUME Structure, ReportInv, NEW r \in Runners, call[r].pc \in Holding \ {"finish"},
         call'[r].step = call[r].step, call'[r].pc \in Holding \ {"finish"},
         NEW s \in Passed(r)'
  PROVE  /\ s \in Passed(r) /\ s \in Steps /\ s < Step(r) /\ record.state[s] = "complete"
         /\ ~call[r].disturbed => Found(Plan(r), s) = "exact"
<1>1. Through(r) /\ Step(r)' = Step(r) /\ call[r].pc \notin {"finish", "report"}
      /\ call'[r].pc \notin {"finish", "report"}
  BY DEF ReportInv, Step, Holding
<1>2. s \in Passed(r) /\ s \in Steps /\ s < Step(r)
  BY <1>1 DEF Passed
<1> QED BY <1>1, <1>2 DEF Through, Seen, Undisturbed

\* Nobody who waits to report sees a call that still has work to do.
LEMMA NobodyReports ==
  ASSUME Structure, ReportInv, NEW r \in Runners, call[r].pc \in Holding, StateOf(r) # "complete"
  PROVE  ~record.complete /\ \A q \in Runners : call[q].pc # "report"
<1>1. Step(r) \in Steps /\ record.state[Step(r)] # "complete"
  BY Holds
<1>2. ~record.complete
  BY <1>1 DEF ReportInv, Whole
<1> QED BY <1>2 DEF ReportInv, Through

\* Steps that leave world and record alone.
LEMMA QuietGetsThrough ==
  ASSUME Structure, ReportInv, NEW r \in Runners, call[r].pc \in Holding \ {"finish"},
         UNCHANGED <<remote, installed, marker, record>>,
         \/ Raise(r)
         \/ \E pc \in {"act", "push", "pip", "marker", "verify"} : Goes(r, pc)
         \/ Goes(r, "mark") /\ StateOf(r) # "complete"
         \/ Adopts(r) /\ StateOf(r) # "complete" /\ Found(Plan(r), Step(r)) = "exact"
         \/ /\ call' = [call EXCEPT ![r] = Following(r)]
            /\ StateOf(r) = "complete" /\ Found(Plan(r), Step(r)) = "exact"
  PROVE  ReportInv'
<1>0. TypeOK /\ call[r] \in Call /\ Through(r) /\ Step(r) \in Steps
      /\ record.state[Step(r)] = StateOf(r) /\ call[r].record = record
      /\ \A q \in Runners \ {r} : call[q].pc \notin Holding
  BY Holds DEF Structure, ReportInv
<1>1. \A q \in Runners \ {r} : call'[q] = call[q]
  BY <1>0 DEF Raise, Goes, Adopts, TypeOK
<1>2. \A q \in Runners \ {r} : Through(q)'
  BY <1>0, <1>1, OthersGetThrough
<1>3. \A p, s : Found(p, s)' = Found(p, s)
  BY SameWorld
<1>4. ASSUME Raise(r) PROVE Through(r)'
  BY <1>0, <1>4, EndedIsThrough
<1>5. ASSUME NEW pc \in {"act", "push", "pip", "marker", "verify", "mark"}, Goes(r, pc),
             pc = "mark" => StateOf(r) # "complete"
      PROVE  Through(r)'
  <2>1. /\ call'[r].pc = pc /\ call'[r].step = call[r].step /\ call'[r].plan = call[r].plan
        /\ call'[r].bound = call[r].bound /\ call'[r].disturbed = call[r].disturbed
        /\ call'[r].record = call[r].record
    BY <1>0, <1>5 DEF Goes, TypeOK, Call
  <2>2. pc \in Holding \ {"finish"} /\ pc # "persist"
    BY DEF Holding
  <2>3. StateOf(r)' = StateOf(r) /\ Plan(r)' = Plan(r)
    BY <2>1 DEF StateOf, Step, Plan
  <2>4. \A s \in Passed(r)' : record'.state[s] = "complete"
          /\ (~call[r].disturbed => Found(Plan(r), s)' = "exact")
    BY <1>3, <2>1, <2>2, <2>3, SameStepPassed
  <2> QED BY <1>5, <2>1, <2>2, <2>3, <2>4, HolderGetsThrough
<1>6. ASSUME Adopts(r), StateOf(r) # "complete", Found(Plan(r), Step(r)) = "exact"
      PROVE  Through(r)'
  <2>1. /\ call'[r].pc = "persist" /\ call'[r].step = call[r].step /\ call'[r].plan = call[r].plan
        /\ call'[r].bound = call[r].bound /\ call'[r].disturbed = call[r].disturbed
        /\ call'[r].record = call[r].record
    BY <1>0, <1>6 DEF Adopts, TypeOK, Call
  <2>2. "persist" \in Holding \ {"finish"}
    BY DEF Holding
  <2>3. StateOf(r)' = StateOf(r) /\ Plan(r)' = Plan(r) /\ Step(r)' = Step(r)
    BY <2>1 DEF StateOf, Step, Plan
  <2>4. \A s \in Passed(r)' : record'.state[s] = "complete"
          /\ (~call[r].disturbed => Found(Plan(r), s)' = "exact")
    BY <1>3, <2>1, <2>2, <2>3, SameStepPassed
  <2>5. Found(Plan(r), Step(r))' = "exact"
    BY <1>3, <1>6, <2>3
  <2> QED BY <1>6, <2>1, <2>2, <2>3, <2>4, <2>5, HolderGetsThrough
<1>7. ASSUME call' = [call EXCEPT ![r] = Following(r)],
             StateOf(r) = "complete", Found(Plan(r), Step(r)) = "exact"
      PROVE  Through(r)'
  <2>1. call'[r] = Following(r)
    BY <1>0, <1>7 DEF TypeOK
  <2>2. /\ call'[r].plan = call[r].plan /\ call'[r].bound = call[r].bound
        /\ call'[r].disturbed = call[r].disturbed /\ call'[r].pc \in {"enter", "finish"}
        /\ IF Step(r) = Manifest THEN call'[r].pc = "finish" /\ call'[r].step = call[r].step
           ELSE call'[r].pc = "enter" /\ call'[r].step = call[r].step + 1
    BY <1>0, <2>1 DEF Following, Call
  <2>3. {"enter", "finish"} \subseteq Holding /\ call'[r].pc \notin {"mark", "persist"}
    BY <2>2 DEF Holding
  <2>4. \A s \in Passed(r) : record.state[s] = "complete"
          /\ (~call[r].disturbed => Found(Plan(r), s) = "exact")
    BY <1>0 DEF Through, Seen, Undisturbed
  <2>5. \A s \in Passed(r)' : s \in Passed(r) \/ s = Step(r)
    BY <1>0, <2>2 DEF Passed, Step, Steps
  <2>6. \A s \in Passed(r)' : record'.state[s] = "complete"
          /\ (~call[r].disturbed => Found(Plan(r), s)' = "exact")
    <3>1. Plan(r)' = Plan(r)
      BY <2>2 DEF Plan
    <3> QED BY <1>0, <1>3, <1>7, <2>4, <2>5, <3>1
  <2> QED BY <2>2, <2>3, <2>6, HolderGetsThrough
<1>8. Through(r)'
  BY <1>4, <1>5, <1>6, <1>7
<1>9. Whole'
  BY DEF ReportInv, Whole
<1> QED BY <1>2, <1>8, <1>9 DEF ReportInv

\* The holder saves its record, a step further with work at that step.
LEMMA SaveGetsThrough ==
  ASSUME Structure, ReportInv, NEW r \in Runners, call[r].pc \in Holding \ {"finish"}, StateOf(r) # "complete",
         UNCHANGED <<remote, installed, marker>>,
         \A q \in Runners \ {r} : call'[q] = call[q],
         record'.plan = record.plan, record'.complete = record.complete,
         \A s \in Steps : s # Step(r) => record'.state[s] = record.state[s],
         call'[r].step = call[r].step, call'[r].plan = call[r].plan, call'[r].bound = call[r].bound,
         call'[r].disturbed = call[r].disturbed, call'[r].pc \in Holding \ {"finish"},
         call'[r].pc = "persist" => call[r].pc = "persist",
         call'[r].pc \in {"mark", "persist"} => StateOf(r)' # "complete"
  PROVE  ReportInv'
<1>1. Through(r) /\ ~record.complete
  BY NobodyReports DEF ReportInv
<1>2. \A q \in Runners \ {r} : call[q].pc \notin Holding
  BY Holds
<1>3. \A q \in Runners \ {r} : Through(q)'
  BY <1>1, <1>2, OthersGetThrough
<1>4. \A p, s : Found(p, s)' = Found(p, s)
  BY SameWorld
<1>5. Step(r)' = Step(r) /\ Plan(r)' = Plan(r)
  BY DEF Step, Plan
<1>6. \A s \in Passed(r)' : record'.state[s] = "complete"
        /\ (~call[r].disturbed => Found(Plan(r), s)' = "exact")
  <2>1. ASSUME NEW s \in Passed(r)'
        PROVE  record.state[s] = "complete" /\ s \in Steps /\ s # Step(r)
               /\ (~call[r].disturbed => Found(Plan(r), s) = "exact")
    <3>1. s \in Steps /\ s < Step(r) /\ Step(r) \in Steps
      BY SameStepPassed, Holds
    <3> QED BY <3>1, SameStepPassed DEF Steps, Tag, Manifest
  <2> QED BY <1>4, <1>5, <2>1
<1>7. call'[r].pc = "persist" /\ ~call[r].disturbed => Found(Plan(r), Step(r))' = "exact"
  BY <1>1, <1>4, <1>5 DEF Through, Seen, Undisturbed
<1>8. Through(r)'
  BY <1>6, <1>7, HolderGetsThrough
<1> QED BY <1>1, <1>3, <1>8 DEF ReportInv, Whole

\* The holder changes the world, and takes away nothing it has passed.
LEMMA WorkGetsThrough ==
  ASSUME Structure, ReportInv, NEW r \in Runners, call[r].pc \in Holding \ {"finish"}, StateOf(r) # "complete",
         UNCHANGED record,
         Raise(r) \/ \E pc \in {"push", "verify", "marker"} : Goes(r, pc),
         \A s \in Steps : s < Step(r) /\ Found(Plan(r), s) = "exact" => Found(Plan(r), s)' = "exact"
  PROVE  ReportInv'
<1>1. TypeOK /\ call[r] \in Call /\ \A q \in Runners : call[q].pc # "report"
  BY NobodyReports, Holds DEF Structure
<1>2. \A q \in Runners \ {r} : call'[q] = call[q] /\ call[q].pc \notin Holding
  BY <1>1, Holds DEF Raise, Goes, TypeOK
<1>3. \A q \in Runners \ {r} : Through(q)'
  BY <1>1, <1>2, OthersGetThrough
<1>4. ASSUME Raise(r) PROVE Through(r)'
  BY <1>1, <1>4, EndedIsThrough
<1>5. ASSUME NEW pc \in {"push", "verify", "marker"}, Goes(r, pc) PROVE Through(r)'
  <2>1. /\ call'[r].pc = pc /\ call'[r].step = call[r].step /\ call'[r].plan = call[r].plan
        /\ call'[r].bound = call[r].bound /\ call'[r].disturbed = call[r].disturbed
    BY <1>1, <1>5 DEF Goes, TypeOK, Call
  <2>2. pc \in Holding \ {"finish"} /\ pc \notin {"mark", "persist"}
    BY DEF Holding
  <2>3. \A s \in Passed(r)' : record'.state[s] = "complete"
          /\ (~call[r].disturbed => Found(Plan(r), s)' = "exact")
    BY <2>1, <2>2, SameStepPassed
  <2> QED BY <2>1, <2>2, <2>3, HolderGetsThrough
<1>6. Through(r)'
  BY <1>4, <1>5
<1> QED BY <1>3, <1>6 DEF ReportInv, Whole

LEMMA LoadGetsThrough ==
  ASSUME Structure, ReportInv, NEW r \in Runners, Load(r)
  PROVE  ReportInv'
<1>. DEFINE loaded == IF record = NoRecord THEN [NoRecord EXCEPT !.plan = Plan(r)] ELSE record
<1>0. TypeOK /\ call[r] \in Call /\ Through(r) /\ call[r].pc = "load" /\ Plan(r) \in Plans
      /\ UNCHANGED <<remote, installed, marker>>
  BY CallTypes DEF Load, Structure, Owned, ReportInv, world
<1>1. record' \in {record, loaded} /\ \A q \in Runners : q # r => call'[q] = call[q] /\ call[q].pc \notin Holding
  BY <1>0 DEF Load, Unlocked, Saves, Raise, TypeOK
<1>2. record'.state = record.state /\ record'.complete = record.complete
      /\ (record.plan # None => record'.plan = record.plan)
  <2>1. CASE record' = record
    BY <2>1
  <2>2. CASE record = NoRecord /\ record' = loaded
    <3>1. record' = [NoRecord EXCEPT !.plan = Plan(r)]
      BY <2>2
    <3>2. record'.state = NoRecord.state /\ record'.complete = NoRecord.complete /\ NoRecord.plan = None
      BY <3>1 DEF NoRecord
    <3> QED BY <2>2, <3>2
  <2> QED BY <1>1, <2>1, <2>2
<1>3. \A q \in Runners : q # r => Through(q)'
  BY <1>0, <1>1, <1>2, OthersGetThrough
<1>4. ASSUME Raise(r) PROVE Through(r)'
  BY <1>0, <1>4, EndedIsThrough
<1>5. ASSUME Saves(r, loaded, "enter") PROVE Through(r)'
  <2>1. /\ call'[r].pc = "enter" /\ call'[r].step = Tag
        /\ call'[r].plan = call[r].plan /\ call'[r].bound = call[r].bound
    BY <1>0, <1>5 DEF Saves, TypeOK, Call, Through, Step
  <2>2. Passed(r)' = {} /\ "enter" \in Holding
    BY <2>1 DEF Passed, Step, Steps, Tag, Manifest, Holding
  <2> QED BY <1>0, <2>1, <2>2 DEF Through, Seen, Plan
<1>6. Through(r)'
  BY <1>0, <1>4, <1>5 DEF Load
<1> QED BY <1>2, <1>3, <1>6 DEF ReportInv, Whole

\* The last read-back completes the step, which the call then leaves behind.
LEMMA CompleteGetsThrough ==
  ASSUME Structure, ReportInv, NEW r \in Runners, Complete(r)
  PROVE  ReportInv'
<1>0. /\ TypeOK /\ call[r] \in Call /\ Through(r) /\ call[r].pc = "persist" /\ StateOf(r) # "complete"
      /\ call[r].pc \in Holding \ {"finish"} /\ UNCHANGED <<remote, installed, marker>>
  BY CallTypes DEF Complete, Structure, ReportInv, Holding, world
<1>1. /\ call[r].record = record /\ record \in Record /\ Step(r) \in Steps
      /\ \A q \in Runners \ {r} : call[q].pc \notin Holding
  BY <1>0, Holds
<1>2. /\ record'.plan = record.plan /\ record'.complete = record.complete
      /\ \A s \in Steps : record'.state[s] = IF s = Step(r) THEN "complete" ELSE record.state[s]
  BY <1>1 DEF Complete, Moved, Record
<1>3. /\ \A q \in Runners \ {r} : call'[q] = call[q]
      /\ call'[r] = [Following(r) EXCEPT !.record = Moved(r, "complete")]
  BY <1>0 DEF Complete, TypeOK
<1>4. /\ call'[r].plan = call[r].plan /\ call'[r].bound = call[r].bound
      /\ call'[r].disturbed = call[r].disturbed /\ call'[r].pc \in {"enter", "finish"}
      /\ IF Step(r) = Manifest THEN call'[r].pc = "finish" /\ call'[r].step = call[r].step
         ELSE call'[r].pc = "enter" /\ call'[r].step = call[r].step + 1
  BY <1>0, <1>3 DEF Following, Call
<1>5. ~record.complete /\ \A q \in Runners \ {r} : Through(q)'
  BY <1>0, <1>1, <1>2, <1>3, NobodyReports, OthersGetThrough
<1>6. \A p, s : Found(p, s)' = Found(p, s)
  BY <1>0, SameWorld
<1>7. Plan(r)' = Plan(r) /\ {"enter", "finish"} \subseteq Holding /\ call'[r].pc \notin {"mark", "persist"}
  BY <1>4 DEF Plan, Holding
<1>8. \A s \in Passed(r)' : s \in Steps /\ (s = Step(r) \/ s \in Passed(r))
  BY <1>0, <1>1, <1>4 DEF Passed, Step, Steps, Tag, Manifest
<1>9. \A s \in Passed(r)' : record'.state[s] = "complete"
        /\ (~call[r].disturbed => Found(Plan(r), s)' = "exact")
  BY <1>0, <1>2, <1>6, <1>7, <1>8 DEF Through, Seen, Undisturbed
<1>10. Through(r)'
  BY <1>0, <1>4, <1>7, <1>9, HolderGetsThrough
<1> QED BY <1>2, <1>5, <1>10 DEF ReportInv, Whole

\* A call that has passed every step finishes the record, and may report.
LEMMA FinishGetsThrough ==
  ASSUME Structure, ReportInv, NEW r \in Runners, Finish(r)
  PROVE  ReportInv'
<1>0. /\ TypeOK /\ call[r] \in Call /\ Through(r) /\ call[r].pc = "finish" /\ "finish" \in Holding
      /\ UNCHANGED <<remote, installed, marker>>
  BY CallTypes DEF Finish, Structure, ReportInv, Holding, world
<1>1. /\ call[r].record = record /\ record \in Record /\ Plan(r) = record.plan
      /\ \A q \in Runners \ {r} : call[q].pc \notin Holding
  BY <1>0, Holds
<1>2. record'.plan = record.plan /\ record'.complete /\ record'.state = record.state
  BY <1>1 DEF Finish, Saves, Record
<1>3. /\ \A q \in Runners \ {r} : call'[q] = call[q]
      /\ call'[r].pc = "report" /\ call'[r].plan = call[r].plan /\ call'[r].bound = call[r].bound
      /\ call'[r].disturbed = call[r].disturbed /\ call'[r].step = call[r].step
  BY <1>0 DEF Finish, Saves, TypeOK, Call
<1>4. \A q \in Runners \ {r} : Through(q)'
  BY <1>0, <1>1, <1>2, <1>3, OthersGetThrough
<1>5. Plan(r)' = Plan(r) /\ Passed(r)' = Steps /\ Passed(r) = Steps /\ "report" \notin Holding
  BY <1>0, <1>3 DEF Plan, Passed, Holding
<1>6. Whole'
  BY <1>0, <1>2, <1>5 DEF Whole, Through
<1>7. \A p, s : Found(p, s)' = Found(p, s)
  BY <1>0, SameWorld
<1>8. Seen(r)'
  BY <1>0, <1>3, <1>5, <1>7 DEF Seen, Through, Undisturbed
<1>9. Through(r)'
  BY <1>0, <1>1, <1>2, <1>3, <1>5, <1>8 DEF Through
<1> QED BY <1>4, <1>6, <1>9 DEF ReportInv

\* What an action makes is of its own step, and disturbs none before it.
LEMMA ActionGetsThrough ==
  ASSUME Structure, ReportInv, NEW r \in Runners,
         TagLocally(r) \/ Push(r) \/ Create(r) \/ Pip(r) \/ WriteMarker(r)
  PROVE  ReportInv'
<1>0. TypeOK
  BY DEF Structure
<1>1. /\ call[r].pc \in Holding \ {"finish"} /\ UNCHANGED record
      /\ Raise(r) \/ \E pc \in {"push", "verify", "marker"} : Goes(r, pc)
      /\ call[r].pc \in {"act", "push", "pip", "marker"}
  BY DEF TagLocally, Push, Create, Pip, WriteMarker, Holding
<1>2. /\ call[r] \in Call /\ Plan(r) \in Plans /\ Step(r) \in Steps /\ VersionOf[Plan(r)] \in Versions
      /\ AtPlace(r)
  BY <1>1, Holds DEF Structure, InPlace
<1>3. StateOf(r) # "complete"
  BY <1>1, <1>2 DEF AtPlace
<1>. DEFINE Keeps == \A s \in Steps : s < Step(r) /\ Found(Plan(r), s) = "exact" => Found(Plan(r), s)' = "exact"
<1>4. Plan(r)' = Plan(r) \/ call'[r] = Idle
  BY <1>0, <1>1, <1>2 DEF Plan, Raise, Goes, TypeOK, Call
<1>5. ASSUME UNCHANGED <<remote, installed, marker>>, Plan(r)' = Plan(r) PROVE Keeps
  <2>1. \A p, s : Found(p, s)' = Found(p, s)
    BY <1>5, SameWorld
  <2> QED BY <1>5, <2>1
<1>6. ASSUME Step(r) = Tag PROVE Keeps
  BY <1>6 DEF Steps, Tag, Manifest
<1>7. ASSUME Raise(r), UNCHANGED <<remote, installed, marker>> PROVE ReportInv'
  BY <1>1, <1>7, QuietGetsThrough
<1>8. ASSUME Goes(r, "push") \/ Goes(r, "verify") \/ Goes(r, "marker") PROVE Plan(r)' = Plan(r)
  BY <1>0, <1>2, <1>8 DEF Goes, TypeOK, Call, Plan
<1>9. ASSUME Keeps PROVE ReportInv'
  BY <1>1, <1>3, <1>9, WorkGetsThrough
<1>10. CASE TagLocally(r) \/ Push(r)
  BY <1>2, <1>6, <1>9, <1>10 DEF TagLocally, Push, AtPlace
<1>11. CASE Create(r)
  <2>1. Step(r) \in Published /\ UNCHANGED <<installed, marker>>
    BY <1>11 DEF Create, Published
  <2>2. CASE UNCHANGED <<remote, installed, marker>> /\ Raise(r)
    BY <1>7, <2>2
  <2>3. CASE /\ Object(Plan(r), Step(r)).of = None /\ Place(Plan(r), Step(r), Fresh(Plan(r)))
             /\ Goes(r, "verify")
    <3>1. Fresh(Plan(r)) \in Objects /\ Plan(r)' = Plan(r)
      BY <1>0, <1>2, <1>8, <2>1, <2>3, ObjectType DEF Fresh
    <3>2. PICK p \in Plans : p = Plan(r)
      BY <1>2
    <3>3. Object(p, Step(r)).of = None /\ Place(p, Step(r), Fresh(p)) /\ Fresh(p) \in Objects
      BY <2>3, <3>1, <3>2
    <3>4. \A s \in Steps : Found(p, s) = "exact" => Found(p, s)' = "exact"
      BY <1>0, <2>1, <3>3, MadeWhereMissing
    <3>5. \A s : Found(Plan(r), s) = Found(p, s) /\ Found(Plan(r), s)' = Found(p, s)'
      BY <3>1, <3>2
    <3>6. Keeps
      BY <3>4, <3>5
    <3> QED BY <1>9, <3>6
  <2> QED BY <2>1, <2>2, <2>3, <1>11 DEF Create
<1>12. CASE Pip(r) \/ WriteMarker(r)
  <2>1. Step(r) = Install /\ remote' = remote
    BY <1>2, <1>12 DEF Pip, WriteMarker, AtPlace
  <2>2. CASE UNCHANGED <<remote, installed, marker>> /\ Raise(r)
    BY <1>7, <2>2
  <2>3. CASE Goes(r, "marker") \/ Goes(r, "verify")
    <3>1. Plan(r)' = Plan(r)
      BY <1>8, <2>3
    <3>2. PICK p \in Plans : p = Plan(r)
      BY <1>2
    <3>3. \A s : Object(p, s)' = Object(p, s)
      BY <2>1 DEF Object
    <3>4. ExactMeans(p) /\ ExactMeans(p)'
      BY Exact
    <3>5. \A s \in {Tag, Release, Wheel, Checksum} : Found(p, s) = "exact" => Found(p, s)' = "exact"
      BY <3>3, <3>4 DEF ExactMeans
    <3>6. \A s \in Steps : s < Step(r) => s \in {Tag, Release, Wheel, Checksum}
      BY <2>1 DEF Steps, Tag, Release, Wheel, Checksum, Install, Manifest
    <3>7. \A s : Found(Plan(r), s) = Found(p, s) /\ Found(Plan(r), s)' = Found(p, s)'
      BY <3>1, <3>2
    <3>8. Keeps
      BY <3>5, <3>6, <3>7
    <3> QED BY <1>9, <3>8
  <2> QED BY <2>1, <2>2, <2>3, <1>12 DEF Pip, WriteMarker
<1> QED BY <1>10, <1>11, <1>12

\* With world and record as they were, a call that did not move is as it was.
LEMMA StillThrough ==
  ASSUME UNCHANGED <<remote, installed, marker, record>>, NEW q \in Runners, Through(q), call'[q] = call[q]
  PROVE  Through(q)'
<1>1. \A p, s : Found(p, s)' = Found(p, s)
  BY SameWorld
<1>2. /\ Step(q)' = Step(q) /\ Plan(q)' = Plan(q) /\ StateOf(q)' = StateOf(q)
      /\ Passed(q)' = Passed(q) /\ Undisturbed(q)' = Undisturbed(q)
  BY DEF Step, Plan, StateOf, Passed, Undisturbed
<1> QED BY <1>1, <1>2 DEF Through, Seen

\* A new call, a call that ends, and the mission around the calls.
LEMMA GateGetsThrough ==
  ASSUME Structure, ReportInv, NEW r \in Runners, NEW p \in Plans, Gate(r, p)
  PROVE  ReportInv'
<1>1. TypeOK /\ UNCHANGED <<remote, installed, marker, record>> /\ "idle" \notin Holding
  BY DEF Structure, Gate, world, Holding
<1>2. \A q \in Runners : q # r => call'[q] = call[q]
  BY <1>1 DEF Gate, TypeOK
<1>3. call'[r] = [Idle EXCEPT !.pc = "load", !.plan = p, !.bound = planned]
  BY <1>1 DEF Gate, TypeOK
<1>4. /\ call'[r].pc = "load" /\ call'[r].plan = p /\ call'[r].bound = planned /\ call'[r].step = Tag
  BY <1>3 DEF Idle
<1>5. Through(r)'
  BY <1>4 DEF Through, Seen, Undisturbed, Holding, Plan, Step, Gate
<1>6. ASSUME NEW q \in Runners, q # r PROVE Through(q)'
  BY <1>1, <1>2, <1>6, StillThrough DEF ReportInv
<1> QED BY <1>1, <1>5, <1>6 DEF ReportInv, Whole

LEMMA EndGetsThrough ==
  ASSUME Structure, ReportInv, NEW r \in Runners, Report(r) \/ Stop(r)
  PROVE  ReportInv'
<1>1. TypeOK /\ Raise(r) /\ UNCHANGED <<remote, installed, marker, record>>
  BY DEF Structure, Report, Stop, world
<1>2. Through(r)' /\ \A q \in Runners \ {r} : call'[q] = call[q]
  BY <1>1, EndedIsThrough
<1>3. \A q \in Runners \ {r} : Through(q)'
  BY <1>1, <1>2, StillThrough DEF ReportInv
<1> QED BY <1>1, <1>2, <1>3 DEF ReportInv, Whole

\* Whatever somebody else does to the world, every call under way is marked.
LEMMA MeddleGetsThrough ==
  ASSUME Structure, ReportInv, Meddle
  PROVE  ReportInv'
<1>1. TypeOK /\ UNCHANGED record /\ "idle" \notin Holding
  BY DEF Structure, Meddle, Holding
<1>2. ASSUME NEW q \in Runners PROVE Through(q)'
  <2>1. call[q] \in Call /\ Through(q)
    BY <1>1 DEF TypeOK, ReportInv
  <2>2. /\ call'[q].pc = call[q].pc /\ call'[q].plan = call[q].plan /\ call'[q].bound = call[q].bound
        /\ call'[q].step = call[q].step /\ call'[q].record = call[q].record
        /\ call[q].pc = "idle" \/ call'[q].disturbed
    BY <2>1 DEF Meddle, Call
  <2>3. /\ Step(q)' = Step(q) /\ Plan(q)' = Plan(q) /\ StateOf(q)' = StateOf(q) /\ Passed(q)' = Passed(q)
        /\ ~Undisturbed(q)'
    BY <1>1, <2>2 DEF Step, Plan, StateOf, Passed, Undisturbed
  <2> QED BY <1>1, <2>1, <2>2, <2>3 DEF Through, Seen
<1> QED BY <1>1, <1>2 DEF ReportInv, Whole

LEMMA ReportNext == Structure /\ ReportInv /\ [Next]_vars => ReportInv'
<1> SUFFICES ASSUME Structure, ReportInv, [Next]_vars PROVE ReportInv'
  OBVIOUS
<1> USE DEF status, world
<1>1. ASSUME NEW r \in Runners, Recheck(r) \/ PreRead(r) \/ ReadWheel(r) \/ ReadManifest(r) \/ Verify(r)
      PROVE  ReportInv'
  <2>1. call[r].pc \in Holding \ {"finish"} /\ UNCHANGED <<remote, installed, marker, record>>
    BY <1>1 DEF Recheck, PreRead, ReadWheel, ReadManifest, Verify, Holding
  <2>2. \A s : Reads(Plan(r), s, "exact") => Found(Plan(r), s) = "exact"
    BY DEF Reads
  <2>3. AtPlace(r)
    BY DEF Structure, InPlace
  <2>4. CASE Recheck(r)
    BY <2>1, <2>2, <2>4, QuietGetsThrough DEF Recheck
  <2>5. CASE PreRead(r)
    BY <2>1, <2>2, <2>5, QuietGetsThrough DEF PreRead
  <2>6. CASE ReadWheel(r) \/ ReadManifest(r)
    BY <2>1, <2>6, QuietGetsThrough DEF ReadWheel, ReadManifest
  <2>7. CASE Verify(r)
    BY <2>1, <2>2, <2>3, <2>7, QuietGetsThrough DEF Verify, AtPlace
  <2> QED BY <1>1, <2>4, <2>5, <2>6, <2>7
<1>2. ASSUME NEW r \in Runners, Intend(r) \/ Mark(r) \/ Persist(r) PROVE ReportInv'
  <2>1. /\ call[r].pc \in Holding \ {"finish"} /\ StateOf(r) # "complete"
        /\ UNCHANGED <<remote, installed, marker>> /\ TypeOK
    BY <1>2 DEF Intend, Mark, Persist, Holding, ReportInv, Through, Structure
  <2>2. call[r] \in Call /\ call[r].record = record /\ record \in Record /\ Step(r) \in Steps
    BY <2>1, Holds
  <2>3. /\ record'.plan = record.plan /\ record'.complete = record.complete
        /\ record'.state[Step(r)] \in {"intent", "action", "read_back"}
        /\ \A s \in Steps : s # Step(r) => record'.state[s] = record.state[s]
    <3>1. \A state : /\ Moved(r, state).plan = record.plan /\ Moved(r, state).complete = record.complete
                     /\ Moved(r, state).state = [record.state EXCEPT ![Step(r)] = state]
                     /\ Moved(r, state).result = record.result
      BY <2>2 DEF Moved, Record
    <3>2. ASSUME NEW state
          PROVE  /\ Moved(r, state).state[Step(r)] = state
                 /\ \A s \in Steps : s # Step(r) => Moved(r, state).state[s] = record.state[s]
      <4>1. record.state \in [Steps -> States] /\ Step(r) \in Steps
        BY <2>2 DEF Record
      <4>2. Moved(r, state).state = [record.state EXCEPT ![Step(r)] = state]
        BY <3>1
      <4> QED BY <4>1, <4>2
    <3>3. CASE Intend(r)
      BY <3>1, <3>2, <3>3 DEF Intend, Saves
    <3>4. CASE Mark(r)
      BY <3>1, <3>2, <3>4 DEF Mark, Saves
    <3>5. CASE Persist(r)
      <4>1. PICK result : record' = [Moved(r, "read_back") EXCEPT !.result = result]
        BY <3>5 DEF Persist, Saves
      <4>2. /\ record'.plan = Moved(r, "read_back").plan /\ record'.complete = Moved(r, "read_back").complete
            /\ record'.state = Moved(r, "read_back").state
        BY <2>2, <4>1 DEF Moved, Record
      <4> QED BY <3>1, <3>2, <4>2
    <3> QED BY <1>2, <3>3, <3>4, <3>5
  <2>4. /\ \A q \in Runners \ {r} : call'[q] = call[q]
        /\ call'[r].record = record' /\ call'[r].step = call[r].step /\ call'[r].plan = call[r].plan
        /\ call'[r].bound = call[r].bound /\ call'[r].disturbed = call[r].disturbed
        /\ call'[r].pc \in {"enter", "act", "persist"}
        /\ call'[r].pc = "persist" => call[r].pc = "persist"
    BY <1>2, <2>1, <2>2 DEF Intend, Mark, Persist, Saves, TypeOK, Call
  <2>5. call'[r].pc \in Holding \ {"finish"}
    BY <2>4 DEF Holding
  <2>6. StateOf(r)' # "complete"
    BY <2>3, <2>4 DEF StateOf, Step
  <2> QED BY <2>1, <2>3, <2>4, <2>5, <2>6, SaveGetsThrough
<1>3. ASSUME UNCHANGED <<remote, installed, marker, record, call>> PROVE ReportInv'
  BY <1>3, StillThrough DEF ReportInv, Whole
<1>4. CASE (\E v \in Versions : ReleasePlan(v)) \/ Ship \/ NextMission \/ UNCHANGED vars
  BY <1>3, <1>4 DEF ReleasePlan, Ship, NextMission, vars
<1> QED
  BY <1>1, <1>2, <1>4, LoadGetsThrough, CompleteGetsThrough, FinishGetsThrough, ActionGetsThrough,
     GateGetsThrough, EndGetsThrough, MeddleGetsThrough
  DEF Next, Continue, Acts

LEMMA ReportInit == Init => ReportInv
<1> SUFFICES ASSUME Init PROVE ReportInv
  OBVIOUS
<1>1. Whole
  BY DEF Init, NoRecord, Whole
<1>2. \A r \in Runners : call[r].pc = "idle" /\ "idle" \notin Holding
  BY DEF Init, Idle, Holding
<1>3. \A r \in Runners : Through(r)
  BY <1>2 DEF Through, Seen, Undisturbed
<1> QED BY <1>1, <1>3 DEF ReportInv

LEMMA ReportInductive == Spec => [](IInv /\ ReportInv)
<1>1. IInv => Structure
  BY DEF IInv
<1>2. IInv /\ ReportInv /\ [Next]_vars => ReportInv'
  BY <1>1, ReportNext
<1> QED BY <1>2, ReportInit, Inductive, PTL DEF Spec

\* A release_reconciled event claims what is so: it is of the planned version
\* and of a record that is complete, and unless somebody changed the world
\* during the call that reports, every step of it is there, exact: however many
\* calls were cut short before, and whatever was changed before.
THEOREM ReportsAreSo == Spec => ReportedIsSo
<1>. DEFINE Claims ==
       reported' # reported /\ reported' # NotReported =>
         /\ phase = 7 /\ VersionOf[reported'.plan] = planned.version
         /\ record.complete /\ record.plan = reported'.plan
         /\ (\E r \in Runners : call[r].pc = "report" /\ ~call[r].disturbed /\ call'[r] = Idle) =>
              \A s \in Steps : Found(record.plan, s) = "exact"
<1>1. ASSUME IInv, ReportInv, [Next]_vars PROVE Claims
  <2> SUFFICES ASSUME reported' # reported, reported' # NotReported PROVE Claims
    OBVIOUS
  <2>1. PICK r \in Runners : Report(r)
    BY <1>1
    DEF Next, Continue, Acts, Load, Recheck, Intend, PreRead, Mark, TagLocally, Push, Create, ReadWheel, Pip,
        WriteMarker, ReadManifest, Verify, Persist, Complete, Finish, Stop, Gate, ReleasePlan, Ship,
        NextMission, Meddle, vars, status, world
  <2>2. /\ call[r].pc = "report" /\ phase = 7 /\ planned = call[r].bound
        /\ reported' = [plan |-> Plan(r), bound |-> planned]
    BY <2>1 DEF Report
  <2>3. record.complete /\ record.plan = Plan(r) /\ VersionOf[Plan(r)] = planned.version
    BY <1>1, <2>2 DEF ReportInv, Through
  <2>4. ASSUME NEW q \in Runners, call[q].pc = "report", ~call[q].disturbed, NEW s \in Steps
        PROVE  Found(record.plan, s) = "exact"
    <3>1. Through(q)
      BY <1>1 DEF ReportInv
    <3>2. Undisturbed(q) /\ s \in Passed(q)
      BY <2>4 DEF Undisturbed, Passed
    <3> QED BY <2>4, <3>1, <3>2 DEF Through, Seen
  <2> QED BY <2>2, <2>3, <2>4
<1>2. IInv /\ ReportInv /\ [Next]_vars => [Claims]_vars
  BY <1>1
<1> QED BY <1>2, ReportInductive, PTL DEF Spec, ReportedIsSo
=============================================================================
