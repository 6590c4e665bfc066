------------------------- MODULE ReleaseTransaction -------------------------
(***************************************************************************)
(* release-reconcile: publishing a version in six steps (annotated tag,    *)
(* release, wheel, checksum, installation, installed manifest), each of    *)
(* them an intent saved in a record, a read of the world, an action if the *)
(* read found nothing, a read-back and its completion.  Every action may   *)
(* be cut short, every read may fail to see what is there, and others may  *)
(* change the world; a later call resumes from the record.  Around it are  *)
(* the phases the call depends on: release-plan, the gate of Phase 8 and   *)
(* the next mission of the same root.                                      *)
(*                                                                         *)
(* A plan of the model is an identity with its expectations: one commit,   *)
(* one wheel, one manifest.  Several plans may carry one version, which is *)
(* all that names the objects at the provider.  Whether deployment is      *)
(* approved is the matter of Delivery: here an unapproved call is one that *)
(* is not made.                                                            *)
(***************************************************************************)
EXTENDS Integers

CONSTANTS
  Plans, Versions, VersionOf,   \* the identities, and the version each one carries
  Runners,                      \* processes that call release-reconcile
  None,
  InitiallyInstalled,           \* what pip may have installed before the first call
  MaxPlanned, MaxMissions,      \* release-plan commands, missions of this root
  MaxFaults, MaxMeddles         \* calls cut short or reads that miss, changes by others

ASSUME ReleaseAssumption ==
  /\ VersionOf \in [Plans -> Versions]
  /\ None \notin Plans
  /\ InitiallyInstalled \subseteq Plans \cup {None}
  /\ MaxPlanned \in Nat /\ MaxMissions \in Nat
  /\ MaxFaults \in Nat /\ MaxMeddles \in Nat

\* STEP_NAMES, in order; the first four are objects of the provider.
Tag == 1
Release == 2
Wheel == 3
Checksum == 4
Install == 5
Manifest == 6
Published == Tag..Checksum
Steps == Tag..Manifest
States == {"pending", "intent", "action", "read_back", "complete"}

\* A published object: the plan whose content it has, and its identifier.  A
\* release that is a draft counts as a release of another plan.
NoObject == [of |-> None, id |-> 0]
Objects == [of: Plans \cup {None}, id: Nat]
NoRecord == [plan |-> None, state |-> [s \in Steps |-> "pending"], result |-> [s \in Steps |-> 0],
             complete |-> FALSE]
Record == [plan: Plans \cup {None}, state: [Steps -> States], result: [Steps -> Nat], complete: BOOLEAN]
NotPlanned == [version |-> None, stamp |-> 0]
ReleasePlans == [version: Versions \cup {None}, stamp: Nat]

Holding == {"enter", "mark", "act", "push", "pip", "marker", "verify", "persist", "finish"}
Call == [pc: {"idle", "load", "report"} \cup Holding, plan: Plans \cup {None}, bound: ReleasePlans,
         step: Steps, seen: Nat, record: Record, disturbed: BOOLEAN]
Idle == [pc |-> "idle", plan |-> None, bound |-> NotPlanned, step |-> Tag, seen |-> 0, record |-> NoRecord,
         disturbed |-> FALSE]

VARIABLES
  phase,      \* 7 while the mission may publish, 8 once it has shipped
  planned,    \* status["release_plan"], NotPlanned without one
  reported,   \* the mission's last release_reconciled event
  remote,     \* the tag, release and assets of each version at the provider
  local,      \* the tags of the local repository
  installed,  \* the wheel pip has installed
  marker,     \* .handsoff-release-install.json: the plan it names
  record,     \* .handsoff-release-transaction.json
  call,       \* each runner's call, with the record as it holds it in memory
              \* and whether somebody else changed the world meanwhile
  made,       \* objects made so far: the next identifier
  stamps, mission, faults, meddles  \* how often the bounded things happened

status == <<phase, planned, reported, stamps, mission>>
world == <<remote, local, installed, marker, made>>
vars == <<status, world, record, call, faults, meddles>>

NotReported == [plan |-> None, bound |-> NotPlanned]

Init ==
  /\ phase = 7 /\ planned = NotPlanned /\ reported = NotReported
  /\ remote = [v \in Versions |-> [s \in Published |-> NoObject]]
  /\ local = [v \in Versions |-> NoObject]
  /\ installed \in InitiallyInstalled
  /\ marker = None
  /\ record = NoRecord
  /\ call = [r \in Runners |-> Idle]
  /\ made = 0 /\ stamps = 0 /\ mission = 1
  /\ faults = 0 /\ meddles = 0

-----------------------------------------------------------------------------
(* What a read of the world finds for one step of a plan. *)

Object(p, s) == remote[VersionOf[p]][s]

Matched(p, object) ==
  IF object.of = None THEN "missing" ELSE IF object.of = p THEN "exact" ELSE "conflict"

\* A release has the commit of its tag, and without the tag it is not seen.
ReleaseFound(p) ==
  IF Object(p, Release).of = None THEN "missing"
  ELSE IF Matched(p, Object(p, Tag)) # "exact" THEN Matched(p, Object(p, Tag))
  ELSE Matched(p, Object(p, Release))

AssetFound(p, s) ==
  IF ReleaseFound(p) # "exact" THEN ReleaseFound(p) ELSE Matched(p, Object(p, s))

SameVersion(p) == installed # None /\ VersionOf[installed] = VersionOf[p]

\* The version is asked of the installation, and everything else of the marker.
InstallFound(p) ==
  IF marker = None \/ ~SameVersion(p) THEN "missing" ELSE IF marker = p THEN "exact" ELSE "conflict"

ManifestFound(p) ==
  IF installed = None \/ marker = None THEN "missing"
  ELSE IF installed = p /\ marker = p THEN "exact" ELSE "conflict"

Found(p, s) ==
  CASE s = Tag -> Matched(p, Object(p, Tag))
    [] s = Release -> ReleaseFound(p)
    [] s \in {Wheel, Checksum} -> AssetFound(p, s)
    [] s = Install -> InstallFound(p)
    [] s = Manifest -> ManifestFound(p)

Identifier(p, s) == IF s \in Published THEN Object(p, s).id ELSE 0

\* A read says what is there, or misses it: an eventually consistent provider,
\* a transient error.
Reads(p, s, verdict) ==
  \/ verdict = Found(p, s) /\ UNCHANGED faults
  \/ /\ faults < MaxFaults /\ Found(p, s) # "missing"
     /\ verdict = "missing" /\ faults' = faults + 1

-----------------------------------------------------------------------------
(* The steps of a call.  A raise ends it, and its lock goes with it. *)

Step(r) == call[r].step
Plan(r) == call[r].plan
StateOf(r) == call[r].record.state[Step(r)]
Goes(r, pc) == call' = [call EXCEPT ![r].pc = pc]
Raise(r) == call' = [call EXCEPT ![r] = Idle]

\* _save: the record in memory, changed, replaces the file.
Saves(r, new, pc) ==
  /\ record' = new
  /\ call' = [call EXCEPT ![r].record = new, ![r].pc = pc]

\* _transition of the current step.
Moved(r, state) == [call[r].record EXCEPT !.state[Step(r)] = state]

\* cmd_release_reconcile in Phase 7 with a release plan, whose version
\* make_plan requires the wheel's manifest to have.
Gate(r, p) ==
  /\ call[r].pc = "idle"
  /\ phase = 7 /\ planned # NotPlanned /\ VersionOf[p] = planned.version
  /\ call' = [call EXCEPT ![r] = [Idle EXCEPT !.pc = "load", !.plan = p, !.bound = planned]]
  /\ UNCHANGED <<status, world, faults, meddles, record>>

Unlocked == \A r \in Runners : call[r].pc \notin Holding

\* Variants with a plausible bug stand before the definition they alter and
\* are used nowhere.
LoadUnlocked(r) ==
  LET loaded == IF record = NoRecord THEN [NoRecord EXCEPT !.plan = Plan(r)] ELSE record IN
  /\ call[r].pc = "load"
  /\ IF loaded.plan = Plan(r) THEN Saves(r, loaded, "enter") ELSE Raise(r) /\ UNCHANGED record
  /\ UNCHANGED <<status, world, faults, meddles>>

\* The release lock, then _load_or_initialize: a new record is saved before
\* anything else, and a record of another plan is refused.
Load(r) ==
  LET loaded == IF record = NoRecord THEN [NoRecord EXCEPT !.plan = Plan(r)] ELSE record IN
  /\ call[r].pc = "load" /\ Unlocked
  /\ IF loaded.plan = Plan(r) THEN Saves(r, loaded, "enter") ELSE Raise(r) /\ UNCHANGED record
  /\ UNCHANGED <<status, world, faults, meddles>>

Following(r) ==
  IF Step(r) = Manifest THEN [call[r] EXCEPT !.pc = "finish", !.seen = 0]
  ELSE [call[r] EXCEPT !.pc = "enter", !.step = @ + 1, !.seen = 0]

RecheckNothing(r) ==
  /\ call[r].pc = "enter" /\ StateOf(r) = "complete"
  /\ call' = [call EXCEPT ![r] = Following(r)]
  /\ UNCHANGED <<status, world, faults, meddles, record>>

\* A complete step is read again, and must still be the object it was.
Recheck(r) ==
  /\ call[r].pc = "enter" /\ StateOf(r) = "complete"
  /\ \E verdict \in {"missing", "exact", "conflict"} :
       /\ Reads(Plan(r), Step(r), verdict)
       /\ IF verdict = "exact" /\ Identifier(Plan(r), Step(r)) = call[r].record.result[Step(r)]
            THEN call' = [call EXCEPT ![r] = Following(r)]
            ELSE Raise(r)
  /\ UNCHANGED <<status, world, record, meddles>>

Intend(r) ==
  /\ call[r].pc = "enter" /\ StateOf(r) = "pending"
  /\ Saves(r, Moved(r, "intent"), "enter")
  /\ UNCHANGED <<status, world, faults, meddles>>

Adopts(r) == call' = [call EXCEPT ![r].pc = "persist", ![r].seen = Identifier(Plan(r), Step(r))]

PreReadActsOnce(r) ==
  /\ call[r].pc = "enter" /\ StateOf(r) \in {"intent", "action", "read_back"}
  /\ \E verdict \in {"missing", "exact", "conflict"} :
       /\ Reads(Plan(r), Step(r), verdict)
       /\ CASE verdict = "exact" -> Adopts(r)
            [] verdict = "missing" /\ StateOf(r) = "intent" -> Goes(r, "mark")
            [] OTHER -> Raise(r)
  /\ UNCHANGED <<status, world, record, meddles>>

\* A step begun is read before it is acted on: what exists is adopted, what
\* conflicts is refused, and only what is missing is made.
PreRead(r) ==
  /\ call[r].pc = "enter" /\ StateOf(r) \in {"intent", "action", "read_back"}
  /\ \E verdict \in {"missing", "exact", "conflict"} :
       /\ Reads(Plan(r), Step(r), verdict)
       /\ CASE verdict = "exact" -> Adopts(r)
            [] verdict = "conflict" -> Raise(r)
            [] verdict = "missing" -> Goes(r, IF StateOf(r) = "intent" THEN "mark" ELSE "act")
  /\ UNCHANGED <<status, world, record, meddles>>

Mark(r) ==
  /\ call[r].pc = "mark"
  /\ Saves(r, Moved(r, "action"), "act")
  /\ UNCHANGED <<status, world, faults, meddles>>

-----------------------------------------------------------------------------
(* The actions.  The provider makes no second object of one name, and the  *)
(* command that asks for it fails.                                         *)

Fresh(p) == [of |-> p, id |-> made + 1]
Below(s) == IF s = Release THEN Tag ELSE Release   \* what it is made on
Place(p, s, object) == remote' = [remote EXCEPT ![VersionOf[p]][s] = object]

\* create_annotated_tag: the tag is made in the local repository, unless it is
\* there already, and then pushed.
TagLocally(r) ==
  LET v == VersionOf[Plan(r)] IN
  /\ call[r].pc = "act" /\ Step(r) = Tag
  /\ IF local[v].of = None
       THEN /\ local' = [local EXCEPT ![v] = Fresh(Plan(r))] /\ made' = made + 1
            /\ Goes(r, "push")
       ELSE /\ IF local[v].of = Plan(r) THEN Goes(r, "push") ELSE Raise(r)
            /\ UNCHANGED <<local, made>>
  /\ UNCHANGED <<status, remote, installed, marker, faults, meddles, record>>

\* git push refuses to move a tag; pushing the same tag again changes nothing.
Push(r) ==
  LET tag == local[VersionOf[Plan(r)]] IN
  /\ call[r].pc = "push"
  /\ IF Object(Plan(r), Tag) \in {NoObject, tag}
       THEN Place(Plan(r), Tag, tag) /\ Goes(r, "verify")
       ELSE Raise(r) /\ UNCHANGED remote
  /\ UNCHANGED <<status, local, installed, marker, made, faults, meddles, record>>

\* gh release create --verify-tag, gh release upload without --clobber.
Create(r) ==
  LET p == Plan(r) IN
  /\ call[r].pc = "act" /\ Step(r) \in {Release, Wheel, Checksum}
  /\ IF Object(p, Below(Step(r))).of # None /\ Object(p, Step(r)).of = None
       THEN Place(p, Step(r), Fresh(p)) /\ made' = made + 1 /\ Goes(r, "verify")
       ELSE Raise(r) /\ UNCHANGED <<remote, made>>
  /\ UNCHANGED <<status, local, installed, marker, faults, meddles, record>>

\* install reads the release and the wheel again before it calls pip ...
ReadWheel(r) ==
  /\ call[r].pc = "act" /\ Step(r) = Install
  /\ \E verdict \in {"missing", "exact", "conflict"} :
       /\ Reads(Plan(r), Wheel, verdict)
       /\ IF verdict = "exact" THEN Goes(r, "pip") ELSE Raise(r)
  /\ UNCHANGED <<status, world, record, meddles>>

\* ... which installs the wheel it finds at the address, and may leave an
\* installation of the same version as it is ...
Pip(r) ==
  LET found == Object(Plan(r), Wheel).of IN
  /\ call[r].pc = "pip"
  /\ IF found = None THEN Raise(r) /\ UNCHANGED installed
     ELSE /\ installed' \in {found} \cup (IF SameVersion(found) THEN {installed} ELSE {})
          /\ Goes(r, "marker")
  /\ UNCHANGED <<status, remote, local, marker, made, faults, meddles, record>>

\* ... and then replaces the install marker.
WriteMarker(r) ==
  /\ call[r].pc = "marker"
  /\ marker' = Plan(r)
  /\ Goes(r, "verify")
  /\ UNCHANGED <<status, remote, local, installed, made, faults, meddles, record>>

\* verify_manifest only reads: a manifest that is not there is an error.
ReadManifest(r) ==
  /\ call[r].pc = "act" /\ Step(r) = Manifest
  /\ \E verdict \in {"missing", "exact", "conflict"} :
       /\ Reads(Plan(r), Manifest, verdict)
       /\ IF verdict = "missing" THEN Raise(r) ELSE Goes(r, "verify")
  /\ UNCHANGED <<status, world, record, meddles>>

\* The read-back: anything but the exact object ends the call.
Verify(r) ==
  /\ call[r].pc = "verify"
  /\ \E verdict \in {"missing", "exact", "conflict"} :
       /\ Reads(Plan(r), Step(r), verdict)
       /\ IF verdict = "exact" THEN Adopts(r) ELSE Raise(r)
  /\ UNCHANGED <<status, world, record, meddles>>

PersistWithoutResult(r) ==
  /\ call[r].pc = "persist" /\ StateOf(r) # "read_back"
  /\ Saves(r, Moved(r, "read_back"), "persist")
  /\ UNCHANGED <<status, world, faults, meddles>>

\* _record_read_back: a step that was read back before keeps its old result.
Persist(r) ==
  /\ call[r].pc = "persist" /\ StateOf(r) # "read_back"
  /\ Saves(r, [Moved(r, "read_back") EXCEPT !.result[Step(r)] = call[r].seen], "persist")
  /\ UNCHANGED <<status, world, faults, meddles>>

Complete(r) ==
  /\ call[r].pc = "persist" /\ StateOf(r) = "read_back"
  /\ record' = Moved(r, "complete")
  /\ call' = [call EXCEPT ![r] = [Following(r) EXCEPT !.record = Moved(r, "complete")]]
  /\ UNCHANGED <<status, world, faults, meddles>>

Finish(r) ==
  /\ call[r].pc = "finish"
  /\ Saves(r, [call[r].record EXCEPT !.complete = TRUE], "report")
  /\ UNCHANGED <<status, world, faults, meddles>>

\* Back under the project lock: the event is written only for the plan and
\* the phase the call began with.
Report(r) ==
  /\ call[r].pc = "report"
  /\ Raise(r)
  /\ reported' = IF phase = 7 /\ planned = call[r].bound
                   THEN [plan |-> Plan(r), bound |-> planned] ELSE reported
  /\ UNCHANGED <<phase, planned, stamps, mission, world, faults, meddles, record>>

Acts(r) ==
  \/ TagLocally(r) \/ Push(r) \/ Create(r)
  \/ ReadWheel(r) \/ Pip(r) \/ WriteMarker(r) \/ ReadManifest(r)

Continue(r) ==
  \/ Load(r) \/ Recheck(r) \/ Intend(r) \/ PreRead(r) \/ Mark(r) \/ Acts(r)
  \/ Verify(r) \/ Persist(r) \/ Complete(r) \/ Finish(r) \/ Report(r)

\* A call is cut short: killed, or failed by a command or a timeout.
Stop(r) ==
  /\ call[r].pc # "idle" /\ faults < MaxFaults
  /\ faults' = faults + 1
  /\ Raise(r)
  /\ UNCHANGED <<status, world, record, meddles>>

-----------------------------------------------------------------------------
(* The mission around the calls. *)

ReleasePlan(v) ==
  /\ stamps < MaxPlanned
  /\ stamps' = stamps + 1
  /\ planned' = [version |-> v, stamp |-> stamps + 1]
  /\ UNCHANGED <<phase, reported, mission, world, faults, meddles, record, call>>

\* completion_error: a record needs a release plan of its version, and must be
\* complete.
CompletionError ==
  record # NoRecord
    /\ ~(planned # NotPlanned /\ VersionOf[record.plan] = planned.version /\ record.complete)

Ship ==
  /\ phase = 7 /\ ~CompletionError
  /\ phase' = 8
  /\ UNCHANGED <<planned, reported, stamps, mission, world, faults, meddles, record, call>>

\* retire_finished_run archives the ledgers of a finished run and leaves the
\* release record; init begins anew.  The phases before 7 are passed over.
NextMission ==
  /\ phase = 8 /\ mission < MaxMissions
  /\ mission' = mission + 1
  /\ phase' = 7 /\ planned' = NotPlanned /\ reported' = NotReported
  /\ UNCHANGED <<stamps, world, faults, meddles, record, call>>

\* Somebody else deletes, makes or replaces an object of the provider, tags the
\* local repository, or installs another wheel.
Meddle ==
  /\ meddles < MaxMeddles
  /\ meddles' = meddles + 1
  /\ call' = [r \in Runners |->
                IF call[r].pc = "idle" THEN call[r] ELSE [call[r] EXCEPT !.disturbed = TRUE]]
  /\ \/ \E v \in Versions, s \in Published, p \in Plans \cup {None} :
          /\ IF p = None THEN remote[v][s] # NoObject ELSE s # Tag => remote[v][Below(s)] # NoObject
          /\ remote' = [remote EXCEPT ![v][s] = IF p = None THEN NoObject ELSE Fresh(p)]
          /\ made' = made + 1
          /\ UNCHANGED <<local, installed>>
     \/ \E v \in Versions, p \in Plans :
          /\ local' = [local EXCEPT ![v] = Fresh(p)]
          /\ made' = made + 1
          /\ UNCHANGED <<remote, installed>>
     \/ /\ installed' \in (Plans \cup {None}) \ {installed}
        /\ UNCHANGED <<remote, local, made>>
  /\ UNCHANGED <<status, marker, faults, record>>

Next ==
  \/ \E r \in Runners : Continue(r) \/ Stop(r) \/ \E p \in Plans : Gate(r, p)
  \/ \E v \in Versions : ReleasePlan(v)
  \/ Ship \/ NextMission \/ Meddle

Spec == Init /\ [][Next]_vars

\* A process goes on until it is stopped, and somebody calls release-reconcile
\* again and again with every wheel there is.
FairSpec ==
  /\ Spec
  /\ \A r \in Runners : WF_vars(Continue(r))
  /\ \A p \in Plans : SF_vars(\E r \in Runners : Gate(r, p))

-----------------------------------------------------------------------------
(* Properties *)

TypeOK ==
  /\ phase \in {7, 8} /\ planned \in ReleasePlans
  /\ reported \in [plan: Plans \cup {None}, bound: ReleasePlans]
  /\ remote \in [Versions -> [Published -> Objects]]
  /\ local \in [Versions -> Objects]
  /\ installed \in Plans \cup {None} /\ marker \in Plans \cup {None}
  /\ record \in Record
  /\ call \in [Runners -> Call]
  /\ made \in Nat /\ stamps \in 0..MaxPlanned /\ mission \in Nat
  /\ faults \in 0..MaxFaults /\ meddles \in 0..MaxMeddles

\* While nobody else changes the world, what the record calls complete is
\* there, exact, and the very object that was read back, however often calls
\* were cut short and reads missed it.
RecordIsTruthful ==
  meddles = 0 =>
    \A s \in Steps : record.state[s] = "complete" =>
      /\ Found(record.plan, s) = "exact"
      /\ Identifier(record.plan, s) = record.result[s]

\* While nobody else changes the world, nothing is published or installed that
\* the record did not announce first: whatever was lost, a later call knows.
NothingUnannounced ==
  meddles = 0 =>
    /\ \A v \in Versions, s \in Published : remote[v][s] # NoObject =>
         /\ remote[v][s].of = record.plan
         /\ record.state[s] \notin {"pending", "intent"}
    /\ marker # None => marker = record.plan /\ record.state[Install] \notin {"pending", "intent"}

\* A release_reconciled event is about the planned version, in Phase 7, with a
\* complete record, and everything it claims is so unless it was changed by
\* others during the very call: earlier changes are noticed.
ReportedIsSo ==
  [][reported' # reported /\ reported' # NotReported =>
       /\ phase = 7 /\ VersionOf[reported'.plan] = planned.version
       /\ record.complete /\ record.plan = reported'.plan
       /\ (\E r \in Runners : call[r].pc = "report" /\ ~call[r].disturbed /\ call'[r] = Idle) =>
            \A s \in Steps : Found(record.plan, s) = "exact"]_vars

\* A planned version with no other wheel of it installed and nobody else
\* interfering, whose record, if there is one, is of that version.
Asked ==
  /\ phase = 7 /\ planned # NotPlanned /\ meddles = 0
  /\ installed # None /\ VersionOf[installed] = planned.version => installed = record.plan

Waiting == Asked /\ (record # NoRecord => VersionOf[record.plan] = planned.version)

\* Such a release is published, installed, verified and reported in the end,
\* wherever the calls before were cut short.
Converges == []<>(reported.bound = planned \/ ~Waiting)

\* retire_finished_run: "so the next mission can start", and a mission that
\* follows a finished release publishes its own in the end like the first.
NextReleaseConverges ==
  []<>(reported.bound = planned \/ ~(Asked /\ mission > 1 /\ (record # NoRecord => record.complete)))
=============================================================================
