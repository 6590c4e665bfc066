---------------------------- MODULE MutationProof ----------------------------
(* The engine's mutation proof of a criterion (mutation-proof): its test     *)
(* command is run on fresh copies of the tree, clean and with the named      *)
(* symbol neutralised, outside the project lock; the criterion and the       *)
(* source are looked at again under the lock before anything is recorded.    *)
(* The tree and the criterion are edited meanwhile, and may be edited back.  *)
(*                                                                           *)
(* A version of the source or of the tests is a number.  Left out: the       *)
(* refusals before the first copy, the target's text in a neutralised copy   *)
(* (it is the one the proof began with), the wording of the verdict, two     *)
(* proofs at once, a ledger that does not audit, and a kill or an error      *)
(* between the record and its commit.                                        *)
EXTENDS Naturals, Sequences

CONSTANTS
    Confirmations,  \* CONFIRMATIONS, runs of each side
    Noticing,       \* versions of the tests that notice the missing behaviour
    Flaky,          \* versions of the tests whose result is not their own
    Loading,        \* versions of the source that run the symbol while loading
    MaxVersion, MaxSpecs, MaxProofs     \* bounds

Versions == 1..MaxVersion
Exits == {"pass", "fail", "timeout"}

VARIABLES
    source,     \* version of bin/, dashboard/ and the target: source_digest
    tests,      \* version of the rest of the tree
    spec,       \* criterion_spec_hash
    proof,      \* the proof under way, and how often the source was edited since
    begun,      \* proofs started; bounds the model
    ledger      \* the mutation records

vars == <<source, tests, spec, proof, begun, ledger>>

None == [at |-> "none"]
Run == [exit : Exits, source : Versions, tests : Versions]

TypeOK ==
    /\ source \in Versions /\ tests \in Versions /\ spec \in 1..MaxSpecs
    /\ proof = None \/
       /\ proof.at \in {"clean", "probe", "mutated", "verdict", "record"}
       /\ proof.clean \in Seq(Run) /\ Len(proof.clean) <= Confirmations
       /\ proof.mutated \in Seq(Run) /\ Len(proof.mutated) <= Confirmations
       /\ proof.source \in Versions /\ proof.spec \in 1..MaxSpecs
       /\ proof.broken \in BOOLEAN /\ proof.late \in BOOLEAN /\ proof.edits \in 0..2
       /\ proof.mutated # <<>> => proof.at \in {"mutated", "verdict", "record"}
    /\ begun \in 0..MaxProofs
    /\ \A r \in ledger : r.source \in Versions /\ r.spec \in 1..MaxSpecs

Init ==
    /\ source = 1 /\ tests \in Versions /\ spec = 1
    /\ proof = None /\ begun = 0 /\ ledger = {}

-----------------------------------------------------------------------------
\* The command's exit on a copy of the tree as it is now.
Exit(neutralised) ==
    IF tests \in Flaky THEN {"pass", "fail", "timeout"}
    ELSE IF neutralised /\ (tests \in Noticing \/ source \in Loading)
    THEN {"fail", "timeout"} ELSE {"pass", "timeout"}

Copy(neutralised) == [exit : Exit(neutralised), source : {source}, tests : {tests}]

Exited(runs, codes) == \A i \in DOMAIN runs : runs[i].exit \in codes

\* The clean side agreed to pass, and there is time left.
MayMutate == Exited(proof.clean, {"pass"}) /\ ~proof.late

\* The first half of cmd_mutation_proof, and prove up to its first copy.
Begin ==
    /\ proof = None /\ begun < MaxProofs
    /\ begun' = begun + 1
    /\ proof' = [at |-> "clean", clean |-> <<>>, mutated |-> <<>>, source |-> source,
                 spec |-> spec, broken |-> FALSE, late |-> FALSE, edits |-> 0]
    /\ UNCHANGED <<source, tests, spec, ledger>>

\* The budget of the whole proof runs out during a run.
Late == {proof.late, TRUE}

CleanRun ==
    /\ proof.at = "clean"
    /\ \E run \in Copy(FALSE), late \in Late :
        LET runs == Append(proof.clean, run)
        IN  proof' = [proof EXCEPT !.clean = runs, !.late = late,
                        !.at = IF Len(runs) = Confirmations \/ runs[1].exit # run.exit \/ late
                               THEN "probe" ELSE "clean"]
    /\ UNCHANGED <<source, tests, spec, begun, ledger>>

\* The target is imported from a clean copy and from a neutralised one.
ImportProbe ==
    /\ proof.at = "probe"
    /\ \E slow \in SUBSET {"before", "after"} :
        proof' = [proof EXCEPT
                    !.broken = "before" \notin slow /\ (source \in Loading \/ "after" \in slow),
                    !.at = IF MayMutate THEN "mutated" ELSE "verdict"]
    /\ UNCHANGED <<source, tests, spec, begun, ledger>>

MutatedRun ==
    /\ proof.at = "mutated"
    /\ \E run \in Copy(TRUE), late \in Late :
        LET runs == Append(proof.mutated, run)
        IN  proof' = [proof EXCEPT !.mutated = runs, !.late = late,
                        !.at = IF Len(runs) = Confirmations \/ run.exit # "fail" \/ late
                               THEN "verdict" ELSE "mutated"]
    /\ UNCHANGED <<source, tests, spec, begun, ledger>>

\* record["ok"].
Proved ==
    /\ Exited(proof.clean, {"pass"})
    /\ proof.mutated # <<>> /\ Exited(proof.mutated, {"fail"})
    /\ ~proof.broken

\* prove compares the digests of the source before and after.
Verdict ==
    /\ proof.at = "verdict"
    /\ proof' = IF proof.source = source /\ Proved THEN [proof EXCEPT !.at = "record"] ELSE None
    /\ UNCHANGED <<source, tests, spec, begun, ledger>>

\* Mutant: what prove compared is not compared again.
SameClaim == spec = proof.spec
\* Under the lock again.
Unchanged == spec = proof.spec /\ source = proof.source

Record ==
    /\ proof.at = "record"
    /\ ledger' = IF Unchanged
                 THEN ledger \cup {[source |-> source, tests |-> tests, spec |-> proof.spec,
                                    runs |-> proof.clean \o proof.mutated,
                                    noticed |-> Len(proof.mutated), edits |-> proof.edits]}
                 ELSE ledger
    /\ proof' = None
    /\ UNCHANGED <<source, tests, spec, begun>>

Killed ==
    /\ proof # None /\ proof' = None
    /\ UNCHANGED <<source, tests, spec, begun, ledger>>

\* A proof remembers whether the source was edited under it: never, once, or
\* more often.
EditSource ==
    /\ source' \in Versions \ {source}
    /\ proof' = IF proof = None \/ proof.edits = 2 THEN proof ELSE [proof EXCEPT !.edits = @ + 1]
    /\ UNCHANGED <<tests, spec, begun, ledger>>

EditTests ==
    /\ tests' \in Versions \ {tests}
    /\ UNCHANGED <<source, spec, proof, begun, ledger>>

CriterionUpdate ==
    /\ spec' \in 1..MaxSpecs \ {spec}
    /\ UNCHANGED <<source, tests, proof, begun, ledger>>

Next ==
    \/ Begin \/ CleanRun \/ ImportProbe \/ MutatedRun \/ Verdict \/ Record
    \/ Killed \/ EditSource \/ EditTests \/ CriterionUpdate

Spec == Init /\ [][Next]_vars

-----------------------------------------------------------------------------
(* Properties.                                                               *)

\* What is recorded is about the source on disk at that moment: every run of
\* it copied that source, unless it was changed and changed back meanwhile (one
\* edit is never missed), at least one run of the neutralised copy was made and
\* none of them passed, though source and criterion are edited and the lock is
\* free while it runs.
ProofsAreOfTheirSource ==
    \A r \in ledger :
        /\ r.edits < 2 => \A i \in DOMAIN r.runs : r.runs[i].source = r.source
        /\ r.noticed >= 1
        /\ \A i \in DOMAIN r.runs :
              r.runs[i].exit = IF i > Len(r.runs) - r.noticed THEN "fail" ELSE "pass"

\* The next three are what one might expect beside it; no run checks them.
\* A source that changed during the proof is refused, changed back or not.
ProofsAreOfOneSource ==
    \A r \in ledger : \A i \in DOMAIN r.runs : r.runs[i].source = r.source

\* A tree that changed during the proof is refused: every run copied the tree
\* the record is bound to.
ProofsAreOfTheirTree ==
    \A r \in ledger : \A i \in DOMAIN r.runs : r.runs[i].tests = r.tests

\* Both sides were run as often as the proof says it confirms.
ProofsAreConfirmed ==
    \A r \in ledger : Len(r.runs) = 2 * Confirmations
=============================================================================
