------------------------------ MODULE MCLedger ------------------------------
(* Small instances of Ledger: which commands run, and symmetry. *)
EXTENDS Ledger, TLC

LockedCommands == {VerifyCommand(1), VerifyCommand(2), RegistryCommand, DecisionCommand,
                   SessionCommand, NoteCommand}
FewCommands == {VerifyCommand(2), RegistryCommand, SessionCommand, NoteCommand}
UnlockedCommands == {SessionCommand, UnlockedNoteCommand}
AllCommands == LockedCommands \cup {UnlockedNoteCommand}

Symmetry == Permutations(Procs)
=============================================================================
