--------------------------- MODULE MCPatchApply ---------------------------
(* Instances of PatchApply: two files, a modified and a created one.       *)
EXTENDS PatchApply, TLC

CONSTANTS f1, f2, c0, c1, c2

Op(kind, f, new, exp) == [kind |-> kind, target |-> f, newContent |-> new, expected |-> exp]

\* A confirmed request over an explicitly dirty tree, backups on
Asked(ops) ==
    [operations |-> ops, dryRun |-> FALSE, applyConfirmed |-> TRUE,
     confirmDelete |-> FALSE, allowDirty |-> TRUE, allowMissing |-> FALSE,
     backupEnabled |-> TRUE]

ModifyAndCreate == Asked(<<Op("replace_file", f1, c1, c0), Op("create_file", f2, c1, NoContent)>>)
BlindReplace    == Asked(<<Op("replace_file", f1, c2, NoContent)>>)
CreateThenModify == Asked(<<Op("create_file", f2, c2, NoContent), Op("replace_file", f1, c2, c0)>>)
DeleteFile      == [Asked(<<Op("delete_file", f1, NoContent, NoContent)>>)
                        EXCEPT !.confirmDelete = TRUE]
UnconfirmedDelete == [DeleteFile EXCEPT !.confirmDelete = FALSE]
Unconfirmed     == [BlindReplace EXCEPT !.applyConfirmed = FALSE]
DryRun          == [ModifyAndCreate EXCEPT !.dryRun = TRUE, !.applyConfirmed = FALSE]
NoContentGiven  == Asked(<<Op("create_file", f1, NoContent, NoContent)>>)
CleanTreeOnly   == [ModifyAndCreate EXCEPT !.allowDirty = FALSE]
WithoutBackup   == [BlindReplace EXCEPT !.backupEnabled = FALSE]
NoRepository    == [BlindReplace EXCEPT !.allowMissing = TRUE]
SameFileTwice   == Asked(<<Op("replace_file", f1, c1, c0), Op("replace_file", f1, c2, c0)>>)
EmptyDryRun     == [Asked(<<>>) EXCEPT !.dryRun = TRUE]

\* Two requests racing for the same files
RacingRequests == {ModifyAndCreate, BlindReplace, DeleteFile}

\* Every shape of request the gates distinguish
AllRequests ==
    RacingRequests \cup
    {CreateThenModify, UnconfirmedDelete, Unconfirmed, DryRun, NoContentGiven, CleanTreeOnly,
     WithoutBackup, NoRepository, SameFileTwice, EmptyDryRun}

\* The runs differ in nothing but what they are asked
RunSymmetry == Permutations(Runs)

StartState == [f \in Files |-> IF f = f1 THEN c0 ELSE Absent]

\* One workspace to start from; the rollbacks are confirmed ones
MCInit ==
    /\ Init
    /\ fs = StartState
    /\ \A b \in Rollbacks : rbInput[b].confirmed /\ ~rbInput[b].dryRun

MCSpec == MCInit /\ [][Next]_vars

\* As above, with every rollback input
MCAnyRollback == Init /\ fs = StartState
MCFairSpec == MCAnyRollback /\ [][Next]_vars /\ Fairness
=============================================================================
