---------------------------- MODULE PatchApply ----------------------------
(***************************************************************************)
(* The runtime's write path: PatchApplyRunner.run applies a proposal to    *)
(* the target workspace operation by operation, PatchBackupWriter saves    *)
(* what each operation is about to overwrite, and RuntimePatchRollback     *)
(* replays those backups.  Every step below is the code between two        *)
(* awaits, so other requests and the user's editor run in between; a       *)
(* writeFile is two steps, since it truncates the file and then fills it.  *)
(***************************************************************************)
EXTENDS Integers, Sequences

CONSTANTS
    Files,        \* paths inside the target project
    Contents,     \* file contents the properties tell apart
    Absent,       \* the state of a file that does not exist
    Torn,         \* the content of a file that is empty, cut short or mixed up
    NoContent,    \* an operation or a backup slot without content
    Runs,         \* calls of PatchApplyRunner.run
    Rollbacks,    \* calls of RuntimePatchRollback.rollback
    Requests,     \* the PatchApplyInputs the callers of a check may send
    Protected,    \* paths ProtectedPathPolicy refuses by name
    FaultyBackups, \* files whose read, or the copy of them, may fail in a backup
    User,         \* the person editing the workspace
    MaxStamp,     \* bound: the last millisecond modelled
    MaxEnv        \* bound: edits, commits, links and I/O faults together

\* What the user leaves in a file, and what a file may hold
FileState == Contents \cup {Absent}
DiskState == FileState \cup {Torn}

Operation ==
    [kind : {"replace_file", "create_file", "delete_file"},
     target : Files,
     newContent : Contents \cup {NoContent},
     expected : Contents \cup {NoContent}]

Input ==
    [operations : Seq(Operation), dryRun : BOOLEAN, applyConfirmed : BOOLEAN,
     confirmDelete : BOOLEAN, allowDirty : BOOLEAN, allowMissing : BOOLEAN,
     backupEnabled : BOOLEAN]

ASSUME ConstantsDisjoint ==
    /\ Absent \notin Contents
    /\ Torn \notin FileState
    /\ NoContent \notin DiskState
    /\ User \notin Runs \cup Rollbacks
    /\ Runs \cap Rollbacks = {}
ASSUME RequestsTyped == \A q \in Requests : q \in Input
ASSUME SetsTyped == Protected \subseteq Files /\ FaultyBackups \subseteq Files
ASSUME BoundsTyped == MaxStamp \in Nat /\ MaxEnv \in Nat

Stamps == 0 .. MaxStamp

VARIABLES
    fs,          \* the workspace: the state of every file
    head,        \* what git has committed
    linked,      \* paths the file-system gate refuses (symbolic links)
    clock,       \* the current millisecond
    backupStore, \* .runtime/patch-backups/<applyId>/<file>
    request,     \* the input each run is called with
    phase,       \* where each run is, and its status once it returned
    opIndex,     \* the operation a run is at
    issue,       \* whether a run has recorded an error issue
    stamp,       \* the millisecond in a run's applyId
    saved,       \* how the operation in hand was backed up
    results,     \* operationResults
    rbInput,     \* the input of each rollback
    rbPhase,     \* where each rollback is, and its status
    rbIndex,     \* the operation result a rollback is at
    rbFailed,    \* whether one of its operations failed
    rbContent,   \* the backup it has read and is writing back
    overlaid,    \* files another wrote while their writer held them truncated
    env,         \* environment steps taken
    writer,      \* history: who last wrote each file
    origin,      \* history: what a run's first write of a file overwrote
    raced        \* history: files written by another between backup and write

wsVars  == <<fs, head, linked, overlaid>>
runVars == <<request, phase, opIndex, issue, stamp, saved, results>>
rbVars  == <<rbInput, rbPhase, rbIndex, rbFailed, rbContent>>
history == <<writer, origin, raced>>
vars == <<wsVars, clock, backupStore, runVars, rbVars, env, history>>

\* The statuses run() returns; before it returns one it writes its report,
\* and a call that throws returns none
Terminal  == {"applied", "blocked", "failed", "dry_run"}
Reporting == {"report_applied", "report_blocked", "report_failed", "report_dry_run"}
InFlight  == {"verify", "guard", "open", "write", "fill"} \cup Reporting
RunPhase  == {"idle", "threw", "crashed"} \cup InFlight \cup Terminal

RollbackPhase ==
    {"idle", "running", "fill", "rolled_back", "failed", "blocked", "dry_run", "crashed"}

RollbackInput == [run : Runs, confirmed : BOOLEAN, dryRun : BOOLEAN]

Init ==
    /\ fs \in [Files -> DiskState]
    /\ head = fs
    /\ linked = {}
    /\ overlaid = {}
    /\ clock = 0
    /\ backupStore = [s \in Stamps |-> [f \in Files |-> NoContent]]
    /\ request \in [Runs -> Requests]
    /\ phase = [r \in Runs |-> "idle"]
    /\ opIndex = [r \in Runs |-> 1]
    /\ issue = [r \in Runs |-> FALSE]
    /\ stamp = [r \in Runs |-> 0]
    /\ saved = [r \in Runs |-> "none"]
    /\ results = [r \in Runs |-> <<>>]
    /\ rbInput \in [Rollbacks -> RollbackInput]
    /\ rbPhase = [b \in Rollbacks |-> "idle"]
    /\ rbIndex = [b \in Rollbacks |-> 1]
    /\ rbFailed = [b \in Rollbacks |-> FALSE]
    /\ rbContent = [b \in Rollbacks |-> NoContent]
    /\ env = 0
    /\ writer = [f \in Files |-> User]
    /\ origin = [r \in Runs |-> [f \in Files |-> NoContent]]
    /\ raced = {}

-----------------------------------------------------------------------------
(* What run() decides before it touches anything.                          *)

Ops(r) == request[r].operations
CurrentOp(r) == Ops(r)[opIndex[r]]

\* The run a rollback is given the result of, and the file it stands at
RunOf(b) == rbInput[b].run
RollbackTarget(b) == results[RunOf(b)][rbIndex[b]].target

\* PatchApprovalPolicy.validateInput
ApprovalIssue(q) ==
    \/ ~q.applyConfirmed
    \/ ~q.confirmDelete /\ \E i \in DOMAIN q.operations :
                              q.operations[i].kind = "delete_file"
    \/ q.operations = <<>>

\* PatchApplyValidator.validate: path policy and missing newContent; a
\* duplicated target is only a warning there
ValidatorIssue(q) ==
    \E i \in DOMAIN q.operations :
        LET op == q.operations[i] IN
        \/ op.target \in Protected
        \/ op.kind # "delete_file" /\ op.newContent = NoContent

\* validateFilesystemPaths
PathIssue(q) == \E i \in DOMAIN q.operations : q.operations[i].target \in linked

PlanIssue(q) ==
    (~q.dryRun /\ ApprovalIssue(q)) \/ ValidatorIssue(q) \/ PathIssue(q)

\* PatchCurrentContentVerifier.verify for one operation
ContentIssue(op) == op.expected # NoContent /\ fs[op.target] # op.expected

\* A protected path, unlike a link, also skips the verification of contents
SkipsVerification(q) ==
    \E i \in DOMAIN q.operations : q.operations[i].target \in Protected

\* GitWorkingTreeGuard.evaluate over the captured boundary.  A missing
\* repository has no clean tree either, and counts as an issue of severity
\* "warning"; no reader of the repository reports one of severity "error".
GitIssue(q, repository) ==
    \/ ~repository /\ ~q.allowMissing
    \/ (~repository \/ fs # head) /\ ~q.allowDirty

-----------------------------------------------------------------------------
(* PatchApplyRunner.run                                                     *)

Start(r) ==
    /\ phase[r] = "idle"
    /\ stamp' = [stamp EXCEPT ![r] = clock]
    /\ issue' = [issue EXCEPT ![r] = PlanIssue(request[r])]
    /\ phase' = [phase EXCEPT ![r] =
                    IF Ops(r) = <<>> \/ SkipsVerification(request[r]) THEN "guard"
                                                                      ELSE "verify"]
    /\ UNCHANGED <<wsVars, clock, backupStore, request, opIndex, saved, results,
                   rbVars, env, history>>

\* Mutant: the outcome of the last check replaces the issues before it
VerifyForgetsIssues(r) ==
    /\ phase[r] = "verify"
    /\ issue' = [issue EXCEPT ![r] = ContentIssue(CurrentOp(r))]
    /\ phase' = [phase EXCEPT ![r] = IF opIndex[r] = Len(Ops(r)) THEN "guard" ELSE @]
    /\ opIndex' = [opIndex EXCEPT ![r] = IF @ = Len(Ops(r)) THEN 1 ELSE @ + 1]
    /\ UNCHANGED <<wsVars, clock, backupStore, request, stamp, saved, results,
                   rbVars, env, history>>

\* The check of the operation at hand is done: the next one, or the guard
NextCheck(r) ==
    IF opIndex[r] = Len(Ops(r))
    THEN /\ phase' = [phase EXCEPT ![r] = "guard"]
         /\ opIndex' = [opIndex EXCEPT ![r] = 1]
    ELSE /\ opIndex' = [opIndex EXCEPT ![r] = @ + 1]
         /\ UNCHANGED phase

VerifyContent(r) ==
    /\ phase[r] = "verify"
    /\ issue' = [issue EXCEPT ![r] = @ \/ ContentIssue(CurrentOp(r))]
    /\ NextCheck(r)
    /\ UNCHANGED <<wsVars, clock, backupStore, request, stamp, saved, results,
                   rbVars, env, history>>

\* A file that cannot be read is an issue like one that has changed
ContentUnreadable(r) ==
    /\ phase[r] = "verify"
    /\ CurrentOp(r).expected # NoContent
    /\ env < MaxEnv
    /\ env' = env + 1
    /\ issue' = [issue EXCEPT ![r] = TRUE]
    /\ NextCheck(r)
    /\ UNCHANGED <<wsVars, clock, backupStore, request, stamp, saved, results,
                   rbVars, history>>

GuardOutcome(r, repository) ==
    IF issue[r] \/ GitIssue(request[r], repository) THEN "report_blocked"
    ELSE IF request[r].dryRun THEN "report_dry_run"
    ELSE "open"

\* GitRepositoryDetector calls the repository missing when there is none and
\* when git fails or times out
Guard(r) ==
    /\ phase[r] = "guard"
    /\ \E repository \in BOOLEAN :
          phase' = [phase EXCEPT ![r] = GuardOutcome(r, repository)]
    /\ UNCHANGED <<wsVars, clock, backupStore, request, opIndex, issue, stamp, saved,
                   results, rbVars, env, history>>

\* Mutants: a late refusal is reported like an early one; it is retried
GateReportsBlocked(r) ==
    /\ phase[r] = "open"
    /\ CurrentOp(r).target \in linked
    /\ phase' = [phase EXCEPT ![r] = "report_blocked"]
    /\ UNCHANGED <<wsVars, clock, backupStore, request, opIndex, issue, stamp, saved,
                   results, rbVars, env, history>>

GateRetries(r) ==
    /\ phase[r] = "open"
    /\ CurrentOp(r).target \in linked
    /\ UNCHANGED vars

\* The final path gate of applyOperation throws: run() reports "failed" and
\* leaves the operations before this one in place
GateRefuses(r) ==
    /\ phase[r] = "open"
    /\ CurrentOp(r).target \in linked
    /\ phase' = [phase EXCEPT ![r] = "report_failed"]
    /\ UNCHANGED <<wsVars, clock, backupStore, request, opIndex, issue, stamp, saved,
                   results, rbVars, env, history>>

\* PatchBackupWriter.backup: the content read is copied to the slot of the
\* file.  Its catch-all takes every failure for a missing file: a failed read
\* leaves the slot as it was, a failed write of the copy may leave a part of it.
BackupOutcomes(f, slot) ==
    (IF fs[f] = Absent THEN {[how |-> "missing", copy |-> slot]}
                       ELSE {[how |-> "file", copy |-> fs[f]]})
        \cup (IF f \in FaultyBackups
              THEN {[how |-> "missing", copy |-> slot], [how |-> "missing", copy |-> Torn]}
              ELSE {})

NoBackup(slot) == {[how |-> "none", copy |-> slot]}

\* Mutant: the backup goes to the folder of the current millisecond
BackupUnderOwnClock(r) ==
    LET f    == CurrentOp(r).target
        slot == backupStore[clock][f]
    IN
    /\ phase[r] = "open"
    /\ f \notin linked
    /\ \E b \in IF request[r].backupEnabled THEN BackupOutcomes(f, slot) ELSE NoBackup(slot) :
        /\ saved' = [saved EXCEPT ![r] = b.how]
        /\ backupStore' = [backupStore EXCEPT ![clock][f] = b.copy]
    /\ phase' = [phase EXCEPT ![r] = "write"]
    /\ raced' = raced \ {<<r, f>>}
    /\ UNCHANGED <<wsVars, clock, request, opIndex, issue, stamp, results, rbVars, env,
                   writer, origin>>

\* The gate passes and the file is backed up, if backups are enabled
OpenOperation(r) ==
    LET f    == CurrentOp(r).target
        slot == backupStore[stamp[r]][f]
    IN
    /\ phase[r] = "open"
    /\ f \notin linked
    /\ \E b \in IF request[r].backupEnabled THEN BackupOutcomes(f, slot) ELSE NoBackup(slot) :
        /\ saved' = [saved EXCEPT ![r] = b.how]
        /\ backupStore' = [backupStore EXCEPT ![stamp[r]][f] = b.copy]
    /\ phase' = [phase EXCEPT ![r] = "write"]
    /\ raced' = raced \ {<<r, f>>}
    /\ UNCHANGED <<wsVars, clock, request, opIndex, issue, stamp, results, rbVars, env,
                   writer, origin>>

-----------------------------------------------------------------------------
(* Writing a file: rm, and the two halves of a writeFile.                   *)

\* Runs other than the actor whose backup of f is taken and whose write is not
\* begun, and writers other than the actor that hold f truncated
RacedBy(f, actor) ==
    {<<q, f>> : q \in {q \in Runs \ {actor} :
                          phase[q] = "write" /\ CurrentOp(q).target = f}}

OverlaidBy(f, actor) ==
    {<<q, f>> : q \in {q \in Runs \ {actor} :
                          phase[q] = "fill" /\ CurrentOp(q).target = f}}
        \cup {<<b, f>> : b \in {b \in Rollbacks \ {actor} :
                          rbPhase[b] = "fill" /\ RollbackTarget(b) = f}}

\* An actor opens or removes f, which now holds this
Replaces(actor, f, content) ==
    /\ fs' = [fs EXCEPT ![f] = content]
    /\ overlaid' = (overlaid \ {<<actor, f>>}) \cup OverlaidBy(f, actor)
    /\ writer' = [writer EXCEPT ![f] = actor]
    /\ raced' = raced \cup RacedBy(f, actor)

\* What is in f once its writer has written the content to the file it opened:
\* the content, unless another has removed or replaced that file meanwhile, or
\* written to it something longer
Filled(actor, f, content) ==
    IF <<actor, f>> \notin overlaid THEN {content}
    ELSE IF fs[f] = Absent THEN {Absent}
    ELSE {content, Torn, fs[f]}

Fills(actor, f, content) ==
    /\ \E c \in Filled(actor, f, content) : fs' = [fs EXCEPT ![f] = c]
    /\ overlaid' = overlaid \cup OverlaidBy(f, actor)
    /\ writer' = [writer EXCEPT ![f] = actor]
    /\ raced' = raced \cup RacedBy(f, actor)

-----------------------------------------------------------------------------
(* The end of applyOperation, and of run().                                 *)

\* A run that overwrites a file for the first time overwrites this
Overwrites(r, f) ==
    origin' = IF origin[r][f] = NoContent THEN [origin EXCEPT ![r][f] = fs[f]]
                                          ELSE origin

\* The operation is done: the next one, or the report
Done(r) ==
    /\ results' = [results EXCEPT ![r] =
                      Append(@, [target |-> CurrentOp(r).target, backup |-> saved[r]])]
    /\ phase' = [phase EXCEPT ![r] = IF opIndex[r] = Len(Ops(r)) THEN "report_applied"
                                                                  ELSE "open"]
    /\ opIndex' = [opIndex EXCEPT ![r] = IF @ = Len(Ops(r)) THEN @ ELSE @ + 1]

RemoveTarget(r) ==
    LET f == CurrentOp(r).target IN
    /\ phase[r] = "write"
    /\ CurrentOp(r).kind = "delete_file"
    /\ Replaces(r, f, Absent)
    /\ Overwrites(r, f)
    /\ Done(r)
    /\ UNCHANGED <<head, linked, clock, backupStore, request, issue, stamp, saved,
                   rbVars, env>>

\* writeFile opens the file, which empties or creates it ...
TruncateTarget(r) ==
    LET f == CurrentOp(r).target IN
    /\ phase[r] = "write"
    /\ CurrentOp(r).kind # "delete_file"
    /\ Replaces(r, f, Torn)
    /\ Overwrites(r, f)
    /\ phase' = [phase EXCEPT ![r] = "fill"]
    /\ UNCHANGED <<head, linked, clock, backupStore, request, opIndex, issue, stamp,
                   saved, results, rbVars, env>>

\* ... and then writes the new content
FillTarget(r) ==
    /\ phase[r] = "fill"
    /\ Fills(r, CurrentOp(r).target, CurrentOp(r).newContent)
    /\ Done(r)
    /\ UNCHANGED <<head, linked, clock, backupStore, request, issue, stamp, saved,
                   rbVars, env, origin>>

\* The report of a result is written, and run() returns its status
Verdict(p) ==
    CASE p = "report_applied" -> "applied"
      [] p = "report_blocked" -> "blocked"
      [] p = "report_failed"  -> "failed"
      [] p = "report_dry_run" -> "dry_run"

Report(r) ==
    /\ phase[r] \in Reporting
    /\ phase' = [phase EXCEPT ![r] = Verdict(phase[r])]
    /\ UNCHANGED <<wsVars, clock, backupStore, request, opIndex, issue, stamp, saved,
                   results, rbVars, env, history>>

\* Any exception inside the try of run(), the reporter's included, makes the
\* result a failed one with the operation results so far; a write that fails
\* half way leaves its file torn
IOFails(r) ==
    /\ phase[r] \in {"open", "write", "fill", "report_applied"}
    /\ env < MaxEnv
    /\ env' = env + 1
    /\ phase' = [phase EXCEPT ![r] = "report_failed"]
    /\ UNCHANGED <<wsVars, clock, backupStore, request, opIndex, issue, stamp, saved,
                   results, rbVars, history>>

\* Outside the try an exception is the caller's: the path checks of the plan,
\* git after the repository was found, the report of any other result
Throws(r) ==
    /\ \/ phase[r] = "verify" /\ opIndex[r] = 1
       \/ phase[r] \in {"guard", "report_blocked", "report_dry_run", "report_failed"}
    /\ env < MaxEnv
    /\ env' = env + 1
    /\ phase' = [phase EXCEPT ![r] = "threw"]
    /\ UNCHANGED <<wsVars, clock, backupStore, request, opIndex, issue, stamp, saved,
                   results, rbVars, history>>

-----------------------------------------------------------------------------
(* RuntimePatchRollback.rollback, handed the result a run returned.         *)

\* validateInput
RollbackIssue(b) ==
    LET done == results[RunOf(b)] IN
    \/ phase[RunOf(b)] # "applied"
    \/ ~rbInput[b].dryRun /\ ~rbInput[b].confirmed
    \/ done = <<>>
    \/ \E i \in DOMAIN done : done[i].backup = "none"

RollbackStart(b) ==
    /\ rbPhase[b] = "idle"
    /\ phase[RunOf(b)] \in Terminal
    /\ rbPhase' = [rbPhase EXCEPT ![b] = IF RollbackIssue(b) THEN "blocked"
                                         ELSE IF rbInput[b].dryRun THEN "dry_run"
                                         ELSE "running"]
    /\ UNCHANGED <<wsVars, clock, backupStore, runVars, rbInput, rbIndex, rbFailed,
                   rbContent, env, history>>

\* The path gate refuses one operation: it is marked failed and the loop goes on
RollbackSkips(b) ==
    /\ rbPhase[b] = "running"
    /\ rbIndex[b] <= Len(results[RunOf(b)])
    /\ RollbackTarget(b) \in linked
    /\ rbFailed' = [rbFailed EXCEPT ![b] = TRUE]
    /\ rbIndex' = [rbIndex EXCEPT ![b] = @ + 1]
    /\ UNCHANGED <<wsVars, clock, backupStore, runVars, rbInput, rbPhase, rbContent,
                   env, history>>

\* rm for a file the backup calls missing; like the write below, it does not
\* look at what the file holds now
RollbackRemoves(b) ==
    /\ rbPhase[b] = "running"
    /\ rbIndex[b] <= Len(results[RunOf(b)])
    /\ RollbackTarget(b) \notin linked
    /\ results[RunOf(b)][rbIndex[b]].backup = "missing"
    /\ Replaces(b, RollbackTarget(b), Absent)
    /\ rbIndex' = [rbIndex EXCEPT ![b] = @ + 1]
    /\ UNCHANGED <<head, linked, clock, backupStore, runVars, rbInput, rbPhase, rbFailed,
                   rbContent, env, origin>>

\* Mutant: rollback restores what git has committed
RollbackChecksOut(b) ==
    /\ rbPhase[b] = "running"
    /\ rbIndex[b] <= Len(results[RunOf(b)])
    /\ RollbackTarget(b) \notin linked
    /\ results[RunOf(b)][rbIndex[b]].backup = "file"
    /\ rbContent' = [rbContent EXCEPT ![b] = head[RollbackTarget(b)]]
    /\ Replaces(b, RollbackTarget(b), Torn)
    /\ rbPhase' = [rbPhase EXCEPT ![b] = "fill"]
    /\ UNCHANGED <<head, linked, clock, backupStore, runVars, rbInput, rbIndex, rbFailed,
                   env, origin>>

\* Any other file is written anew with what its backup holds
RollbackTruncates(b) ==
    /\ rbPhase[b] = "running"
    /\ rbIndex[b] <= Len(results[RunOf(b)])
    /\ RollbackTarget(b) \notin linked
    /\ results[RunOf(b)][rbIndex[b]].backup = "file"
    /\ rbContent' = [rbContent EXCEPT ![b] = backupStore[stamp[RunOf(b)]][RollbackTarget(b)]]
    /\ Replaces(b, RollbackTarget(b), Torn)
    /\ rbPhase' = [rbPhase EXCEPT ![b] = "fill"]
    /\ UNCHANGED <<head, linked, clock, backupStore, runVars, rbInput, rbIndex, rbFailed,
                   env, origin>>

RollbackFills(b) ==
    /\ rbPhase[b] = "fill"
    /\ Fills(b, RollbackTarget(b), rbContent[b])
    /\ rbContent' = [rbContent EXCEPT ![b] = NoContent]
    /\ rbPhase' = [rbPhase EXCEPT ![b] = "running"]
    /\ rbIndex' = [rbIndex EXCEPT ![b] = @ + 1]
    /\ UNCHANGED <<head, linked, clock, backupStore, runVars, rbInput, rbFailed, env,
                   origin>>

RollbackEnds(b) ==
    /\ rbPhase[b] = "running"
    /\ rbIndex[b] > Len(results[RunOf(b)])
    /\ rbPhase' = [rbPhase EXCEPT ![b] = IF rbFailed[b] THEN "failed" ELSE "rolled_back"]
    /\ UNCHANGED <<wsVars, clock, backupStore, runVars, rbInput, rbIndex, rbFailed,
                   rbContent, env, history>>

RollbackIOFails(b) ==
    /\ \/ rbPhase[b] = "running" /\ rbIndex[b] <= Len(results[RunOf(b)])
       \/ rbPhase[b] = "fill"
    /\ env < MaxEnv
    /\ env' = env + 1
    /\ rbPhase' = [rbPhase EXCEPT ![b] = "failed"]
    /\ UNCHANGED <<wsVars, clock, backupStore, runVars, rbInput, rbIndex, rbFailed,
                   rbContent, history>>

-----------------------------------------------------------------------------
(* Everything else that touches the workspace.                              *)

UserEdits(f, c) ==
    /\ env < MaxEnv
    /\ env' = env + 1
    /\ fs[f] # c
    /\ Replaces(User, f, c)
    /\ UNCHANGED <<head, linked, clock, backupStore, runVars, rbVars, origin>>

UserCommits ==
    /\ env < MaxEnv
    /\ env' = env + 1
    /\ fs # head
    /\ head' = fs
    /\ UNCHANGED <<fs, linked, overlaid, clock, backupStore, runVars, rbVars, history>>

PathBecomesLink(f) ==
    /\ env < MaxEnv
    /\ env' = env + 1
    /\ f \notin linked
    /\ linked' = linked \cup {f}
    /\ UNCHANGED <<fs, head, overlaid, clock, backupStore, runVars, rbVars, history>>

\* The process dies: nothing it was doing goes on, the files stay
Crash ==
    /\ env < MaxEnv
    /\ env' = env + 1
    /\ \/ \E r \in Runs : phase[r] \in InFlight
       \/ \E b \in Rollbacks : rbPhase[b] \in {"running", "fill"}
    /\ phase' = [r \in Runs |-> IF phase[r] \in InFlight THEN "crashed" ELSE phase[r]]
    /\ rbPhase' = [b \in Rollbacks |->
                      IF rbPhase[b] \in {"running", "fill"} THEN "crashed"
                                                            ELSE rbPhase[b]]
    /\ UNCHANGED <<wsVars, clock, backupStore, request, opIndex, issue, stamp, saved,
                   results, rbInput, rbIndex, rbFailed, rbContent, history>>

Tick ==
    /\ clock < MaxStamp
    /\ clock' = clock + 1
    /\ UNCHANGED <<wsVars, backupStore, runVars, rbVars, env, history>>

RunStep(r) ==
    \/ Start(r)
    \/ VerifyContent(r)
    \/ Guard(r)
    \/ GateRefuses(r)
    \/ OpenOperation(r)
    \/ RemoveTarget(r)
    \/ TruncateTarget(r)
    \/ FillTarget(r)
    \/ Report(r)

\* An awaited call rejects
RunFault(r) ==
    \/ ContentUnreadable(r)
    \/ IOFails(r)
    \/ Throws(r)

RollbackStep(b) ==
    \/ RollbackStart(b)
    \/ RollbackSkips(b)
    \/ RollbackRemoves(b)
    \/ RollbackTruncates(b)
    \/ RollbackFills(b)
    \/ RollbackEnds(b)

Environment ==
    \/ \E f \in Files, c \in FileState : UserEdits(f, c)
    \/ UserCommits
    \/ \E f \in Files : PathBecomesLink(f)
    \/ Crash
    \/ Tick

Next ==
    \/ \E r \in Runs : RunStep(r) \/ RunFault(r)
    \/ \E b \in Rollbacks : RollbackStep(b) \/ RollbackIOFails(b)
    \/ Environment

Spec == Init /\ [][Next]_vars

\* An await that settled is resumed: Node runs every pending continuation
Fairness ==
    /\ \A r \in Runs : WF_vars(RunStep(r))
    /\ \A b \in Rollbacks : WF_vars(RollbackStep(b))

FairSpec == Spec /\ Fairness

-----------------------------------------------------------------------------
(* Properties.                                                              *)

\* Every variable keeps its type; results are what applyOperation returns.
TypeOK ==
    /\ fs \in [Files -> DiskState]
    /\ head \in [Files -> DiskState]
    /\ linked \subseteq Files
    /\ clock \in Stamps
    /\ backupStore \in [Stamps -> [Files -> Contents \cup {Torn, NoContent}]]
    /\ request \in [Runs -> Requests]
    /\ phase \in [Runs -> RunPhase]
    /\ opIndex \in [Runs -> Nat \ {0}]
    /\ issue \in [Runs -> BOOLEAN]
    /\ stamp \in [Runs -> Stamps]
    /\ saved \in [Runs -> {"none", "missing", "file"}]
    /\ results \in [Runs -> Seq([target : Files, backup : {"none", "missing", "file"}])]
    /\ rbInput \in [Rollbacks -> RollbackInput]
    /\ rbPhase \in [Rollbacks -> RollbackPhase]
    /\ rbIndex \in [Rollbacks -> Nat \ {0}]
    /\ rbFailed \in [Rollbacks -> BOOLEAN]
    /\ rbContent \in [Rollbacks -> Contents \cup {Torn, NoContent}]
    /\ overlaid \subseteq (Runs \cup Rollbacks) \X Files
    /\ env \in 0 .. MaxEnv
    /\ writer \in [Files -> {User} \cup Runs \cup Rollbacks]
    /\ origin \in [Runs -> [Files -> DiskState \cup {NoContent}]]
    /\ raced \subseteq Runs \X Files

\* A file last written by a run was written on a request that passed every
\* gate of run(): confirmed, not a dry run, deletions confirmed, no protected
\* path -- whatever links, edits and crashes happened on the way.
WritesAreGated ==
    \A f \in Files : \A r \in Runs :
        writer[f] = r =>
            /\ ~request[r].dryRun
            /\ ~ApprovalIssue(request[r])
            /\ ~ValidatorIssue(request[r])
            /\ f \notin Protected

\* Two runs whose applyIds carry the same millisecond share a backup folder
SharesStamp(r) ==
    \E q \in Runs \ {r} : phase[q] # "idle" /\ stamp[q] = stamp[r]

DistinctTargets(q) ==
    \A i, j \in DOMAIN q.operations :
        q.operations[i].target = q.operations[j].target => i = j

\* The conditions under which the code's own bookkeeping identifies what a
\* run overwrote: a folder of its own, one operation per file, a file that a
\* backup can read and copy (PatchBackupWriter takes a failed read or a failed
\* copy for a missing file), and nobody writing it between the backup of it
\* and the write.
Sound(r, f) ==
    /\ ~SharesStamp(r) /\ DistinctTargets(request[r])
    /\ f \notin FaultyBackups /\ <<r, f>> \notin raced

\* Whatever became of a run -- applied, failed or killed, the write in hand cut
\* short included, of which no result tells -- every file it has overwritten is
\* in its backup folder, as it was: the partial writes of a failed or crashed
\* run, which rollback() refuses, can still be undone by hand.
OverwrittenIsBackedUp ==
    \A r \in Runs : \A f \in Files :
        request[r].backupEnabled /\ origin[r][f] \notin {NoContent, Absent} /\ Sound(r, f) =>
            backupStore[stamp[r]][f] = origin[r][f]

\* The file whose restoring is under way, or was cut short by a failure or a kill
CutShort(b, f) ==
    /\ rbPhase[b] \in {"fill", "failed", "crashed"}
    /\ rbIndex[b] <= Len(results[RunOf(b)])
    /\ RollbackTarget(b) = f

\* A rolled back file holds what it held before the run's write, whichever
\* other runs, rollbacks and edits ran before, between and after; none of them
\* may write the file in the middle of its restoring.
RollbackRestoresOriginal ==
    \A b \in Rollbacks : \A f \in Files :
        /\ writer[f] = b
        /\ <<b, f>> \notin overlaid
        /\ ~CutShort(b, f)
        /\ Sound(RunOf(b), f)
        => fs[f] = origin[RunOf(b)][f]

\* A run that changed the workspace without being reported "applied" is one
\* that failed, threw or crashed: blocked and dry runs leave no trace.
OnlyFailuresArePartial ==
    \A r \in Runs :
        phase[r] \in {"blocked", "dry_run"} =>
            results[r] = <<>> /\ \A f \in Files : writer[f] # r

\* Every call of run() ends, with a status or by throwing, unless the process
\* dies: whatever the other requests, the disk and git do.
EveryRunReturns ==
    \A r \in Runs :
        phase[r] \in {"verify", "guard"} ~> phase[r] \in Terminal \cup {"threw", "crashed"}

-----------------------------------------------------------------------------
(* The inductive invariant behind TypeOK, WritesAreGated and               *)
(* OnlyFailuresArePartial; PatchApplyProofs proves it.                     *)

\* What the gates establish about an input, apart from the file system
Gated(q) == ~q.dryRun /\ ~ApprovalIssue(q) /\ ~ValidatorIssue(q)

Writing  == {"open", "write", "fill", "report_applied", "applied"}
Harmless ==
    {"idle", "verify", "guard", "report_blocked", "report_dry_run", "blocked", "dry_run"}

\* An issue found before the loop is still there when the guard looks
GateInv ==
    \A r \in Runs :
        /\ phase[r] \in {"verify", "guard"} /\ ~Gated(request[r]) =>
              issue[r] \/ request[r].dryRun
        /\ phase[r] \in {"verify", "guard"} /\ ValidatorIssue(request[r]) => issue[r]
        /\ phase[r] \in Writing => Gated(request[r])

\* A run in one of its loops stands at one of its operations, and one that
\* fills a file at an operation with a content
LoopInv ==
    \A r \in Runs :
        /\ phase[r] \in {"idle", "guard"} => opIndex[r] = 1
        /\ phase[r] \in {"verify", "open", "write", "fill"} => opIndex[r] \in 1 .. Len(Ops(r))
        /\ phase[r] = "fill" => CurrentOp(r).kind # "delete_file"

\* A backup reported as a file is there
BackupInv ==
    \A r \in Runs :
        /\ phase[r] \in {"write", "fill"} /\ saved[r] = "file" =>
              backupStore[stamp[r]][CurrentOp(r).target] # NoContent
        /\ \A i \in DOMAIN results[r] :
              results[r][i].backup = "file" =>
                  backupStore[stamp[r]][results[r][i].target] # NoContent

\* Runs leave traces only once they write
TraceInv ==
    \A r \in Runs :
        phase[r] \in Harmless => results[r] = <<>> /\ \A f \in Files : writer[f] # r

\* A rollback in its loop works on an applied result with backups, and one that
\* fills a file has a content for it
RollbackInv ==
    \A b \in Rollbacks :
        /\ rbPhase[b] \in {"running", "fill"} =>
              /\ phase[RunOf(b)] = "applied"
              /\ \A i \in DOMAIN results[RunOf(b)] : results[RunOf(b)][i].backup # "none"
        /\ rbPhase[b] = "fill" =>
              /\ rbIndex[b] <= Len(results[RunOf(b)])
              /\ rbContent[b] # NoContent

IInv ==
    /\ TypeOK
    /\ GateInv
    /\ LoopInv
    /\ BackupInv
    /\ TraceInv
    /\ RollbackInv
    /\ WritesAreGated

-----------------------------------------------------------------------------
(* The inductive invariant behind OverwrittenIsBackedUp and                *)
(* RollbackRestoresOriginal, on top of IInv.                               *)

\* The results of a run are those of its first operations, in their order
ResultsInv(r) ==
    /\ \A i \in DOMAIN results[r] :
          i \in DOMAIN Ops(r) /\ results[r][i].target = Ops(r)[i].target
    /\ phase[r] \in {"open", "write", "fill"} => Len(results[r]) = opIndex[r] - 1

\* A run that is at an operation has overwritten the files it has results for,
\* and the one it fills
OriginInv(r, f) ==
    /\ phase[r] \in {"idle", "verify", "guard"} => origin[r][f] = NoContent
    /\ phase[r] \in {"open", "write", "fill"} /\ origin[r][f] # NoContent =>
          \/ \E i \in DOMAIN results[r] : results[r][i].target = f
          \/ phase[r] = "fill" /\ CurrentOp(r).target = f

\* How a file was backed up tells what it held
Tells(how, copy, content, enabled) ==
    CASE how = "file"    -> copy = content
      [] how = "missing" -> content = Absent
      [] OTHER           -> ~enabled

\* The backup of a file tells what it holds until it is written, and what it
\* held from then on
CopyInv(r, f) ==
    LET copy    == backupStore[stamp[r]][f]
        enabled == request[r].backupEnabled
    IN
    Sound(r, f) =>
        /\ phase[r] = "write" /\ CurrentOp(r).target = f =>
              Tells(saved[r], copy, fs[f], enabled)
        /\ phase[r] = "fill" /\ CurrentOp(r).target = f =>
              Tells(saved[r], copy, origin[r][f], enabled)
        /\ \A i \in DOMAIN results[r] :
              results[r][i].target = f =>
                  Tells(results[r][i].backup, copy, origin[r][f], enabled)
        /\ enabled /\ origin[r][f] \notin {NoContent, Absent} => copy = origin[r][f]

\* A rollback b of run r writes back what the run overwrote; only the result of
\* an applied run is ever rolled back
RestoreInv(b, r, f) ==
    /\ writer[f] = b => phase[r] = "applied"
    /\ Sound(r, f) =>
          /\ rbPhase[b] = "fill" /\ RollbackTarget(b) = f => rbContent[b] = origin[r][f]
          /\ writer[f] = b /\ <<b, f>> \notin overlaid /\ ~CutShort(b, f) =>
                fs[f] = origin[r][f]

RunKeeps(r) ==
    /\ ResultsInv(r)
    /\ \A f \in Files : OriginInv(r, f) /\ CopyInv(r, f)

RollbackKeeps(b) ==
    \A r \in Runs, f \in Files : RunOf(b) = r => RestoreInv(b, r, f)

BackupsKeepOriginals ==
    /\ \A r \in Runs : RunKeeps(r)
    /\ \A b \in Rollbacks : RollbackKeeps(b)
=============================================================================
