------------------------- MODULE PatchApplyProofs -------------------------
(***************************************************************************)
(* For every set of files, contents, runs, rollbacks and requests: the     *)
(* types, that a run writes only on a request that passed every gate, that *)
(* blocked and dry runs leave no trace, that what a run overwrites is in   *)
(* its backup and that a rollback puts it back.  All follow from the       *)
(* inductive invariant IInv of PatchApply; what the backups hold is an     *)
(* invariant of its own on top of it.                                      *)
(***************************************************************************)
EXTENDS PatchApply, TLAPS

\* The operations of a run are a sequence of typed operations.
LEMMA OpsTyped ==
    ASSUME TypeOK, NEW r \in Runs
    PROVE  /\ request[r] \in Input
           /\ Ops(r) \in Seq(Operation)
           /\ opIndex[r] \in 1 .. Len(Ops(r)) => CurrentOp(r) \in Operation
<1>1. request[r] \in Input
  BY RequestsTyped DEF TypeOK
<1>2. Ops(r) \in Seq(Operation)
  BY <1>1 DEF Input, Ops
<1> QED
  BY <1>1, <1>2 DEF CurrentOp

\* The initial states satisfy the inductive invariant.
LEMMA InitIInv == Init => IInv
<1> SUFFICES ASSUME Init PROVE IInv
  OBVIOUS
<1> USE DEF Init
<1>1. TypeOK
  BY ConstantsDisjoint, BoundsTyped
  DEF TypeOK, Stamps, RunPhase, InFlight, RollbackPhase, FileState, DiskState
<1>2. GateInv /\ LoopInv
  BY DEF GateInv, LoopInv, Writing
<1>3. BackupInv /\ RollbackInv
  BY DEF BackupInv, RollbackInv
<1>4. TraceInv /\ WritesAreGated
  BY ConstantsDisjoint DEF TraceInv, WritesAreGated
<1> QED
  BY <1>1, <1>2, <1>3, <1>4 DEF IInv

\* Every operation result names a file and how it was backed up.
LEMMA ResultsTyped ==
    ASSUME TypeOK, NEW q \in Runs, NEW i \in DOMAIN results[q]
    PROVE  results[q][i] \in [target : Files, backup : {"none", "missing", "file"}]
<1> DEFINE Entry == [target : Files, backup : {"none", "missing", "file"}]
<1>1. results[q] \in Seq(Entry)
  BY DEF TypeOK
<1> HIDE DEF Entry
<1>2. results[q][i] \in Entry
  BY <1>1
<1> QED
  BY <1>2 DEF Entry

\* Start records every issue of the plan.
LEMMA StartStep ==
    ASSUME IInv, NEW r \in Runs, Start(r)
    PROVE  IInv'
<1> USE DEF Start, wsVars, rbVars, history
<1>1. TypeOK'
  <2>1. PlanIssue(request[r]) \in BOOLEAN
    BY DEF PlanIssue, ApprovalIssue, ValidatorIssue, PathIssue
  <2> QED
    BY <2>1 DEF IInv, TypeOK, RunPhase, InFlight, Reporting
<1>2. Ops(r) \in Seq(Operation)
  BY OpsTyped DEF IInv
<1>3. GateInv'
  BY DEF IInv, TypeOK, GateInv, Writing, PlanIssue, Gated, ApprovalIssue, ValidatorIssue
<1>4. LoopInv'
  BY <1>2 DEF IInv, TypeOK, LoopInv, CurrentOp, Ops
<1>5. BackupInv'
  <2>1. results[r] = <<>>
    BY DEF IInv, TraceInv, Harmless
  <2> QED
    BY <2>1 DEF IInv, TypeOK, BackupInv, CurrentOp, Ops
<1>6. TraceInv'
  BY DEF IInv, TypeOK, TraceInv, Harmless
<1>7. RollbackInv'
  BY DEF IInv, TypeOK, RollbackInv, RunOf, RollbackInput
<1>8. WritesAreGated'
  BY DEF IInv, WritesAreGated, ApprovalIssue, ValidatorIssue
<1> QED
  BY <1>1, <1>3, <1>4, <1>5, <1>6, <1>7, <1>8 DEF IInv

\* Verification only adds issues.
LEMMA CheckStep ==
    ASSUME IInv, NEW r \in Runs, NEW found \in BOOLEAN,
           phase[r] = "verify", NextCheck(r),
           issue' = [issue EXCEPT ![r] = @ \/ found],
           env' \in 0 .. MaxEnv,
           UNCHANGED <<wsVars, clock, backupStore, request, stamp, saved, results,
                       rbVars, history>>
    PROVE  IInv'
<1> USE DEF NextCheck, wsVars, rbVars, history
<1>1. Ops(r) \in Seq(Operation)
  BY OpsTyped DEF IInv
<1>2. TypeOK'
  <2>1. opIndex' \in [Runs -> Nat \ {0}]
    <3>1. CASE opIndex[r] = Len(Ops(r))
      <4>1. opIndex' = [opIndex EXCEPT ![r] = 1]
        BY <3>1
      <4>2. opIndex \in [Runs -> Nat \ {0}]
        BY DEF IInv, TypeOK
      <4> QED
        BY <4>1, <4>2
    <3>2. CASE opIndex[r] # Len(Ops(r))
      <4>1. opIndex' = [opIndex EXCEPT ![r] = opIndex[r] + 1]
        BY <3>2
      <4>2. opIndex \in [Runs -> Nat \ {0}] /\ opIndex[r] + 1 \in Nat \ {0}
        BY DEF IInv, TypeOK
      <4> QED
        BY <4>1, <4>2
    <3> QED
      BY <3>1, <3>2
  <2>2. phase' \in [Runs -> RunPhase]
    <3>1. phase' = phase \/ phase' = [phase EXCEPT ![r] = "guard"]
      OBVIOUS
    <3>2. phase \in [Runs -> RunPhase] /\ "guard" \in RunPhase
      BY DEF IInv, TypeOK, RunPhase, InFlight
    <3> HIDE DEF NextCheck
    <3> QED
      BY <3>1, <3>2
  <2>3. issue' \in [Runs -> BOOLEAN]
    BY DEF IInv, TypeOK
  <2> QED
    BY <2>1, <2>2, <2>3 DEF IInv, TypeOK
<1>3. GateInv'
  BY DEF IInv, TypeOK, GateInv, Writing, Gated, ApprovalIssue, ValidatorIssue
<1>4. LoopInv'
  <2>1. \A q \in Runs \ {r} : phase'[q] = phase[q] /\ opIndex'[q] = opIndex[q] /\ CurrentOp(q)' = CurrentOp(q)
    <3>1. phase \in [Runs -> RunPhase] /\ opIndex \in [Runs -> Nat \ {0}]
      BY DEF IInv, TypeOK
    <3> QED
      BY <3>1 DEF CurrentOp, Ops
  <2>2. phase'[r] \in {"verify", "guard"}
    BY DEF IInv, TypeOK
  <2>3. phase'[r] = "guard" => opIndex'[r] = 1
    BY DEF IInv, TypeOK
  <2>4. phase'[r] = "verify" => opIndex'[r] \in 1 .. Len(Ops(r))
    BY <1>1 DEF IInv, TypeOK, LoopInv
  <2> QED
    BY <2>1, <2>2, <2>3, <2>4 DEF IInv, LoopInv, Ops
<1>5. BackupInv'
  BY DEF IInv, TypeOK, BackupInv, CurrentOp, Ops
<1>6. TraceInv'
  BY DEF IInv, TypeOK, TraceInv, Harmless
<1>7. RollbackInv'
  BY DEF IInv, TypeOK, RollbackInv, RunOf, RollbackInput
<1>8. WritesAreGated'
  BY DEF IInv, WritesAreGated, ApprovalIssue, ValidatorIssue
<1> QED
  BY <1>2, <1>3, <1>4, <1>5, <1>6, <1>7, <1>8 DEF IInv

\* A check that fails and one that cannot read do the same.
LEMMA VerifyStep ==
    ASSUME IInv, NEW r \in Runs, VerifyContent(r) \/ ContentUnreadable(r)
    PROVE  IInv'
<1>1. CASE VerifyContent(r)
  <2>1. ContentIssue(CurrentOp(r)) \in BOOLEAN
    BY DEF ContentIssue
  <2>2. env' \in 0 .. MaxEnv
    BY <1>1 DEF VerifyContent, IInv, TypeOK
  <2> QED
    BY <1>1, <2>1, <2>2, CheckStep DEF VerifyContent
<1>2. CASE ContentUnreadable(r)
  <2>1. env' \in 0 .. MaxEnv
    BY <1>2, BoundsTyped DEF ContentUnreadable, IInv, TypeOK
  <2>2. issue' = [issue EXCEPT ![r] = issue[r] \/ TRUE]
    BY <1>2 DEF ContentUnreadable
  <2> QED
    BY <1>2, <2>1, <2>2, CheckStep DEF ContentUnreadable
<1> QED
  BY <1>1, <1>2

\* The guard opens the loop to gated requests only.
LEMMA GuardStep ==
    ASSUME IInv, NEW r \in Runs, Guard(r)
    PROVE  IInv'
<1> USE DEF Guard, GuardOutcome, wsVars, rbVars, history
<1>1. Ops(r) \in Seq(Operation)
  BY OpsTyped DEF IInv
<1>2. TypeOK'
  BY DEF IInv, TypeOK, RunPhase, InFlight, Reporting, Terminal
<1>3. GateInv'
  BY DEF IInv, TypeOK, GateInv, Writing, Gated, ApprovalIssue, ValidatorIssue
<1>4. LoopInv'
  <2>1. phase'[r] = "open" => Len(Ops(r)) >= 1
    <3> SUFFICES ASSUME phase'[r] = "open" PROVE Ops(r) # <<>>
      BY <1>1
    <3> QED
      BY DEF IInv, TypeOK, GateInv, Gated, ApprovalIssue, Ops
  <2> QED
    BY <1>1, <2>1 DEF IInv, TypeOK, LoopInv, CurrentOp, Ops
<1>5. BackupInv'
  BY DEF IInv, TypeOK, BackupInv, CurrentOp, Ops
<1>6. TraceInv'
  BY DEF IInv, TypeOK, TraceInv, Harmless
<1>7. RollbackInv'
  BY DEF IInv, TypeOK, RollbackInv, RunOf, RollbackInput
<1>8. WritesAreGated'
  BY DEF IInv, WritesAreGated, ApprovalIssue, ValidatorIssue
<1> QED
  BY <1>2, <1>3, <1>4, <1>5, <1>6, <1>7, <1>8 DEF IInv

\* A refused path ends the run.
LEMMA GateRefusesStep ==
    ASSUME IInv, NEW r \in Runs, GateRefuses(r)
    PROVE  IInv'
<1> USE DEF GateRefuses, wsVars, rbVars, history
<1>1. TypeOK'
  BY DEF IInv, TypeOK, RunPhase, InFlight, Reporting, Terminal
<1>2. GateInv'
  BY DEF IInv, TypeOK, GateInv, Writing, Gated, ApprovalIssue, ValidatorIssue
<1>3. LoopInv'
  BY DEF IInv, TypeOK, LoopInv, Reporting, CurrentOp, Ops
<1>4. BackupInv'
  BY DEF IInv, TypeOK, BackupInv, CurrentOp, Ops
<1>5. TraceInv'
  BY DEF IInv, TypeOK, TraceInv, Harmless
<1>6. RollbackInv'
  BY DEF IInv, TypeOK, RollbackInv, RunOf, RollbackInput
<1>7. WritesAreGated'
  BY DEF IInv, WritesAreGated, ApprovalIssue, ValidatorIssue
<1> QED
  BY <1>1, <1>2, <1>3, <1>4, <1>5, <1>6, <1>7 DEF IInv

\* A backup called a file is in the run's folder.
LEMMA OpenStep ==
    ASSUME IInv, NEW r \in Runs, OpenOperation(r)
    PROVE  IInv'
<1> USE DEF OpenOperation, wsVars, rbVars
<1> DEFINE g == CurrentOp(r).target
<1>1. CurrentOp(r) \in Operation
  BY OpsTyped DEF IInv, LoopInv
<1>2. g \in Files /\ stamp[r] \in Stamps
  BY <1>1 DEF Operation, IInv, TypeOK
<1>3. fs[g] \in DiskState /\ backupStore[stamp[r]][g] \in Contents \cup {Torn, NoContent}
  BY <1>2 DEF IInv, TypeOK
<1>4. PICK b \in IF request[r].backupEnabled
                 THEN BackupOutcomes(g, backupStore[stamp[r]][g])
                 ELSE NoBackup(backupStore[stamp[r]][g]) :
            /\ saved' = [saved EXCEPT ![r] = b.how]
            /\ backupStore' = [backupStore EXCEPT ![stamp[r]][g] = b.copy]
  OBVIOUS
<1> DEFINE how  == b.how
           copy == b.copy
<1>5. /\ how \in {"none", "missing", "file"}
      /\ copy \in Contents \cup {Torn, NoContent}
      /\ how = "file" \/ backupStore[stamp[r]][g] # NoContent => copy # NoContent
  <2>1. \/ b = [how |-> "none", copy |-> backupStore[stamp[r]][g]]
        \/ b = [how |-> "missing", copy |-> backupStore[stamp[r]][g]]
        \/ b = [how |-> "missing", copy |-> Torn]
        \/ fs[g] # Absent /\ b = [how |-> "file", copy |-> fs[g]]
    BY <1>4 DEF BackupOutcomes, NoBackup
  <2>2. \/ how = "none" /\ copy = backupStore[stamp[r]][g]
        \/ how = "missing" /\ copy = backupStore[stamp[r]][g]
        \/ how = "missing" /\ copy = Torn
        \/ fs[g] # Absent /\ how = "file" /\ copy = fs[g]
    BY <2>1
  <2>3. Torn # NoContent /\ (fs[g] # Absent => fs[g] \in Contents \cup {Torn} /\ fs[g] # NoContent)
    BY <1>3, ConstantsDisjoint DEF DiskState, FileState
  <2> HIDE DEF how, copy
  <2> QED
    BY <1>3, <2>2, <2>3
<1>6. /\ saved' = [saved EXCEPT ![r] = how]
      /\ backupStore' = [backupStore EXCEPT ![stamp[r]][g] = copy]
  BY <1>4
<1>7. /\ phase' = [phase EXCEPT ![r] = "write"]
      /\ phase[r] = "open"
      /\ UNCHANGED <<fs, head, linked, overlaid, clock, request, opIndex, issue, stamp,
                     results, rbInput, rbPhase, rbIndex, rbFailed, rbContent, env,
                     writer, origin>>
      /\ raced' = raced \ {<<r, g>>}
  OBVIOUS
<1> HIDE DEF g, how, copy, OpenOperation, wsVars, rbVars
<1>8. TypeOK'
  <2>1. backupStore' \in [Stamps -> [Files -> Contents \cup {Torn, NoContent}]]
    BY <1>2, <1>5, <1>6 DEF IInv, TypeOK
  <2>2. saved' \in [Runs -> {"none", "missing", "file"}]
    BY <1>5, <1>6 DEF IInv, TypeOK
  <2>3. phase' \in [Runs -> RunPhase]
    BY <1>7 DEF IInv, TypeOK, RunPhase, InFlight
  <2> QED
    BY <1>7, <2>1, <2>2, <2>3 DEF IInv, TypeOK
<1>9. GateInv'
  BY <1>7 DEF IInv, TypeOK, GateInv, Writing, Gated, ApprovalIssue, ValidatorIssue
<1>10. LoopInv'
  BY <1>7 DEF IInv, TypeOK, LoopInv, Reporting, CurrentOp, Ops
<1>11. BackupInv'
  <2>1. \A s \in Stamps, f \in Files :
            backupStore[s][f] # NoContent => backupStore'[s][f] # NoContent
    BY <1>2, <1>5, <1>6 DEF IInv, TypeOK
  <2>2. saved'[r] = "file" => backupStore'[stamp[r]][CurrentOp(r).target] # NoContent
    BY <1>2, <1>5, <1>6 DEF IInv, TypeOK, g
  <2>3. \A q \in Runs : \A i \in DOMAIN results[q] : results[q][i].target \in Files
    BY ResultsTyped DEF IInv
  <2>4. \A q \in Runs : phase[q] \in {"write", "fill"} => CurrentOp(q).target \in Files
    BY OpsTyped DEF IInv, LoopInv, Operation
  <2> QED
    <3> SUFFICES ASSUME NEW q \in Runs
                 PROVE  /\ phase'[q] \in {"write", "fill"} /\ saved'[q] = "file" =>
                              backupStore'[stamp[q]][CurrentOp(q).target] # NoContent
                        /\ \A i \in DOMAIN results[q] :
                              results[q][i].backup = "file" =>
                                  backupStore'[stamp[q]][results[q][i].target] # NoContent
      BY <1>7 DEF BackupInv, CurrentOp, Ops
    <3>1. stamp[q] \in Stamps
      BY DEF IInv, TypeOK
    <3>2. CASE q = r
      BY <2>1, <2>2, <2>3, <3>1, <3>2 DEF IInv, BackupInv
    <3>3. CASE q # r
      BY <1>6, <1>7, <2>1, <2>3, <2>4, <3>1, <3>3 DEF IInv, TypeOK, BackupInv
    <3> QED
      BY <3>2, <3>3
<1>12. TraceInv'
  BY <1>7 DEF IInv, TypeOK, TraceInv, Harmless
<1>13. RollbackInv'
  BY <1>7 DEF IInv, TypeOK, RollbackInv, RunOf, RollbackInput
<1>14. WritesAreGated'
  BY <1>7 DEF IInv, WritesAreGated, ApprovalIssue, ValidatorIssue
<1> QED
  BY <1>8, <1>9, <1>10, <1>11, <1>12, <1>13, <1>14 DEF IInv

\* Opening or removing a file keeps the types.
LEMMA ReplacesTyped ==
    ASSUME TypeOK, NEW actor \in {User} \cup Runs \cup Rollbacks, NEW f \in Files,
           NEW c \in DiskState, Replaces(actor, f, c)
    PROVE  /\ fs' \in [Files -> DiskState]
           /\ overlaid' \subseteq (Runs \cup Rollbacks) \X Files
           /\ writer' \in [Files -> {User} \cup Runs \cup Rollbacks]
           /\ writer' = [writer EXCEPT ![f] = actor]
           /\ raced' \subseteq Runs \X Files
<1>1. OverlaidBy(f, actor) \subseteq (Runs \cup Rollbacks) \X Files
  BY DEF OverlaidBy
<1>2. RacedBy(f, actor) \subseteq Runs \X Files
  BY DEF RacedBy
<1> QED
  BY <1>1, <1>2 DEF Replaces, TypeOK

\* So does filling one.
LEMMA FillsTyped ==
    ASSUME TypeOK, NEW actor \in Runs \cup Rollbacks, NEW f \in Files,
           NEW c \in DiskState, Fills(actor, f, c)
    PROVE  /\ fs' \in [Files -> DiskState]
           /\ overlaid' \subseteq (Runs \cup Rollbacks) \X Files
           /\ writer' \in [Files -> {User} \cup Runs \cup Rollbacks]
           /\ writer' = [writer EXCEPT ![f] = actor]
           /\ raced' \subseteq Runs \X Files
<1>1. OverlaidBy(f, actor) \subseteq (Runs \cup Rollbacks) \X Files
  BY DEF OverlaidBy
<1>2. RacedBy(f, actor) \subseteq Runs \X Files
  BY DEF RacedBy
<1>3. Filled(actor, f, c) \subseteq DiskState
  BY DEF Filled, TypeOK, DiskState, FileState
<1>4. fs' \in [Files -> DiskState]
  BY <1>3 DEF Fills, TypeOK
<1> QED
  BY <1>1, <1>2, <1>4 DEF Fills, TypeOK

\* A run that writes has a gated request and an unprotected target.
LEMMA WriterGated ==
    ASSUME IInv, NEW r \in Runs, phase[r] \in {"write", "fill"}
    PROVE  /\ CurrentOp(r).target \in Files
           /\ CurrentOp(r).target \notin Protected
           /\ CurrentOp(r).kind # "delete_file" => CurrentOp(r).newContent \in Contents
           /\ Gated(request[r])
<1>1. CurrentOp(r) \in Operation
  BY OpsTyped DEF IInv, LoopInv
<1>2. Gated(request[r])
  BY DEF IInv, GateInv, Writing
<1>3. opIndex[r] \in DOMAIN request[r].operations
  BY OpsTyped DEF IInv, LoopInv, Ops
<1> QED
  BY <1>1, <1>2, <1>3 DEF Gated, ValidatorIssue, CurrentOp, Ops, Operation

\* Whoever among the runs writes an unprotected file on a gated request.
LEMMA WriteIsGated ==
    ASSUME IInv, NEW r \in Runs, NEW g \in Files, g \notin Protected, Gated(request[r]),
           writer' = [writer EXCEPT ![g] = r], request' = request
    PROVE  WritesAreGated'
<1> SUFFICES ASSUME NEW f \in Files, NEW q \in Runs, writer'[f] = q
             PROVE  Gated(request[q]) /\ f \notin Protected
  BY DEF WritesAreGated, Gated, ApprovalIssue, ValidatorIssue
<1>1. CASE f = g
  BY <1>1 DEF IInv, TypeOK
<1>2. CASE f # g
  BY <1>2 DEF IInv, TypeOK, WritesAreGated, Gated
<1> QED
  BY <1>1, <1>2

\* An operation that is done is recorded with the backup taken for it.
LEMMA DoneStep ==
    ASSUME IInv, NEW r \in Runs, phase[r] \in {"write", "fill"}, Done(r),
           fs' \in [Files -> DiskState],
           overlaid' \subseteq (Runs \cup Rollbacks) \X Files,
           writer' \in [Files -> {User} \cup Runs \cup Rollbacks],
           writer' = [writer EXCEPT ![CurrentOp(r).target] = r],
           raced' \subseteq Runs \X Files,
           origin' \in [Runs -> [Files -> DiskState \cup {NoContent}]],
           UNCHANGED <<head, linked, clock, backupStore, request, issue, stamp, saved,
                       rbVars, env>>
    PROVE  IInv'
<1> USE DEF Done, rbVars
<1>1. CurrentOp(r).target \in Files
  BY WriterGated
<1>2. [target |-> CurrentOp(r).target, backup |-> saved[r]] \in
        [target : Files, backup : {"none", "missing", "file"}]
  BY <1>1 DEF IInv, TypeOK
<1>3. TypeOK'
  <2>1. results' \in [Runs -> Seq([target : Files, backup : {"none", "missing", "file"}])]
    BY <1>2 DEF IInv, TypeOK
  <2>2. opIndex' \in [Runs -> Nat \ {0}]
    BY DEF IInv, TypeOK
  <2>3. phase' \in [Runs -> RunPhase]
    BY DEF IInv, TypeOK, RunPhase, InFlight, Reporting
  <2> QED
    BY <2>1, <2>2, <2>3 DEF IInv, TypeOK
<1>4. GateInv'
  BY DEF IInv, TypeOK, GateInv, Writing, Gated, ApprovalIssue, ValidatorIssue
<1>5. LoopInv'
  <2>1. Ops(r) \in Seq(Operation)
    BY OpsTyped DEF IInv
  <2> QED
    BY <2>1 DEF IInv, TypeOK, LoopInv, CurrentOp, Ops
<1>6. BackupInv'
  <2> SUFFICES ASSUME NEW q \in Runs
               PROVE  /\ phase'[q] \in {"write", "fill"} /\ saved'[q] = "file" =>
                            backupStore'[stamp'[q]][CurrentOp(q)'.target] # NoContent
                      /\ \A i \in DOMAIN results'[q] :
                            results'[q][i].backup = "file" =>
                                backupStore'[stamp'[q]][results'[q][i].target] # NoContent
    BY DEF BackupInv
  <2>1. CASE q # r
    BY <2>1 DEF IInv, TypeOK, BackupInv, CurrentOp, Ops
  <2>2. CASE q = r
    <3>1. phase'[r] \notin {"write", "fill"}
      BY DEF IInv, TypeOK
    <3>2. results'[r] = Append(results[r], [target |-> CurrentOp(r).target, backup |-> saved[r]])
      BY DEF IInv, TypeOK
    <3>3. saved[r] = "file" => backupStore[stamp[r]][CurrentOp(r).target] # NoContent
      BY DEF IInv, BackupInv
    <3>4. \A i \in DOMAIN results[r] :
              results[r][i].backup = "file" =>
                  backupStore[stamp[r]][results[r][i].target] # NoContent
      BY DEF IInv, BackupInv
    <3>5. results[r] \in Seq([target : Files, backup : {"none", "missing", "file"}])
      BY DEF IInv, TypeOK
    <3> QED
      BY <2>2, <1>2, <3>1, <3>2, <3>3, <3>4, <3>5
  <2> QED
    BY <2>1, <2>2
<1>7. TraceInv'
  BY <1>1, ConstantsDisjoint DEF IInv, TypeOK, TraceInv, Harmless
<1>8. RollbackInv'
  BY DEF IInv, TypeOK, RollbackInv, RunOf, RollbackInput
<1>9. WritesAreGated'
  BY WriterGated, WriteIsGated
<1> QED
  BY <1>3, <1>4, <1>5, <1>6, <1>7, <1>8, <1>9 DEF IInv

\* What a run has overwritten keeps its type.
LEMMA OverwritesTyped ==
    ASSUME TypeOK, NEW r \in Runs, NEW f \in Files, Overwrites(r, f)
    PROVE  origin' \in [Runs -> [Files -> DiskState \cup {NoContent}]]
BY DEF Overwrites, TypeOK

\* A removal is done at once.
LEMMA RemoveStep ==
    ASSUME IInv, NEW r \in Runs, RemoveTarget(r)
    PROVE  IInv'
<1>1. CurrentOp(r).target \in Files /\ Absent \in DiskState /\ TypeOK
  BY WriterGated DEF RemoveTarget, DiskState, FileState, IInv
<1>2. Replaces(r, CurrentOp(r).target, Absent) /\ Overwrites(r, CurrentOp(r).target)
  BY DEF RemoveTarget
<1>3. phase[r] \in {"write", "fill"} /\ Done(r)
  BY DEF RemoveTarget
<1>4. UNCHANGED <<head, linked, clock, backupStore, request, issue, stamp, saved, rbVars, env>>
  BY DEF RemoveTarget
<1> QED
  BY <1>1, <1>2, <1>3, <1>4, ReplacesTyped, OverwritesTyped, DoneStep

\* Filling a file ends its operation.
LEMMA FillStep ==
    ASSUME IInv, NEW r \in Runs, FillTarget(r)
    PROVE  IInv'
<1>1. CurrentOp(r).target \in Files /\ CurrentOp(r).newContent \in DiskState /\ TypeOK
  BY WriterGated DEF FillTarget, DiskState, FileState, IInv, LoopInv
<1>2. Fills(r, CurrentOp(r).target, CurrentOp(r).newContent)
  BY DEF FillTarget
<1>3. phase[r] \in {"write", "fill"} /\ Done(r)
  BY DEF FillTarget
<1>4. UNCHANGED <<head, linked, clock, backupStore, request, issue, stamp, saved, rbVars, env>>
  BY DEF FillTarget
<1>5. origin' \in [Runs -> [Files -> DiskState \cup {NoContent}]]
  BY DEF FillTarget, IInv, TypeOK
<1> QED
  BY <1>1, <1>2, <1>3, <1>4, <1>5, FillsTyped, DoneStep

\* Opening a file for writing is gated, and the run stays at its operation.
LEMMA TruncateStep ==
    ASSUME IInv, NEW r \in Runs, TruncateTarget(r)
    PROVE  IInv'
<1> DEFINE g == CurrentOp(r).target
<1>1. g \in Files /\ g \notin Protected /\ Gated(request[r])
  BY WriterGated DEF TruncateTarget
<1>2. /\ phase[r] = "write" /\ phase' = [phase EXCEPT ![r] = "fill"]
      /\ CurrentOp(r).kind # "delete_file"
      /\ UNCHANGED <<head, linked, clock, backupStore, request, opIndex, issue, stamp,
                     saved, results, rbVars, env>>
  BY DEF TruncateTarget
<1>3. /\ fs' \in [Files -> DiskState]
      /\ overlaid' \subseteq (Runs \cup Rollbacks) \X Files
      /\ writer' \in [Files -> {User} \cup Runs \cup Rollbacks]
      /\ writer' = [writer EXCEPT ![g] = r]
      /\ raced' \subseteq Runs \X Files
  <2>1. Replaces(r, g, Torn) /\ Torn \in DiskState /\ TypeOK
    BY DEF TruncateTarget, DiskState, IInv
  <2> QED
    BY <1>1, <2>1, ReplacesTyped
<1>4. origin' \in [Runs -> [Files -> DiskState \cup {NoContent}]]
  BY <1>1, OverwritesTyped DEF TruncateTarget, IInv
<1> HIDE DEF g
<1> USE DEF rbVars
<1>5. TypeOK'
  <2>1. phase' \in [Runs -> RunPhase]
    BY <1>2 DEF IInv, TypeOK, RunPhase, InFlight
  <2> QED
    BY <1>2, <1>3, <1>4, <2>1 DEF IInv, TypeOK
<1>6. GateInv'
  BY <1>2 DEF IInv, TypeOK, GateInv, Writing, Gated, ApprovalIssue, ValidatorIssue
<1>7. LoopInv'
  BY <1>2 DEF IInv, TypeOK, LoopInv, CurrentOp, Ops
<1>8. BackupInv'
  BY <1>2 DEF IInv, TypeOK, BackupInv, CurrentOp, Ops
<1>9. TraceInv'
  BY <1>1, <1>2, <1>3, ConstantsDisjoint DEF IInv, TypeOK, TraceInv, Harmless
<1>10. RollbackInv'
  BY <1>2 DEF IInv, TypeOK, RollbackInv, RunOf, RollbackInput
<1>11. WritesAreGated'
  BY <1>1, <1>2, <1>3, WriteIsGated
<1> QED
  BY <1>5, <1>6, <1>7, <1>8, <1>9, <1>10, <1>11 DEF IInv

\* Reporting ends the run.
LEMMA ReportStep ==
    ASSUME IInv, NEW r \in Runs, Report(r)
    PROVE  IInv'
<1> USE DEF Report, Verdict, wsVars, rbVars, history
<1>1. TypeOK'
  BY DEF IInv, TypeOK, RunPhase, InFlight, Reporting, Terminal
<1>2. GateInv'
  BY DEF IInv, TypeOK, GateInv, Reporting, Writing, Gated, ApprovalIssue, ValidatorIssue
<1>3. LoopInv'
  BY DEF IInv, TypeOK, LoopInv, Reporting, CurrentOp, Ops
<1>4. BackupInv'
  BY DEF IInv, TypeOK, BackupInv, Reporting, CurrentOp, Ops
<1>5. TraceInv'
  BY DEF IInv, TypeOK, TraceInv, Reporting, Harmless
<1>6. RollbackInv'
  BY DEF IInv, TypeOK, RollbackInv, Reporting, RunOf, RollbackInput
<1>7. WritesAreGated'
  BY DEF IInv, WritesAreGated, ApprovalIssue, ValidatorIssue
<1> QED
  BY <1>1, <1>2, <1>3, <1>4, <1>5, <1>6, <1>7 DEF IInv

\* An exception ends the run and keeps its results.
LEMMA IOFailsStep ==
    ASSUME IInv, NEW r \in Runs, IOFails(r)
    PROVE  IInv'
<1> USE DEF IOFails, wsVars, rbVars, history
<1>1. TypeOK'
  <2>1. env' \in 0 .. MaxEnv
    BY BoundsTyped DEF IInv, TypeOK
  <2> QED
    BY <2>1 DEF IInv, TypeOK, RunPhase, InFlight, Reporting, Terminal
<1>2. GateInv'
  BY DEF IInv, TypeOK, GateInv, Writing, Gated, ApprovalIssue, ValidatorIssue
<1>3. LoopInv'
  BY DEF IInv, TypeOK, LoopInv, Reporting, CurrentOp, Ops
<1>4. BackupInv'
  BY DEF IInv, TypeOK, BackupInv, CurrentOp, Ops
<1>5. TraceInv'
  BY DEF IInv, TypeOK, TraceInv, Harmless
<1>6. RollbackInv'
  BY DEF IInv, TypeOK, RollbackInv, RunOf, RollbackInput
<1>7. WritesAreGated'
  BY DEF IInv, WritesAreGated, ApprovalIssue, ValidatorIssue
<1> QED
  BY <1>1, <1>2, <1>3, <1>4, <1>5, <1>6, <1>7 DEF IInv

\* An exception outside the try ends the call.
LEMMA ThrowsStep ==
    ASSUME IInv, NEW r \in Runs, Throws(r)
    PROVE  IInv'
<1> USE DEF Throws, wsVars, rbVars, history
<1>1. TypeOK'
  <2>1. env' \in 0 .. MaxEnv
    BY BoundsTyped DEF IInv, TypeOK
  <2> QED
    BY <2>1 DEF IInv, TypeOK, RunPhase, InFlight, Reporting, Terminal
<1>2. GateInv'
  BY DEF IInv, TypeOK, GateInv, Writing, Gated, ApprovalIssue, ValidatorIssue
<1>3. LoopInv'
  BY DEF IInv, TypeOK, LoopInv, Reporting, CurrentOp, Ops
<1>4. BackupInv'
  BY DEF IInv, TypeOK, BackupInv, CurrentOp, Ops
<1>5. TraceInv'
  BY DEF IInv, TypeOK, TraceInv, Harmless
<1>6. RollbackInv'
  BY DEF IInv, TypeOK, RollbackInv, RunOf, RollbackInput
<1>7. WritesAreGated'
  BY DEF IInv, WritesAreGated, ApprovalIssue, ValidatorIssue
<1> QED
  BY <1>1, <1>2, <1>3, <1>4, <1>5, <1>6, <1>7 DEF IInv

\* A rollback starts only on an applied result whose operations have backups.
LEMMA RollbackStartStep ==
    ASSUME IInv, NEW b \in Rollbacks, RollbackStart(b)
    PROVE  IInv'
<1> USE DEF RollbackStart, wsVars, runVars, history
<1>1. TypeOK'
  BY DEF IInv, TypeOK, RollbackPhase
<1>2. GateInv'
  BY DEF IInv, GateInv, Gated, ApprovalIssue, ValidatorIssue
<1>3. LoopInv'
  BY DEF IInv, LoopInv, CurrentOp, Ops
<1>4. BackupInv'
  BY DEF IInv, BackupInv, CurrentOp, Ops
<1>5. TraceInv'
  BY DEF IInv, TraceInv
<1>6. RollbackInv'
  <2>1. rbPhase'[b] \in {"running", "fill"} =>
            /\ phase[RunOf(b)] = "applied"
            /\ \A i \in DOMAIN results[RunOf(b)] : results[RunOf(b)][i].backup # "none"
    BY DEF IInv, TypeOK, RollbackIssue
  <2>3. rbPhase'[b] # "fill"
    BY DEF IInv, TypeOK
  <2>2. \A c \in Rollbacks \ {b} : rbPhase'[c] = rbPhase[c]
    BY DEF IInv, TypeOK
  <2> QED
    BY <2>1, <2>2, <2>3 DEF IInv, RollbackInv, RunOf
<1>7. WritesAreGated'
  BY DEF IInv, WritesAreGated, ApprovalIssue, ValidatorIssue
<1> QED
  BY <1>1, <1>2, <1>3, <1>4, <1>5, <1>6, <1>7 DEF IInv

\* Skipping an operation writes nothing.
LEMMA RollbackSkipsStep ==
    ASSUME IInv, NEW b \in Rollbacks, RollbackSkips(b)
    PROVE  IInv'
<1> USE DEF RollbackSkips, wsVars, runVars, history
<1>1. TypeOK'
  <2>1. rbIndex' \in [Rollbacks -> Nat \ {0}] /\ rbFailed' \in [Rollbacks -> BOOLEAN]
    BY DEF IInv, TypeOK
  <2> QED
    BY <2>1 DEF IInv, TypeOK
<1>2. GateInv'
  BY DEF IInv, GateInv, Gated, ApprovalIssue, ValidatorIssue
<1>3. LoopInv'
  BY DEF IInv, LoopInv, CurrentOp, Ops
<1>4. BackupInv'
  BY DEF IInv, BackupInv, CurrentOp, Ops
<1>5. TraceInv'
  BY DEF IInv, TraceInv
<1>6. RollbackInv'
  BY DEF IInv, TypeOK, RollbackInv, RunOf
<1>7. WritesAreGated'
  BY DEF IInv, WritesAreGated, ApprovalIssue, ValidatorIssue
<1> QED
  BY <1>1, <1>2, <1>3, <1>4, <1>5, <1>6, <1>7 DEF IInv

\* The entry a rollback stands at names a file with a backup.
LEMMA EntryTyped ==
    ASSUME IInv, NEW b \in Rollbacks, rbPhase[b] \in {"running", "fill"},
           rbIndex[b] <= Len(results[RunOf(b)])
    PROVE  /\ RunOf(b) \in Runs
           /\ phase[RunOf(b)] = "applied"
           /\ rbIndex[b] \in DOMAIN results[RunOf(b)]
           /\ RollbackTarget(b) \in Files
           /\ results[RunOf(b)][rbIndex[b]].backup \in {"missing", "file"}
<1>1. RunOf(b) \in Runs
  BY DEF IInv, TypeOK, RollbackInput, RunOf
<1>2. rbIndex[b] \in DOMAIN results[RunOf(b)]
  <2>1. results[RunOf(b)] \in Seq([target : Files, backup : {"none", "missing", "file"}])
    BY <1>1 DEF IInv, TypeOK
  <2> QED
    BY <2>1 DEF IInv, TypeOK
<1>3. results[RunOf(b)][rbIndex[b]] \in
        [target : Files, backup : {"none", "missing", "file"}]
  BY <1>1, <1>2, ResultsTyped DEF IInv
<1>4. results[RunOf(b)][rbIndex[b]].backup # "none" /\ phase[RunOf(b)] = "applied"
  BY <1>2 DEF IInv, RollbackInv
<1> QED
  BY <1>1, <1>2, <1>3, <1>4 DEF RollbackTarget

\* A step of a rollback that writes a file.
LEMMA RestoreStep ==
    ASSUME IInv, NEW b \in Rollbacks, NEW g \in Files,
           fs' \in [Files -> DiskState],
           overlaid' \subseteq (Runs \cup Rollbacks) \X Files,
           writer' \in [Files -> {User} \cup Runs \cup Rollbacks],
           writer' = [writer EXCEPT ![g] = b],
           raced' \subseteq Runs \X Files,
           rbContent' \in [Rollbacks -> Contents \cup {Torn, NoContent}],
           rbPhase' \in [Rollbacks -> RollbackPhase],
           rbIndex' \in [Rollbacks -> Nat \ {0}],
           RollbackInv',
           UNCHANGED <<head, linked, clock, backupStore, runVars, rbInput, rbFailed, env,
                       origin>>
    PROVE  IInv'
<1> USE DEF runVars
<1>1. TypeOK'
  BY DEF IInv, TypeOK
<1>2. GateInv'
  BY DEF IInv, GateInv, Gated, ApprovalIssue, ValidatorIssue
<1>3. LoopInv'
  BY DEF IInv, LoopInv, CurrentOp, Ops
<1>4. BackupInv'
  BY DEF IInv, BackupInv, CurrentOp, Ops
<1>5. TraceInv'
  BY ConstantsDisjoint DEF IInv, TypeOK, TraceInv
<1>6. WritesAreGated'
  <2> SUFFICES ASSUME NEW f \in Files, NEW q \in Runs, writer'[f] = q
               PROVE  writer[f] = q
    BY DEF IInv, WritesAreGated, ApprovalIssue, ValidatorIssue
  <2> QED
    BY ConstantsDisjoint DEF IInv, TypeOK
<1> QED
  BY <1>1, <1>2, <1>3, <1>4, <1>5, <1>6 DEF IInv

\* Removing a created file.
LEMMA RollbackRemovesStep ==
    ASSUME IInv, NEW b \in Rollbacks, RollbackRemoves(b)
    PROVE  IInv'
<1>1. RollbackTarget(b) \in Files
  BY EntryTyped DEF RollbackRemoves
<1>2. /\ Replaces(b, RollbackTarget(b), Absent)
      /\ rbIndex' = [rbIndex EXCEPT ![b] = @ + 1]
      /\ rbPhase[b] = "running"
      /\ UNCHANGED <<head, linked, clock, backupStore, runVars, rbInput, rbPhase, rbFailed,
                     rbContent, env, origin>>
  BY DEF RollbackRemoves
<1>3. TypeOK /\ Absent \in DiskState
  BY DEF IInv, DiskState, FileState
<1>4. /\ rbContent' \in [Rollbacks -> Contents \cup {Torn, NoContent}]
      /\ rbPhase' \in [Rollbacks -> RollbackPhase]
      /\ rbIndex' \in [Rollbacks -> Nat \ {0}]
  BY <1>2 DEF IInv, TypeOK
<1>5. RollbackInv'
  BY <1>2 DEF IInv, TypeOK, RollbackInv, RunOf, runVars
<1> QED
  BY <1>1, <1>2, <1>3, <1>4, <1>5, ReplacesTyped, RestoreStep

\* Reading a backup, which is there, and opening its file.
LEMMA RollbackTruncatesStep ==
    ASSUME IInv, NEW b \in Rollbacks, RollbackTruncates(b)
    PROVE  IInv'
<1> DEFINE g == RollbackTarget(b)
           copy == backupStore[stamp[RunOf(b)]][g]
<1>1. /\ g \in Files /\ RunOf(b) \in Runs
      /\ rbIndex[b] \in DOMAIN results[RunOf(b)]
  BY EntryTyped DEF RollbackTruncates
<1>2. /\ Replaces(b, g, Torn)
      /\ rbContent' = [rbContent EXCEPT ![b] = copy]
      /\ rbPhase' = [rbPhase EXCEPT ![b] = "fill"]
      /\ rbPhase[b] = "running" /\ rbIndex[b] <= Len(results[RunOf(b)])
      /\ results[RunOf(b)][rbIndex[b]].backup = "file"
      /\ UNCHANGED <<head, linked, clock, backupStore, runVars, rbInput, rbIndex, rbFailed,
                     env, origin>>
  BY DEF RollbackTruncates
<1>3. TypeOK /\ Torn \in DiskState
  BY DEF IInv, DiskState
<1>4. copy \in Contents \cup {Torn, NoContent} /\ copy # NoContent
  BY <1>1, <1>2 DEF IInv, TypeOK, BackupInv, RollbackTarget
<1> HIDE DEF g, copy
<1>5. /\ rbContent' \in [Rollbacks -> Contents \cup {Torn, NoContent}]
      /\ rbPhase' \in [Rollbacks -> RollbackPhase]
      /\ rbIndex' \in [Rollbacks -> Nat \ {0}]
  BY <1>2, <1>4 DEF IInv, TypeOK, RollbackPhase
<1>6. RollbackInv'
  BY <1>2, <1>4 DEF IInv, TypeOK, RollbackInv, RunOf, runVars
<1> QED
  BY <1>1, <1>2, <1>3, <1>5, <1>6, ReplacesTyped, RestoreStep

\* Writing back the content read.
LEMMA RollbackFillsStep ==
    ASSUME IInv, NEW b \in Rollbacks, RollbackFills(b)
    PROVE  IInv'
<1> DEFINE g == RollbackTarget(b)
<1>1. /\ Fills(b, g, rbContent[b])
      /\ rbContent' = [rbContent EXCEPT ![b] = NoContent]
      /\ rbPhase' = [rbPhase EXCEPT ![b] = "running"]
      /\ rbIndex' = [rbIndex EXCEPT ![b] = @ + 1]
      /\ rbPhase[b] = "fill"
      /\ UNCHANGED <<head, linked, clock, backupStore, runVars, rbInput, rbFailed, env,
                     origin>>
  BY DEF RollbackFills
<1>2. g \in Files /\ rbContent[b] # NoContent
  BY <1>1, EntryTyped DEF IInv, RollbackInv
<1>3. TypeOK /\ rbContent[b] \in DiskState
  BY <1>2 DEF IInv, TypeOK, DiskState, FileState
<1> HIDE DEF g
<1>4. /\ rbContent' \in [Rollbacks -> Contents \cup {Torn, NoContent}]
      /\ rbPhase' \in [Rollbacks -> RollbackPhase]
      /\ rbIndex' \in [Rollbacks -> Nat \ {0}]
  BY <1>1 DEF IInv, TypeOK, RollbackPhase
<1>5. RollbackInv'
  BY <1>1 DEF IInv, TypeOK, RollbackInv, RunOf, runVars
<1> QED
  BY <1>1, <1>2, <1>3, <1>4, <1>5, FillsTyped, RestoreStep

\* The end of a rollback writes nothing.
LEMMA RollbackEndsStep ==
    ASSUME IInv, NEW b \in Rollbacks, RollbackEnds(b)
    PROVE  IInv'
<1> USE DEF RollbackEnds, wsVars, runVars, history
<1>1. TypeOK'
  BY DEF IInv, TypeOK, RollbackPhase
<1>2. GateInv'
  BY DEF IInv, GateInv, Gated, ApprovalIssue, ValidatorIssue
<1>3. LoopInv'
  BY DEF IInv, LoopInv, CurrentOp, Ops
<1>4. BackupInv'
  BY DEF IInv, BackupInv, CurrentOp, Ops
<1>5. TraceInv'
  BY DEF IInv, TraceInv
<1>6. RollbackInv'
  BY DEF IInv, TypeOK, RollbackInv, RunOf
<1>7. WritesAreGated'
  BY DEF IInv, WritesAreGated, ApprovalIssue, ValidatorIssue
<1> QED
  BY <1>1, <1>2, <1>3, <1>4, <1>5, <1>6, <1>7 DEF IInv

\* Nor does its failure.
LEMMA RollbackIOFailsStep ==
    ASSUME IInv, NEW b \in Rollbacks, RollbackIOFails(b)
    PROVE  IInv'
<1> USE DEF RollbackIOFails, wsVars, runVars, history
<1>1. TypeOK'
  <2>1. env' \in 0 .. MaxEnv
    BY BoundsTyped DEF IInv, TypeOK
  <2> QED
    BY <2>1 DEF IInv, TypeOK, RollbackPhase
<1>2. GateInv'
  BY DEF IInv, GateInv, Gated, ApprovalIssue, ValidatorIssue
<1>3. LoopInv'
  BY DEF IInv, LoopInv, CurrentOp, Ops
<1>4. BackupInv'
  BY DEF IInv, BackupInv, CurrentOp, Ops
<1>5. TraceInv'
  BY DEF IInv, TraceInv
<1>6. RollbackInv'
  BY DEF IInv, TypeOK, RollbackInv, RunOf
<1>7. WritesAreGated'
  BY DEF IInv, WritesAreGated, ApprovalIssue, ValidatorIssue
<1> QED
  BY <1>1, <1>2, <1>3, <1>4, <1>5, <1>6, <1>7 DEF IInv

\* An edit is the user's.
LEMMA UserEditsStep ==
    ASSUME IInv, NEW f \in Files, NEW c \in FileState, UserEdits(f, c)
    PROVE  IInv'
<1> USE DEF UserEdits, runVars, rbVars
<1>0. Replaces(User, f, c) /\ c \in DiskState
  BY DEF DiskState
<1>1. TypeOK'
  <2>1. /\ fs' \in [Files -> DiskState]
        /\ overlaid' \subseteq (Runs \cup Rollbacks) \X Files
        /\ writer' \in [Files -> {User} \cup Runs \cup Rollbacks]
        /\ raced' \subseteq Runs \X Files
    BY <1>0, ReplacesTyped DEF IInv
  <2>2. env' \in 0 .. MaxEnv
    BY BoundsTyped DEF IInv, TypeOK
  <2> QED
    BY <2>1, <2>2 DEF IInv, TypeOK
<1>2. GateInv'
  BY DEF IInv, GateInv, Gated, ApprovalIssue, ValidatorIssue
<1>3. LoopInv'
  BY DEF IInv, LoopInv, CurrentOp, Ops
<1>4. BackupInv'
  BY DEF IInv, BackupInv, CurrentOp, Ops
<1>5. TraceInv'
  BY <1>0, ConstantsDisjoint DEF IInv, TypeOK, TraceInv, Replaces
<1>6. RollbackInv'
  BY DEF IInv, RollbackInv, RunOf
<1>7. WritesAreGated'
  <2> SUFFICES ASSUME NEW g \in Files, NEW q \in Runs, writer'[g] = q
               PROVE  writer[g] = q
    BY DEF IInv, WritesAreGated, ApprovalIssue, ValidatorIssue
  <2> QED
    BY <1>0, ConstantsDisjoint DEF IInv, TypeOK, Replaces
<1> QED
  BY <1>1, <1>2, <1>3, <1>4, <1>5, <1>6, <1>7 DEF IInv

\* A commit changes git only.
LEMMA UserCommitsStep ==
    ASSUME IInv, UserCommits
    PROVE  IInv'
<1> USE DEF UserCommits, runVars, rbVars, history
<1>1. TypeOK'
  <2>1. env' \in 0 .. MaxEnv
    BY BoundsTyped DEF IInv, TypeOK
  <2> QED
    BY <2>1 DEF IInv, TypeOK
<1>2. GateInv'
  BY DEF IInv, GateInv, Gated, ApprovalIssue, ValidatorIssue
<1>3. LoopInv'
  BY DEF IInv, LoopInv, CurrentOp, Ops
<1>4. BackupInv'
  BY DEF IInv, BackupInv, CurrentOp, Ops
<1>5. TraceInv'
  BY DEF IInv, TraceInv
<1>6. RollbackInv'
  BY DEF IInv, RollbackInv, RunOf
<1>7. WritesAreGated'
  BY DEF IInv, WritesAreGated, ApprovalIssue, ValidatorIssue
<1> QED
  BY <1>1, <1>2, <1>3, <1>4, <1>5, <1>6, <1>7 DEF IInv

\* A link changes what the path gate answers only.
LEMMA PathBecomesLinkStep ==
    ASSUME IInv, NEW f \in Files, PathBecomesLink(f)
    PROVE  IInv'
<1> USE DEF PathBecomesLink, runVars, rbVars, history
<1>1. TypeOK'
  <2>1. env' \in 0 .. MaxEnv
    BY BoundsTyped DEF IInv, TypeOK
  <2> QED
    BY <2>1 DEF IInv, TypeOK
<1>2. GateInv'
  BY DEF IInv, GateInv, Gated, ApprovalIssue, ValidatorIssue
<1>3. LoopInv'
  BY DEF IInv, LoopInv, CurrentOp, Ops
<1>4. BackupInv'
  BY DEF IInv, BackupInv, CurrentOp, Ops
<1>5. TraceInv'
  BY DEF IInv, TraceInv
<1>6. RollbackInv'
  BY DEF IInv, RollbackInv, RunOf
<1>7. WritesAreGated'
  BY DEF IInv, WritesAreGated, ApprovalIssue, ValidatorIssue
<1> QED
  BY <1>1, <1>2, <1>3, <1>4, <1>5, <1>6, <1>7 DEF IInv

\* A crash stops every loop where it is.
LEMMA CrashStep ==
    ASSUME IInv, Crash
    PROVE  IInv'
<1> USE DEF Crash, wsVars, history
<1>1. TypeOK'
  <2>1. env' \in 0 .. MaxEnv
    BY BoundsTyped DEF IInv, TypeOK
  <2> QED
    BY <2>1 DEF IInv, TypeOK, RunPhase, RollbackPhase
<1>2. GateInv'
  BY DEF IInv, TypeOK, GateInv, Writing, InFlight, Gated, ApprovalIssue, ValidatorIssue
<1>3. LoopInv'
  BY DEF IInv, TypeOK, LoopInv, InFlight, CurrentOp, Ops
<1>4. BackupInv'
  BY DEF IInv, TypeOK, BackupInv, InFlight, CurrentOp, Ops
<1>5. TraceInv'
  BY DEF IInv, TypeOK, TraceInv, Harmless, InFlight, Reporting
<1>6. RollbackInv'
  BY DEF IInv, TypeOK, RollbackInv, RunOf, RollbackInput, InFlight, Reporting
<1>7. WritesAreGated'
  BY DEF IInv, WritesAreGated, ApprovalIssue, ValidatorIssue
<1> QED
  BY <1>1, <1>2, <1>3, <1>4, <1>5, <1>6, <1>7 DEF IInv

\* The clock only numbers runs.
LEMMA TickStep ==
    ASSUME IInv, Tick
    PROVE  IInv'
<1> USE DEF Tick, wsVars, runVars, rbVars, history
<1>1. TypeOK'
  <2>1. clock' \in Stamps
    BY BoundsTyped DEF IInv, TypeOK, Stamps
  <2> QED
    BY <2>1 DEF IInv, TypeOK
<1>2. GateInv'
  BY DEF IInv, GateInv, Gated, ApprovalIssue, ValidatorIssue
<1>3. LoopInv'
  BY DEF IInv, LoopInv, CurrentOp, Ops
<1>4. BackupInv'
  BY DEF IInv, BackupInv, CurrentOp, Ops
<1>5. TraceInv'
  BY DEF IInv, TraceInv
<1>6. RollbackInv'
  BY DEF IInv, RollbackInv, RunOf
<1>7. WritesAreGated'
  BY DEF IInv, WritesAreGated, ApprovalIssue, ValidatorIssue
<1> QED
  BY <1>1, <1>2, <1>3, <1>4, <1>5, <1>6, <1>7 DEF IInv

\* Every step of the specification preserves the inductive invariant.
LEMMA NextIInv == IInv /\ [Next]_vars => IInv'
<1> SUFFICES ASSUME IInv, [Next]_vars PROVE IInv'
  OBVIOUS
<1>1. ASSUME NEW r \in Runs, RunStep(r) \/ RunFault(r) PROVE IInv'
  BY <1>1, StartStep, VerifyStep, GuardStep, GateRefusesStep, OpenStep, RemoveStep,
     TruncateStep, FillStep, ReportStep, IOFailsStep, ThrowsStep DEF RunStep, RunFault
<1>2. ASSUME NEW b \in Rollbacks, RollbackStep(b) \/ RollbackIOFails(b) PROVE IInv'
  BY <1>2, RollbackStartStep, RollbackSkipsStep, RollbackRemovesStep,
     RollbackTruncatesStep, RollbackFillsStep, RollbackEndsStep, RollbackIOFailsStep
  DEF RollbackStep
<1>3. ASSUME Environment PROVE IInv'
  BY <1>3, UserEditsStep, UserCommitsStep, PathBecomesLinkStep, CrashStep, TickStep
  DEF Environment
<1>4. ASSUME UNCHANGED vars PROVE IInv'
  <2> USE <1>4 DEF vars, wsVars, runVars, rbVars, history
  <2>1. TypeOK' /\ TraceInv' /\ RollbackInv'
    BY DEF IInv, TypeOK, TraceInv, RollbackInv, RunOf
  <2>2. GateInv' /\ LoopInv'
    BY DEF IInv, GateInv, LoopInv, Gated, ApprovalIssue, ValidatorIssue, CurrentOp, Ops
  <2>3. BackupInv'
    BY DEF IInv, BackupInv, CurrentOp, Ops
  <2>4. WritesAreGated'
    BY DEF IInv, WritesAreGated, ApprovalIssue, ValidatorIssue
  <2> QED
    BY <2>1, <2>2, <2>3, <2>4 DEF IInv
<1> QED
  BY <1>1, <1>2, <1>3, <1>4 DEF Next

\* The inductive invariant holds in every reachable state.
THEOREM IInvHolds == Spec => []IInv
<1>1. Init => IInv
  BY InitIInv
<1>2. IInv /\ [Next]_vars => IInv'
  BY NextIInv
<1> QED
  BY <1>1, <1>2, PTL DEF Spec

\* The variables keep their types: in particular no file ever holds a missing
\* newContent, and every backup a rollback reads is there.
THEOREM TypeCorrect == Spec => []TypeOK
<1>1. IInv => TypeOK
  BY DEF IInv
<1> QED
  BY <1>1, IInvHolds, PTL

\* What a run wrote, it wrote on a request that passed every gate of run():
\* confirmed, no dry run, deletions confirmed, no protected path.
THEOREM GatedWrites == Spec => []WritesAreGated
<1>1. IInv => WritesAreGated
  BY DEF IInv
<1> QED
  BY <1>1, IInvHolds, PTL

\* Blocked and dry runs leave the workspace as they found it.
THEOREM NoTraceOfBlockedRuns == Spec => []OnlyFailuresArePartial
<1>1. IInv => OnlyFailuresArePartial
  BY DEF IInv, TraceInv, OnlyFailuresArePartial, Harmless
<1> QED
  BY <1>1, IInvHolds, PTL

-----------------------------------------------------------------------------
(* What a run overwrote can be brought back.                                *)

\* The bookkeeping of a run never becomes sound again while the races it has
\* lost are remembered: runs keep their stamps and do not become idle.
LEMMA SoundBefore ==
    ASSUME NEW r \in Runs, NEW f \in Files,
           request' = request,
           \A q \in Runs : phase[q] # "idle" => phase'[q] # "idle" /\ stamp'[q] = stamp[q],
           phase[r] # "idle",
           <<r, f>> \in raced => <<r, f>> \in raced',
           Sound(r, f)'
    PROVE  Sound(r, f)
<1>1. ~SharesStamp(r)
  BY DEF Sound, SharesStamp
<1>2. DistinctTargets(request[r])
  BY DEF Sound, DistinctTargets
<1> QED
  BY <1>1, <1>2 DEF Sound

\* The targets of a run's results, and of the operation it stands at, are files.
LEMMA TargetsTyped ==
    ASSUME IInv, NEW r \in Runs
    PROVE  /\ \A i \in DOMAIN results[r] : results[r][i].target \in Files
           /\ phase[r] \in {"open", "write", "fill"} => CurrentOp(r).target \in Files
<1>1. \A i \in DOMAIN results[r] : results[r][i].target \in Files
  BY ResultsTyped DEF IInv
<1>2. phase[r] \in {"open", "write", "fill"} => CurrentOp(r).target \in Files
  BY OpsTyped DEF IInv, LoopInv, Operation
<1> QED
  BY <1>1, <1>2

\* Two operations of a sound run have different files: the one in hand is not
\* among the results.
LEMMA CurrentIsNew ==
    ASSUME IInv, NEW r \in Runs, ResultsInv(r), phase[r] \in {"open", "write", "fill"},
           DistinctTargets(request[r]), NEW i \in DOMAIN results[r]
    PROVE  results[r][i].target # CurrentOp(r).target
<1>1. i \in DOMAIN Ops(r) /\ results[r][i].target = Ops(r)[i].target
  BY DEF ResultsInv
<1>2. results[r] \in Seq([target : Files, backup : {"none", "missing", "file"}])
  BY DEF IInv, TypeOK
<1>3. i \in 1 .. Len(results[r])
  BY <1>2
<1>4. Len(results[r]) = opIndex[r] - 1 /\ opIndex[r] \in 1 .. Len(Ops(r))
  BY DEF ResultsInv, IInv, LoopInv
<1>5. i # opIndex[r]
  BY <1>3, <1>4 DEF IInv, TypeOK
<1>6. opIndex[r] \in DOMAIN Ops(r)
  BY <1>4, OpsTyped DEF IInv
<1> QED
  BY <1>1, <1>5, <1>6 DEF DistinctTargets, CurrentOp, Ops

\* What holds of a run keeps holding when others take a step: its backups stay
\* as they are, and so does the file it is about to write, or the race is lost.
LEMMA RunUntouched ==
    ASSUME IInv, NEW r \in Runs, RunKeeps(r),
           request' = request,
           \A q \in Runs : phase[q] # "idle" => phase'[q] # "idle" /\ stamp'[q] = stamp[q],
           phase'[r] = phase[r], opIndex'[r] = opIndex[r], stamp'[r] = stamp[r],
           saved'[r] = saved[r], results'[r] = results[r], origin'[r] = origin[r],
           \A f \in Files : <<r, f>> \in raced => <<r, f>> \in raced',
           \A f \in Files : phase[r] # "idle" /\ Sound(r, f) =>
               backupStore'[stamp[r]][f] = backupStore[stamp[r]][f],
           \A f \in Files : phase[r] = "write" /\ CurrentOp(r).target = f =>
               fs'[f] = fs[f] \/ <<r, f>> \in raced'
    PROVE  RunKeeps(r)'
<1>1. Ops(r)' = Ops(r) /\ CurrentOp(r)' = CurrentOp(r)
  BY DEF Ops, CurrentOp
<1>2. ResultsInv(r)'
  BY <1>1 DEF RunKeeps, ResultsInv
<1>3. ASSUME NEW f \in Files PROVE OriginInv(r, f)'
  BY <1>1, <1>3 DEF RunKeeps, OriginInv
<1>4. ASSUME NEW f \in Files PROVE CopyInv(r, f)'
  <2>1. CASE phase[r] = "idle"
    <3>1. results[r] = <<>> /\ origin[r][f] = NoContent
      BY <2>1 DEF IInv, TraceInv, Harmless, RunKeeps, OriginInv
    <3> QED
      BY <2>1, <3>1 DEF CopyInv
  <2>2. CASE phase[r] # "idle"
    <3> SUFFICES ASSUME Sound(r, f)' PROVE CopyInv(r, f)'
      BY DEF CopyInv
    <3>1. Sound(r, f)
      BY <2>2, SoundBefore
    <3>2. backupStore'[stamp[r]][f] = backupStore[stamp[r]][f]
      BY <2>2, <3>1
    <3>3. phase[r] = "write" /\ CurrentOp(r).target = f => fs'[f] = fs[f]
      BY DEF Sound
    <3>4. CopyInv(r, f)
      BY DEF RunKeeps
    <3> QED
      BY <1>1, <3>1, <3>2, <3>3, <3>4 DEF CopyInv
  <2> QED
    BY <2>1, <2>2
<1> QED
  BY <1>2, <1>3, <1>4 DEF RunKeeps

\* A run that passes from one of its stages to another, writes nothing and
\* backs nothing up.
LEMMA RunPasses ==
    ASSUME IInv, NEW r \in Runs, RunKeeps(r),
           UNCHANGED <<fs, backupStore, request, saved, results, origin, raced>>,
           \A q \in Runs : phase[q] # "idle" => phase'[q] # "idle" /\ stamp'[q] = stamp[q],
           phase'[r] \notin {"write", "fill"},
           phase'[r] \in {"idle", "verify", "guard"} => phase[r] \in {"idle", "verify", "guard"},
           phase'[r] = "open" => phase[r] = "guard" /\ opIndex'[r] = opIndex[r]
    PROVE  RunKeeps(r)'
<1>1. Ops(r)' = Ops(r)
  BY DEF Ops
<1>2. ResultsInv(r)'
  <2>1. phase'[r] = "open" => results[r] = <<>> /\ opIndex'[r] = 1
    BY DEF IInv, LoopInv, TraceInv, Harmless
  <2> QED
    BY <1>1, <2>1 DEF RunKeeps, ResultsInv
<1>3. ASSUME NEW f \in Files PROVE OriginInv(r, f)'
  BY <1>3 DEF RunKeeps, OriginInv
<1>4. ASSUME NEW f \in Files PROVE CopyInv(r, f)'
  <2>1. CASE phase[r] = "idle"
    <3>1. results[r] = <<>> /\ origin[r][f] = NoContent
      BY <2>1 DEF IInv, TraceInv, Harmless, RunKeeps, OriginInv
    <3> QED
      BY <3>1 DEF CopyInv
  <2>2. CASE phase[r] # "idle"
    <3> SUFFICES ASSUME Sound(r, f)' PROVE CopyInv(r, f)'
      BY DEF CopyInv
    <3>1. Sound(r, f)
      BY <2>2, SoundBefore
    <3>2. CopyInv(r, f) /\ stamp'[r] = stamp[r]
      BY <2>2 DEF RunKeeps
    <3> QED
      BY <3>1, <3>2 DEF CopyInv
  <2> QED
    BY <2>1, <2>2
<1> QED
  BY <1>2, <1>3, <1>4 DEF RunKeeps

\* What holds of a rollback keeps holding when others take a step: a file they
\* write is no longer the rollback's.
LEMMA RollbackUntouched ==
    ASSUME IInv, NEW b \in Rollbacks, RollbackKeeps(b),
           UNCHANGED <<request, rbInput>>,
           \A q \in Runs : phase[q] # "idle" => phase'[q] # "idle" /\ stamp'[q] = stamp[q],
           \A q \in Runs : phase[q] = "applied" =>
               /\ phase'[q] = "applied" /\ results'[q] = results[q] /\ origin'[q] = origin[q]
               /\ \A f \in Files : <<q, f>> \in raced => <<q, f>> \in raced',
           rbPhase'[b] = rbPhase[b], rbIndex'[b] = rbIndex[b], rbContent'[b] = rbContent[b],
           \A f \in Files : writer'[f] = b => writer[f] = b /\ fs'[f] = fs[f],
           \A f \in Files : <<b, f>> \in overlaid => <<b, f>> \in overlaid'
    PROVE  RollbackKeeps(b)'
<1> SUFFICES ASSUME NEW r \in Runs, NEW f \in Files, RunOf(b) = r
             PROVE  RestoreInv(b, r, f)'
  BY DEF RollbackKeeps, RunOf
<1>1. RestoreInv(b, r, f)
  BY DEF RollbackKeeps
<1>2. RunOf(b)' = r
  BY DEF RunOf
<1>3. rbPhase[b] = "fill" => phase[r] = "applied"
  BY DEF IInv, RollbackInv
<1>4. writer'[f] = b => phase'[r] = "applied"
  BY <1>1 DEF RestoreInv
<1>5. ASSUME phase[r] = "applied", Sound(r, f)' PROVE Sound(r, f)
  BY <1>5, SoundBefore
<1>6. phase[r] = "applied" => RollbackTarget(b)' = RollbackTarget(b) /\ (CutShort(b, f)' <=> CutShort(b, f))
  BY <1>2 DEF RollbackTarget, CutShort
<1>7. ASSUME Sound(r, f)', rbPhase'[b] = "fill", RollbackTarget(b)' = f
      PROVE  rbContent'[b] = origin'[r][f]
  BY <1>1, <1>3, <1>5, <1>6, <1>7 DEF RestoreInv
<1>8. ASSUME Sound(r, f)', writer'[f] = b, <<b, f>> \notin overlaid', ~CutShort(b, f)'
      PROVE  fs'[f] = origin'[r][f]
  BY <1>1, <1>5, <1>6, <1>8 DEF RestoreInv
<1> QED
  BY <1>4, <1>7, <1>8 DEF RestoreInv

\* A rollback that passes from one of its stages to another and writes nothing:
\* what it has left half restored stays so.
LEMMA RollbackPasses ==
    ASSUME IInv, NEW b \in Rollbacks, RollbackKeeps(b),
           UNCHANGED <<fs, overlaid, request, results, rbInput, history>>,
           \A q \in Runs : phase[q] # "idle" => phase'[q] # "idle" /\ stamp'[q] = stamp[q],
           \A q \in Runs : phase[q] = "applied" => phase'[q] = "applied",
           rbPhase'[b] # "fill",
           rbPhase[b] \in {"fill", "failed", "crashed"} =>
               rbPhase'[b] \in {"failed", "crashed"} /\ rbIndex'[b] = rbIndex[b]
    PROVE  RollbackKeeps(b)'
<1> USE DEF history
<1> SUFFICES ASSUME NEW r \in Runs, NEW f \in Files, RunOf(b) = r
             PROVE  RestoreInv(b, r, f)'
  BY DEF RollbackKeeps, RunOf
<1>1. RestoreInv(b, r, f)
  BY DEF RollbackKeeps
<1>2. RunOf(b)' = r
  BY DEF RunOf
<1>3. CutShort(b, f) => CutShort(b, f)'
  BY <1>2 DEF CutShort, RollbackTarget
<1>4. ASSUME phase[r] = "applied", Sound(r, f)' PROVE Sound(r, f)
  BY <1>4, SoundBefore
<1> QED
  BY <1>1, <1>3, <1>4 DEF RestoreInv

\* Opening an operation backs its file up: unless its read or its copy fails,
\* the backup tells what the file holds.
LEMMA OpenBacksUp ==
    ASSUME IInv, NEW r \in Runs, RunKeeps(r), OpenOperation(r)
    PROVE  RunKeeps(r)'
<1> USE DEF OpenOperation, wsVars, rbVars
<1> DEFINE g == CurrentOp(r).target
<1>1. PICK b \in IF request[r].backupEnabled
                 THEN BackupOutcomes(g, backupStore[stamp[r]][g])
                 ELSE NoBackup(backupStore[stamp[r]][g]) :
            /\ saved' = [saved EXCEPT ![r] = b.how]
            /\ backupStore' = [backupStore EXCEPT ![stamp[r]][g] = b.copy]
  OBVIOUS
<1> DEFINE how  == b.how
           copy == b.copy
           enabled == request[r].backupEnabled
<1>2. g \notin FaultyBackups => Tells(how, copy, fs[g], enabled)
  <2>1. \/ ~enabled /\ b = [how |-> "none", copy |-> backupStore[stamp[r]][g]]
        \/ fs[g] = Absent /\ b = [how |-> "missing", copy |-> backupStore[stamp[r]][g]]
        \/ b = [how |-> "file", copy |-> fs[g]]
        \/ g \in FaultyBackups
    BY <1>1 DEF BackupOutcomes, NoBackup
  <2>2. \/ ~enabled /\ how = "none"
        \/ fs[g] = Absent /\ how = "missing"
        \/ how = "file" /\ copy = fs[g]
        \/ g \in FaultyBackups
    BY <2>1
  <2> HIDE DEF how, copy, enabled, g
  <2> QED
    BY <2>2 DEF Tells
<1>3. /\ saved' = [saved EXCEPT ![r] = how]
      /\ backupStore' = [backupStore EXCEPT ![stamp[r]][g] = copy]
      /\ phase[r] = "open" /\ phase' = [phase EXCEPT ![r] = "write"]
      /\ raced' = raced \ {<<r, g>>}
      /\ UNCHANGED <<fs, stamp, request, opIndex, results, origin>>
  BY <1>1
<1>4. g \in Files /\ Ops(r)' = Ops(r) /\ CurrentOp(r)' = CurrentOp(r)
  BY TargetsTyped DEF CurrentOp, Ops
<1>5. /\ phase \in [Runs -> RunPhase] /\ stamp \in [Runs -> Stamps]
      /\ saved \in [Runs -> {"none", "missing", "file"}]
      /\ backupStore \in [Stamps -> [Files -> Contents \cup {Torn, NoContent}]]
  BY DEF IInv, TypeOK
<1>6. CurrentOp(r)'.target = g
  BY <1>4
<1> HIDE DEF OpenOperation, g, how, copy, enabled
<1>7. phase'[r] = "write" /\ saved'[r] = how /\ stamp'[r] = stamp[r] /\ backupStore'[stamp[r]][g] = copy
  BY <1>3, <1>4, <1>5
<1>8. ResultsInv(r)'
  BY <1>3, <1>4, <1>7 DEF RunKeeps, ResultsInv
<1>9. ASSUME NEW f \in Files PROVE OriginInv(r, f)'
  BY <1>3, <1>7 DEF RunKeeps, OriginInv
<1>10. ASSUME NEW f \in Files PROVE CopyInv(r, f)'
  <2> SUFFICES ASSUME Sound(r, f)' PROVE CopyInv(r, f)'
    BY DEF CopyInv
  <2>1. CASE f = g
    <3>1. g \notin FaultyBackups /\ DistinctTargets(request[r])
      BY <1>3, <2>1 DEF Sound, DistinctTargets
    <3>2. \A i \in DOMAIN results[r] : results[r][i].target # g
      BY <1>3, <3>1, CurrentIsNew DEF g, RunKeeps
    <3>3. origin[r][g] = NoContent
      BY <1>3, <1>4, <3>2 DEF RunKeeps, OriginInv
    <3>4. Tells(how, copy, fs[g], enabled)
      BY <1>2, <3>1
    <3> QED
      BY <1>3, <1>7, <2>1, <3>2, <3>3, <3>4 DEF CopyInv, enabled
  <2>2. CASE f # g
    <3>1. \A q \in Runs : phase[q] # "idle" => phase'[q] # "idle" /\ stamp'[q] = stamp[q]
      BY <1>3, <1>5
    <3>2. <<r, f>> \in raced => <<r, f>> \in raced'
      BY <1>3, <2>2
    <3>3. Sound(r, f)
      BY <1>3, <3>1, <3>2, SoundBefore
    <3>4. backupStore'[stamp[r]][f] = backupStore[stamp[r]][f]
      BY <1>3, <1>4, <1>5, <2>2
    <3>5. CopyInv(r, f)
      BY DEF RunKeeps
    <3> QED
      BY <1>3, <1>6, <1>7, <2>2, <3>3, <3>4, <3>5 DEF CopyInv
  <2> QED
    BY <2>1, <2>2
<1> QED
  BY <1>8, <1>9, <1>10 DEF RunKeeps

\* What a write of a file leaves to the others: their files, and the memory of
\* the races they have lost.
LEMMA WriteFacts ==
    ASSUME IInv, NEW actor, NEW g \in Files, NEW content,
           Replaces(actor, g, content) \/ Fills(actor, g, content)
    PROVE  /\ writer'[g] = actor
           /\ \A f \in Files \ {g} : fs'[f] = fs[f] /\ writer'[f] = writer[f]
           /\ \A q, f : <<q, f>> \in raced => <<q, f>> \in raced'
           /\ \A q \in Runs \ {actor} :
                 phase[q] = "write" /\ CurrentOp(q).target = g => <<q, g>> \in raced'
           /\ \A q, f : <<q, f>> \in overlaid /\ (q # actor \/ f # g) => <<q, f>> \in overlaid'
<1>1. fs \in [Files -> DiskState] /\ writer \in [Files -> {User} \cup Runs \cup Rollbacks]
  BY DEF IInv, TypeOK
<1>2. PICK c : fs' = [fs EXCEPT ![g] = c]
  BY DEF Replaces, Fills
<1>3. writer' = [writer EXCEPT ![g] = actor] /\ raced' = raced \cup RacedBy(g, actor)
  BY DEF Replaces, Fills
<1>4. \A q, f : <<q, f>> \in overlaid /\ (q # actor \/ f # g) => <<q, f>> \in overlaid'
  BY DEF Replaces, Fills
<1>5. \A q \in Runs \ {actor} :
         phase[q] = "write" /\ CurrentOp(q).target = g => <<q, g>> \in raced'
  BY <1>3 DEF RacedBy
<1> QED
  BY <1>1, <1>2, <1>3, <1>4, <1>5

\* Whoever writes a file, the runs and rollbacks other than the writer keep
\* what holds of them.
LEMMA OthersKeep ==
    ASSUME IInv, BackupsKeepOriginals, NEW actor, NEW g \in Files, NEW content,
           Replaces(actor, g, content) \/ Fills(actor, g, content),
           UNCHANGED <<request, stamp, saved, backupStore, rbInput>>,
           \A q \in Runs : phase[q] # "idle" => phase'[q] # "idle",
           \A q \in Runs \ {actor} :
               phase'[q] = phase[q] /\ opIndex'[q] = opIndex[q] /\ results'[q] = results[q]
               /\ origin'[q] = origin[q],
           \A c \in Rollbacks \ {actor} :
               rbPhase'[c] = rbPhase[c] /\ rbIndex'[c] = rbIndex[c] /\ rbContent'[c] = rbContent[c],
           actor \in Runs => phase[actor] # "applied"
    PROVE  /\ \A q \in Runs \ {actor} : RunKeeps(q)'
           /\ \A c \in Rollbacks \ {actor} : RollbackKeeps(c)'
<1>1. /\ writer'[g] = actor
      /\ \A f \in Files \ {g} : fs'[f] = fs[f] /\ writer'[f] = writer[f]
      /\ \A q, f : <<q, f>> \in raced => <<q, f>> \in raced'
      /\ \A q \in Runs \ {actor} :
            phase[q] = "write" /\ CurrentOp(q).target = g => <<q, g>> \in raced'
      /\ \A q, f : <<q, f>> \in overlaid /\ (q # actor \/ f # g) => <<q, f>> \in overlaid'
  BY WriteFacts
<1>2. ASSUME NEW q \in Runs \ {actor} PROVE RunKeeps(q)'
  <2>1. \A f \in Files : phase[q] = "write" /\ CurrentOp(q).target = f =>
            fs'[f] = fs[f] \/ <<q, f>> \in raced'
    BY <1>1
  <2>2. RunKeeps(q)
    BY DEF BackupsKeepOriginals
  <2> QED
    BY <1>1, <2>1, <2>2, RunUntouched
<1>3. ASSUME NEW c \in Rollbacks \ {actor} PROVE RollbackKeeps(c)'
  <2>1. \A q \in Runs : phase[q] = "applied" =>
            /\ phase'[q] = "applied" /\ results'[q] = results[q] /\ origin'[q] = origin[q]
            /\ \A f \in Files : <<q, f>> \in raced => <<q, f>> \in raced'
    BY <1>1
  <2>2. \A f \in Files : writer'[f] = c => writer[f] = c /\ fs'[f] = fs[f]
    BY <1>1
  <2>3. \A f \in Files : <<c, f>> \in overlaid => <<c, f>> \in overlaid'
    BY <1>1
  <2>4. RollbackKeeps(c)
    BY DEF BackupsKeepOriginals
  <2> QED
    BY <2>1, <2>2, <2>3, <2>4, RollbackUntouched
<1> QED
  BY <1>2, <1>3

\* What is recorded when an operation is done.
LEMMA DoneRecords ==
    ASSUME IInv, NEW r \in Runs, RunKeeps(r), phase[r] \in {"write", "fill"}, Done(r),
           request' = request
    PROVE  /\ ResultsInv(r)'
           /\ phase' = [phase EXCEPT ![r] = phase'[r]] /\ phase'[r] \in {"open", "report_applied"}
           /\ \A q \in Runs \ {r} : results'[q] = results[q] /\ opIndex'[q] = opIndex[q]
           /\ opIndex[r] \in DOMAIN results'[r]
           /\ results'[r][opIndex[r]] = [target |-> CurrentOp(r).target, backup |-> saved[r]]
           /\ \A i \in DOMAIN results[r] : i \in DOMAIN results'[r] /\ results'[r][i] = results[r][i]
           /\ \A i \in DOMAIN results'[r] : i # opIndex[r] => i \in DOMAIN results[r]
<1> DEFINE entry == [target |-> CurrentOp(r).target, backup |-> saved[r]]
           last  == opIndex[r] = Len(Ops(r))
<1>1. /\ results' = [results EXCEPT ![r] = Append(results[r], entry)]
      /\ phase' = [phase EXCEPT ![r] = IF last THEN "report_applied" ELSE "open"]
      /\ opIndex' = [opIndex EXCEPT ![r] = IF last THEN opIndex[r] ELSE opIndex[r] + 1]
  BY DEF Done
<1>2. /\ phase \in [Runs -> RunPhase] /\ opIndex \in [Runs -> Nat \ {0}]
      /\ results \in [Runs -> Seq([target : Files, backup : {"none", "missing", "file"}])]
  BY DEF IInv, TypeOK
<1>3. /\ Len(results[r]) = opIndex[r] - 1 /\ opIndex[r] \in 1 .. Len(Ops(r))
      /\ Ops(r) \in Seq(Operation)
  BY OpsTyped DEF RunKeeps, ResultsInv, IInv, LoopInv
<1>4. CurrentOp(r) = Ops(r)[opIndex[r]] /\ opIndex[r] \in DOMAIN Ops(r) /\ Ops(r)' = Ops(r)
  BY <1>3 DEF CurrentOp, Ops
<1> HIDE DEF entry, last
<1>5. /\ phase' = [phase EXCEPT ![r] = phase'[r]] /\ phase'[r] \in {"open", "report_applied"}
      /\ \A q \in Runs \ {r} : results'[q] = results[q] /\ opIndex'[q] = opIndex[q]
      /\ phase'[r] = "open" => opIndex'[r] = opIndex[r] + 1
  BY <1>1, <1>2
<1>6. results'[r] = Append(results[r], entry)
  BY <1>1, <1>2
<1>7. /\ Len(results'[r]) = opIndex[r]
      /\ opIndex[r] \in DOMAIN results'[r]
      /\ results'[r][opIndex[r]] = entry
      /\ \A i \in DOMAIN results[r] : i \in DOMAIN results'[r] /\ results'[r][i] = results[r][i]
      /\ \A i \in DOMAIN results'[r] : i # opIndex[r] => i \in DOMAIN results[r]
  <2>1. results[r] \in Seq([target : Files, backup : {"none", "missing", "file"}]) /\ opIndex[r] \in Nat
    BY <1>2
  <2> QED
    BY <1>3, <1>6, <2>1
<1>8. ResultsInv(r)'
  <2>1. \A i \in DOMAIN results'[r] : i \in DOMAIN Ops(r) /\ results'[r][i].target = Ops(r)[i].target
    <3> SUFFICES ASSUME NEW i \in DOMAIN results'[r]
                 PROVE  i \in DOMAIN Ops(r) /\ results'[r][i].target = Ops(r)[i].target
      OBVIOUS
    <3>1. CASE i = opIndex[r]
      BY <1>4, <1>7, <3>1 DEF entry
    <3>2. CASE i # opIndex[r]
      BY <1>7, <3>2 DEF RunKeeps, ResultsInv
    <3> QED
      BY <3>1, <3>2
  <2>2. phase'[r] \in {"open", "write", "fill"} => Len(results'[r]) = opIndex'[r] - 1
    BY <1>2, <1>5, <1>7
  <2> QED
    BY <1>4, <2>1, <2>2 DEF ResultsInv
<1> QED
  BY <1>5, <1>7, <1>8 DEF entry

\* The first write of a file by a sound run, rm or truncation, records what it
\* overwrites: what the backup in hand tells of.
LEMMA OverwritesFirst ==
    ASSUME IInv, NEW r \in Runs, RunKeeps(r), phase[r] = "write", NEW g \in Files,
           g = CurrentOp(r).target, Overwrites(r, g), NEW f \in Files
    PROVE  /\ f # g => origin'[r][f] = origin[r][f]
           /\ \A q \in Runs \ {r} : origin'[q] = origin[q]
           /\ Sound(r, g) =>
                 /\ origin'[r][g] = fs[g]
                 /\ Tells(saved[r], backupStore[stamp[r]][g], origin'[r][g], request[r].backupEnabled)
                 /\ \A i \in DOMAIN results[r] : results[r][i].target # g
<1>1. origin \in [Runs -> [Files -> DiskState \cup {NoContent}]]
  BY DEF IInv, TypeOK
<1>2. ASSUME Sound(r, g)
      PROVE  origin[r][g] = NoContent /\ \A i \in DOMAIN results[r] : results[r][i].target # g
  <2>1. \A i \in DOMAIN results[r] : results[r][i].target # g
    BY <1>2, CurrentIsNew DEF RunKeeps, Sound
  <2> QED
    BY <2>1 DEF RunKeeps, OriginInv
<1>3. Sound(r, g) => origin'[r][g] = fs[g]
  BY <1>1, <1>2 DEF Overwrites
<1>4. Sound(r, g) => Tells(saved[r], backupStore[stamp[r]][g], fs[g], request[r].backupEnabled)
  BY DEF RunKeeps, CopyInv
<1>5. (f # g => origin'[r][f] = origin[r][f]) /\ \A q \in Runs \ {r} : origin'[q] = origin[q]
  BY <1>1 DEF Overwrites
<1> QED
  BY <1>2, <1>3, <1>4, <1>5

\* A backup that tells what a file held is a copy of it, if it was there.
LEMMA TellsCopy ==
    ASSUME NEW how, NEW copy, NEW content, NEW enabled,
           Tells(how, copy, content, enabled), enabled, content # Absent
    PROVE  copy = content
BY DEF Tells

\* rm: the operation is done, and its result tells what it removed.
LEMMA RemoveKeeps ==
    ASSUME IInv, BackupsKeepOriginals, NEW r \in Runs, RemoveTarget(r)
    PROVE  BackupsKeepOriginals'
<1> USE DEF RemoveTarget, rbVars
<1> DEFINE g == CurrentOp(r).target
<1>1. g \in Files /\ RunKeeps(r)
  BY TargetsTyped DEF BackupsKeepOriginals
<1>2. /\ phase[r] = "write" /\ Replaces(r, g, Absent) /\ Overwrites(r, g) /\ Done(r)
      /\ UNCHANGED <<backupStore, request, stamp, saved, rbInput, rbPhase, rbIndex, rbContent>>
  OBVIOUS
<1> PICK h \in Files : h = g
  BY <1>1
<1> HIDE DEF RemoveTarget
<1>3. /\ ResultsInv(r)'
      /\ phase' = [phase EXCEPT ![r] = phase'[r]] /\ phase'[r] \in {"open", "report_applied"}
      /\ \A q \in Runs \ {r} : results'[q] = results[q] /\ opIndex'[q] = opIndex[q]
      /\ opIndex[r] \in DOMAIN results'[r]
      /\ results'[r][opIndex[r]] = [target |-> h, backup |-> saved[r]]
      /\ \A i \in DOMAIN results[r] : i \in DOMAIN results'[r] /\ results'[r][i] = results[r][i]
      /\ \A i \in DOMAIN results'[r] : i # opIndex[r] => i \in DOMAIN results[r]
  BY <1>1, <1>2, DoneRecords
<1>4. phase \in [Runs -> RunPhase] /\ r \notin Rollbacks
  BY ConstantsDisjoint DEF IInv, TypeOK
<1>5. Replaces(r, h, Absent) /\ Overwrites(r, h) /\ h = CurrentOp(r).target
  BY <1>2
<1> HIDE DEF g
<1>6. ASSUME NEW f \in Files
      PROVE  /\ f # h => origin'[r][f] = origin[r][f]
             /\ \A q \in Runs \ {r} : origin'[q] = origin[q]
             /\ Sound(r, h) =>
                   /\ origin'[r][h] = fs[h]
                   /\ Tells(saved[r], backupStore[stamp[r]][h], origin'[r][h], request[r].backupEnabled)
                   /\ \A i \in DOMAIN results[r] : results[r][i].target # h
  BY <1>1, <1>2, <1>5, OverwritesFirst
<1>7. \A q \in Runs : phase[q] # "idle" => phase'[q] # "idle" /\ stamp'[q] = stamp[q]
  BY <1>2, <1>3, <1>4
<1>8. (\A q \in Runs \ {r} : RunKeeps(q)') /\ (\A c \in Rollbacks : RollbackKeeps(c)')
  BY <1>2, <1>3, <1>4, <1>5, <1>6, <1>7, OthersKeep
<1>9. \A f \in Files : <<r, f>> \in raced => <<r, f>> \in raced'
  BY <1>5, WriteFacts
<1>10. ASSUME NEW f \in Files PROVE OriginInv(r, f)'
  <2>1. CASE f = h
    BY <1>3, <2>1 DEF OriginInv
  <2>2. CASE f # h
    BY <1>1, <1>2, <1>3, <1>6, <2>2 DEF RunKeeps, OriginInv
  <2> QED
    BY <2>1, <2>2
<1>11. ASSUME NEW f \in Files PROVE CopyInv(r, f)'
  <2> SUFFICES ASSUME Sound(r, f)' PROVE CopyInv(r, f)'
    BY DEF CopyInv
  <2>1. Sound(r, f)
    BY <1>2, <1>7, <1>9, SoundBefore
  <2>2. CASE f = h
    <3>1. Tells(saved[r], backupStore[stamp[r]][h], origin'[r][h], request[r].backupEnabled)
      BY <1>6, <2>1, <2>2
    <3>2. \A i \in DOMAIN results'[r] : results'[r][i].target = h => i = opIndex[r]
      BY <1>3, <1>6, <2>1, <2>2
    <3> QED
      BY <1>2, <1>3, <2>2, <3>1, <3>2, TellsCopy DEF CopyInv
  <2>3. CASE f # h
    <3>1. CopyInv(r, f)
      BY <1>1 DEF RunKeeps
    <3> QED
      BY <1>2, <1>3, <1>6, <2>1, <2>3, <3>1 DEF CopyInv
  <2> QED
    BY <2>2, <2>3
<1> QED
  BY <1>3, <1>8, <1>10, <1>11 DEF BackupsKeepOriginals, RunKeeps

\* The first half of a write: what it empties is in the backup.
LEMMA TruncateKeeps ==
    ASSUME IInv, BackupsKeepOriginals, NEW r \in Runs, TruncateTarget(r)
    PROVE  BackupsKeepOriginals'
<1> USE DEF TruncateTarget, rbVars
<1> DEFINE g == CurrentOp(r).target
<1>1. g \in Files /\ RunKeeps(r)
  BY TargetsTyped DEF BackupsKeepOriginals
<1>2. /\ phase[r] = "write" /\ Replaces(r, g, Torn) /\ Overwrites(r, g)
      /\ phase' = [phase EXCEPT ![r] = "fill"]
      /\ UNCHANGED <<backupStore, request, stamp, saved, opIndex, results,
                     rbInput, rbPhase, rbIndex, rbContent>>
  OBVIOUS
<1> PICK h \in Files : h = g
  BY <1>1
<1> HIDE DEF TruncateTarget
<1>3. phase \in [Runs -> RunPhase] /\ r \notin Rollbacks
  BY ConstantsDisjoint DEF IInv, TypeOK
<1>4. Replaces(r, h, Torn) /\ Overwrites(r, h) /\ h = CurrentOp(r).target
  BY <1>2
<1>5. Ops(r)' = Ops(r) /\ CurrentOp(r)' = CurrentOp(r) /\ phase'[r] = "fill"
  BY <1>2, <1>3 DEF Ops, CurrentOp
<1> HIDE DEF g
<1>6. ASSUME NEW f \in Files
      PROVE  /\ f # h => origin'[r][f] = origin[r][f]
             /\ \A q \in Runs \ {r} : origin'[q] = origin[q]
             /\ Sound(r, h) =>
                   /\ origin'[r][h] = fs[h]
                   /\ Tells(saved[r], backupStore[stamp[r]][h], origin'[r][h], request[r].backupEnabled)
                   /\ \A i \in DOMAIN results[r] : results[r][i].target # h
  BY <1>1, <1>2, <1>4, OverwritesFirst
<1>7. \A q \in Runs : phase[q] # "idle" => phase'[q] # "idle" /\ stamp'[q] = stamp[q]
  BY <1>2, <1>3
<1>8. (\A q \in Runs \ {r} : RunKeeps(q)') /\ (\A c \in Rollbacks : RollbackKeeps(c)')
  BY <1>2, <1>3, <1>4, <1>6, <1>7, OthersKeep
<1>9. \A f \in Files : <<r, f>> \in raced => <<r, f>> \in raced'
  BY <1>4, WriteFacts
<1>10. ResultsInv(r)'
  BY <1>1, <1>2, <1>5 DEF RunKeeps, ResultsInv
<1>11. ASSUME NEW f \in Files PROVE OriginInv(r, f)'
  BY <1>1, <1>2, <1>4, <1>5, <1>6 DEF RunKeeps, OriginInv
<1>12. ASSUME NEW f \in Files PROVE CopyInv(r, f)'
  <2> SUFFICES ASSUME Sound(r, f)' PROVE CopyInv(r, f)'
    BY DEF CopyInv
  <2>1. Sound(r, f)
    BY <1>2, <1>7, <1>9, SoundBefore
  <2>2. CASE f = h
    <3>1. Tells(saved[r], backupStore[stamp[r]][h], origin'[r][h], request[r].backupEnabled)
      BY <1>6, <2>1, <2>2
    <3>2. \A i \in DOMAIN results[r] : results[r][i].target # h
      BY <1>6, <2>1, <2>2
    <3> QED
      BY <1>2, <1>5, <2>2, <3>1, <3>2, TellsCopy DEF CopyInv
  <2>3. CASE f # h
    <3>1. CopyInv(r, f)
      BY <1>1 DEF RunKeeps
    <3> QED
      BY <1>2, <1>4, <1>5, <1>6, <2>1, <2>3, <3>1 DEF CopyInv
  <2> QED
    BY <2>2, <2>3
<1> QED
  BY <1>8, <1>10, <1>11, <1>12 DEF BackupsKeepOriginals, RunKeeps

\* The second half: the operation is done, and its result tells what the first
\* half has overwritten.
LEMMA FillKeeps ==
    ASSUME IInv, BackupsKeepOriginals, NEW r \in Runs, FillTarget(r)
    PROVE  BackupsKeepOriginals'
<1> USE DEF FillTarget, rbVars
<1> DEFINE g == CurrentOp(r).target
<1>1. g \in Files /\ RunKeeps(r)
  BY TargetsTyped DEF BackupsKeepOriginals, FillTarget
<1>2. /\ phase[r] = "fill" /\ Fills(r, g, CurrentOp(r).newContent) /\ Done(r)
      /\ UNCHANGED <<backupStore, request, stamp, saved, origin,
                     rbInput, rbPhase, rbIndex, rbContent>>
  OBVIOUS
<1> PICK h \in Files : h = g
  BY <1>1
<1> PICK content : content = CurrentOp(r).newContent
  OBVIOUS
<1> HIDE DEF FillTarget
<1>3. /\ ResultsInv(r)'
      /\ phase' = [phase EXCEPT ![r] = phase'[r]] /\ phase'[r] \in {"open", "report_applied"}
      /\ \A q \in Runs \ {r} : results'[q] = results[q] /\ opIndex'[q] = opIndex[q]
      /\ opIndex[r] \in DOMAIN results'[r]
      /\ results'[r][opIndex[r]] = [target |-> h, backup |-> saved[r]]
      /\ \A i \in DOMAIN results[r] : i \in DOMAIN results'[r] /\ results'[r][i] = results[r][i]
      /\ \A i \in DOMAIN results'[r] : i # opIndex[r] => i \in DOMAIN results[r]
  BY <1>1, <1>2, DoneRecords
<1>4. phase \in [Runs -> RunPhase] /\ r \notin Rollbacks
  BY ConstantsDisjoint DEF IInv, TypeOK
<1>5. Fills(r, h, content) /\ h = CurrentOp(r).target
  BY <1>2
<1> HIDE DEF g
<1>6. \A q \in Runs : phase[q] # "idle" => phase'[q] # "idle" /\ stamp'[q] = stamp[q]
  BY <1>2, <1>3, <1>4
<1>7. (\A q \in Runs \ {r} : RunKeeps(q)') /\ (\A c \in Rollbacks : RollbackKeeps(c)')
  BY <1>2, <1>3, <1>4, <1>5, <1>6, OthersKeep
<1>8. \A f \in Files : <<r, f>> \in raced => <<r, f>> \in raced'
  BY <1>5, WriteFacts
<1>9. ASSUME NEW f \in Files PROVE OriginInv(r, f)'
  BY <1>1, <1>2, <1>3, <1>5 DEF RunKeeps, OriginInv
<1>10. ASSUME NEW f \in Files PROVE CopyInv(r, f)'
  <2> SUFFICES ASSUME Sound(r, f)' PROVE CopyInv(r, f)'
    BY DEF CopyInv
  <2>1. Sound(r, f) /\ CopyInv(r, f)
    BY <1>1, <1>2, <1>6, <1>8, SoundBefore DEF RunKeeps
  <2>2. CASE f = h
    <3>1. Tells(saved[r], backupStore[stamp[r]][h], origin[r][h], request[r].backupEnabled)
      BY <1>2, <1>5, <2>1, <2>2 DEF CopyInv
    <3> QED
      BY <1>2, <1>3, <2>1, <2>2, <3>1 DEF CopyInv
  <2>3. CASE f # h
    BY <1>2, <1>3, <2>1, <2>3 DEF CopyInv
  <2> QED
    BY <2>2, <2>3
<1> QED
  BY <1>3, <1>7, <1>9, <1>10 DEF BackupsKeepOriginals, RunKeeps

\* The operation a rollback stands at: a typed result of an applied run, backed
\* up, of which the backup tells.
LEMMA RollbackEntry ==
    ASSUME IInv, BackupsKeepOriginals, NEW b \in Rollbacks, NEW r \in Runs, r = RunOf(b),
           rbPhase[b] \in {"running", "fill"}, rbIndex[b] <= Len(results[r])
    PROVE  /\ phase[r] = "applied" /\ rbIndex[b] \in DOMAIN results[r]
           /\ RollbackTarget(b) \in Files
           /\ RollbackTarget(b) = results[r][rbIndex[b]].target
           /\ Sound(r, RollbackTarget(b)) =>
                 Tells(results[r][rbIndex[b]].backup, backupStore[stamp[r]][RollbackTarget(b)],
                       origin[r][RollbackTarget(b)], request[r].backupEnabled)
<1>1. phase[r] = "applied"
  BY DEF IInv, RollbackInv
<1>2. rbIndex[b] \in DOMAIN results[r]
  <2>1. results[r] \in Seq([target : Files, backup : {"none", "missing", "file"}])
    BY DEF IInv, TypeOK
  <2> QED
    BY <2>1 DEF IInv, TypeOK
<1>3. RollbackTarget(b) \in Files /\ RollbackTarget(b) = results[r][rbIndex[b]].target
  BY <1>2, TargetsTyped DEF RollbackTarget
<1> DEFINE g == RollbackTarget(b)
<1>4. g \in Files /\ g = results[r][rbIndex[b]].target
  BY <1>3
<1> HIDE DEF g
<1>5. Sound(r, g) => Tells(results[r][rbIndex[b]].backup, backupStore[stamp[r]][g],
                           origin[r][g], request[r].backupEnabled)
  BY <1>2, <1>4 DEF BackupsKeepOriginals, RunKeeps, CopyInv
<1> QED
  BY <1>1, <1>2, <1>3, <1>5 DEF g

\* The part of a rollback's step that all three writes share: what it has
\* restored before, and what holds of the others.
LEMMA RollbackWrites ==
    ASSUME IInv, BackupsKeepOriginals, NEW b \in Rollbacks, NEW r \in Runs, r = RunOf(b),
           NEW g \in Files, g = RollbackTarget(b), NEW content,
           Replaces(b, g, content) \/ Fills(b, g, content),
           rbPhase[b] \in {"running", "fill"}, rbIndex[b] <= Len(results[r]),
           UNCHANGED <<request, stamp, saved, backupStore, rbInput, phase, opIndex, results, origin>>,
           \A c \in Rollbacks \ {b} :
               rbPhase'[c] = rbPhase[c] /\ rbIndex'[c] = rbIndex[c] /\ rbContent'[c] = rbContent[c],
           Sound(r, g) /\ rbPhase'[b] = "fill" /\ RollbackTarget(b)' = g =>
               rbContent'[b] = origin[r][g],
           Sound(r, g) /\ <<b, g>> \notin overlaid' /\ ~CutShort(b, g)' => fs'[g] = origin[r][g],
           rbPhase'[b] = "fill" => RollbackTarget(b)' = g
    PROVE  BackupsKeepOriginals'
<1>1. b \notin Runs /\ phase[r] = "applied"
  BY ConstantsDisjoint, RollbackEntry
<1>2. (\A q \in Runs : RunKeeps(q)') /\ (\A c \in Rollbacks \ {b} : RollbackKeeps(c)')
  BY <1>1, OthersKeep
<1>3. RollbackKeeps(b)'
  <2> SUFFICES ASSUME NEW f \in Files PROVE RestoreInv(b, r, f)'
    BY DEF RollbackKeeps, RunOf
  <2>1. RestoreInv(b, r, f)
    BY DEF BackupsKeepOriginals, RollbackKeeps
  <2>2. /\ writer'[g] = b
        /\ f # g => fs'[f] = fs[f] /\ writer'[f] = writer[f]
        /\ <<r, f>> \in raced => <<r, f>> \in raced'
        /\ f # g /\ <<b, f>> \in overlaid => <<b, f>> \in overlaid'
    BY WriteFacts
  <2>3. Sound(r, f)' => Sound(r, f)
    BY <1>1, <2>2, SoundBefore
  <2>4. CASE f = g
    BY <1>1, <2>3, <2>4 DEF RestoreInv
  <2>5. CASE f # g
    <3>1. ~CutShort(b, f)
      BY <2>5 DEF CutShort
    <3> QED
      BY <1>1, <2>1, <2>2, <2>3, <2>5, <3>1 DEF RestoreInv
  <2> QED
    BY <2>4, <2>5
<1> QED
  BY <1>2, <1>3 DEF BackupsKeepOriginals

\* A rollback of a sound run removes a file that was not there.
LEMMA RemovalKeeps ==
    ASSUME IInv, BackupsKeepOriginals, NEW b \in Rollbacks, RollbackRemoves(b)
    PROVE  BackupsKeepOriginals'
<1> USE DEF RollbackRemoves, runVars
<1> PICK r \in Runs : r = RunOf(b)
  BY DEF IInv, TypeOK, RollbackInput, RunOf
<1>1. /\ rbPhase[b] = "running" /\ rbIndex[b] <= Len(results[r])
      /\ results[r][rbIndex[b]].backup = "missing"
      /\ rbIndex' = [rbIndex EXCEPT ![b] = rbIndex[b] + 1]
      /\ UNCHANGED <<request, stamp, saved, backupStore, rbInput, phase, opIndex, results, origin,
                     rbPhase, rbContent>>
  OBVIOUS
<1> PICK g \in Files : g = RollbackTarget(b)
  BY <1>1, RollbackEntry
<1>2. Replaces(b, g, Absent)
  OBVIOUS
<1> HIDE DEF RollbackRemoves, runVars
<1>3. /\ fs \in [Files -> DiskState] /\ rbIndex \in [Rollbacks -> Nat \ {0}]
  BY DEF IInv, TypeOK
<1>4. Sound(r, g) => fs'[g] = origin[r][g]
  <2>1. fs'[g] = Absent
    BY <1>2, <1>3 DEF Replaces
  <2>2. Sound(r, g) => Tells("missing", backupStore[stamp[r]][g], origin[r][g], request[r].backupEnabled)
    BY <1>1, RollbackEntry
  <2>3. Sound(r, g) => origin[r][g] = Absent
    BY <2>2 DEF Tells
  <2> QED
    BY <2>1, <2>3
<1>5. \A c \in Rollbacks \ {b} : rbIndex'[c] = rbIndex[c]
  BY <1>1, <1>3
<1>6. rbPhase'[b] # "fill"
  BY <1>1
<1> QED
  BY <1>1, <1>2, <1>4, <1>5, <1>6, RollbackWrites

\* What a rollback of a sound run starts to write back is what was there.
LEMMA TruncationKeeps ==
    ASSUME IInv, BackupsKeepOriginals, NEW b \in Rollbacks, RollbackTruncates(b)
    PROVE  BackupsKeepOriginals'
<1> USE DEF RollbackTruncates, runVars
<1> PICK r \in Runs : r = RunOf(b)
  BY DEF IInv, TypeOK, RollbackInput, RunOf
<1> PICK g : g = RollbackTarget(b)
  OBVIOUS
<1>1. /\ rbPhase[b] = "running" /\ rbIndex[b] <= Len(results[r])
      /\ results[r][rbIndex[b]].backup = "file"
      /\ rbPhase' = [rbPhase EXCEPT ![b] = "fill"]
      /\ rbContent' = [rbContent EXCEPT ![b] = backupStore[stamp[r]][g]]
      /\ UNCHANGED <<request, stamp, saved, backupStore, rbInput, phase, opIndex, results, origin,
                     rbIndex>>
      /\ Replaces(b, g, Torn)
  OBVIOUS
<1> HIDE DEF RollbackTruncates, runVars
<1>2. g \in Files
  BY <1>1, RollbackEntry
<1>3. /\ rbPhase \in [Rollbacks -> RollbackPhase]
      /\ rbContent \in [Rollbacks -> Contents \cup {Torn, NoContent}]
  BY DEF IInv, TypeOK
<1>4. /\ rbPhase'[b] = "fill" /\ rbContent'[b] = backupStore[stamp[r]][g]
      /\ \A c \in Rollbacks \ {b} : rbPhase'[c] = rbPhase[c] /\ rbContent'[c] = rbContent[c]
  BY <1>1, <1>3
<1>5. RollbackTarget(b)' = g /\ CutShort(b, g)'
  BY <1>1, <1>4 DEF RollbackTarget, CutShort, RunOf
<1>6. Sound(r, g) => rbContent'[b] = origin[r][g]
  <2>1. Sound(r, g) => Tells("file", backupStore[stamp[r]][g], origin[r][g], request[r].backupEnabled)
    BY <1>1, RollbackEntry
  <2> QED
    BY <1>4, <2>1 DEF Tells
<1> QED
  BY <1>1, <1>2, <1>4, <1>5, <1>6, RollbackWrites

\* And so is what the file holds in the end, if no other has written to it.
LEMMA RestorationKeeps ==
    ASSUME IInv, BackupsKeepOriginals, NEW b \in Rollbacks, RollbackFills(b)
    PROVE  BackupsKeepOriginals'
<1> USE DEF RollbackFills, runVars
<1> PICK r \in Runs : r = RunOf(b)
  BY DEF IInv, TypeOK, RollbackInput, RunOf
<1> PICK g : g = RollbackTarget(b)
  OBVIOUS
<1> PICK content : content = rbContent[b]
  OBVIOUS
<1>1. /\ rbPhase[b] = "fill"
      /\ rbPhase' = [rbPhase EXCEPT ![b] = "running"]
      /\ rbContent' = [rbContent EXCEPT ![b] = NoContent]
      /\ rbIndex' = [rbIndex EXCEPT ![b] = rbIndex[b] + 1]
      /\ UNCHANGED <<request, stamp, saved, backupStore, rbInput, phase, opIndex, results, origin>>
      /\ Fills(b, g, content)
  OBVIOUS
<1> HIDE DEF RollbackFills, runVars
<1>2. rbIndex[b] <= Len(results[r])
  BY <1>1 DEF IInv, RollbackInv
<1>3. g \in Files
  BY <1>1, <1>2, RollbackEntry
<1>4. /\ fs \in [Files -> DiskState] /\ rbPhase \in [Rollbacks -> RollbackPhase]
      /\ rbContent \in [Rollbacks -> Contents \cup {Torn, NoContent}]
      /\ rbIndex \in [Rollbacks -> Nat \ {0}]
  BY DEF IInv, TypeOK
<1>5. /\ rbPhase'[b] = "running"
      /\ \A c \in Rollbacks \ {b} :
            rbPhase'[c] = rbPhase[c] /\ rbContent'[c] = rbContent[c] /\ rbIndex'[c] = rbIndex[c]
  BY <1>1, <1>4
<1>6. Sound(r, g) /\ <<b, g>> \notin overlaid' => fs'[g] = origin[r][g]
  <2> SUFFICES ASSUME Sound(r, g), <<b, g>> \notin overlaid' PROVE fs'[g] = origin[r][g]
    OBVIOUS
  <2>1. <<b, g>> \notin overlaid
    BY <1>1 DEF Fills
  <2>2. fs'[g] = content
    BY <1>1, <1>3, <1>4, <2>1 DEF Fills, Filled
  <2>3. content = origin[r][g]
    BY <1>1, <1>3 DEF BackupsKeepOriginals, RollbackKeeps, RestoreInv
  <2> QED
    BY <2>2, <2>3
<1> QED
  BY <1>1, <1>2, <1>3, <1>5, <1>6, RollbackWrites

\* The user's edit takes a file over from whoever wrote it.
LEMMA EditKeeps ==
    ASSUME IInv, BackupsKeepOriginals, NEW g \in Files, NEW c \in FileState, UserEdits(g, c)
    PROVE  BackupsKeepOriginals'
<1>1. Replaces(User, g, c) /\ UNCHANGED <<backupStore, runVars, rbVars, origin>>
  BY DEF UserEdits
<1>2. User \notin Runs /\ User \notin Rollbacks
  BY ConstantsDisjoint
<1>3. (\A q \in Runs : RunKeeps(q)') /\ (\A b \in Rollbacks : RollbackKeeps(b)')
  BY <1>1, <1>2, OthersKeep DEF runVars, rbVars
<1> QED
  BY <1>3 DEF BackupsKeepOriginals

\* A backup disturbs no other run whose bookkeeping is sound.
LEMMA OpenKeeps ==
    ASSUME IInv, BackupsKeepOriginals, NEW r \in Runs, OpenOperation(r)
    PROVE  BackupsKeepOriginals'
<1> DEFINE g == CurrentOp(r).target
<1>1. RunKeeps(r)'
  BY OpenBacksUp DEF BackupsKeepOriginals
<1>2. /\ phase[r] = "open" /\ phase' = [phase EXCEPT ![r] = "write"]
      /\ raced' = raced \ {<<r, g>>}
      /\ UNCHANGED <<fs, overlaid, stamp, request, opIndex, results, rbInput, rbPhase, rbIndex,
                     rbContent, writer, origin>>
  BY DEF OpenOperation, wsVars, rbVars
<1>3. PICK b : /\ saved' = [saved EXCEPT ![r] = b.how]
              /\ backupStore' = [backupStore EXCEPT ![stamp[r]][g] = b.copy]
  BY DEF OpenOperation
<1> DEFINE copy == b.copy
           how  == b.how
<1>4. /\ saved' = [saved EXCEPT ![r] = how]
      /\ backupStore' = [backupStore EXCEPT ![stamp[r]][g] = copy]
  BY <1>3
<1> HIDE DEF g, copy, how
<1>5. /\ phase \in [Runs -> RunPhase] /\ stamp \in [Runs -> Stamps]
      /\ saved \in [Runs -> {"none", "missing", "file"}]
      /\ backupStore \in [Stamps -> [Files -> Contents \cup {Torn, NoContent}]]
  BY DEF IInv, TypeOK
<1>6. \A q \in Runs : phase[q] # "idle" => phase'[q] # "idle" /\ stamp'[q] = stamp[q]
  BY <1>2, <1>5
<1>7. ASSUME NEW q \in Runs \ {r} PROVE RunKeeps(q)'
  <2>1. \A f \in Files : phase[q] # "idle" /\ Sound(q, f) =>
            backupStore'[stamp[q]][f] = backupStore[stamp[q]][f]
    <3> SUFFICES ASSUME NEW f \in Files, phase[q] # "idle", Sound(q, f)
                 PROVE  backupStore'[stamp[q]][f] = backupStore[stamp[q]][f]
      OBVIOUS
    <3>1. stamp[q] # stamp[r]
      BY <1>2 DEF Sound, SharesStamp
    <3> QED
      BY <1>4, <1>5, <3>1
  <2>2. phase'[q] = phase[q] /\ saved'[q] = saved[q]
    BY <1>2, <1>4, <1>5
  <2>3. \A f \in Files : <<q, f>> \in raced => <<q, f>> \in raced'
    BY <1>2
  <2>4. RunKeeps(q)
    BY DEF BackupsKeepOriginals
  <2> QED
    BY <1>2, <1>6, <2>1, <2>2, <2>3, <2>4, RunUntouched
<1>8. ASSUME NEW c \in Rollbacks PROVE RollbackKeeps(c)'
  <2>1. \A q \in Runs : phase[q] = "applied" => q # r /\ phase'[q] = "applied"
    BY <1>2, <1>5
  <2>2. \A q \in Runs : phase[q] = "applied" =>
            \A f \in Files : <<q, f>> \in raced => <<q, f>> \in raced'
    BY <1>2, <2>1
  <2>3. RollbackKeeps(c)
    BY DEF BackupsKeepOriginals
  <2> QED
    BY <1>2, <1>6, <2>1, <2>2, <2>3, RollbackUntouched
<1> QED
  BY <1>1, <1>7, <1>8 DEF BackupsKeepOriginals

\* A step that writes no file and backs nothing up: each run stays where it is
\* or passes to its next stage, and so does each rollback.
LEMMA QuietStep ==
    ASSUME IInv, BackupsKeepOriginals,
           UNCHANGED <<fs, overlaid, backupStore, request, saved, results, rbInput, history>>,
           \A q \in Runs : phase[q] # "idle" => phase'[q] # "idle" /\ stamp'[q] = stamp[q],
           \A q \in Runs : phase[q] = "applied" => phase'[q] = "applied",
           \A q \in Runs :
               \/ phase'[q] = phase[q] /\ opIndex'[q] = opIndex[q] /\ stamp'[q] = stamp[q]
               \/ /\ phase'[q] \notin {"write", "fill"}
                  /\ phase'[q] \in {"idle", "verify", "guard"} =>
                        phase[q] \in {"idle", "verify", "guard"}
                  /\ phase'[q] = "open" => phase[q] = "guard" /\ opIndex'[q] = opIndex[q],
           \A b \in Rollbacks :
               \/ /\ rbPhase'[b] = rbPhase[b] /\ rbIndex'[b] = rbIndex[b]
                  /\ rbContent'[b] = rbContent[b]
               \/ /\ rbPhase'[b] # "fill"
                  /\ rbPhase[b] \in {"fill", "failed", "crashed"} =>
                        rbPhase'[b] \in {"failed", "crashed"} /\ rbIndex'[b] = rbIndex[b]
    PROVE  BackupsKeepOriginals'
<1> USE DEF history
<1>1. ASSUME NEW q \in Runs PROVE RunKeeps(q)'
  <2>1. RunKeeps(q)
    BY DEF BackupsKeepOriginals
  <2>2. CASE phase'[q] = phase[q] /\ opIndex'[q] = opIndex[q] /\ stamp'[q] = stamp[q]
    BY <2>1, <2>2, RunUntouched
  <2>3. CASE ~(phase'[q] = phase[q] /\ opIndex'[q] = opIndex[q] /\ stamp'[q] = stamp[q])
    BY <2>1, <2>3, RunPasses
  <2> QED
    BY <2>2, <2>3
<1>2. ASSUME NEW b \in Rollbacks PROVE RollbackKeeps(b)'
  <2>1. RollbackKeeps(b)
    BY DEF BackupsKeepOriginals
  <2>2. CASE /\ rbPhase'[b] = rbPhase[b] /\ rbIndex'[b] = rbIndex[b]
             /\ rbContent'[b] = rbContent[b]
    BY <2>1, <2>2, RollbackUntouched
  <2>3. CASE /\ rbPhase'[b] # "fill"
             /\ rbPhase[b] \in {"fill", "failed", "crashed"} =>
                   rbPhase'[b] \in {"failed", "crashed"} /\ rbIndex'[b] = rbIndex[b]
    BY <2>1, <2>3, RollbackPasses
  <2> QED
    BY <2>2, <2>3
<1> QED
  BY <1>1, <1>2 DEF BackupsKeepOriginals

\* The steps of a run that write no file.
LEMMA RunQuiet ==
    ASSUME IInv, BackupsKeepOriginals, NEW r \in Runs,
           \/ Start(r) \/ VerifyContent(r) \/ ContentUnreadable(r) \/ Guard(r)
           \/ GateRefuses(r) \/ Report(r) \/ IOFails(r) \/ Throws(r)
    PROVE  BackupsKeepOriginals'
<1>1. UNCHANGED <<fs, overlaid, backupStore, request, saved, results, rbInput, rbPhase, rbIndex,
                  rbContent, history>>
  BY DEF Start, VerifyContent, ContentUnreadable, Guard, GateRefuses, Report, IOFails, Throws,
         wsVars, rbVars
<1>2. /\ phase \in [Runs -> RunPhase] /\ stamp \in [Runs -> Stamps]
      /\ opIndex \in [Runs -> Nat \ {0}]
  BY DEF IInv, TypeOK
<1>3. CASE Start(r)
  <2>1. /\ phase[r] = "idle" /\ phase'[r] \in {"verify", "guard"}
        /\ opIndex' = opIndex
        /\ \A q \in Runs \ {r} : phase'[q] = phase[q] /\ stamp'[q] = stamp[q]
    BY <1>2, <1>3 DEF Start
  <2> QED
    BY <1>1, <2>1, QuietStep
<1>4. CASE ~Start(r)
  <2>1. stamp' = stamp
    BY <1>4 DEF VerifyContent, ContentUnreadable, Guard, GateRefuses, Report, IOFails, Throws
  <2>2. CASE VerifyContent(r) \/ ContentUnreadable(r)
    <3>1. /\ phase[r] = "verify" /\ phase'[r] \in {"verify", "guard"}
          /\ \A q \in Runs \ {r} : phase'[q] = phase[q] /\ opIndex'[q] = opIndex[q]
      BY <1>2, <2>2 DEF VerifyContent, ContentUnreadable, NextCheck
    <3> QED
      BY <1>1, <2>1, <3>1, QuietStep
  <2>3. CASE Guard(r)
    <3>1. /\ phase[r] = "guard" /\ phase'[r] \in {"report_blocked", "report_dry_run", "open"}
          /\ opIndex' = opIndex
          /\ \A q \in Runs \ {r} : phase'[q] = phase[q]
      BY <1>2, <2>3 DEF Guard, GuardOutcome
    <3> QED
      BY <1>1, <2>1, <3>1, QuietStep
  <2>4. CASE GateRefuses(r) \/ Report(r) \/ IOFails(r) \/ Throws(r)
    <3>1. phase[r] \in InFlight
      BY <2>4 DEF GateRefuses, Report, IOFails, Throws, InFlight, Reporting
    <3>2. phase'[r] \in Terminal \cup {"report_failed", "threw"}
      BY <1>2, <2>4 DEF GateRefuses, Report, Verdict, IOFails, Throws, Reporting, Terminal
    <3>3. /\ opIndex' = opIndex
          /\ \A q \in Runs \ {r} : phase'[q] = phase[q]
      BY <1>2, <2>4 DEF GateRefuses, Report, IOFails, Throws
    <3> QED
      BY <1>1, <2>1, <3>1, <3>2, <3>3, QuietStep DEF InFlight, Reporting, Terminal
  <2> QED
    BY <1>4, <2>2, <2>3, <2>4
<1> QED
  BY <1>3, <1>4

\* The steps of a rollback that write no file.
LEMMA RollbackQuiet ==
    ASSUME IInv, BackupsKeepOriginals, NEW b \in Rollbacks,
           RollbackStart(b) \/ RollbackSkips(b) \/ RollbackEnds(b) \/ RollbackIOFails(b)
    PROVE  BackupsKeepOriginals'
<1>1. UNCHANGED <<fs, overlaid, backupStore, request, phase, opIndex, stamp, saved, results,
                  rbInput, rbContent, history>>
  BY DEF RollbackStart, RollbackSkips, RollbackEnds, RollbackIOFails, wsVars, runVars
<1>2. /\ rbPhase \in [Rollbacks -> RollbackPhase]
      /\ rbIndex \in [Rollbacks -> Nat \ {0}]
  BY DEF IInv, TypeOK
<1>3. \A c \in Rollbacks \ {b} : rbPhase'[c] = rbPhase[c] /\ rbIndex'[c] = rbIndex[c]
  BY <1>2 DEF RollbackStart, RollbackSkips, RollbackEnds, RollbackIOFails
<1>4. /\ rbPhase'[b] # "fill"
      /\ rbPhase[b] \in {"fill", "failed", "crashed"} =>
            rbPhase'[b] \in {"failed", "crashed"} /\ rbIndex'[b] = rbIndex[b]
  BY <1>2 DEF RollbackStart, RollbackSkips, RollbackEnds, RollbackIOFails
<1> QED
  BY <1>1, <1>3, <1>4, QuietStep

\* Every step of the specification keeps what was overwritten.
LEMMA NextKeepsBackups ==
    IInv /\ BackupsKeepOriginals /\ [Next]_vars => BackupsKeepOriginals'
<1> SUFFICES ASSUME IInv, BackupsKeepOriginals, [Next]_vars PROVE BackupsKeepOriginals'
  OBVIOUS
<1>1. ASSUME NEW r \in Runs, RunStep(r) \/ RunFault(r) PROVE BackupsKeepOriginals'
  BY <1>1, RunQuiet, OpenKeeps, RemoveKeeps, TruncateKeeps, FillKeeps DEF RunStep, RunFault
<1>2. ASSUME NEW b \in Rollbacks, RollbackStep(b) \/ RollbackIOFails(b)
      PROVE  BackupsKeepOriginals'
  BY <1>2, RollbackQuiet, RemovalKeeps, TruncationKeeps, RestorationKeeps DEF RollbackStep
<1>3. ASSUME Environment PROVE BackupsKeepOriginals'
  <2>1. CASE \E f \in Files, c \in FileState : UserEdits(f, c)
    BY <2>1, EditKeeps
  <2>2. CASE UserCommits \/ (\E f \in Files : PathBecomesLink(f)) \/ Tick
    <3>1. UNCHANGED <<fs, overlaid, backupStore, runVars, rbVars, history>>
      BY <2>2 DEF UserCommits, PathBecomesLink, Tick, wsVars
    <3> QED
      BY <3>1, QuietStep DEF runVars, rbVars
  <2>3. CASE Crash
    <3>1. UNCHANGED <<fs, overlaid, backupStore, request, opIndex, stamp, saved, results,
                      rbInput, rbIndex, rbContent, history>>
      BY <2>3 DEF Crash, wsVars
    <3>2. \A q \in Runs : phase'[q] = IF phase[q] \in InFlight THEN "crashed" ELSE phase[q]
      BY <2>3 DEF Crash
    <3>3. \A b \in Rollbacks :
             rbPhase'[b] = IF rbPhase[b] \in {"running", "fill"} THEN "crashed" ELSE rbPhase[b]
      BY <2>3 DEF Crash
    <3>4. \A q \in Runs : phase'[q] = phase[q] \/ phase'[q] = "crashed"
      BY <3>2
    <3>5. \A b \in Rollbacks :
             \/ rbPhase'[b] = rbPhase[b]
             \/ rbPhase'[b] = "crashed"
      BY <3>3
    <3>6. \A q \in Runs : phase[q] = "applied" => phase'[q] = "applied"
      BY <3>2 DEF InFlight, Reporting
    <3>7. \A q \in Runs : phase[q] # "idle" => phase'[q] # "idle"
      BY <3>4
    <3> QED
      BY <3>1, <3>4, <3>5, <3>6, <3>7, QuietStep
  <2> QED
    BY <1>3, <2>1, <2>2, <2>3 DEF Environment
<1>4. CASE UNCHANGED vars
  <2>1. UNCHANGED <<fs, overlaid, backupStore, runVars, rbVars, history>>
    BY <1>4 DEF vars, wsVars
  <2> QED
    BY <2>1, QuietStep DEF runVars, rbVars
<1> QED
  BY <1>1, <1>2, <1>3, <1>4 DEF Next

\* Backups, results and what they are backups of agree in every reachable state.
THEOREM BackupsKept == Spec => []BackupsKeepOriginals
<1>1. Init => BackupsKeepOriginals
  <2> SUFFICES ASSUME Init PROVE BackupsKeepOriginals
    OBVIOUS
  <2> USE DEF Init
  <2>1. ASSUME NEW r \in Runs PROVE RunKeeps(r)
    BY DEF RunKeeps, ResultsInv, OriginInv, CopyInv
  <2>2. ASSUME NEW b \in Rollbacks PROVE RollbackKeeps(b)
    <3>1. \A f \in Files : writer[f] # b
      BY ConstantsDisjoint
    <3>2. rbPhase[b] # "fill"
      OBVIOUS
    <3> QED
      BY <3>1, <3>2 DEF RollbackKeeps, RestoreInv
  <2> QED
    BY <2>1, <2>2 DEF BackupsKeepOriginals
<1>2. IInv /\ BackupsKeepOriginals /\ [Next]_vars => BackupsKeepOriginals'
  BY NextKeepsBackups
<1> QED
  BY <1>1, <1>2, IInvHolds, PTL DEF Spec

\* Whatever became of a run, what it has overwritten is in its backup folder as
\* it was, the write in hand cut short included, on the conditions of Sound:
\* but for a failed read or a failed copy, which the code takes for a missing
\* file, a shared folder, a repeated target and a lost race.
THEOREM OverwrittenBackedUp == Spec => []OverwrittenIsBackedUp
<1>1. BackupsKeepOriginals => OverwrittenIsBackedUp
  BY DEF BackupsKeepOriginals, RunKeeps, CopyInv, OverwrittenIsBackedUp
<1> QED
  BY <1>1, BackupsKept, PTL

\* A rolled back file holds what it held before the run's write, on the same
\* conditions and unless another wrote it in the middle of its restoring or
\* this was cut short, whichever runs, rollbacks, edits and crashes come between.
THEOREM RollbackIsExact == Spec => []RollbackRestoresOriginal
<1>1. ASSUME IInv, BackupsKeepOriginals PROVE RollbackRestoresOriginal
  <2> SUFFICES ASSUME NEW b \in Rollbacks, NEW f \in Files,
                      writer[f] = b, <<b, f>> \notin overlaid, ~CutShort(b, f), Sound(RunOf(b), f)
               PROVE  fs[f] = origin[RunOf(b)][f]
    BY DEF RollbackRestoresOriginal
  <2> PICK r \in Runs : r = RunOf(b)
    BY <1>1 DEF IInv, TypeOK, RollbackInput, RunOf
  <2>1. Sound(r, f)
    OBVIOUS
  <2>2. RestoreInv(b, r, f)
    BY <1>1 DEF BackupsKeepOriginals, RollbackKeeps
  <2> QED
    BY <2>1, <2>2 DEF RestoreInv
<1> QED
  BY <1>1, IInvHolds, BackupsKept, PTL
=============================================================================
