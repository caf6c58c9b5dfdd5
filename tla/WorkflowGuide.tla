---------------------------- MODULE WorkflowGuide ----------------------------
(* The runtime workflow as the server computes it: of what a session has     *)
(* produced so far, the status of every step (RuntimeWorkflowStateMachine)   *)
(* and the action it offers next (RuntimeActionAvailabilityResolver).        *)
(*                                                                           *)
(* Titles, reasons, the percentage and the counts are left out.              *)
EXTENDS Naturals, Sequences, SequencesExt

Verdicts == {"none", "valid", "rejected"}
\* "failed" stands for "blocked" too, which no step tells apart
Sandboxes == {"none", "passed", "failed"}
Recoveries == {"none", "repair_prompt_ready", "max_attempts_reached", "not_recoverable"}
Applies == {"none", "dry_run", "applied", "failed"}
Rollbacks == {"none", "dry_run", "rolled_back", "failed"}

\* RuntimeWorkflowArtifactState: what the caller says has been produced
Artifacts ==
    [started : BOOLEAN, prepared : BOOLEAN, asked : BOOLEAN, readOnly : BOOLEAN,
     plan : Verdicts, proposal : Verdicts, diff : {"none", "ready", "blocked"},
     sandbox : Sandboxes, recovery : Recoveries, repaired : BOOLEAN, snapshot : BOOLEAN,
     apply : Applies, rollback : Rollbacks, verified : BOOLEAN, report : BOOLEAN,
     risky : BOOLEAN]

ReadOnlySteps == <<"session", "prepare_workflow", "runtime_questions", "runtime_plan", "report">>
PatchSteps ==
    <<"session", "prepare_workflow", "runtime_questions", "runtime_plan", "patch_proposal",
      "diff_preview", "snapshot", "sandbox", "recovery_prepare", "repaired_patch", "dry_run",
      "apply", "rollback", "verify", "report">>
Steps(a) == IF a.readOnly THEN ReadOnlySteps ELSE PatchSteps

(* ------------------------------ the statuses --------------------------- *)

\* statusAfter: done, or possible, or not yet
StatusAfter(canStart, done) ==
    CASE done -> "completed"
      [] ~done /\ canStart -> "available"
      [] OTHER -> "locked"

\* validatedOrBlocked, and the statuses that follow its pattern
ValidatedOrBlocked(canStart, valid, rejected) ==
    IF ~valid /\ rejected THEN "blocked" ELSE StatusAfter(canStart, valid)

QuestionsResolved(a) == ~a.asked \/ a.plan = "valid"
RecoveryAvailableOnceVerified(a) == a.sandbox # "none" \/ a.recovery # "none"
RecoveryAvailable(a) == a.sandbox = "failed" \/ a.recovery # "none"
NothingToRecover(a) == a.sandbox = "passed" /\ ~RecoveryAvailable(a)
Exhausted(a) == a.recovery = "max_attempts_reached"

QuestionsStatus(a) ==
    IF a.prepared THEN StatusAfter(TRUE, QuestionsResolved(a)) ELSE "locked"

SnapshotStatus(a) ==
    IF ~a.snapshot /\ a.diff = "ready" /\ a.risky THEN "active"
    ELSE StatusAfter(a.diff = "ready", a.snapshot)

SandboxStatus(a) ==
    ValidatedOrBlocked(a.diff = "ready", a.sandbox = "passed",
                       Exhausted(a) \/ a.sandbox = "failed")

RecoveryPrepareUndone(a) ==
    ValidatedOrBlocked(RecoveryAvailable(a), NothingToRecover(a), Exhausted(a))

RecoveryPrepareStatus(a) ==
    ValidatedOrBlocked(RecoveryAvailable(a),
                       NothingToRecover(a) \/ a.recovery = "repair_prompt_ready", Exhausted(a))

RepairedPatchStatus(a) ==
    ValidatedOrBlocked(a.recovery = "repair_prompt_ready",
                       NothingToRecover(a) \/ a.repaired, Exhausted(a))

ApplyStatus(a) ==
    ValidatedOrBlocked(a.diff = "ready" /\ a.sandbox = "passed" /\ (a.risky => a.snapshot),
                       a.apply = "applied", a.apply = "failed")

RollbackStatus(a) ==
    ValidatedOrBlocked(a.rollback = "dry_run" \/ a.apply = "applied",
                       a.rollback = "rolled_back", a.rollback = "failed")

Verified(a) == a.verified \/ a.sandbox = "passed"

ReportDue(a) ==
    IF a.readOnly THEN a.plan = "valid"
    ELSE \/ a.apply \in {"dry_run", "applied"} \/ a.rollback = "rolled_back"
         \/ Verified(a) \/ a.repaired

StepStatus(a, step) ==
    CASE step = "session" -> IF a.started THEN "completed" ELSE "active"
      [] step = "prepare_workflow" -> StatusAfter(a.started, a.prepared)
      [] step = "runtime_questions" -> QuestionsStatus(a)
      [] step = "runtime_plan" ->
            ValidatedOrBlocked(a.prepared /\ QuestionsResolved(a),
                               a.plan = "valid", a.plan = "rejected")
      [] step = "patch_proposal" ->
            ValidatedOrBlocked(a.plan = "valid", a.proposal = "valid" \/ a.repaired,
                               a.proposal = "rejected")
      [] step = "diff_preview" ->
            ValidatedOrBlocked(a.proposal = "valid" \/ a.repaired,
                               a.diff = "ready", a.diff = "blocked")
      [] step = "snapshot" -> SnapshotStatus(a)
      [] step = "sandbox" -> SandboxStatus(a)
      [] step = "recovery_prepare" -> RecoveryPrepareStatus(a)
      [] step = "repaired_patch" -> RepairedPatchStatus(a)
      [] step = "dry_run" -> StatusAfter(a.diff = "ready" /\ a.sandbox = "passed",
                                        a.apply \in {"dry_run", "applied"})
      [] step = "apply" -> ApplyStatus(a)
      [] step = "rollback" -> RollbackStatus(a)
      [] step = "verify" -> StatusAfter(a.apply = "applied" \/ a.rollback = "rolled_back",
                                       Verified(a))
      [] step = "report" -> StatusAfter(ReportDue(a), a.report)

(* ------------------------------- the offer ----------------------------- *)

Statuses(a) == [i \in DOMAIN Steps(a) |-> StepStatus(a, Steps(a)[i])]

\* finalizeWorkflow: the first step to do, else the first blocked one, else the
\* report, which comes last
CurrentStep(statuses) ==
    LET first(those) == SelectInSeq(statuses, LAMBDA s : s \in those)
        toDo == first({"active", "available"})
        stuck == first({"blocked"})
    IN CASE toDo # 0 -> toDo
         [] toDo = 0 /\ stuck # 0 -> stuck
         [] OTHER -> Len(statuses)

\* actionForStep
ActionFor ==
    [session |-> "start_session", prepare_workflow |-> "prepare_workflow",
     runtime_questions |-> "answer_runtime_questions", runtime_plan |-> "generate_runtime_plan",
     patch_proposal |-> "generate_patch_proposal", diff_preview |-> "generate_diff_preview",
     snapshot |-> "create_snapshot", sandbox |-> "verify_sandbox",
     recovery_prepare |-> "prepare_recovery", repaired_patch |-> "generate_repaired_patch",
     dry_run |-> "dry_run_apply", apply |-> "apply_patch", rollback |-> "rollback_patch",
     verify |-> "run_verify", report |-> "export_report"]

Actions == {ActionFor[s] : s \in DOMAIN ActionFor} \cup {"none"}

\* resolve: the action of the current step, unless that is blocked or locked.
\* Chosen from a set of one, for TLC to evaluate the statuses once.
NextAction(a) ==
    LET offered(statuses) ==
            IF statuses[CurrentStep(statuses)] \in {"blocked", "locked"} THEN "none"
            ELSE ActionFor[Steps(a)[CurrentStep(statuses)]]
    IN CHOOSE action \in {offered(statuses) : statuses \in {Statuses(a)}} : TRUE

=============================================================================
