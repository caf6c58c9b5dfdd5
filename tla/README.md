# Zero Runtime in TLA+

Specifications, model checks and proofs for the agent runtime in `src/`. The
runtime lets a language model propose patches to a project and is built around
one promise: nothing is written to the project that a user did not look at and
approve, and what is written can be undone. The modules here state that promise
for the parts of the code that carry it, and what the parts around them promise
(plans, tasks, what a session remembers, the page that guides the user,
snapshots), check it with TLC on small instances and prove the safety part of it
with TLAPS for instances of any size.

Paths below are relative to `src/src/` unless they start with `ui/` or `docs/`. Parts in bold are modelled, as far as section 2 says.

## 1. Inventory

### Parts, their state and their operations

| part | state it keeps | operations |
| --- | --- | --- |
| **Patch apply and rollback** (`patch-apply/`, `patches/RuntimePatchRollback.ts`, `git/GitWorkingTreeGuard.ts`) | the project's files; backups in `.runtime/patch-backups/<applyId>/` | `PatchApplyRunner.run`, `RuntimePatchRollback.rollback` |
| **CLI agent loop** (`agent/`, `cli/CliRuntimeBridge.ts`) | `agent-loop-state.json`: loop status, its actions, the proposal, approvals | `agent start / step / run / approve / reject / reset`, one process each |
| **Approval centre and apply authorization** (`approval/`, handlers of `api/RuntimeApiController.ts`) | `decisions.json` of a session; diff previews | `resolveApproval`, `generatePatchDiff`, `applyRuntimePatch` |
| **Plan execution** (`execution/`, `loop/`, `core/AgentRuntime.ts`, `failure/`) | in memory: phase, objective, plan under review; a queue of step states per plan | `initialize`, `acceptObjective`, `generatePlan`, `approvePlan`, `markPlanReady`, `executeStep`, `executeNext`, `executeSequential`, `RuntimeLoop.runOnce` |
| **Session task queue** (`tasks/`, `workflow/RuntimeWorkflowOrchestrator.ts`) | `tasks.json` of a session: tasks, dependencies, statuses | list, `addTask`, `transitionTask`, prepare a workflow |
| **Interactive session log** (`interactive/`) | answers, decisions and session log, a JSON file each; the context plans are generated in | answer a question, add a decision, send a message, log an action, generate a plan |
| **Runtime workflow** (`workflow/RuntimeWorkflowStateMachine.ts`, `RuntimeActionAvailability.ts`) | none; computed from what a session has produced | statuses, the action to offer |
| **Session page** (`ui/src/pages/SessionPage.tsx`), **patch recovery** (`patches/PatchRecoveryLoop.ts`) and the **sandbox gate** | plan, proposal, preview, sandbox result, recovery, apply, rollback, the guide shown | one handler per button; the effect that asks for a guide |
| **Workspace snapshots** (`workspace/LocalSnapshotManager.ts` and its services) | `.runtime/snapshots/<session>/`: copies before and after, one manifest | create, capture after, restore |
| Plan review and generation (`planning/`) | review status, stored plans | review states are part of plan execution |
| Event bus and streams (`server/`) | events in memory, listeners | publish, subscribe |
| **Repair** (`repair/`) and the **providers** it uses (`providers/`) | the report file of the directory; budgets | one attempt per command: choose and judge a model, call it, validate its proposal, report |
| Everything else | see `PROJECT.json`, `components` | |

### How they interact

* The **API server** is one Node process. Handlers are `async` functions that
  run interleaved: between two awaits a handler is alone, across an await any
  other handler may run. There are no locks. Shared state is JSON files that are
  loaded whole, changed in memory and written back with `writeFile`, which
  truncates the file before it fills it.
* The **CLI** is one process per command over the same kind of file; two
  terminals are two writers.
* The **UI** drives the server: plan, patch, preview, sandbox, decision, apply,
  rollback. It keeps answers and sends them back; the server believes several of
  them (an approval decision, a sandbox result, that a snapshot exists). After
  every change it sends what it holds, as booleans, and shows the action the
  server's state machine offers.
* A **repair** is one command, of a user or of the agent loop, and one request to a
  remote model at most; what it may send is decided by the agent's policy, the command
  line's parser, the bridge, the environment's configuration and a budget, one after another.
* **Plans** heed what the session remembers: the decisions file is turned into a
  context of blocked and allowed scopes each time a plan is generated.
* Both front ends end in the **same write path**: `PatchApplyRunner`, which
  gates, backs up and writes file by file while the user's editor and git work
  in the same folder; and `RuntimePatchRollback`, which replays the backups.

### What is hard here

* *Check then act across awaits.* The runner compares contents, looks at git,
  backs up and writes in separate awaits; an editor or another apply acts in
  between.
* *Lost updates and torn files.* Load, change, truncate, write without a lock,
  by handlers and by commands; what the next reader makes of a torn file differs
  from store to store (an empty one, or an exception for ever).
* *Death half way.* Between two operations of a patch, or between the truncation
  and the write of a store.
* *Stale authority.* Approvals, previews and verification results outlive the
  thing they were about: a decision on one preview, or for one set of files,
  meets an apply of another.
* *Failure after the fact.* Reports and logs are written after the effect, so a
  failing log reports a done thing as failed.
* *One fact in several records.* An answered question is in three files, a
  snapshot in its copies and its manifest; a failure in between leaves them apart.
* *An answer that may never come.* A server accepts a request and stays silent, or
  sends headers and no body; nothing else limits the wait but one timer.
* *Old closures.* A handler of the page runs in the render it was clicked in and
  sets what it gets whatever is shown by then; guides are asked for from several
  of them and arrive in any order.

### What makes each modelled part correct

* Patch apply: no write past a gate; no trace of a refused or dry run; what a run
  overwrote is recoverable however it ended; a rollback restores exactly that;
  every run returns.
* Agent loop: only a proposal a user approved is applied; requests name the
  proposal that is applied; one proposal is applied at most once, under its latest
  decision; a loop completes only after apply and revalidation ran; commands end.
* Approval flow: what is written was previewed, verified and approved as exactly
  that patch; without overlap the newest decision rules.
* Plan execution: tools take effect only for reviewed plans; the queue tells what
  ran; a loop reports completed only if it is; a failure ends the plans of before it.
* Task queue: tasks start after what they depend on, no list gets stuck, and for
  one request at a time the file is an ordinary task board.
* Session memory: a restriction that was acknowledged stays and is heeded; the
  records of a question agree; nothing leaves the log.
* Session page: what is shown together belongs together, an offered action is one
  the page carries out, and following the guide leads to a report.
* Snapshots: the newest acknowledged snapshot can be restored exactly; a capture
  misses no change.
* Repair: a remote model is called only if everybody concerned opted in, and is the one
  that was judged; a diff is of the files the repair was for; the report is what the
  caller was told; every attempt ends.

`PROJECT.json` lists every hazard at its line, with the properties that watch it.

## 2. Modules

```
PatchApply      <- MCPatchApply,   PatchApplyProofs
GatedApply      <- AgentLoop (refines)
AgentLoop       <- MCAgentLoop,    AgentLoopProofs
ApprovalFlow    <- MCApprovalFlow, ApprovalFlowProofs
PlanRuntime     <- MCPlanRuntime,  PlanRuntimeProofs
TaskBoard       <- SessionTasks (refines, without overlap)
SessionTasks    <- MCSessionTasks, WorkflowProofs
SessionMemory   <- MCSessionMemory, SessionMemoryProofs
WorkflowGuide   <- SessionPage <- MCSessionPage, WorkflowProofs
Snapshots       <- MCSnapshots,    SnapshotsProofs
RepairAttempt   <- MCRepairAttempt, RepairAttemptProofs
```

### PatchApply

One action per stretch of code between two awaits. `phase[r]` is where the call
`r` of `run()` is, and its status once it returned; `opIndex`, `issue`, `results`
are the loop variable, "an error issue was recorded" and `operationResults`.

| code | action |
| --- | --- |
| `run()` up to the content check: applyId, approval policy, validator, path checks | `Start` |
| `PatchCurrentContentVerifier.verify`, one operation; the file cannot be read | `VerifyContent`; `ContentUnreadable` |
| `GitWorkingTreeGuard`, and the decision to block, to stop a dry run or to go on | `Guard` |
| `applyOperation`: the last path gate throws | `GateRefuses` |
| `applyOperation`: path gate, `PatchBackupWriter.backup` | `OpenOperation` (with `BackupOutcomes`) |
| `applyOperation`: `rm`; the two halves of `writeFile`; append to the results | `RemoveTarget`; `TruncateTarget`, `FillTarget`; `Done` |
| `reporter.write` of a result, return | `Report` |
| an exception in the `try`; one outside it | `IOFails`; `Throws` |
| `rollback()`: validation; a refused operation; `rm`; the two halves of `writeFile`; return; `catch` | `RollbackStart`; `RollbackSkips`; `RollbackRemoves`; `RollbackTruncates`, `RollbackFills`; `RollbackEnds`; `RollbackIOFails` |
| the editor, git, a symbolic link, the clock, a killed process | `UserEdits`, `UserCommits`, `PathBecomesLink`, `Tick`, `Crash` |

A run whose phase is one of `Reporting` writes its report; the report of an applied
result is written inside the `try`, so a failure of it makes the result a failed one, and
the report of any other result outside, so a failure of that leaves the caller without a
status (`"threw"`). `writeFile` empties the file and then fills it: a failure or a kill
in between leaves it `Torn`, and of writers that hold one file open at a time `Filled` says
what is left in it.

Abstractions: a content is a model value; protected paths and the verdict of the
quality rules are a set of files; the path checks of `run()` are merged into
`Start`; a backup is one step, whose outcomes are those of its read, its folder and its
copy; that git fails, or that there is no repository, is a free choice at `Guard`;
`.runtime/` is assumed to be ignored by git, as the repository's own is. `applyId` is the
millisecond of the call, so two runs started in one millisecond share a backup folder: the
model keeps this (`stamp`), and `SharesStamp` names it where a property excludes it.

`Sound(r, f)` is the condition under which the code's own bookkeeping identifies
what a run overwrote: a backup folder of its own, one operation per file, a file that can
be read and copied (`FaultyBackups` are the others: `PatchBackupWriter` takes any failure of
the read, of the folder or of the copy for a missing file), nobody writing the file between
its backup and the write. Recoverability and rollback are stated under it. Each part is
needed: TLC finds a counterexample when one is dropped, and section 5 tells what each one
means. A rollback, in addition, promises nothing of a file whose restoring was cut short
(`CutShort`) or which another wrote in the middle of it (`overlaid`).

### AgentLoop and GatedApply

`disk` and `file` are `agent-loop-state.json`: absent, torn, or whole with that
content. A process `p` is `idle`, at `work`, about to `store` its copy
`mem[p]`, `writing` it, or writing to a file that was removed (`orphan`). `Begin*` are the
commands (`BeginStart`, `BeginStep`, `BeginRun`, `BeginDecide`, `Reset`); the
actions from `Cancel` to `ReportResult` are the cases of `AgentStepExecutor.execute`, with its
guards, its blocked and failed outcomes; `OpenFile` and `WriteFile` are
`AgentLoopStateStore.save`. A write over another command's finished text may
leave that text's tail behind. `Crash` kills a process anywhere.

Abstractions: the read-only kinds are a constant sequence (they differ in the tool they
call, not in what they do to the loop); a fingerprint is the identity of a proposal;
the runner applies, fails half way, refuses or throws (what it does then is
`PatchApply`); an approval's id is its position. `selectAction`, `cancel`,
`complete` of `InteractiveAgentLoop` and the action `scaffold_module` are reached by no command
and are left out.

`GatedApply` is the promise without files and processes: propose, ask, decide,
apply, revalidate, complete. `AgentLoop!KeepsPromise` is its specification under
the mapping `ViewLoop ... ViewRevalidated`, where the loop is what the process
that is about to save holds.

### ApprovalFlow

`previews` are the diff previews of a session; `file` and `doc` are
`decisions.json` as text and as `load()` reads it; a handler `h` is at `pc[h]` in the
`job[h]` it was called with, and holds the document `mem[h]` it loaded. `answers` and
`reported` are what the server answered and callers may send back.

| code | action |
| --- | --- |
| `generatePatchDiff` | `GenerateDiff` |
| `resolveApproval`, `ApprovalCenter.decide` | `StartDecide` (with `Listed`, `Enabled`, `NormalizedFiles`) |
| `session.load` throws | `DecideFails` |
| `ApprovalDecisionStore.save`: load, truncate, write | `LoadDecisions`, `OpenDecisions`, `WriteDecisions` |
| session log, answer | `AnswerDecision` |
| `applyRuntimePatch`: call; `findLatest`, `assertSandboxPassedForApply`, `PatchApplyAuthorization.authorize`; bridge and runner | `StartApply`; `Lookup`; `RunApply` |
| the server is killed and started again | `Crash` |

Abstractions: the document keeps the newest decision of each preview, since
`findLatest` takes the last match; a preview's id, a millisecond, is its position; a
dry run, which neither needs an authorization nor writes, is left out; the
session log is a call that may fail; the verification result of a patch is a
constant, `Passing`, because the caller sends the result along; that a snapshot exists is the
caller's word and constrains nothing. `decided`, `standing` and `disturbed` are
history: every decision taken, the newest recorded on each preview, and whether a
read of the store overlapped a save or a kill interrupted one.

### PlanRuntime

`phase`, `objective` and `review` are what `AgentRuntime` keeps in memory, `plans` the
objective each plan was generated for, `queue[p][s]` the engine's status of step
`s` of plan `p`. A caller `c` is at `local[c].pc` in the call it made: a single
call (initialize, accept, generate, approve, make ready, one of the four executing
calls) or `RuntimeLoop.runOnce`, which is the sequence of them from accept on.

| code | action |
| --- | --- |
| `initialize`, in any phase: context loaded, `markInitialized`, progress entry, catch | `LoadContext`, `MarkInitialized`, `Initialized`, `InitializeFails` |
| a call or a loop is made | `Begin` |
| `acceptObjective`: set, persist, catch | `AcceptObjective`, `Accepted`, `AcceptFails` |
| `generatePlan`: ask, retry, give up, plan and validation, persist or throw | `GeneratePlan`, `RetryGeneration`, `GenerationFails`, `PlanArrives`, `PlanPersisted` |
| `approveActivePlan`, `markActivePlanReadyForExecution`, their persisting, the wrong review status | `ApprovePlan`, `MarkReady`, `ReviewPersisted`, `Refused` |
| `executeStep`, `executeNextStep`, `executeSequential` up to the tool; the tool; the history | `Execute` (`StartStep`, `StartNext`), `ToolReturns`, `HistoryAppended` |
| `RuntimeToolController.executeStep` without the engine | `Execute`, `DirectReturns` |
| `RuntimeLoop`: after the result, recovery, report, catch | `Decide`, `Recovered`, `Reported`, `RecordFails` |

Abstractions: a plan is the objective it was made for; that the tool layer refuses
or fails a step of a ready plan is a free choice; the files written for a reader
are calls that may fail; a recovery is evaluated and reported and its advice is
acted on by nothing in the repository; the phase `initializing` ends before the first
await and is never seen. `initialize` looks at no phase, so it is a call like any other:
it brings a failed runtime back and interrupts a planning one. `readied`, `ran`,
`touched`, `reports` and `abandoned` (the plans of before the last failure) are
history. `overlap` is fixed at the start: the callers of the repository make one
call after another, and what holds only of that says so.

### SessionTasks and TaskBoard

`file` is `tasks.json` as a reader finds it: absent, empty (truncated), torn (two
writes over each other) or whole; `local[h]` the request `h` works on. `Begin`
takes a request, `Load` reads the file and does what the operation does in memory
(`AddTask`, `MoveTask`, `Prepare` with its list of default tasks), `Truncate`, `Created`
and `Saved` are the two halves of `save`, `Answer`, `Fails` and `Crash` end requests.
A task is its identifier, which the code makes of the title and the millisecond
(so two tasks may share it), its dependencies and its status. Of a title the model keeps
which default task it is of, if any: `Asked`, what callers ask, may add a task of a
default's title, as `createDefaultTasks` of the page does for all of them. What the
proofs say holds of every `Asked`.

`TaskBoard` is what one caller at a time is promised: a list that only grows and
whose tasks move along the status graph, in order, until its file is damaged. The mapping
takes the list being written for the list (`Stored`), since a truncated file is an
unfinished save and not an empty board, and `Readable` tells whether there is one.

### SessionMemory

`files` are `answers.json`, `decisions.json` and the session's log. `LoadEarly` is the load
of handlers that read the session before their long work (`Work`: a plan, a
command), `Load` the load of a store's own operation with the change it makes; `Open`
truncates, and `AnswerWritten`, `DecisionWritten`, `MessageWritten`, `LogWritten` fill
and go on to the next store; then `Acknowledge`. Of a statement the model keeps what
`DecisionApplier` looks for in it: a category and which of the sought words,
whether it forbids, whether it permits. `Mapped` and `Inferred` are the two ways an
answer becomes a statement, with the question known and with a question
reconstructed from its identifier; `Context` is what a list of decisions blocks and
allows. `settled`, `open` are history: what acknowledged requests blocked, and questions
whose last answer was not acknowledged.

`overlap` is `"none"`, `"one decides"` (requests overlap, but one at a time writes
decisions) or `"all"`: the middle one is what the page does, which waits for an
answer but generates plans and sends messages meanwhile.

### WorkflowGuide and SessionPage

`WorkflowGuide` is pure: `StepStatus(a, step)` and `NextAction(a)` translate the
state machine and the resolver of the server, for an `a` of what a session has produced.

`SessionPage` shows it to a user. `page` is the React state that counts (plan,
proposal, preview, sandbox result, recovery, snapshot, apply, rollback, report,
questions), `call` the handler that awaits the server, with the page it was clicked
in (`call.seen`), `posts` the guides asked for and not answered, `due` the 150 ms timer of
the effect. `Click` and `FollowGuide` run a handler if its early returns let it;
an action named after each answer (`PlanArrives`, `SandboxArrives`, ...) sets and clears what
the handler does; `LogArrives` is the session event logged afterwards,
`HandlerEnds` the guide some handlers ask for themselves, from their own closure.
`PrepareRepair` is `PatchRecoveryLoop` (of the numbers in `Attempts` the page itself
only ever sends none, which is 0; the others are a client's that counts its attempts, so that
what comes after a repair is checked too), `SandboxPassedForApply` the server's check of the
sandbox result the page sends back. The names of the module (`PageSpec`, `PageTypeOK`, ...)
are its own, because `WorkflowProofs` extends it beside `SessionTasks`: the page and the task
queue are the two halves of a session's workflow.

Abstractions: the user waits for a handler before the next click (guides and
the refreshing of questions run beside it); of a selection of files, that
it is one. What the server checks of a decision is `ApprovalFlow`, what it writes
`PatchApply`.

### Snapshots

`disk` is the project, `before`, `after` and `manifest` the session's snapshot folder,
`refused` the files the path policy refuses. A request `h` is at `pc[h]`, holding `job[h]`.

| code | action |
| --- | --- |
| `create`: call, blocked files | `BeginCreate`, `CreateBlocked` |
| per file: read, `writeFile` opens, fills; the `catch` that lists it as missing | `ReadTarget`, `OpenCopy`, `FillCopy`, `CopyFails` |
| the manifest, the answer | `OpenManifest`, `FillManifest`, `CreateReport` |
| `captureAfter` and `restore`: the manifest read, or not | `BeginOn`, `Load`, `LoadFails` |
| `captureAfter`: read, copy or not, compare with the copy before | `ReadCurrent`, `OpenAfter`, `FillAfter`, `AfterFails`, `Compare` |
| `restore`: delete what did not exist, or read the copy and write it; refused | `Delete`, `ReadCopy`, `OpenTarget`, `FillTarget`, `RestoreFails` |
| answers, exceptions | `Report`, `IOFails` |
| the user or a patch, a symbolic link, a killed server | `Edit`, `PathBecomesLink`, `Crash` |

Abstractions: a snapshot's identifier, which nothing reads again, is the number of
its request; `rollback.patch`, which nothing reads either, is a write that may
fail; a request names no file twice. `newest`, `captured`, `acknowledged` are history.

### RepairAttempt

An attempt `a` is a repair command in a process of its own, at `pc[a]`. `ask[a]` is what
its user or its agent asked, `env[a]` what the environment variables of its process say,
`decision[a]` the verdict of the model policy, `sent[a]` the request. `stage[a]` is
the validation of the project that goes first, or the repair; both write the same file.

| code | operator or action |
| --- | --- |
| `AgentProviderPolicy.evaluate`; the command `requestRepairProposal` makes of it | `AgentAllows`; `AgentCommand` |
| `--allow-real-provider`, `OpenRouterConfigLoader.load` | `Configured`, `ModelOf` |
| `RepairModelPolicy.evaluate`, `ModelBudgetController.check` | `Decision`, `WithinBudget`, `Tier`, `Risk` |
| `repair()`: validation, targets, provider made or refused | `Begin`, `Validate`, `CreateProvider`, `ProviderRefused` |
| `RepairContextBuilder.build` | `BuildContext` |
| `PolicyAwareRepairProposalProvider.propose`: local or fallback; remote | `ProposeLocally`; `Send` |
| `createChatCompletion`: headers, body, error or unusable answer, abort | `Headers`, `Body`, `AnswerUnusable`, `TimerFires` |
| `PatchSafetyValidator.validate`, `createDiffPreviews` | `ValidateProposal`, `Preview` |
| `reporter.write`: truncate, fill; the `catch` block, and its own failure | `OpenReport`, `FillReport`; `StepFails`, `ReportFails`, `ReportFailsAgain` |

Abstractions: a model's name is what the two readers of names make of it (premium or not to
the agent's policy, a tier to the budget); a proposal is its operations and whether
the path, threat or quality rules object; parsing and scanning an answer is `AnswerUnusable` or
`Body`; the parser's refusal and the bridge's are one. What is asked is chosen at
`CreateProvider`, since nothing before depends on it. The cost limit is left out: no price
in the catalogue reaches it within the token limits. A killed command leaves no state but
the report and is not modelled.

## 3. Runs

| run | distinct states | instance | shows |
| --- | --- | --- | --- |
| `patch_race` | 4.15 M | 2 runs, 1 rollback, 2 files, 3 racing requests, 2 milliseconds, 1 environment step | `OverwrittenIsBackedUp`, `RollbackRestoresOriginal` |
| `patch_gates` | 321 K | 1 run over 12 request shapes, with or without a repository, 1 rollback with any input, 2 files, one of them protected and one with backups that may fail, 2 environment steps | `WritesAreGated`, `OnlyFailuresArePartial`, and under fairness `EveryRunReturns` |
| `agent_serial` | 177 K | 1 process, 2 proposals, every step kind, 2 requests | `KeepsPromise`, and under fairness `EveryCommandEnds` |
| `agent_overlap` | 1.32 M | 2 processes, 2 proposals, 1 kill | `AppliedWasGranted`, `ApprovalsNameProposal` |
| `approval_flow` | 1.91 M | 2 handlers, 2 proposals (one of two files, one of one), 3 calls, 1 restart | `AppliedWasCleared`, `NewestDecisionRules` |
| `plan_runtime` | 2.30 M | 2 callers, 2 plans of 2 steps; 5 calls in sequence or 3 that overlap, initializations included | `OnlyReadyPlansTakeEffect`, `RunningStepsHaveARunner`, `QueueTellsWhatRan`, `CompletedLoopsRanTheirSteps`, `ActivePlanServesObjective`, `FailureEndsPlans` |
| `session_tasks` | 2.80 M | 2 requests at a time, 2 default tasks, 2 milliseconds, added tasks of a title of their own or of a default's; 6 requests in sequence or 4 that overlap, 1 kill | `StartedAfterDependencies`, `AlwaysATaskToDo`, `DefaultsComeOnce`, `SerialFileIsABoard` |
| `session_memory` | 1.86 M | 2 requests at a time, one question with two answers, one rule of the user's, 3 requests, 1 kill | `TypeOK`, `BlockedIsPreserved`, `PlanHeedsDecisions`, `RecordsAgree`, `LogOnlyGrows` |
| `session_page` | 322 K | 2 sessions, 4 proposals, 3 plans, attempts left out, first and third, 1 thing outside the guide | `PageTypeOK`, `ShownBelongTogether`, `GuideFollowsRender`, `OfferIsActedOn`, and under fairness `GuideLeadsOn` |
| `snapshots` | 1.92 M | 2 requests at a time, 2 files, the copies of one of which may fail, 2 contents, 3 requests, 1 edit or link, 1 kill | `TypeOK`, `AcknowledgedIsRestorable`, `RestoreBringsBack`, `UnreportedIsUnchanged` |
| `repair_attempt` | 514 K | 1 attempt of any kind beside a plain one, 2 files, 4 models, 4 answers, prompts on both sides of the limit | `RealCallsAreOptedIn`, `SentIsJudged`, `DiffIsOfTheRepair`, `ReportIsTheResult`, and under fairness `EveryAttemptEnds` |
| `approval_lost_rejection` | small | smallest that shows it | one refuted statement, section 5 |

The type invariant of every module is proved (section 4), so most runs leave it out.

### Why the bounds are enough

* *Files and contents*: a file that is modified and one that is created, and
  three contents, so that original, patched and edited contents differ.
* *Two runs, processes, handlers, callers*: every lost update, torn file and
  stale read here is between two actors; a third repeats the role of one of them.
  The proofs cover the rest for the properties proved.
* *`MaxEnv`, `MaxEdits`, `MaxCrashes`*: one disturbance anywhere, two for a single run. The
  properties are about what a single disturbance in the wrong place leaves behind.
* *`MaxStamp` = 1, `MaxTime` = 2*: two milliseconds are enough for runs and tasks
  that do and do not share one.
* *Calls*. `MaxCalls` = 3 in `approval_flow`: two decisions and an apply, or a
  decision and two applies, in every interleaving (a decision on a rollback request
  needs an apply before it, so here it is the last call; the theorems cover what an
  apply makes of it afterwards). In `session_memory`: two answers and a
  plan, or an answer, a rule and a plan. In `snapshots`: a snapshot, another or
  a capture, and the restore. Where requests come one after another
  they need more calls to get anywhere, and cost less: `plan_runtime` makes
  five then (initialize, accept, generate, approve and make ready, or a loop, which does all
  of that and executes, and calls before and after it), `session_tasks` six
  (prepare a workflow, add a task, start and complete two).
* *`MaxPlans` = 2, `NSteps` = 2*: a second plan while the first runs; a step after a
  failed one, and a run cut short.
* *`NDefaults` = 2, one dependency*: the second default task depends on the first,
  and a caller's task on an earlier or, through a shared identifier, a later one.
* *`MaxRequests` = 2*: an older approval and a newer request.
* *`MaxPreviews` = 1*: the decisions on different previews do not meet except
  through the answers callers keep, and a preview other than the patch's is
  already an apply the checks refuse.
* *`session_page`*: four proposals are a patch, its repair, the repair of that and a
  new patch; the three plans are a read-only, a risky and a rejected one. `MaxExtras`
  is one click, failure or late answer outside the guide, anywhere. One is not enough for
  every exception of `OfferIsActedOn`: a rollback that outlives its patch takes two clicks
  beside the guide and a rejected plan, and was met in the proof, which has no such bound.
* *`repair_attempt`*: attempts share nothing but the report file, so one of them is
  asked everything and the other only writes. The models are one of each tier and one
  that is premium to the agent's policy only; completions of 1200, 3000 and 9000
  tokens are within both limits, over the budget's, over both.
* Symmetry (processes, proposals, handlers, callers) is used only in runs
  without liveness.

The `agent_*` runs check for deadlock: a user can always give another command. In the
other runs the system really may stop, when every call is made or the user has
what he wants, so they do not.

### Fairness

`PatchApply!Fairness` is weak fairness of every run's and rollback's next step:
Node resumes each settled await, and every await of these functions settles
(files, `git status`). Exceptions, crashes and the environment are not fair: what
`EveryRunReturns` says of a call that throws is that it has ended.
`AgentLoop!Fairness` is weak fairness of `Proceed(p)` of each started process: it
keeps running and its tools return. `EveryCommandEnds` therefore says that the
loop itself ends, not that a provider answers. A user's commands are never fair there.
`SessionPage!FairSpec` assumes that requests are answered and timers fire and that
the user starts a session and does what the guide offers: `GuideLeadsOn` is about a user who
follows. Nothing else is fair: no click outside the guide, no failure, except that a
refused apply does fail. `GuideLeadsOn` also assumes that questions stop coming
back, and excepts the places where the guide is known to lead nowhere, which
`Stalled` lists one by one.
`RepairAttempt!Fairness` is weak fairness of an attempt's own steps and of its timer,
which Node runs; the server is not fair, so `EveryAttemptEnds` holds of a server that
stays silent.

## 4. Proofs

All theorems hold for any values of the constants that satisfy the `ASSUME`s of the modules.

| theorem | states |
| --- | --- |
| `PatchApplyProofs!TypeCorrect`, `GatedWrites`, `NoTraceOfBlockedRuns`, `OverwrittenBackedUp`, `RollbackIsExact` | `TypeOK`, `WritesAreGated`, `OnlyFailuresArePartial`, `OverwrittenIsBackedUp`, `RollbackRestoresOriginal` |
| `AgentLoopProofs!TypeCorrect`, `OnlyGrantedIsApplied`, `RequestsNameTheProposal` | `TypeOK`, `AppliedWasGranted`, `ApprovalsNameProposal` |
| `AgentLoopProofs!SerialLoopKeepsPromise` | `KeepsPromise`, for one process that is not killed |
| `ApprovalFlowProofs!TypeCorrect`, `AppliedCleared`, `NewestRules` | `TypeOK`, `AppliedWasCleared`, `NewestDecisionRules` |
| `PlanRuntimeProofs!TypeCorrect`, `OnlyReadyPlans`, `RunnersExist`, `QueueIsTrue`, `LoopsComplete`, `ReviewServesObjective`, `PlansEndWithTheirRuntime` | `TypeOK`, `OnlyReadyPlansTakeEffect`, `RunningStepsHaveARunner`, `QueueTellsWhatRan`, `CompletedLoopsRanTheirSteps`, `ActivePlanServesObjective`, `FailureEndsPlans` |
| `WorkflowProofs!TypeCorrect`, `StartsAreInOrder`, `WorkGoesOn`, `DefaultsAreUnique`, `SerialIsABoard` | `TypeOK`, `StartedAfterDependencies`, `AlwaysATaskToDo`, `DefaultsComeOnce`, `SerialFileIsABoard`, of the tasks |
| `WorkflowProofs!PageTypeCorrect`, `PageGuided`, `PageBelongsTogether`, `GuideIsOfRender`, `OfferedIsActedOn` | `PageTypeOK`, the inductive invariant, `ShownBelongTogether`, `GuideFollowsRender`, `OfferIsActedOn`, of the page |
| `SessionMemoryProofs!TypeCorrect`, `IInvHolds`, `RestrictionsStay`, `PlansHeed`, `RecordsStayTogether`, `LogGrows` | `TypeOK`, the inductive invariant, `BlockedIsPreserved`, `PlanHeedsDecisions`, `RecordsAgree`, `LogOnlyGrows` |
| `SnapshotsProofs!TypeCorrect`, `IInvHolds`, `AcknowledgedRestorable`, `RestoreIsComplete`, `CaptureHidesNothing` | `TypeOK`, the inductive invariant, `AcknowledgedIsRestorable`, `RestoreBringsBack`, `UnreportedIsUnchanged` |
| `RepairAttemptProofs!TypeCorrect`, `OptedIn`, `JudgedIsSent`, `DiffIsTheRepairs`, `ReportTrue` | `TypeOK`, `RealCallsAreOptedIn`, `SentIsJudged`, `DiffIsOfTheRepair`, `ReportIsTheResult` |

Each rests on an inductive invariant and its proof has one lemma per action.

* **PatchApply.** `WritesAreGated` says nothing of a run between its gates and its
  first write, so it is not inductive. `GateInv` carries the verdict through: an
  issue found early is still recorded at the guard, and a run past the guard has a
  gated request. `LoopInv` keeps `CurrentOp` inside the request, `BackupInv` and
  `RollbackInv` make every backup a rollback reads exist (without them `TypeOK`
  fails at `RollbackTruncates`), `TraceInv` is `OnlyFailuresArePartial` for all
  phases before a write. What the backups hold is a second invariant on top of it,
  `BackupsKeepOriginals`, of each run and each rollback: results are those of the first
  operations, in their order (`ResultsInv`), so a file about to be written has none yet and was
  not overwritten before, unless the request names it twice (`OriginInv`); the way a file
  was backed up tells what it holds until it is written, and what it held from then on
  (`CopyInv`); what a rollback is about to write back, and what it has left in a file, is what
  the run overwrote (`RestoreInv`). One lemma per step says what it keeps for the one that
  takes it, and `RunUntouched` and `RollbackUntouched` what it keeps for all others.
* **AgentLoop.** The point is that consistency is a property of a *copy*
  (`Consistent`): no command combines two copies, so lost updates, torn files and kills move
  consistent copies around and cannot make an inconsistent one. `granted` only
  grows.
* **Refinement of `GatedApply`** (in `AgentLoopProofs`). Strengthens `IInv` for one process: at most one copy
  is live, the file on disk is the one that copy came from. Each step then maps
  to a step of `GatedApply` or to a stutter.
* **ApprovalFlow.** `Provenance`: whatever sits in the store, in a handler or with a
  caller was once decided by a user. `ClearedToRun`: an apply past its checks
  still satisfies them, because previews, `Passing` and `decided` never shrink.
  `Quiet`: without disturbance at most one handler saves, from the newest
  decisions. `NewestDecisionRules` follows from `Quiet` at the one step that lets
  an apply through.
* **PlanRuntime.** A call goes by the review it read at its start, so the
  invariant follows that copy: whoever is past the gate holds a review that was
  made ready (`OnlyReadyPlans`). For `QueueIsTrue` calls do not overlap, so at
  most one is under way and only its step may be between the tool and the queue.
  `PlansInv`: objectives are numbered from 1, so a plan in use was generated, and
  without overlap for the objective its caller waits with. On top of both,
  `LoopsAreInOrder`: the plan a loop goes to execute is fresh, and then it is executed
  up to the loop's step and pending after it, with the step and what is left making up
  the `max` asked for. `AbandonedRest`: while a plan of before a failure is still under
  review the runtime is neither ready nor planning, for both ways back, `markInitialized`
  and a new objective, clear the review.
* **SessionTasks.** `StartsAreInOrder` needs nothing of interleavings: a list is
  only ever written by a request that derived it from one list it read, and each
  operation keeps a list in order; two texts over each other are no list. Nor has
  such a list a circle of dependencies, so not every open task waits for
  another one (`WorkGoesOn`). For `DefaultsAreUnique`, a request that prepares has
  added the defaults before the one whose turn it is, to the file it loads or the list it
  saves, and neither has a task of anybody else's (`OnceInv`): what callers added before
  makes it add none, whatever the titles. For the
  refinement, without overlap the one request that saves derived its list from the
  file, so that the board's list moves when the file is truncated and stays when it
  is filled.
* **SessionPage.** A handler sets its result in whatever the page shows by then, so the
  invariant has to say that this is still what the result is of. `Fits`: while a handler
  awaits its result, the session is the one it was clicked in and the page differs from the
  one in its closure in what the server asks only (`Alike`); what its early returns let
  through (`WasReady`) therefore still holds. That rests on the user waiting for a handler, the
  abstraction of section 2. `Belong` is `ShownBelongTogether`, with an empty page when there is
  no session; `Follow` is what the steps leave behind (a preview is of a valid proposal, a
  recovery of one that failed in the sandbox, a rollback of an apply). One lemma per result
  (`PlanHolds` to `ClearedHolds`) shows that what it sets keeps both. `GuideInv` is about the
  newest guide asked for since the page last changed: it is the guide of the page while
  it is awaited and once it has arrived, whatever older ones arrive in between.
  `OfferIsActedOn` needs no step of its own: it follows from `Belong` and `Follow` by the step
  the server offers, of which `CurrentStepIs` says that it is to be done or is the report.
* **SessionMemory.** The properties are about files, which say nothing while they are
  truncated, so a list is followed from the file it was read from, through the request
  that holds it, to the file it is saved to. `TypeInv` has the place of each request: what it
  may be saving there, and that the decision it carries was made of its own answer.
  `HeedInv`: at most one request decides, and what is settled, with what it blocks, is
  in the list it is about to save or in the decisions file. `SerialInv`: with one request at a
  time the list it saves says the same of every question as the one it replaces, but
  for the question it answers, which is open until it is acknowledged; and the list of the
  log continues the file. What `Others`, `FirstAnswer`, `Latest` and `Blocked` say of a
  longer list is induction over its length, which the library's theorems cannot be used
  for here; `Least` and `Induction` derive it, of sets of numbers, from the
  well-foundedness of inclusion among finite sets.
* **Snapshots.** The folder is the newest snapshot's as long as nothing was begun
  beside it (`NewestInv`). `CreateInv` follows the request that takes it: what it has
  listed is copied as it was read, what is left is not listed, and the manifest is its
  own once filled. `UseInv` follows captures and restores through the lines of
  that manifest; only for `UnreportedIsUnchanged` must no other capture run, since
  captures share the copies under `after/`.
* **RepairAttempt.** What an attempt may send is decided before it sends. `Placed` says
  what is known of it at each place (in particular that whoever is past `CreateProvider`
  and remote is configured), `Cleared` ties a request to the decision and, through
  `Command`, to what was asked, `Kept` carries the validator's verdict to the preview.
  `Reported` is about the shared file: one who is about to fill it knows that somebody
  opened it, so that a second text never passes for its own.

Only model-checked: the liveness properties `EveryRunReturns`, `EveryCommandEnds`,
`GuideLeadsOn` and `EveryAttemptEnds`, which need fairness and `ENABLED` and are beyond the
proof system used. Every other property of a passing run is stated by a theorem.

## 5. Where code and statement differ

| run | statement | what the code does |
| --- | --- | --- |
| `approval_lost_rejection` | a rejected patch is not applied | a later refusal is lost by overlapping saves, or unreadable, and the earlier approval is believed |

The quoted line is in `PROJECT.json`, `findings`. The properties of the passing runs
name, in their exceptions or in the comment above them, what they had to leave out;
these are facts about the code met that way, each of them read in the code.

*Patch apply and rollback*
* An edit saved between a file's backup and its write is in no backup
  (`patch-apply/PatchApplyRunner.ts:287`; compare `docs/cli-agent.md:181`).
* A failed read or a failed copy at backup time is taken for a missing file: the run
  overwrites the file without a backup of it, and rollback deletes it
  (`patch-apply/PatchBackupWriter.ts:35`).
* A write cut short leaves its file empty or in part, and no operation result tells of
  it (`patch-apply/PatchApplyRunner.ts:287`): the file is in the backup folder, but
  `rollback()` refuses a failed result, and one of a killed process there is none. A restore
  cut short does the same to its file (`patches/RuntimePatchRollback.ts:153`), and can be
  repeated.
* A result that is not an applied one is lost when its report cannot be written: `run()`
  throws, after what a failed run has left in place (`patch-apply/PatchApplyRunner.ts:194`).
* Two operations on one file share a backup slot (`patch-apply/PatchBackupWriter.ts:27`;
  the rule against it, `PatchQualityEvaluator`, is not on every path).

*Agent loop and approvals*
* The gate reads the copy of the loop loaded when the command started, so an apply may
  go by an approval since withdrawn (`agent/AgentStepExecutor.ts:70`).
* The report step asks whether apply and revalidation ran, not in which order
  (`cli/CliRuntimeBridge.ts:855`).
* The decision on a risk request is read by nothing (`approval/ApprovalCenter.ts:233`,
  `api/RuntimeApiController.ts:1286`).
* After a partial approval the UI regenerates a filtered preview, so the stored
  decision no longer matches and the apply goes by the decision in the request
  (`ui/src/pages/SessionPage.tsx:1078`, `:1602`); and decisions are never used up.

*Tasks*
* The page's button for default tasks looks at no list and adds its four tasks again
  (`ui/src/pages/SessionPage.tsx:536`): after a prepared workflow, or a second click, each
  is listed twice. A preparation that failed half way is not completed by the next one
  (`workflow/RuntimeWorkflowOrchestrator.ts:130`). `DefaultsComeOnce` is about what one
  preparation adds.

*Session memory*
* An answer to a question that is no longer generated finds a reconstructed one,
  which has lost the category `architecture`: `database_readonly` then blocks nothing
  (`api/RuntimeApiController.ts:2676`).
* A statement that says only the frontend is meant blocks backend and frontend.
* Two deciders at a time may lose a hard rule.

*Session page and recovery*
* The first recovery the page asks for is refused as not recoverable: it sends no
  attempt number, `optionalNumber` makes 0 of it (`api/RuntimeApiController.ts:3025`), so
  `?? storedAttemptCount + 1` (`:1110`) is never taken, and the loop refuses attempts below 1;
  `examples/patch-recovery-auto-attempt-test.ts:113` expects it to be ready.
* A rejected repaired proposal is offered for preview, which the page refuses.
* A read-only plan drops the patch but not its recovery
  (`ui/src/pages/SessionPage.tsx:1318`), nor its rollback: after a rollback was tried dry,
  a read-only plan and a rejected one, the server offers a rollback the page refuses for
  want of an apply. A new plan keeps the old proposal.
* After a partial approval the sandbox result names the filtered proposal, which a
  recovery does not recognise; the server never compares a recovery's proposal with the
  one it repairs.
* Guides asked for from an old closure (`handleApprovalDecision`, `resumeSession`)
  may be the last to arrive, and stay.
* Questions answered come back after a routed command; the guide stays on
  rollback after an apply.

*Snapshots*
* A session has one folder, so a second snapshot, even one that is refused, spoils
  the first one's copies.
* A file whose copy fails to be read or written is listed as missing, and a restore
  deletes it (`workspace/LocalSnapshotManager.ts:76`). The properties except such files.
* A file deleted between two captures may be missed by the second. The page calls
  neither capture nor restore.

*Repair* (compare `README.md:129`, "No premium model without approval.")
* `ZERO_OPENROUTER_MODEL` or `OPENROUTER_DEFAULT_MODEL` replaces the model the agent's
  policy judged (`providers/OpenRouterConfigLoader.ts:47`); the budget judges the one sent,
  by other rules. `RealCallsAreOptedIn` excepts it.
* Names with `mini` or `flash` are cheap to the budget and others are taken as free
  (`providers/RiskBasedModelSelector.ts:142`), so a user's repair may send to a model the
  agent's policy would call premium without any approval.
* A repair never rates its risk `high`, so a model of the premium tier is refused even when
  approved (`repair/PolicyAwareRepairProposalProvider.ts:75`, `providers/ModelEscalationGuard.ts:10`);
  and `allowPremium` is not looked at for a requested model.
* The completion budget is checked against the estimate; what is sent as `max_tokens` is
  `ZERO_OPENROUTER_MAX_TOKENS`. A `ZERO_OPENROUTER_TIMEOUT_MS` above 2^31 - 1 makes the
  timer fire at once.
* `.runtime/real-project-trial.md` is the report of inspections, validations and
  repairs alike, in the directory the command runs in.
* A target larger than the context's byte budget counts as missing, and the local provider
  proposes to create it with no content (`repair/RepairContextBuilder.ts:55`).
* `checkSessionCost` is called by nothing.

## 6. Not modelled, and the plan

Planned, in this order:

1. **Composition** of `AgentLoop` and `PatchApply`: a command killed after the
   write and before the save, and the second apply that follows.
2. **SessionPage**: clicks while a handler runs, and its late result.
3. **ProviderFallback** (the providers of plans: routing, fallback, usage ledger) and
   **EventBus** (subscribers that come and go).
4. ApprovalFlow as an implementation of an atomic register of decisions when undisturbed.

Not planned: argument parsing, printing and dispatch of the CLI; templates of the
scaffolder; scanning, ranking and memory; pricing and prompts; path, command and
text classification (they enter as constants, sets of files or free choices); the
verification commands and their temporary copy of the project; the views of the React
client that only show; the examples, which were
read for what they promise. They are data transformation or input and output; no
control the modelled parts depend on is in them. Out of reach of these tools:
what a provider answers and how long a tool takes.
