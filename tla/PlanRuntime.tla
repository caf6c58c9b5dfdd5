----------------------------- MODULE PlanRuntime -----------------------------
(* The plan runtime: AgentRuntime holds one objective and one reviewed     *)
(* plan in memory, ExecutionEngine runs the plan's steps through the tool  *)
(* controller and keeps a queue of step states per plan, and RuntimeLoop   *)
(* strings the calls together and evaluates recovery when one fails.       *)
(*                                                                         *)
(* Every method is asynchronous and nothing is locked: between the awaits  *)
(* of one call another call may run. The callers of the repository run one *)
(* call after another; `overlap` says whether a behaviour does more.       *)
(*                                                                         *)
(* Abstracted: of a plan, the objective it was generated for; whether a    *)
(* step of a ready plan is refused by the tool layer (a command, no tool   *)
(* intent, a target or permission problem) or fails is a free choice; the  *)
(* files written for the reader (state, history and report files) are      *)
(* calls that may fail; of a recovery, that it is evaluated and recorded,  *)
(* for its advice is given to the caller and nothing acts on it.           *)
EXTENDS Naturals

CONSTANTS
    Callers,    \* whoever may have a call in progress
    NSteps,     \* the steps of a plan
    MaxPlans,   \* bound on the plans generated
    MaxCalls,   \* bound on the calls begun one after another
    MaxOverlaps,\* bound on the calls begun where calls may overlap
    Asked       \* the calls the callers make

ASSUME BoundsAssumption == NSteps \in Nat \ {0} /\ MaxPlans \in Nat
                            /\ MaxCalls \in Nat /\ MaxOverlaps \in Nat /\ MaxOverlaps <= MaxCalls

Steps == 1..NSteps
Plans == 1..MaxPlans
Objectives == 1..MaxCalls

StepStatus == {"pending", "running", "executed", "failed", "blocked"}
ReviewStatus == {"generated", "validated", "rejected", "approved", "ready_for_execution"}
NoReview == [plan |-> 0, status |-> "none"]
Review == {NoReview} \cup [plan : Plans, status : ReviewStatus]

\* The public calls of AgentRuntime: the loop, and its parts one by one.
NoCall == [op |-> "none"]
Asks ==
    [op : {"loop"}, max : 1..(NSteps + 1), auto : BOOLEAN]
    \cup [op : {"sequential"}, max : 1..(NSteps + 1)]
    \cup [op : {"step", "direct"}, step : Steps]
    \cup [op : {"initialize", "accept", "generate", "approve", "ready", "next"}]

ASSUME AskedAssumption == Asked \subseteq Asks

\* Where a call is: about to begin a part, waiting in one, or deciding what
\* to do with a step result.
Locations ==
    {"idle", "initialize", "loading", "logging", "accept", "accepting", "generate", "generating", "regenerating",
     "rejecting", "persisting", "approve", "approving", "ready", "readying", "execute", "tool",
     "directtool", "history", "decide", "recover", "reporting"}
Outcomes == {"none", "completed", "blocked", "recovery_evaluated", "failed"}

Call == [pc : Locations, ask : {NoCall} \cup Asks, goal : 0..MaxCalls, snap : Review, step : 0..NSteps,
         tries : Nat, left : Nat, last : {"none"} \cup StepStatus, caught : BOOLEAN,
         outcome : Outcomes]
Idle == [pc |-> "idle", ask |-> NoCall, goal |-> 0, snap |-> NoReview, step |-> 0,
         tries |-> 0, left |-> 0, last |-> "none", caught |-> FALSE, outcome |-> "none"]

VARIABLES
    phase,      \* AgentRuntime's phase
    objective,  \* the active objective, 0 when there is none
    review,     \* the active plan review
    plans,      \* the objective each plan was generated for, 0 before
    queue,      \* the engine's step states of each plan
    local,      \* each caller's call: where it is, what was asked, the objective
                \* it works for, the review and step it goes by, the attempts it
                \* marked, the iterations left, its latest step result, whether
                \* its loop is in the catch block, and the status it will report
    overlap,    \* whether calls may overlap
    calls,      \* the calls begun
    readied,    \* history: plans that were validated, approved and made ready
    ran,        \* history: how often the engine's tool call of a step took effect
    touched,    \* history: plans any tool took effect for
    reports,    \* history: the results loops returned
    abandoned   \* history: plans generated by the time the runtime last failed

runtime == <<phase, objective, review>>
past    == <<readied, ran, touched, reports, abandoned>>
vars    == <<phase, objective, review, plans, queue, local, overlap, calls,
             readied, ran, touched, reports, abandoned>>

NewStep == [status |-> "pending", attempts |-> 0]

Init ==
    /\ phase = "idle" /\ objective = 0 /\ review = NoReview
    /\ plans = [p \in Plans |-> 0]
    /\ queue = [p \in Plans |-> [s \in Steps |-> NewStep]]
    /\ local = [c \in Callers |-> Idle]
    /\ overlap \in BOOLEAN
    /\ calls = 0
    /\ readied = {} /\ touched = {} /\ reports = {} /\ abandoned = {}
    /\ ran = [p \in Plans |-> [s \in Steps |-> 0]]

(* ------------------------------ moving a call -------------------------- *)

At(c, l) == local[c].pc = l

Become(c, r) == local' = [local EXCEPT ![c] = r]

Goto(c, l) == local' = [local EXCEPT ![c].pc = l]

\* A loop that is not yet handling an error catches the exception and
\* evaluates recovery; every other call rejects.
Throw(c) ==
    IF local[c].ask.op = "loop" /\ ~local[c].caught
    THEN Become(c, [local[c] EXCEPT !.pc = "recover", !.caught = TRUE])
    ELSE Become(c, Idle)

\* A part of the loop is done and the loop goes on at l; a call that is no
\* loop answers.
Continue(c, l) == IF local[c].ask.op = "loop" THEN Goto(c, l) ELSE Become(c, Idle)

(* --------------------------- initializing and failing ------------------ *)

\* RuntimeState.markFailed: the objective and the review stay where they are.
MarkFailed ==
    /\ phase' = "failed"
    /\ abandoned' = {p \in Plans : plans[p] # 0}

\* initialize() looks at no phase: a runtime that is ready, planning or failed
\* is initialized like a new one. Its configuration and provider are set up
\* before the first await, so `initializing` is never seen.
LoadContext(c) ==
    /\ At(c, "initialize")
    /\ phase' = "context_loading"
    /\ Goto(c, "loading")
    /\ UNCHANGED <<objective, review, plans, queue, overlap, calls, past>>

\* Mutant: a runtime initialized again takes up the objective and plan it had.
ResumeAfterLoading(c) ==
    /\ At(c, "loading")
    /\ phase' = IF objective = 0 THEN "ready" ELSE "planning"
    /\ Goto(c, "logging")
    /\ UNCHANGED <<objective, review, plans, queue, overlap, calls, past>>

\* RuntimeState.markInitialized, with the context loaded
MarkInitialized(c) ==
    /\ At(c, "loading")
    /\ phase' = "ready" /\ objective' = 0 /\ review' = NoReview
    /\ Goto(c, "logging")
    /\ UNCHANGED <<plans, queue, overlap, calls, past>>

\* The progress file has the entry.
Initialized(c) ==
    /\ At(c, "logging")
    /\ Become(c, Idle)
    /\ UNCHANGED <<runtime, plans, queue, overlap, calls, past>>

\* The environment, the context or the progress file: also a runtime that was
\* already marked ready, and has taken an objective since, fails.
InitializeFails(c) ==
    /\ local[c].pc \in {"initialize", "loading", "logging"}
    /\ MarkFailed
    /\ Become(c, Idle)
    /\ UNCHANGED <<objective, review, plans, queue, overlap, calls, readied, ran, touched, reports>>

(* ------------------------------ beginning a call ----------------------- *)

\* Where a call starts.
Entry(op) ==
    CASE op \in {"loop", "accept"} -> "accept"
      [] op \in {"step", "next", "sequential", "direct"} -> "execute"
      [] op \in {"initialize", "generate", "approve", "ready"} -> op

Begin(c) ==
    /\ At(c, "idle") /\ calls < (IF overlap THEN MaxOverlaps ELSE MaxCalls)
    /\ overlap \/ \A d \in Callers : At(d, "idle")
    /\ calls' = calls + 1
    /\ \E k \in Asked :
        /\ k.op = "loop" => phase \in {"ready", "planning"}
        /\ Become(c, [Idle EXCEPT !.pc = Entry(k.op), !.ask = k,
                        !.goal = IF Entry(k.op) = "accept" THEN calls + 1 ELSE 0])
    /\ UNCHANGED <<runtime, plans, queue, overlap, past>>

(* -------------------------- accepting an objective --------------------- *)

\* Mutants: the old review is kept; the phase is one nobody waits for.
SetObjectiveOnly(o) ==
    /\ objective' = o
    /\ phase' = "planning"
    /\ UNCHANGED review
\* RuntimeState.setObjective
SetObjective(o) ==
    /\ objective' = o
    /\ review' = NoReview
    /\ phase' = "planning"

AcceptObjective(c) ==
    /\ At(c, "accept") /\ phase \in {"ready", "planning"}
    /\ SetObjective(local[c].goal)
    /\ Goto(c, "accepting")
    /\ UNCHANGED <<plans, queue, overlap, calls, past>>

\* The runtime is not ready; or, once past that check, the objective is not
\* valid or a state file cannot be written, and the runtime has failed.
AcceptFails(c) ==
    /\ local[c].pc \in {"accept", "accepting"}
    /\ IF At(c, "accept") /\ phase \notin {"ready", "planning"}
       THEN UNCHANGED <<phase, abandoned>>
       ELSE MarkFailed
    /\ Throw(c)
    /\ UNCHANGED <<objective, review, plans, queue, overlap, calls, readied, ran, touched, reports>>

Accepted(c) ==
    /\ At(c, "accepting")
    /\ Continue(c, "generate")
    /\ UNCHANGED <<runtime, plans, queue, overlap, calls, past>>

(* -------------------- generating and reviewing a plan ------------------ *)

\* The checks that read only memory: ensurePlanning and, for generation, the
\* budget policy; for a transition, PlanReviewStateMachine.assertStatus.
Planning == phase = "planning"

GeneratePlan(c) ==
    /\ At(c, "generate") /\ Planning
    /\ Become(c, [local[c] EXCEPT !.pc = "generating", !.goal = objective])
    /\ UNCHANGED <<runtime, plans, queue, overlap, calls, past>>

\* An answer that is empty or does not parse is asked for once more.
RetryGeneration(c) ==
    /\ At(c, "generating")
    /\ Goto(c, "regenerating")
    /\ UNCHANGED <<runtime, plans, queue, overlap, calls, past>>

GenerationFails(c) ==
    /\ local[c].pc \in {"generating", "regenerating"}
    /\ Throw(c)
    /\ UNCHANGED <<runtime, plans, queue, overlap, calls, past>>

\* The provider answers: the plan is generated, optimised and validated in one
\* go, whatever the runtime's phase and objective are by now.
PlanArrives(c, p) ==
    /\ local[c].pc \in {"generating", "regenerating"}
    /\ plans[p] = 0 /\ \A q \in Plans : q < p => plans[q] # 0
    /\ plans' = [plans EXCEPT ![p] = local[c].goal]
    /\ \/ review' = [plan |-> p, status |-> "validated"] /\ Goto(c, "persisting")
       \/ review' = [plan |-> p, status |-> "rejected"] /\ Goto(c, "rejecting")
    /\ UNCHANGED <<phase, objective, queue, overlap, calls, past>>

ThrowRejected(c) ==
    /\ At(c, "rejecting")
    /\ Throw(c)
    /\ UNCHANGED <<runtime, plans, queue, overlap, calls, past>>

\* A validated plan is on disk. A loop that may not approve stops here.
PlanPersisted(c) ==
    /\ At(c, "persisting")
    /\ IF local[c].ask.op = "loop" /\ ~local[c].ask.auto
       THEN Become(c, [local[c] EXCEPT !.pc = "reporting", !.outcome = "blocked"])
       ELSE Continue(c, "approve")
    /\ UNCHANGED <<runtime, plans, queue, overlap, calls, past>>

ApprovePlan(c) ==
    /\ At(c, "approve") /\ Planning /\ review.status = "validated"
    /\ review' = [review EXCEPT !.status = "approved"]
    /\ Goto(c, "approving")
    /\ UNCHANGED <<phase, objective, plans, queue, overlap, calls, past>>

MarkReady(c) ==
    /\ At(c, "ready") /\ Planning /\ review.status = "approved"
    /\ review' = [review EXCEPT !.status = "ready_for_execution"]
    /\ readied' = readied \cup {review.plan}
    /\ Goto(c, "readying")
    /\ UNCHANGED <<phase, objective, plans, queue, overlap, calls, ran, touched, reports, abandoned>>

ReviewPersisted(c) ==
    /\ \/ At(c, "approving") /\ Continue(c, "ready")
       \/ At(c, "readying") /\ Continue(c, "execute")
    /\ UNCHANGED <<runtime, plans, queue, overlap, calls, past>>

\* A call the runtime turns down, and a review that cannot be written.
Refused(c) ==
    /\ \/ local[c].pc \in {"generate", "approve", "ready", "execute"} /\ ~Planning
       \/ At(c, "generate")
       \/ At(c, "approve") /\ review.status # "validated"
       \/ At(c, "ready") /\ review.status # "approved"
       \/ local[c].pc \in {"persisting", "approving", "readying"}
    /\ Throw(c)
    /\ UNCHANGED <<runtime, plans, queue, overlap, calls, past>>

(* ---------------------------- running the steps ------------------------ *)

\* A call that takes steps in order, up to a limit, rather than a given one.
InOrder(k) == k.op \in {"next", "sequential"} \/ (k.op = "loop" /\ k.max > 1)
Limit(k) == IF k.op \in {"loop", "sequential"} THEN k.max ELSE 1
\* A loop of one step runs the first one.
GivenStep(k) == IF k.op = "loop" THEN 1 ELSE k.step

Pending(p) == {s \in Steps : queue[p][s].status = "pending"}
FirstPending(p) == {s \in Pending(p) : \A t \in Pending(p) : s <= t}

\* StepExecutionStateMachine.markRunning, and the call of the controller
RunStep(c, r, s) ==
    LET attempts == queue[r.snap.plan][s].attempts + 1
    IN  /\ queue' = [queue EXCEPT ![r.snap.plan][s] = [status |-> "running", attempts |-> attempts]]
        /\ Become(c, [r EXCEPT !.pc = "tool", !.step = s, !.tries = attempts])

\* A result that leaves the queue alone.
AnswerBlocked(c, r) ==
    /\ Become(c, [r EXCEPT !.pc = "history", !.last = "blocked"])
    /\ UNCHANGED queue

\* Mutant: a step that already ran is not refused.
StartStepAgain(c, r, s) == IF r.snap = NoReview THEN AnswerBlocked(c, r) ELSE RunStep(c, r, s)

\* ExecutionEngine.executeStep
StartStep(c, r, s) ==
    IF r.snap = NoReview \/ queue[r.snap.plan][s].status = "executed"
    THEN AnswerBlocked(c, r)
    ELSE RunStep(c, r, s)

\* ExecutionEngine.executeNextStep
StartNext(c, r) ==
    IF r.snap = NoReview \/ Pending(r.snap.plan) = {}
    THEN AnswerBlocked(c, r)
    ELSE \E s \in FirstPending(r.snap.plan) : RunStep(c, r, s)

Execute(c) ==
    LET k == local[c].ask
        r == [local[c] EXCEPT !.snap = review, !.left = Limit(k)]
    IN  /\ At(c, "execute") /\ Planning
        /\ \/ InOrder(k) /\ StartNext(c, r)
           \/ k.op = "step" /\ StartStep(c, r, k.step)
           \/ k.op = "loop" /\ k.max = 1 /\ StartStep(c, r, GivenStep(k))
           \/ /\ k.op = "direct"
              /\ Become(c, [r EXCEPT !.pc = "directtool", !.step = k.step])
              /\ UNCHANGED queue
        /\ UNCHANGED <<runtime, plans, overlap, calls, past>>

\* Mutant: an approved plan need not be marked ready.
GateAfterApproval(r) == r.snap.status \in {"approved", "ready_for_execution"}

\* RuntimeToolExecutionGate, over the snapshot the call began with
Gate(r) == r.snap.status = "ready_for_execution"
Results(r) == IF Gate(r) THEN {"executed", "failed", "blocked"} ELSE {"blocked"}

\* Mutant: a result that is no success does not reach the queue.
ToolReturnsSuccess(c) ==
    LET r == local[c]
    IN  /\ At(c, "tool")
        /\ \E result \in Results(r) :
            /\ Become(c, [r EXCEPT !.pc = "history", !.last = result])
            /\ IF result = "executed"
               THEN /\ queue' = [queue EXCEPT ![r.snap.plan][r.step] = [status |-> result, attempts |-> r.tries]]
                    /\ ran' = [ran EXCEPT ![r.snap.plan][r.step] = @ + 1]
                    /\ touched' = touched \cup {r.snap.plan}
               ELSE UNCHANGED <<queue, ran, touched>>
        /\ UNCHANGED <<runtime, plans, overlap, calls, readied, reports, abandoned>>

\* The tool call ends: markFromToolResult turns the state this call marked
\* running into its final one.
ToolReturns(c) ==
    LET r == local[c]
    IN  /\ At(c, "tool")
        /\ \E result \in Results(r) :
            /\ queue' = [queue EXCEPT ![r.snap.plan][r.step] = [status |-> result, attempts |-> r.tries]]
            /\ Become(c, [r EXCEPT !.pc = "history", !.last = result])
            /\ IF result = "executed"
               THEN /\ ran' = [ran EXCEPT ![r.snap.plan][r.step] = @ + 1]
                    /\ touched' = touched \cup {r.snap.plan}
               ELSE UNCHANGED <<ran, touched>>
        /\ UNCHANGED <<runtime, plans, overlap, calls, readied, reports, abandoned>>

\* AgentRuntime.executeActivePlanStep goes past the engine and its queue.
DirectReturns(c) ==
    /\ At(c, "directtool")
    /\ Become(c, Idle)
    /\ \/ "executed" \in Results(local[c]) /\ touched' = touched \cup {local[c].snap.plan}
       \/ UNCHANGED touched
    /\ UNCHANGED <<runtime, plans, queue, overlap, calls, readied, ran, reports, abandoned>>

HistoryAppended(c) ==
    /\ At(c, "history")
    /\ Goto(c, "decide")
    /\ UNCHANGED <<runtime, plans, queue, overlap, calls, past>>

AllExecuted(p) == p # 0 /\ \A s \in Steps : queue[p][s].status = "executed"

\* Mutant: a sequential call goes on whatever the step's result was.
MayGoOnAnyway(r) == InOrder(r.ask) /\ r.left > 1

\* A sequential call goes on after an executed step while it may; then a loop
\* is completed, or goes to its recovery, and any other call answers.
MayGoOn(r) == InOrder(r.ask) /\ r.last = "executed" /\ r.left > 1

Completed(r) == r.last = "executed" \/ (InOrder(r.ask) /\ AllExecuted(r.snap.plan))

Decide(c) ==
    LET r == local[c]
    IN  /\ At(c, "decide")
        /\ \/ MayGoOn(r) /\ StartNext(c, [r EXCEPT !.left = @ - 1])
           \/ /\ ~MayGoOn(r)
              /\ IF r.ask.op = "loop" /\ Completed(r)
                 THEN Become(c, [r EXCEPT !.pc = "reporting", !.outcome = "completed"])
                 ELSE Continue(c, "recover")
              /\ UNCHANGED queue
        /\ UNCHANGED <<runtime, plans, overlap, calls, past>>

(* ------------------------- recovering and reporting -------------------- *)

Recovered(c) ==
    /\ At(c, "recover")
    /\ Become(c, [local[c] EXCEPT !.pc = "reporting",
                    !.outcome = IF local[c].caught THEN "failed" ELSE "recovery_evaluated"])
    /\ UNCHANGED <<runtime, plans, queue, overlap, calls, past>>

Reported(c) ==
    LET r == local[c]
    IN  /\ At(c, "reporting")
        /\ reports' = reports \cup {[plan |-> r.snap.plan, max |-> r.ask.max, outcome |-> r.outcome]}
        /\ Become(c, Idle)
        /\ UNCHANGED <<runtime, plans, queue, overlap, calls, readied, ran, touched, abandoned>>

\* A history or report file cannot be written.
RecordFails(c) ==
    /\ local[c].pc \in {"history", "recover", "reporting"}
    /\ Throw(c)
    /\ UNCHANGED <<runtime, plans, queue, overlap, calls, past>>

(* ------------------------------ specification -------------------------- *)

Initializing(c) == LoadContext(c) \/ MarkInitialized(c) \/ Initialized(c) \/ InitializeFails(c)
Accepting(c) == AcceptObjective(c) \/ AcceptFails(c) \/ Accepted(c)
Generating(c) ==
    \/ GeneratePlan(c) \/ RetryGeneration(c) \/ GenerationFails(c)
    \/ \E p \in Plans : PlanArrives(c, p)
    \/ ThrowRejected(c) \/ PlanPersisted(c)
Reviewing(c) == ApprovePlan(c) \/ MarkReady(c) \/ ReviewPersisted(c) \/ Refused(c)
Executing(c) ==
    Execute(c) \/ ToolReturns(c) \/ DirectReturns(c) \/ HistoryAppended(c) \/ Decide(c)
Ending(c) == Recovered(c) \/ Reported(c) \/ RecordFails(c)

Progress(c) ==
    \/ Initializing(c) \/ Accepting(c) \/ Generating(c)
    \/ Reviewing(c) \/ Executing(c) \/ Ending(c)

Next == \E c \in Callers : Begin(c) \/ Progress(c)

Spec == Init /\ [][Next]_vars

(* -------------------------------- properties --------------------------- *)

\* Every variable keeps its type.
TypeOK ==
    /\ phase \in {"idle", "context_loading", "ready", "planning", "failed"}
    /\ objective \in 0..MaxCalls
    /\ review \in Review
    /\ plans \in [Plans -> 0..MaxCalls]
    /\ queue \in [Plans -> [Steps -> [status : StepStatus, attempts : Nat]]]
    /\ local \in [Callers -> Call]
    /\ overlap \in BOOLEAN
    /\ calls \in 0..MaxCalls
    /\ readied \subseteq Plans
    /\ ran \in [Plans -> [Steps -> Nat]]
    /\ touched \subseteq Plans
    /\ reports \subseteq [plan : {0} \cup Plans, max : 1..(NSteps + 1), outcome : Outcomes]
    /\ abandoned \subseteq Plans

\* However calls overlap, and whatever snapshot they go by, a tool takes effect
\* only for a plan that passed validation, was approved and was made ready.
OnlyReadyPlansTakeEffect == touched \subseteq readied

\* However calls overlap, a step the queue holds as running is being run by
\* someone: a step nobody works on can always be decided about.
RunningStepsHaveARunner ==
    \A p \in Plans, s \in Steps :
        queue[p][s].status = "running" =>
            \E c \in Callers : At(c, "tool") /\ local[c].snap.plan = p /\ local[c].step = s

\* While calls do not overlap, the queue says executed of exactly the steps
\* whose tool took effect through the engine, and of each only once, whatever
\* history, recovery or report failed in between.
QueueTellsWhatRan ==
    ~overlap => \A p \in Plans, s \in Steps :
        ran[p][s] = IF queue[p][s].status = "executed" THEN 1 ELSE 0

\* While calls do not overlap, a loop that reports completed ran every step it
\* was asked for: the first `max` of its plan, or all of them.
CompletedLoopsRanTheirSteps ==
    ~overlap => \A r \in reports : r.outcome = "completed" =>
        \A s \in Steps : s <= r.max => queue[r.plan][s].status = "executed"

\* While calls do not overlap, the plan under review serves the objective the
\* runtime now has, also when the runtime took a new objective, a generation
\* failed or a state file could not be written.
ActivePlanServesObjective ==
    ~overlap /\ review.plan # 0 => plans[review.plan] = objective

\* A runtime that failed makes no plan ready and starts no step; and although
\* initialize() may bring it back, from any phase and across calls in flight,
\* a plan of before the failure is never made ready or begun again.
FailureEndsPlans ==
    [][/\ phase = "failed" => readied' = readied
       /\ (readied' \ readied) \cap abandoned = {}
       /\ \A c \in Callers :
            At(c, "execute") /\ local'[c].pc \in {"tool", "directtool"} =>
                phase # "failed" /\ review.plan \notin abandoned]_vars
=============================================================================
