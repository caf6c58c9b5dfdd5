-------------------------- MODULE PlanRuntimeProofs --------------------------
(* What holds of PlanRuntime for any callers, plans, steps and bounds.     *)
(* IInv follows the review a call goes by and the step its tool runs;      *)
(* PlansInv, on top of it, the objective of every plan; AbandonedRest and  *)
(* LoopsAreInOrder, on top of both, the plans a failure left behind and    *)
(* what a loop has run of its plan.                                        *)
EXTENDS PlanRuntime, TLAPS

USE BoundsAssumption

(* ------------------------------ type correctness ----------------------- *)

\* The names of places, statuses and outcomes that updates use.
LEMMA Names ==
    /\ {"idle", "accept", "accepting", "generate", "generating", "regenerating", "rejecting"} \subseteq Locations
    /\ {"initialize", "loading", "logging"} \subseteq Locations
    /\ {"persisting", "approve", "approving", "ready", "readying", "execute", "tool"} \subseteq Locations
    /\ {"directtool", "history", "decide", "recover", "reporting"} \subseteq Locations
    /\ {"completed", "blocked", "recovery_evaluated", "failed"} \subseteq Outcomes
    /\ {"executed", "failed", "blocked", "running"} \subseteq StepStatus
BY DEF Locations, Outcomes, StepStatus

\* Rows of the call table are calls, before and after an update of one of them.
LEMMA BecomeType ==
    ASSUME NEW c \in Callers, NEW r \in Call, local \in [Callers -> Call], Become(c, r)
    PROVE  local' \in [Callers -> Call]
BY DEF Become

LEMMA GotoType ==
    ASSUME NEW c \in Callers, NEW l \in Locations, local \in [Callers -> Call], Goto(c, l)
    PROVE  local' \in [Callers -> Call]
BY DEF Goto, Call

\* The record of a caller with no call is a call.
LEMMA IdleType == Idle \in Call
BY DEF Idle, Call, Locations, Outcomes, Review

\* A rejection keeps the table of calls.
LEMMA ThrowType ==
    ASSUME NEW c \in Callers, local \in [Callers -> Call], Throw(c)
    PROVE  local' \in [Callers -> Call]
<1>1. CASE local[c].ask.op = "loop" /\ ~local[c].caught
  <2>1. [local[c] EXCEPT !.pc = "recover", !.caught = TRUE] \in Call
    <3>1. "recover" \in Locations  BY Names
    <3> QED BY <3>1 DEF Call
  <2> QED BY <1>1, <2>1, BecomeType DEF Throw
<1>2. CASE ~(local[c].ask.op = "loop" /\ ~local[c].caught)
  BY <1>2, IdleType, BecomeType DEF Throw
<1> QED BY <1>1, <1>2

\* The end of a part keeps the table of calls.
LEMMA ContinueType ==
    ASSUME NEW c \in Callers, NEW l \in Locations, local \in [Callers -> Call], Continue(c, l)
    PROVE  local' \in [Callers -> Call]
BY IdleType, GotoType, BecomeType DEF Continue

\* The three ways a step may start keep the queues and the table of calls.
LEMMA StartType ==
    ASSUME NEW c \in Callers, NEW r \in Call, NEW s \in Steps, TypeOK,
           \/ StartStep(c, r, s)
           \/ StartNext(c, r)
    PROVE  /\ local' \in [Callers -> Call]
           /\ queue' \in [Plans -> [Steps -> [status : StepStatus, attempts : Nat]]]
<1>1. ASSUME AnswerBlocked(c, r)
      PROVE  /\ local' \in [Callers -> Call]
             /\ queue' \in [Plans -> [Steps -> [status : StepStatus, attempts : Nat]]]
  <2>1. [r EXCEPT !.pc = "history", !.last = "blocked"] \in Call
    <3>1. "history" \in Locations /\ "blocked" \in StepStatus  BY Names
    <3> QED BY <3>1 DEF Call
  <2> QED BY <1>1, <2>1, BecomeType DEF AnswerBlocked, TypeOK
<1>2. ASSUME NEW t \in Steps, r.snap # NoReview, RunStep(c, r, t)
      PROVE  /\ local' \in [Callers -> Call]
             /\ queue' \in [Plans -> [Steps -> [status : StepStatus, attempts : Nat]]]
  <2>1. r.snap.plan \in Plans
    BY <1>2 DEF Call, Review
  <2> DEFINE attempts == queue[r.snap.plan][t].attempts + 1
  <2>2. attempts \in Nat
    BY <2>1 DEF TypeOK
  <2>3. [r EXCEPT !.pc = "tool", !.step = t, !.tries = attempts] \in Call
    <3>1. "tool" \in Locations  BY Names
    <3>2. t \in 0..NSteps  BY DEF Steps
    <3> HIDE DEF attempts
    <3> QED BY <2>2, <3>1, <3>2 DEF Call
  <2>4. local' \in [Callers -> Call]
    BY <1>2, <2>3, BecomeType DEF RunStep, TypeOK
  <2>5. queue' = [queue EXCEPT ![r.snap.plan][t] = [status |-> "running", attempts |-> attempts]]
    BY <1>2 DEF RunStep
  <2>6. [status |-> "running", attempts |-> attempts] \in [status : StepStatus, attempts : Nat]
    BY <2>2 DEF StepStatus
  <2> HIDE DEF attempts
  <2> QED BY <2>1, <2>4, <2>5, <2>6 DEF TypeOK
<1>3. CASE StartStep(c, r, s)
  BY <1>1, <1>2, <1>3 DEF StartStep
<1>4. CASE StartNext(c, r)
  BY <1>1, <1>2, <1>4 DEF StartNext, FirstPending, Pending
<1> QED BY <1>3, <1>4

\* Init is typed.
LEMMA TypeInit == Init => TypeOK
BY IdleType DEF Init, TypeOK, Review, NoReview, NewStep, StepStatus

\* The update of one caller's place and whatever else its action names.
LEMMA UpdateType ==
    ASSUME NEW r \in Call, NEW l \in Locations
    PROVE  [r EXCEPT !.pc = l] \in Call
BY DEF Call

\* Only loops recover and report.
OnlyLoopsReport ==
    \A c \in Callers : local[c].pc \in {"recover", "reporting"} => local[c].ask.op = "loop"

\* Every step keeps the types.
LEMMA TypeNext == TypeOK /\ OnlyLoopsReport /\ [Next]_vars => TypeOK'
<1> SUFFICES ASSUME TypeOK, OnlyLoopsReport, [Next]_vars PROVE TypeOK'
    OBVIOUS
<1> USE Names
<1>1. ASSUME NEW c \in Callers, Initializing(c)
      PROVE  TypeOK'
  <2>1. CASE LoadContext(c)
    <3>1. local' \in [Callers -> Call]
      BY <2>1, GotoType DEF LoadContext, TypeOK
    <3> QED BY <2>1, <3>1 DEF LoadContext, TypeOK, past
  <2>2. CASE MarkInitialized(c)
    <3>1. local' \in [Callers -> Call]
      BY <2>2, GotoType DEF MarkInitialized, TypeOK
    <3> QED BY <2>2, <3>1 DEF MarkInitialized, TypeOK, Review, past
  <2>3. CASE Initialized(c)
    <3>1. local' \in [Callers -> Call]
      BY <2>3, IdleType, BecomeType DEF Initialized, TypeOK
    <3> QED BY <2>3, <3>1 DEF Initialized, TypeOK, runtime, past
  <2>4. CASE InitializeFails(c)
    <3>1. local' \in [Callers -> Call]
      BY <2>4, IdleType, BecomeType DEF InitializeFails, TypeOK
    <3> QED BY <2>4, <3>1 DEF InitializeFails, MarkFailed, TypeOK
  <2> QED BY <1>1, <2>1, <2>2, <2>3, <2>4 DEF Initializing
<1>3. ASSUME NEW c \in Callers, Begin(c)
      PROVE  TypeOK'
  <2>1. PICK k \in Asked : Become(c, [Idle EXCEPT !.pc = Entry(k.op), !.ask = k,
                        !.goal = IF Entry(k.op) = "accept" THEN calls + 1 ELSE 0])
    BY <1>3 DEF Begin
  <2>2. k \in Asks
    BY AskedAssumption
  <2>3. calls + 1 \in 0..MaxCalls
    BY <1>3 DEF Begin, TypeOK
  <2>4. Entry(k.op) \in Locations
    BY <2>2 DEF Asks, Entry
  <2>5. [Idle EXCEPT !.pc = Entry(k.op), !.ask = k,
                        !.goal = IF Entry(k.op) = "accept" THEN calls + 1 ELSE 0] \in Call
    <3> DEFINE l == Entry(k.op)
               g == IF Entry(k.op) = "accept" THEN calls + 1 ELSE 0
    <3>1. g \in 0..MaxCalls  BY <2>3
    <3>2. l \in Locations  BY <2>4
    <3> HIDE DEF l, g
    <3>3. [Idle EXCEPT !.pc = l, !.ask = k, !.goal = g] \in Call
      BY <3>1, <3>2, <2>2, IdleType DEF Call
    <3> QED BY <3>3 DEF l, g
  <2>6. local' \in [Callers -> Call]
    BY <2>1, <2>5, BecomeType DEF TypeOK
  <2> QED BY <1>3, <2>3, <2>6 DEF Begin, TypeOK, runtime, past
<1>4. ASSUME NEW c \in Callers, Accepting(c)
      PROVE  TypeOK'
  <2>1. CASE AcceptObjective(c)
    <3>1. local' \in [Callers -> Call]
      BY <2>1, GotoType DEF AcceptObjective, TypeOK
    <3>2. local[c].goal \in 0..MaxCalls
      BY DEF TypeOK, Call
    <3> QED BY <2>1, <3>1, <3>2 DEF AcceptObjective, SetObjective, TypeOK, Review, past
  <2>2. CASE AcceptFails(c)
    <3>1. local' \in [Callers -> Call]
      BY <2>2, ThrowType DEF AcceptFails, TypeOK
    <3> QED BY <2>2, <3>1 DEF AcceptFails, MarkFailed, TypeOK
  <2>3. CASE Accepted(c)
    <3>1. local' \in [Callers -> Call]
      BY <2>3, ContinueType DEF Accepted, TypeOK
    <3> QED BY <2>3, <3>1 DEF Accepted, TypeOK, runtime, past
  <2> QED BY <1>4, <2>1, <2>2, <2>3 DEF Accepting
<1>5. ASSUME NEW c \in Callers, Generating(c)
      PROVE  TypeOK'
  <2>1. CASE GeneratePlan(c)
    <3> DEFINE r == [local[c] EXCEPT !.pc = "generating", !.goal = objective]
    <3>1. r \in Call
      BY DEF TypeOK, Call
    <3>2. local' \in [Callers -> Call]
      BY <2>1, <3>1, BecomeType DEF GeneratePlan, TypeOK
    <3> QED BY <2>1, <3>2 DEF GeneratePlan, TypeOK, runtime, past
  <2>2. CASE RetryGeneration(c)
    BY <2>2, GotoType DEF RetryGeneration, TypeOK, runtime, past
  <2>3. CASE GenerationFails(c)
    BY <2>3, ThrowType DEF GenerationFails, TypeOK, runtime, past
  <2>4. ASSUME NEW p \in Plans, PlanArrives(c, p)
        PROVE  TypeOK'
    <3>1. local' \in [Callers -> Call]
      BY <2>4, GotoType DEF PlanArrives, TypeOK
    <3>2. local[c].goal \in 0..MaxCalls
      BY DEF TypeOK, Call
    <3>3. review' \in Review
      BY <2>4 DEF PlanArrives, Review, ReviewStatus
    <3> QED BY <2>4, <3>1, <3>2, <3>3 DEF PlanArrives, TypeOK, past
  <2>5. CASE ThrowRejected(c)
    BY <2>5, ThrowType DEF ThrowRejected, TypeOK, runtime, past
  <2>6. CASE PlanPersisted(c)
    <3> DEFINE r == [local[c] EXCEPT !.pc = "reporting", !.outcome = "blocked"]
    <3>1. r \in Call
      BY DEF TypeOK, Call
    <3>2. Become(c, r) \/ Continue(c, "approve")
      BY <2>6 DEF PlanPersisted
    <3>3. local' \in [Callers -> Call]
      BY <3>1, <3>2, BecomeType, ContinueType DEF TypeOK
    <3> QED BY <2>6, <3>3 DEF PlanPersisted, TypeOK, runtime, past
  <2> QED BY <1>5, <2>1, <2>2, <2>3, <2>4, <2>5, <2>6 DEF Generating
<1>6. ASSUME NEW c \in Callers, Reviewing(c)
      PROVE  TypeOK'
  <2>1. CASE ApprovePlan(c)
    <3>1. local' \in [Callers -> Call]
      BY <2>1, GotoType DEF ApprovePlan, TypeOK
    <3>2. review' \in Review
      <4>1. review \in [plan : Plans, status : ReviewStatus]
        BY <2>1 DEF ApprovePlan, TypeOK, Review, NoReview
      <4>2. review' = [review EXCEPT !.status = "approved"]
        BY <2>1 DEF ApprovePlan
      <4> QED BY <4>1, <4>2 DEF Review, ReviewStatus
    <3> QED BY <2>1, <3>1, <3>2 DEF ApprovePlan, TypeOK, past
  <2>2. CASE MarkReady(c)
    <3>1. local' \in [Callers -> Call]
      BY <2>2, GotoType DEF MarkReady, TypeOK
    <3>2. review' \in Review /\ review.plan \in Plans
      BY <2>2 DEF MarkReady, TypeOK, Review, NoReview, ReviewStatus
    <3> QED BY <2>2, <3>1, <3>2 DEF MarkReady, TypeOK
  <2>3. CASE ReviewPersisted(c)
    BY <2>3, ContinueType DEF ReviewPersisted, TypeOK, runtime, past
  <2>4. CASE Refused(c)
    BY <2>4, ThrowType DEF Refused, TypeOK, runtime, past
  <2> QED BY <1>6, <2>1, <2>2, <2>3, <2>4 DEF Reviewing
<1>7. ASSUME NEW c \in Callers, Executing(c)
      PROVE  TypeOK'
  <2>1. CASE Execute(c)
    <3> DEFINE k == local[c].ask
               r == [local[c] EXCEPT !.snap = review, !.left = Limit(k)]
    <3>1. k \in {NoCall} \cup Asks
      BY DEF TypeOK, Call
    <3>2. Limit(k) \in Nat
      BY <3>1 DEF Limit, Asks, NoCall
    <3>3. r \in Call
      BY <3>2 DEF TypeOK, Call
    <3>4. /\ local' \in [Callers -> Call]
          /\ queue' \in [Plans -> [Steps -> [status : StepStatus, attempts : Nat]]]
      <4>1. CASE InOrder(k) /\ StartNext(c, r)
        <5>1. 1 \in Steps  BY DEF Steps
        <5> QED BY <4>1, <3>3, <5>1, StartType
      <4>2. CASE k.op = "step" /\ StartStep(c, r, k.step)
        <5>1. k.step \in Steps  BY <4>2, <3>1 DEF Asks, NoCall
        <5> QED BY <4>2, <3>3, <5>1, StartType
      <4>3. CASE k.op = "loop" /\ StartStep(c, r, GivenStep(k))
        <5>1. GivenStep(k) \in Steps  BY <4>3 DEF GivenStep, Steps
        <5> QED BY <4>3, <3>3, <5>1, StartType
      <4>4. CASE /\ k.op = "direct"
                 /\ Become(c, [r EXCEPT !.pc = "directtool", !.step = k.step])
                 /\ UNCHANGED queue
        <5>1. k.step \in 0..NSteps  BY <4>4, <3>1 DEF Asks, NoCall, Steps
        <5>2. "directtool" \in Locations  BY Names
        <5> HIDE DEF r, k
        <5>3. [r EXCEPT !.pc = "directtool", !.step = k.step] \in Call
          BY <3>3, <5>1, <5>2 DEF Call
        <5> QED BY <4>4, <5>3, BecomeType DEF TypeOK
      <4> QED BY <2>1, <4>1, <4>2, <4>3, <4>4 DEF Execute
    <3> QED BY <2>1, <3>4 DEF Execute, TypeOK, runtime, past
  <2>2. CASE ToolReturns(c)
    <3> DEFINE r == local[c]
    <3>1. PICK result \in Results(r) :
            /\ queue' = [queue EXCEPT ![r.snap.plan][r.step] = [status |-> result, attempts |-> r.tries]]
            /\ Become(c, [r EXCEPT !.pc = "history", !.last = result])
            /\ IF result = "executed"
               THEN /\ ran' = [ran EXCEPT ![r.snap.plan][r.step] = @ + 1]
                    /\ touched' = touched \cup {r.snap.plan}
               ELSE UNCHANGED <<ran, touched>>
      BY <2>2 DEF ToolReturns
    <3>2. r \in Call /\ result \in StepStatus
      BY DEF TypeOK, Results
    <3>3. [r EXCEPT !.pc = "history", !.last = result] \in Call
      <4> HIDE DEF r
      <4> QED BY <3>2 DEF Call
    <3>4. local' \in [Callers -> Call]
      BY <3>1, <3>3, BecomeType DEF TypeOK
    <3>5. [status |-> result, attempts |-> r.tries] \in [status : StepStatus, attempts : Nat]
      BY <3>2 DEF Call
    <3>6. queue' \in [Plans -> [Steps -> [status : StepStatus, attempts : Nat]]]
      <4> DEFINE done == [status |-> result, attempts |-> r.tries]
      <4>1. done \in [status : StepStatus, attempts : Nat]
        BY <3>5
      <4>2. queue' = [queue EXCEPT ![r.snap.plan][r.step] = done]
        BY <3>1
      <4>3. queue \in [Plans -> [Steps -> [status : StepStatus, attempts : Nat]]]
        BY DEF TypeOK
      <4> HIDE DEF done, r
      <4> QED BY <4>1, <4>2, <4>3
    <3>7. ran' \in [Plans -> [Steps -> Nat]]
      <4>1. ran \in [Plans -> [Steps -> Nat]]
        BY DEF TypeOK
      <4>2. CASE result = "executed"
        <5>1. ran' = [ran EXCEPT ![r.snap.plan][r.step] = @ + 1]
          BY <3>1, <4>2
        <5> DEFINE a == r.snap.plan
                   b == r.step
                   row == [ran[a] EXCEPT ![b] = @ + 1]
        <5>2. ran' = [ran EXCEPT ![a] = row]
          BY <5>1
        <5>3. ASSUME a \in Plans PROVE row \in [Steps -> Nat]
          <6>1. ran[a] \in [Steps -> Nat]
            BY <4>1, <5>3
          <6> DEFINE f == ran[a]
                     n == f[b] + 1
          <6>2. row = [f EXCEPT ![b] = n]
            OBVIOUS
          <6>3. f \in [Steps -> Nat] /\ (b \in Steps => n \in Nat)
            BY <6>1
          <6> HIDE DEF a, b, f, n, row
          <6> QED BY <6>2, <6>3
        <5> HIDE DEF a, b, row
        <5> QED BY <4>1, <5>2, <5>3
      <4>3. CASE result # "executed"
        BY <3>1, <4>1, <4>3
      <4> QED BY <4>2, <4>3
    <3>8. touched' \subseteq Plans
      <4>1. CASE result = "executed"
        <5>1. r.snap.plan \in Plans
          BY <3>2, <4>1 DEF Results, Gate, Call, Review, NoReview
        <5> QED BY <3>1, <4>1, <5>1 DEF TypeOK
      <4>2. CASE result # "executed"
        BY <3>1, <4>2 DEF TypeOK
      <4> QED BY <4>1, <4>2
    <3> QED BY <2>2, <3>4, <3>6, <3>7, <3>8 DEF ToolReturns, TypeOK, runtime
  <2>3. CASE DirectReturns(c)
    <3>1. local' \in [Callers -> Call]
      BY <2>3, IdleType, BecomeType DEF DirectReturns, TypeOK
    <3>2. touched' \subseteq Plans
      BY <2>3 DEF DirectReturns, Results, Gate, TypeOK, Call, Review, NoReview
    <3> QED BY <2>3, <3>1, <3>2 DEF DirectReturns, TypeOK, runtime
  <2>4. CASE HistoryAppended(c)
    BY <2>4, GotoType DEF HistoryAppended, TypeOK, runtime, past
  <2>5. CASE Decide(c)
    <3> DEFINE r == local[c]
    <3>1. r \in Call
      BY DEF TypeOK
    <3>2. CASE MayGoOn(r) /\ StartNext(c, [r EXCEPT !.left = @ - 1])
      <4>1. r.left - 1 \in Nat
        BY <3>1, <3>2 DEF MayGoOn, Call
      <4>2. [r EXCEPT !.left = @ - 1] \in Call
        BY <3>1, <4>1 DEF Call
      <4>3. 1 \in Steps
        BY DEF Steps
      <4>4. /\ local' \in [Callers -> Call]
            /\ queue' \in [Plans -> [Steps -> [status : StepStatus, attempts : Nat]]]
        BY <3>2, <4>2, <4>3, StartType
      <4> QED BY <2>5, <4>4 DEF Decide, TypeOK, runtime, past
    <3>3. CASE UNCHANGED queue /\ \/ Become(c, [r EXCEPT !.pc = "reporting", !.outcome = "completed"])
                                  \/ Continue(c, "recover")
      <4>1. [r EXCEPT !.pc = "reporting", !.outcome = "completed"] \in Call
        BY <3>1 DEF Call
      <4>2. local' \in [Callers -> Call]
        BY <3>3, <4>1, BecomeType, ContinueType DEF TypeOK
      <4> QED BY <2>5, <3>3, <4>2 DEF Decide, TypeOK, runtime, past
    <3> QED BY <2>5, <3>2, <3>3 DEF Decide
  <2> QED BY <1>7, <2>1, <2>2, <2>3, <2>4, <2>5 DEF Executing
<1>8. ASSUME NEW c \in Callers, Ending(c)
      PROVE  TypeOK'
  <2>1. CASE Recovered(c)
    <3> DEFINE o == IF local[c].caught THEN "failed" ELSE "recovery_evaluated"
    <3>1. o \in Outcomes
      BY Names
    <3> HIDE DEF o
    <3>2. [local[c] EXCEPT !.pc = "reporting", !.outcome = o] \in Call
      BY <3>1 DEF TypeOK, Call
    <3>3. local' \in [Callers -> Call]
      BY <2>1, <3>2, BecomeType DEF Recovered, TypeOK, o
    <3> QED BY <2>1, <3>3 DEF Recovered, TypeOK, runtime, past
  <2>2. CASE Reported(c)
    <3>1. local' \in [Callers -> Call]
      BY <2>2, IdleType, BecomeType DEF Reported, TypeOK
    <3>2. [plan |-> local[c].snap.plan, max |-> local[c].ask.max, outcome |-> local[c].outcome]
            \in [plan : {0} \cup Plans, max : 1..(NSteps + 1), outcome : Outcomes]
      <4>1. local[c].snap.plan \in {0} \cup Plans /\ local[c].outcome \in Outcomes
        BY DEF TypeOK, Call, Review, NoReview
      <4>2. local[c].ask.max \in 1..(NSteps + 1)
        <5>1. local[c].ask \in {NoCall} \cup Asks /\ local[c].ask.op = "loop"
          BY <2>2 DEF OnlyLoopsReport, Reported, At, TypeOK, Call
        <5> QED BY <5>1 DEF Asks, NoCall
      <4> QED BY <4>1, <4>2
    <3> QED BY <2>2, <3>1, <3>2 DEF Reported, TypeOK, runtime
  <2>3. CASE RecordFails(c)
    BY <2>3, ThrowType DEF RecordFails, TypeOK, runtime, past
  <2> QED BY <1>8, <2>1, <2>2, <2>3 DEF Ending
<1>9. CASE UNCHANGED vars
  BY <1>9 DEF vars, TypeOK
<1> QED BY <1>1, <1>3, <1>4, <1>5, <1>6, <1>7, <1>8, <1>9 DEF Next, Progress

\* Where the parts of a call put its caller: how Throw, Continue and the start
\* of a step leave the calls of everybody.
LEMMA ThrowMoves ==
    ASSUME NEW c \in Callers, local \in [Callers -> Call], Throw(c)
    PROVE  /\ \A d \in Callers : d # c => local'[d] = local[d]
           /\ \/ local'[c] = Idle
              \/ /\ local[c].ask.op = "loop"
                 /\ local'[c] = [local[c] EXCEPT !.pc = "recover", !.caught = TRUE]
BY DEF Throw, Become

LEMMA ContinueMoves ==
    ASSUME NEW c \in Callers, NEW l \in Locations, local \in [Callers -> Call], Continue(c, l)
    PROVE  /\ \A d \in Callers : d # c => local'[d] = local[d]
           /\ \/ local'[c] = Idle
              \/ /\ local[c].ask.op = "loop"
                 /\ local'[c] = [local[c] EXCEPT !.pc = l]
BY DEF Continue, Become, Goto

\* A step that starts is either answered at once or runs, under the review of
\* the call; its status is then running and every other status stays.
LEMMA StartMoves ==
    ASSUME NEW c \in Callers, NEW r \in Call, NEW s \in Steps, TypeOK,
           \/ StartStep(c, r, s)
           \/ StartNext(c, r)
    PROVE  /\ \A d \in Callers : d # c => local'[d] = local[d]
           /\ \/ /\ local'[c] = [r EXCEPT !.pc = "history", !.last = "blocked"]
                 /\ queue' = queue
              \/ \E t \in Steps, n \in Nat :
                    /\ r.snap.plan \in Plans
                    /\ queue[r.snap.plan][t].status # "executed"
                    /\ local'[c] = [r EXCEPT !.pc = "tool", !.step = t, !.tries = n]
                    /\ queue' = [queue EXCEPT ![r.snap.plan][t] = [status |-> "running", attempts |-> n]]
<1>1. ASSUME AnswerBlocked(c, r)
      PROVE  /\ \A d \in Callers : d # c => local'[d] = local[d]
             /\ local'[c] = [r EXCEPT !.pc = "history", !.last = "blocked"]
             /\ queue' = queue
  BY <1>1 DEF AnswerBlocked, Become, TypeOK
<1>2. ASSUME NEW t \in Steps, r.snap # NoReview, queue[r.snap.plan][t].status # "executed",
             RunStep(c, r, t)
      PROVE  /\ \A d \in Callers : d # c => local'[d] = local[d]
             /\ \E n \in Nat :
                    /\ r.snap.plan \in Plans
                    /\ local'[c] = [r EXCEPT !.pc = "tool", !.step = t, !.tries = n]
                    /\ queue' = [queue EXCEPT ![r.snap.plan][t] = [status |-> "running", attempts |-> n]]
  <2>1. r.snap.plan \in Plans
    BY <1>2 DEF Call, Review
  <2> DEFINE n == queue[r.snap.plan][t].attempts + 1
  <2>2. n \in Nat
    BY <2>1 DEF TypeOK
  <2>3. /\ queue' = [queue EXCEPT ![r.snap.plan][t] = [status |-> "running", attempts |-> n]]
        /\ Become(c, [r EXCEPT !.pc = "tool", !.step = t, !.tries = n])
    BY <1>2 DEF RunStep
  <2>4. local \in [Callers -> Call]
    BY DEF TypeOK
  <2> HIDE DEF n
  <2>5. /\ \A d \in Callers : d # c => local'[d] = local[d]
        /\ local'[c] = [r EXCEPT !.pc = "tool", !.step = t, !.tries = n]
    BY <2>3, <2>4 DEF Become
  <2> QED BY <2>1, <2>2, <2>3, <2>5
<1>3. CASE StartStep(c, r, s)
  BY <1>1, <1>2, <1>3 DEF StartStep
<1>4. CASE StartNext(c, r)
  <2>1. CASE AnswerBlocked(c, r)
    BY <1>1, <2>1
  <2>2. CASE ~AnswerBlocked(c, r)
    <3>1. PICK t \in FirstPending(r.snap.plan) : r.snap # NoReview /\ RunStep(c, r, t)
      BY <1>4, <2>2 DEF StartNext
    <3>2. t \in Steps /\ queue[r.snap.plan][t].status = "pending"
      BY DEF FirstPending, Pending
    <3> QED BY <1>2, <3>1, <3>2
  <2> QED BY <2>1, <2>2
<1> QED BY <1>3, <1>4

(* --------------------------- the shape of a step ----------------------- *)

\* What any step of caller c does to the calls, and to what they may execute.
Moves(c) ==
    /\ \A d \in Callers : d # c => local'[d] = local[d]
    /\ local[c].pc = "idle" => overlap \/ \A d \in Callers : local[d].pc = "idle"
    /\ local'[c].snap \in {local[c].snap, review, NoReview}
    /\ local'[c].pc \in {"recover", "reporting"} => local'[c].ask.op = "loop"
    /\ overlap' = overlap
    /\ readied \subseteq readied'
    /\ review'.status = "ready_for_execution" => review'.plan \in readied'

\* No step of a plan starts or ends.
Quiet(c) ==
    /\ local[c].pc # "tool" /\ local'[c].pc # "tool"
    /\ queue' = queue /\ ran' = ran
    /\ \A p \in touched' : p \in touched \/ (Gate(local[c]) /\ p = local[c].snap.plan)

\* c starts a step that was not executed.
Starts(c) ==
    /\ local[c].pc # "tool" /\ local'[c].pc = "tool"
    /\ ran' = ran /\ touched' = touched
    /\ local'[c].snap.plan \in Plans /\ local'[c].step \in Steps
    /\ queue[local'[c].snap.plan][local'[c].step].status # "executed"
    /\ \E n \in Nat : queue' = [queue EXCEPT ![local'[c].snap.plan][local'[c].step] =
                                    [status |-> "running", attempts |-> n]]

\* The tool of c's step returns, and the step gets its final status.
Returns(c) ==
    /\ local[c].pc = "tool" /\ local'[c].pc = "history"
    /\ \E result \in Results(local[c]), n \in Nat :
        /\ queue' = [queue EXCEPT ![local[c].snap.plan][local[c].step] = [status |-> result, attempts |-> n]]
        /\ IF result = "executed"
           THEN /\ ran' = [ran EXCEPT ![local[c].snap.plan][local[c].step] = @ + 1]
                /\ touched' = touched \cup {local[c].snap.plan}
           ELSE ran' = ran /\ touched' = touched

\* What is ready now, and what was when a call took its snapshot, was made
\* ready; what took effect was ready.
ReadyIsRecorded ==
    /\ review.status = "ready_for_execution" => review.plan \in readied
    /\ \A c \in Callers : Gate(local[c]) => local[c].snap.plan \in readied

\* Every step of a caller is a move, and quiet unless a step starts or ends.
LEMMA CallerStep ==
    ASSUME NEW c \in Callers, TypeOK, TypeOK', OnlyLoopsReport, ReadyIsRecorded, Begin(c) \/ Progress(c)
    PROVE  Moves(c) /\ (Quiet(c) \/ Starts(c) \/ Returns(c))
<1> USE Names
<1>0. local \in [Callers -> Call] /\ local' \in [Callers -> Call]
  BY DEF TypeOK
<1> DEFINE Loops == local'[c].pc \in {"recover", "reporting"} => local'[c].ask.op = "loop"
           Same == \A d \in Callers : d # c => local'[d] = local[d]
           Kept == local'[c].snap \in {local[c].snap, NoReview} /\ local'[c].pc # "tool"
           Still == /\ queue' = queue /\ ran' = ran /\ touched' = touched /\ overlap' = overlap
                    /\ readied' = readied
\* The three ways a caller goes on keep its snapshot or give it up.
<1>1. ASSUME NEW l \in Locations \ {"tool", "recover", "reporting"}, Goto(c, l)
      PROVE  Same /\ Kept /\ Loops
  BY <1>0, <1>1 DEF Goto, Call
<1>2. ASSUME Throw(c)
      PROVE  Same /\ Kept /\ Loops
  <2>1. /\ Same
        /\ \/ local'[c] = Idle
           \/ local[c].ask.op = "loop" /\ local'[c] = [local[c] EXCEPT !.pc = "recover", !.caught = TRUE]
    BY <1>0, <1>2, ThrowMoves
  <2>2. CASE local'[c] = Idle
    BY <2>1, <2>2 DEF Idle
  <2>3. CASE local[c].ask.op = "loop" /\ local'[c] = [local[c] EXCEPT !.pc = "recover", !.caught = TRUE]
    BY <1>0, <2>1, <2>3 DEF Call
  <2> QED BY <2>1, <2>2, <2>3
<1>3. ASSUME NEW l \in Locations \ {"tool"}, Continue(c, l)
      PROVE  Same /\ Kept /\ Loops
  BY <1>0, <1>3, ContinueMoves DEF Call, Idle
<1>4. ASSUME Same, Kept, Loops, Still, local[c].pc \notin {"idle", "tool"},
             review'.status = "ready_for_execution" => review' = review
      PROVE  Moves(c) /\ Quiet(c)
  BY <1>4 DEF Moves, Quiet, ReadyIsRecorded
<1>5. CASE Begin(c)
  <2>1. PICK k \in Asked : Become(c, [Idle EXCEPT !.pc = Entry(k.op), !.ask = k,
                        !.goal = IF Entry(k.op) = "accept" THEN calls + 1 ELSE 0])
    BY <1>5 DEF Begin
  <2>2. Entry(k.op) \in {"initialize", "accept", "execute", "generate", "approve", "ready"}
    BY AskedAssumption DEF Asks, Entry
  <2>3. Same /\ local'[c].pc = Entry(k.op) /\ local'[c].snap = NoReview
    BY <1>0, <2>1 DEF Become, Idle
  <2> QED BY <1>5, <2>2, <2>3 DEF Begin, Moves, Quiet, ReadyIsRecorded, runtime, past, At
<1>6. CASE Accepting(c)
  <2>1. CASE AcceptObjective(c)
    BY <2>1, <1>1, <1>4 DEF AcceptObjective, SetObjective, NoReview, At, past
  <2>2. CASE AcceptFails(c)
    BY <2>2, <1>2, <1>4 DEF AcceptFails, At
  <2>3. CASE Accepted(c)
    BY <2>3, <1>3, <1>4 DEF Accepted, At, past, runtime
  <2> QED BY <1>6, <2>1, <2>2, <2>3 DEF Accepting
<1>7. CASE Generating(c)
  <2>1. CASE GeneratePlan(c)
    <3>1. Same /\ Kept /\ Loops
      BY <1>0, <2>1 DEF GeneratePlan, Become, Call
    <3> QED BY <2>1, <3>1, <1>4 DEF GeneratePlan, At, past, runtime
  <2>2. CASE RetryGeneration(c)
    BY <2>2, <1>1, <1>4 DEF RetryGeneration, At, past, runtime
  <2>3. CASE GenerationFails(c)
    BY <2>3, <1>2, <1>4 DEF GenerationFails, At, past, runtime
  <2>4. ASSUME NEW p \in Plans, PlanArrives(c, p)
        PROVE  Moves(c) /\ Quiet(c)
    <3>1. Same /\ Kept /\ Loops
      BY <2>4, <1>1 DEF PlanArrives
    <3>2. review'.status # "ready_for_execution"
      BY <2>4 DEF PlanArrives
    <3> QED BY <2>4, <3>1, <3>2, <1>4 DEF PlanArrives, past
  <2>5. CASE ThrowRejected(c)
    BY <2>5, <1>2, <1>4 DEF ThrowRejected, At, past, runtime
  <2>6. CASE PlanPersisted(c)
    <3>1. CASE local[c].ask.op = "loop" /\ ~local[c].ask.auto
      <4>1. Become(c, [local[c] EXCEPT !.pc = "reporting", !.outcome = "blocked"])
        BY <2>6, <3>1 DEF PlanPersisted
      <4>2. Same /\ Kept /\ Loops
        BY <1>0, <3>1, <4>1 DEF Become, Call
      <4> QED BY <2>6, <4>2, <1>4 DEF PlanPersisted, At, past, runtime
    <3>2. CASE ~(local[c].ask.op = "loop" /\ ~local[c].ask.auto)
      BY <2>6, <3>2, <1>3, <1>4 DEF PlanPersisted, At, past, runtime
    <3> QED BY <3>1, <3>2
  <2> QED BY <1>7, <2>1, <2>2, <2>3, <2>4, <2>5, <2>6 DEF Generating
<1>8. CASE Reviewing(c)
  <2>1. CASE ApprovePlan(c)
    <3>1. review'.status = "approved"
      BY <2>1 DEF ApprovePlan, TypeOK, Review, NoReview
    <3> QED BY <2>1, <3>1, <1>1, <1>4 DEF ApprovePlan, At, past
  <2>2. CASE MarkReady(c)
    <3>1. Same /\ Kept /\ Loops
      BY <2>2, <1>1 DEF MarkReady
    <3>2. review'.plan = review.plan
      BY <2>2 DEF MarkReady, TypeOK, Review, NoReview
    <3> QED BY <2>2, <3>1, <3>2 DEF MarkReady, At, Moves, Quiet
  <2>3. CASE ReviewPersisted(c)
    BY <2>3, <1>3, <1>4 DEF ReviewPersisted, At, past, runtime
  <2>4. CASE Refused(c)
    BY <2>4, <1>2, <1>4 DEF Refused, At, past, runtime
  <2> QED BY <1>8, <2>1, <2>2, <2>3, <2>4 DEF Reviewing
\* A step that starts, from a call at r.
<1>9. ASSUME NEW r \in Call, NEW s \in Steps, StartStep(c, r, s) \/ StartNext(c, r),
             r.snap \in {local[c].snap, review}, UNCHANGED <<runtime, overlap, past>>,
             local[c].pc \notin {"idle", "tool"}
      PROVE  Moves(c) /\ (Quiet(c) \/ Starts(c))
  <2>1. Same
    BY <1>9, StartMoves
  <2>2. CASE local'[c] = [r EXCEPT !.pc = "history", !.last = "blocked"] /\ queue' = queue
    <3>1. local'[c].pc = "history" /\ local'[c].snap = r.snap
      BY <1>9, <2>2 DEF Call
    <3> QED BY <1>9, <2>1, <2>2, <3>1 DEF Moves, Quiet, ReadyIsRecorded, runtime, past
  <2>3. ASSUME NEW t \in Steps, NEW n \in Nat, r.snap.plan \in Plans,
               queue[r.snap.plan][t].status # "executed",
               local'[c] = [r EXCEPT !.pc = "tool", !.step = t, !.tries = n],
               queue' = [queue EXCEPT ![r.snap.plan][t] = [status |-> "running", attempts |-> n]]
        PROVE  Moves(c) /\ Starts(c)
    <3>1. local'[c].pc = "tool" /\ local'[c].snap = r.snap /\ local'[c].step = t
      BY <1>9, <2>3 DEF Call
    <3> QED BY <1>9, <2>1, <2>3, <3>1 DEF Moves, Starts, ReadyIsRecorded, runtime, past
  <2>4. \/ local'[c] = [r EXCEPT !.pc = "history", !.last = "blocked"] /\ queue' = queue
        \/ \E t \in Steps, n \in Nat :
            /\ r.snap.plan \in Plans
            /\ queue[r.snap.plan][t].status # "executed"
            /\ local'[c] = [r EXCEPT !.pc = "tool", !.step = t, !.tries = n]
            /\ queue' = [queue EXCEPT ![r.snap.plan][t] = [status |-> "running", attempts |-> n]]
    BY <1>9, StartMoves
  <2> QED BY <2>2, <2>3, <2>4
<1>10. CASE Executing(c)
  <2>1. CASE Execute(c)
    <3> DEFINE k == local[c].ask
               r == [local[c] EXCEPT !.snap = review, !.left = Limit(k)]
    <3>1. k \in {NoCall} \cup Asks /\ Limit(k) \in Nat
      <4>1. k \in {NoCall} \cup Asks
        BY <1>0 DEF Call
      <4> QED BY <4>1 DEF Limit, Asks, NoCall
    <3>2. r \in Call /\ r.snap = review
      <4> DEFINE n == Limit(k)
      <4>1. n \in Nat /\ review \in Review /\ local[c] \in Call
        BY <1>0, <3>1 DEF TypeOK
      <4>2. r = [local[c] EXCEPT !.snap = review, !.left = n]
        OBVIOUS
      <4> HIDE DEF n, r, k
      <4> QED BY <4>1, <4>2 DEF Call
    <3>3. local[c].pc = "execute" /\ UNCHANGED <<runtime, overlap, past>>
      BY <2>1 DEF Execute, At
    <3>4. CASE InOrder(k) /\ StartNext(c, r)
      <4>1. 1 \in Steps  BY DEF Steps
      <4> QED BY <3>2, <3>3, <3>4, <4>1, <1>9
    <3>5. CASE k.op = "step" /\ StartStep(c, r, k.step)
      <4>1. k.step \in Steps  BY <3>5, <3>1 DEF Asks, NoCall
      <4> QED BY <3>2, <3>3, <3>5, <4>1, <1>9
    <3>6. CASE k.op = "loop" /\ StartStep(c, r, GivenStep(k))
      <4>1. GivenStep(k) \in Steps  BY <3>6 DEF GivenStep, Steps
      <4> QED BY <3>2, <3>3, <3>6, <4>1, <1>9
    <3>7. CASE /\ k.op = "direct"
               /\ Become(c, [r EXCEPT !.pc = "directtool", !.step = k.step])
               /\ UNCHANGED queue
      <4>1. Same
        BY <1>0, <3>7 DEF Become
      <4>2. local'[c].pc = "directtool" /\ local'[c].snap = r.snap
        <5> HIDE DEF r
        <5> QED BY <1>0, <3>7, <3>2 DEF Become, Call
      <4> QED BY <3>2, <3>3, <3>7, <4>1, <4>2 DEF Moves, Quiet, ReadyIsRecorded, runtime, past
    <3> QED BY <2>1, <3>4, <3>5, <3>6, <3>7 DEF Execute
  <2>2. CASE ToolReturns(c)
    <3> DEFINE r == local[c]
    <3>1. PICK result \in Results(r) :
            /\ queue' = [queue EXCEPT ![r.snap.plan][r.step] = [status |-> result, attempts |-> r.tries]]
            /\ Become(c, [r EXCEPT !.pc = "history", !.last = result])
            /\ IF result = "executed"
               THEN /\ ran' = [ran EXCEPT ![r.snap.plan][r.step] = @ + 1]
                    /\ touched' = touched \cup {r.snap.plan}
               ELSE UNCHANGED <<ran, touched>>
      BY <2>2 DEF ToolReturns
    <3>2. r \in Call /\ r.tries \in Nat
      BY <1>0 DEF Call
    <3>3. Same /\ local'[c].pc = "history" /\ local'[c].snap = local[c].snap
      BY <1>0, <3>1 DEF Become, Call
    <3>4. Returns(c)
      BY <2>2, <3>1, <3>2, <3>3 DEF Returns, ToolReturns, At
    <3>5. Moves(c)
      BY <2>2, <3>3 DEF ToolReturns, Moves, At, runtime, ReadyIsRecorded
    <3> QED BY <3>4, <3>5
  <2>3. CASE DirectReturns(c)
    <3>1. Same /\ local'[c] = Idle
      BY <1>0, <2>3 DEF DirectReturns, Become
    <3>2. \A p \in touched' : p \in touched \/ (Gate(local[c]) /\ p = local[c].snap.plan)
      BY <2>3 DEF DirectReturns, Results
    <3> QED BY <2>3, <3>1, <3>2 DEF DirectReturns, Moves, Quiet, At, runtime, ReadyIsRecorded, Idle
  <2>4. CASE HistoryAppended(c)
    BY <2>4, <1>1, <1>4 DEF HistoryAppended, At, past, runtime
  <2>5. CASE Decide(c)
    <3> DEFINE r == local[c]
    <3>1. r \in Call /\ r.pc = "decide" /\ UNCHANGED <<runtime, overlap, past>>
      BY <1>0, <2>5 DEF Decide, At
    <3>2. CASE MayGoOn(r) /\ StartNext(c, [r EXCEPT !.left = @ - 1])
      <4>1. [r EXCEPT !.left = @ - 1] \in Call /\ [r EXCEPT !.left = @ - 1].snap = local[c].snap
        BY <3>1, <3>2 DEF MayGoOn, Call
      <4>2. 1 \in Steps
        BY DEF Steps
      <4> QED BY <3>1, <3>2, <4>1, <4>2, <1>9
    <3>3. CASE r.ask.op = "loop" /\ Become(c, [r EXCEPT !.pc = "reporting", !.outcome = "completed"]) /\ UNCHANGED queue
      <4>1. Same /\ Kept /\ Loops
        BY <1>0, <3>3 DEF Become, Call
      <4> QED BY <3>1, <3>3, <4>1, <1>4 DEF past, runtime
    <3>4. CASE Continue(c, "recover") /\ UNCHANGED queue
      BY <3>1, <3>4, <1>3, <1>4 DEF past, runtime
    <3> QED BY <2>5, <3>2, <3>3, <3>4 DEF Decide
  <2> QED BY <1>10, <2>1, <2>2, <2>3, <2>4, <2>5 DEF Executing
<1>11. CASE Ending(c)
  <2>1. CASE Recovered(c)
    <3>1. local[c].ask.op = "loop"
      BY <2>1 DEF OnlyLoopsReport, Recovered, At
    <3>2. Same /\ Kept /\ Loops
      BY <1>0, <2>1, <3>1 DEF Recovered, Become, Call
    <3> QED BY <2>1, <3>2, <1>4 DEF Recovered, At, past, runtime
  <2>2. CASE Reported(c)
    <3>1. Same /\ local'[c] = Idle
      BY <1>0, <2>2 DEF Reported, Become
    <3> QED BY <2>2, <3>1 DEF Reported, Moves, Quiet, At, runtime, ReadyIsRecorded, Idle
  <2>3. CASE RecordFails(c)
    BY <2>3, <1>2, <1>4 DEF RecordFails, At, past, runtime
  <2> QED BY <1>11, <2>1, <2>2, <2>3 DEF Ending
<1>12. CASE Initializing(c)
  <2>1. ASSUME Become(c, Idle)
        PROVE  Same /\ Kept /\ Loops
    <3>1. Same /\ local'[c] = Idle
      BY <1>0, <2>1 DEF Become
    <3> QED BY <3>1 DEF Idle
  <2>2. CASE LoadContext(c)
    BY <2>2, <1>1, <1>4 DEF LoadContext, At, past
  <2>3. CASE MarkInitialized(c)
    BY <2>3, <1>1, <1>4 DEF MarkInitialized, NoReview, At, past
  <2>4. CASE Initialized(c)
    BY <2>1, <2>4, <1>4 DEF Initialized, At, runtime, past
  <2>5. CASE InitializeFails(c)
    BY <2>1, <2>5, <1>4 DEF InitializeFails, At
  <2> QED BY <1>12, <2>2, <2>3, <2>4, <2>5 DEF Initializing
<1> QED BY <1>5, <1>6, <1>7, <1>8, <1>10, <1>11, <1>12 DEF Progress

(* ------------------------------- invariants ---------------------------- *)

\* While calls do not overlap one caller is busy, and the step its tool runs is
\* the one the queue has running.
OneBusy ==
    ~overlap =>
        /\ \A c, d \in Callers : local[c].pc # "idle" /\ local[d].pc # "idle" => c = d
        /\ \A c \in Callers : At(c, "tool") =>
            /\ local[c].snap.plan \in Plans /\ local[c].step \in Steps
            /\ queue[local[c].snap.plan][local[c].step].status = "running"

\* The inductive invariant.
IInv ==
    /\ TypeOK /\ OnlyLoopsReport /\ ReadyIsRecorded /\ OneBusy
    /\ OnlyReadyPlansTakeEffect /\ RunningStepsHaveARunner /\ QueueTellsWhatRan

\* It holds initially.
LEMMA InitInv == Init => IInv
<1> SUFFICES ASSUME Init PROVE IInv
    OBVIOUS
<1>1. TypeOK
  BY TypeInit
<1>2. \A c \in Callers : local[c].pc = "idle" /\ local[c].snap.status = "none"
  BY DEF Init, Idle, NoReview
<1>3. \A p \in Plans, s \in Steps : queue[p][s].status = "pending" /\ ran[p][s] = 0
  BY DEF Init, NewStep
<1> QED BY <1>1, <1>2, <1>3 DEF Init, IInv, OnlyLoopsReport, ReadyIsRecorded, OneBusy, At, Gate,
        OnlyReadyPlansTakeEffect, RunningStepsHaveARunner, QueueTellsWhatRan, NoReview

\* A move keeps what was made ready and who is busy with what.
LEMMA MovesInv ==
    ASSUME NEW c \in Callers, IInv, TypeOK', Moves(c)
    PROVE  OnlyLoopsReport' /\ ReadyIsRecorded'
BY DEF IInv, Moves, OnlyLoopsReport, ReadyIsRecorded, Gate, NoReview

\* A step that is quiet, starts or returns keeps the rest.
LEMMA StepInv ==
    ASSUME NEW c \in Callers, IInv, TypeOK', Moves(c), Quiet(c) \/ Starts(c) \/ Returns(c)
    PROVE  OneBusy' /\ OnlyReadyPlansTakeEffect' /\ RunningStepsHaveARunner' /\ QueueTellsWhatRan'
<1>0. /\ \A d \in Callers : d # c => local'[d] = local[d]
      /\ overlap' = overlap
      /\ local[c].pc = "idle" => overlap \/ \A d \in Callers : local[d].pc = "idle"
      /\ queue \in [Plans -> [Steps -> [status : StepStatus, attempts : Nat]]]
      /\ ran \in [Plans -> [Steps -> Nat]]
  BY DEF Moves, IInv, TypeOK
<1>1. OnlyReadyPlansTakeEffect'
  BY DEF IInv, OnlyReadyPlansTakeEffect, ReadyIsRecorded, Moves, Quiet, Starts, Returns, Results
<1>2. ASSUME ~overlap, NEW a \in Callers, NEW b \in Callers, local'[a].pc # "idle", local'[b].pc # "idle"
      PROVE  a = b
  BY <1>0, <1>2 DEF IInv, OneBusy
<1>3. CASE Quiet(c)
  <2>1. OneBusy'
    BY <1>0, <1>2, <1>3 DEF IInv, OneBusy, Quiet, At
  <2>2. RunningStepsHaveARunner'
    <3> SUFFICES ASSUME NEW q \in Plans, NEW t \in Steps, queue[q][t].status = "running"
                 PROVE  \E d \in Callers : local'[d].pc = "tool" /\ local'[d].snap.plan = q /\ local'[d].step = t
      BY <1>3 DEF RunningStepsHaveARunner, At, Quiet
    <3>1. PICK d \in Callers : local[d].pc = "tool" /\ local[d].snap.plan = q /\ local[d].step = t
      BY DEF IInv, RunningStepsHaveARunner, At
    <3> QED BY <1>0, <1>3, <3>1 DEF Quiet
  <2>3. QueueTellsWhatRan'
    BY <1>0, <1>3 DEF IInv, QueueTellsWhatRan, Quiet
  <2> QED BY <1>1, <2>1, <2>2, <2>3
<1>4. CASE Starts(c)
  <2> DEFINE p == local'[c].snap.plan
             s == local'[c].step
  <2>1. PICK n \in Nat : queue' = [queue EXCEPT ![p][s] = [status |-> "running", attempts |-> n]]
    BY <1>4 DEF Starts
  <2>2. p \in Plans /\ s \in Steps /\ queue[p][s].status # "executed" /\ ran' = ran
        /\ local'[c].pc = "tool" /\ local[c].pc # "tool"
    BY <1>4 DEF Starts
  <2>3. \A q \in Plans, t \in Steps :
            queue'[q][t].status = IF q = p /\ t = s THEN "running" ELSE queue[q][t].status
    <3> HIDE DEF p, s
    <3> QED BY <1>0, <2>1, <2>2
  <2>4. OneBusy'
    <3> SUFFICES ASSUME ~overlap, NEW d \in Callers, local'[d].pc = "tool"
                 PROVE  /\ local'[d].snap.plan \in Plans /\ local'[d].step \in Steps
                        /\ queue'[local'[d].snap.plan][local'[d].step].status = "running"
      BY <1>0, <1>2 DEF OneBusy, At
    <3>1. d = c
      BY <1>2, <2>2
    <3> QED BY <2>2, <2>3, <3>1
  <2>5. RunningStepsHaveARunner'
    <3> SUFFICES ASSUME NEW q \in Plans, NEW t \in Steps, queue'[q][t].status = "running"
                 PROVE  \E d \in Callers : local'[d].pc = "tool" /\ local'[d].snap.plan = q /\ local'[d].step = t
      BY DEF RunningStepsHaveARunner, At
    <3>1. CASE q = p /\ t = s
      BY <2>2, <3>1
    <3>2. CASE ~(q = p /\ t = s)
      <4>1. PICK d \in Callers : local[d].pc = "tool" /\ local[d].snap.plan = q /\ local[d].step = t
        BY <2>3, <3>2 DEF IInv, RunningStepsHaveARunner, At
      <4> QED BY <1>0, <2>2, <4>1
    <3> QED BY <3>1, <3>2
  <2>6. QueueTellsWhatRan'
    <3> SUFFICES ASSUME ~overlap, NEW q \in Plans, NEW t \in Steps
                 PROVE  ran[q][t] = IF queue'[q][t].status = "executed" THEN 1 ELSE 0
      BY <1>0, <2>2 DEF QueueTellsWhatRan
    <3>1. ran[q][t] = IF queue[q][t].status = "executed" THEN 1 ELSE 0
      BY DEF IInv, QueueTellsWhatRan
    <3>2. queue[p][s].status # "executed"
      BY <2>2
    <3> HIDE DEF p, s
    <3> QED BY <2>3, <3>1, <3>2
  <2> QED BY <1>1, <2>4, <2>5, <2>6
<1>5. CASE Returns(c)
  <2> DEFINE p == local[c].snap.plan
             s == local[c].step
  <2>1. PICK result \in Results(local[c]), n \in Nat :
        /\ queue' = [queue EXCEPT ![p][s] = [status |-> result, attempts |-> n]]
        /\ IF result = "executed"
           THEN ran' = [ran EXCEPT ![p][s] = @ + 1]
           ELSE ran' = ran
    BY <1>5 DEF Returns
  <2>2. local[c].pc = "tool" /\ local'[c].pc = "history" /\ result \in {"executed", "failed", "blocked"}
    BY <1>5, <2>1 DEF Returns, Results
  <2>3. \A q \in Plans, t \in Steps :
            queue'[q][t].status = IF q = p /\ t = s THEN result ELSE queue[q][t].status
    <3> HIDE DEF p, s
    <3> QED BY <1>0, <2>1
  <2>4. \A q \in Plans, t \in Steps :
            ran'[q][t] = IF q = p /\ t = s /\ result = "executed" THEN ran[q][t] + 1 ELSE ran[q][t]
    <3> HIDE DEF p, s
    <3> QED BY <1>0, <2>1
  <2>5. OneBusy'
    <3> SUFFICES ASSUME ~overlap, NEW d \in Callers, local'[d].pc = "tool" PROVE FALSE
      BY <1>0, <1>2 DEF OneBusy, At
    <3>1. d = c
      BY <1>2, <2>2
    <3> QED BY <2>2, <3>1
  <2>6. RunningStepsHaveARunner'
    <3> SUFFICES ASSUME NEW q \in Plans, NEW t \in Steps, queue'[q][t].status = "running"
                 PROVE  \E d \in Callers : local'[d].pc = "tool" /\ local'[d].snap.plan = q /\ local'[d].step = t
      BY DEF RunningStepsHaveARunner, At
    <3>1. ~(q = p /\ t = s) /\ queue[q][t].status = "running"
      BY <2>2, <2>3
    <3>2. PICK d \in Callers : local[d].pc = "tool" /\ local[d].snap.plan = q /\ local[d].step = t
      BY <3>1 DEF IInv, RunningStepsHaveARunner, At
    <3> QED BY <1>0, <3>1, <3>2
  <2>7. QueueTellsWhatRan'
    <3> SUFFICES ASSUME ~overlap, NEW q \in Plans, NEW t \in Steps
                 PROVE  ran'[q][t] = IF queue'[q][t].status = "executed" THEN 1 ELSE 0
      BY <1>0 DEF QueueTellsWhatRan
    <3>1. ran[q][t] = IF queue[q][t].status = "executed" THEN 1 ELSE 0
      BY DEF IInv, QueueTellsWhatRan
    <3>2. queue[p][s].status = "running"
      BY <2>2 DEF IInv, OneBusy, At
    <3> HIDE DEF p, s
    <3> QED BY <2>3, <2>4, <3>1, <3>2
  <2> QED BY <1>1, <2>5, <2>6, <2>7
<1> QED BY <1>3, <1>4, <1>5

\* And every step keeps it.
LEMMA NextInv == IInv /\ [Next]_vars => IInv'
<1> SUFFICES ASSUME IInv, [Next]_vars PROVE IInv'
    OBVIOUS
<1>1. TypeOK'
  BY TypeNext DEF IInv
<1>2. ASSUME NEW c \in Callers, Begin(c) \/ Progress(c)
      PROVE  IInv'
  <2>1. Moves(c) /\ (Quiet(c) \/ Starts(c) \/ Returns(c))
    BY <1>1, <1>2, CallerStep DEF IInv
  <2> QED BY <1>1, <2>1, MovesInv, StepInv DEF IInv
<1>3. CASE UNCHANGED vars
  <2>1. UNCHANGED <<review, queue, local, overlap, readied, ran, touched>>
    BY <1>3 DEF vars
  <2> QED BY <1>1, <2>1 DEF IInv, OnlyLoopsReport, ReadyIsRecorded, OneBusy, At, Gate,
        OnlyReadyPlansTakeEffect, RunningStepsHaveARunner, QueueTellsWhatRan
<1> QED BY <1>2, <1>3 DEF Next

\* The inductive invariant is one.
LEMMA Invariant == Spec => []IInv
BY InitInv, NextInv, PTL DEF Spec

(* ------------------------------- theorems ------------------------------ *)

\* Every variable keeps its type.
THEOREM TypeCorrect == Spec => []TypeOK
<1>1. IInv => TypeOK
  BY DEF IInv
<1> QED BY <1>1, Invariant, PTL

\* However many calls overlap, a tool takes effect only for a plan that passed
\* validation, was approved and was made ready.
THEOREM OnlyReadyPlans == Spec => []OnlyReadyPlansTakeEffect
<1>1. IInv => OnlyReadyPlansTakeEffect
  BY DEF IInv
<1> QED BY <1>1, Invariant, PTL

\* However many calls overlap, a running step is being run.
THEOREM RunnersExist == Spec => []RunningStepsHaveARunner
<1>1. IInv => RunningStepsHaveARunner
  BY DEF IInv
<1> QED BY <1>1, Invariant, PTL

\* While calls do not overlap, the queue tells what ran, and that it ran once.
THEOREM QueueIsTrue == Spec => []QueueTellsWhatRan
<1>1. IInv => QueueTellsWhatRan
  BY DEF IInv
<1> QED BY <1>1, Invariant, PTL

(* ----------------- the plan serves the objective it is for ------------- *)

\* Where a caller waits for the provider.
Asking == {"generating", "regenerating"}

\* In plan p every step after the k-th is pending; every step up to it ran.
Ahead(p, k) == \A s \in Steps : s > k => queue[p][s].status = "pending"
RanTo(p, k) == \A s \in Steps : s <= k => queue[p][s].status = "executed"

\* Objectives are numbered from 1, so that a plan in use is a plan somebody
\* generated; of any other plan nothing ran yet.
PlansAreGenerated ==
    /\ phase = "planning" => objective # 0
    /\ \A c \in Callers :
        /\ local[c].pc \in {"accept"} \cup Asking => local[c].goal # 0
        /\ local[c].snap.plan # 0 => plans[local[c].snap.plan] # 0
    /\ review.plan # 0 => plans[review.plan] # 0
    /\ \A p \in Plans : plans[p] = 0 => Ahead(p, 0)

\* While calls do not overlap, whoever waits for the provider waits for a plan
\* of the active objective.
GenerationServesObjective ==
    /\ ActivePlanServesObjective
    /\ ~overlap => \A c \in Callers : local[c].pc \in Asking => local[c].goal = objective

\* The steps that leave objective, plans and the plan under review alone.
LEMMA PlainStep ==
    ASSUME NEW c \in Callers, TypeOK, Progress(c),
           ~MarkInitialized(c), ~AcceptObjective(c), ~GeneratePlan(c), ~RetryGeneration(c),
           \A p \in Plans : ~PlanArrives(c, p)
    PROVE  /\ objective' = objective /\ plans' = plans /\ review'.plan = review.plan
           /\ phase' = "planning" => phase = "planning"
           /\ local'[c].pc \notin {"accept"} \cup Asking
<1> USE Names
<1>0. local \in [Callers -> Call]
  BY DEF TypeOK
<1> DEFINE Away == local'[c].pc \notin {"accept"} \cup Asking
           Still == /\ objective' = objective /\ plans' = plans /\ review'.plan = review.plan
                    /\ phase' = "planning" => phase = "planning"
<1>1. ASSUME NEW l \in Locations \ ({"accept"} \cup Asking), Goto(c, l)
      PROVE  Away
  BY <1>0, <1>1 DEF Goto, Call
<1>2. ASSUME Throw(c)
      PROVE  Away
  <2>1. \/ local'[c] = Idle
        \/ local'[c] = [local[c] EXCEPT !.pc = "recover", !.caught = TRUE]
    BY <1>0, <1>2, ThrowMoves
  <2>2. local'[c].pc \in {"idle", "recover"}
    <3>1. CASE local'[c] = Idle
      BY <3>1 DEF Idle
    <3>2. CASE local'[c] = [local[c] EXCEPT !.pc = "recover", !.caught = TRUE]
      BY <1>0, <3>2 DEF Call
    <3> QED BY <2>1, <3>1, <3>2
  <2> QED BY <2>2 DEF Asking
<1>3. ASSUME NEW l \in Locations \ ({"accept"} \cup Asking), Continue(c, l)
      PROVE  Away
  <2>1. local'[c] = Idle \/ local'[c] = [local[c] EXCEPT !.pc = l]
    BY <1>0, <1>3, ContinueMoves
  <2>2. CASE local'[c] = Idle
    BY <2>2 DEF Idle, Asking
  <2>3. CASE local'[c] = [local[c] EXCEPT !.pc = l]
    BY <1>0, <1>3, <2>3 DEF Call
  <2> QED BY <2>1, <2>2, <2>3
<1>4. ASSUME NEW r \in Call, NEW s \in Steps, StartStep(c, r, s) \/ StartNext(c, r)
      PROVE  Away
  <2>1. \/ local'[c] = [r EXCEPT !.pc = "history", !.last = "blocked"] /\ queue' = queue
        \/ \E t \in Steps, n \in Nat :
            /\ r.snap.plan \in Plans
            /\ queue[r.snap.plan][t].status # "executed"
            /\ local'[c] = [r EXCEPT !.pc = "tool", !.step = t, !.tries = n]
            /\ queue' = [queue EXCEPT ![r.snap.plan][t] = [status |-> "running", attempts |-> n]]
    BY <1>4, StartMoves
  <2>2. local'[c].pc \in {"history", "tool"}
    BY <1>4, <2>1 DEF Call
  <2> QED BY <2>2 DEF Asking
<1>5. CASE Accepting(c)
  <2>1. CASE AcceptFails(c)
    BY <2>1, <1>2 DEF AcceptFails, MarkFailed
  <2>2. CASE Accepted(c)
    BY <2>2, <1>3 DEF Accepted, runtime, Asking
  <2> QED BY <1>5, <2>1, <2>2 DEF Accepting
<1>6. CASE Generating(c)
  <2>1. CASE GenerationFails(c)
    BY <2>1, <1>2 DEF GenerationFails, runtime
  <2>2. CASE ThrowRejected(c)
    BY <2>2, <1>2 DEF ThrowRejected, runtime
  <2>3. CASE PlanPersisted(c)
    <3>1. CASE Become(c, [local[c] EXCEPT !.pc = "reporting", !.outcome = "blocked"])
      <4>1. local'[c].pc = "reporting"
        BY <1>0, <3>1 DEF Become, Call
      <4> QED BY <2>3, <4>1 DEF PlanPersisted, runtime, Asking
    <3>2. CASE Continue(c, "approve")
      BY <2>3, <3>2, <1>3 DEF PlanPersisted, runtime, Asking
    <3> QED BY <2>3, <3>1, <3>2 DEF PlanPersisted
  <2> QED BY <1>6, <2>1, <2>2, <2>3 DEF Generating
<1>7. CASE Reviewing(c)
  <2>1. CASE ApprovePlan(c)
    BY <2>1, <1>1 DEF ApprovePlan, TypeOK, Review, NoReview, Asking
  <2>2. CASE MarkReady(c)
    BY <2>2, <1>1 DEF MarkReady, TypeOK, Review, NoReview, Asking
  <2>3. CASE ReviewPersisted(c)
    BY <2>3, <1>3 DEF ReviewPersisted, runtime, Asking
  <2>4. CASE Refused(c)
    BY <2>4, <1>2 DEF Refused, runtime
  <2> QED BY <1>7, <2>1, <2>2, <2>3, <2>4 DEF Reviewing
<1>8. CASE Executing(c)
  <2>1. CASE Execute(c)
    <3> DEFINE k == local[c].ask
               r == [local[c] EXCEPT !.snap = review, !.left = Limit(k)]
    <3>1. k \in {NoCall} \cup Asks /\ Limit(k) \in Nat
      <4>1. k \in {NoCall} \cup Asks
        BY <1>0 DEF Call
      <4> QED BY <4>1 DEF Limit, Asks, NoCall
    <3>2. r \in Call
      <4> DEFINE n == Limit(k)
      <4>1. n \in Nat /\ review \in Review /\ local[c] \in Call
        BY <1>0, <3>1 DEF TypeOK
      <4>2. r = [local[c] EXCEPT !.snap = review, !.left = n]
        OBVIOUS
      <4> HIDE DEF n, r, k
      <4> QED BY <4>1, <4>2 DEF Call
    <3>3. Still
      BY <2>1 DEF Execute, runtime
    <3>4. CASE InOrder(k) /\ StartNext(c, r)
      <4>1. 1 \in Steps  BY DEF Steps
      <4> QED BY <3>2, <3>3, <3>4, <4>1, <1>4
    <3>5. CASE k.op = "step" /\ StartStep(c, r, k.step)
      <4>1. k.step \in Steps  BY <3>5, <3>1 DEF Asks, NoCall
      <4> QED BY <3>2, <3>3, <3>5, <4>1, <1>4
    <3>6. CASE k.op = "loop" /\ StartStep(c, r, GivenStep(k))
      <4>1. GivenStep(k) \in Steps  BY <3>6 DEF GivenStep, Steps
      <4> QED BY <3>2, <3>3, <3>6, <4>1, <1>4
    <3>7. CASE Become(c, [r EXCEPT !.pc = "directtool", !.step = k.step])
      <4>1. local'[c].pc = "directtool"
        <5> HIDE DEF r
        <5> QED BY <1>0, <3>7, <3>2 DEF Become, Call
      <4> QED BY <3>3, <4>1 DEF Asking
    <3> QED BY <2>1, <3>4, <3>5, <3>6, <3>7 DEF Execute
  <2>2. CASE ToolReturns(c)
    <3>1. PICK result \in Results(local[c]) : Become(c, [local[c] EXCEPT !.pc = "history", !.last = result])
      BY <2>2 DEF ToolReturns
    <3>2. local'[c].pc = "history"
      BY <1>0, <3>1 DEF Become, Call
    <3> QED BY <2>2, <3>2 DEF ToolReturns, runtime, Asking
  <2>3. CASE DirectReturns(c)
    <3>1. local'[c] = Idle
      BY <1>0, <2>3 DEF DirectReturns, Become
    <3> QED BY <2>3, <3>1 DEF DirectReturns, runtime, Idle, Asking
  <2>4. CASE HistoryAppended(c)
    BY <2>4, <1>1 DEF HistoryAppended, runtime, Asking
  <2>5. CASE Decide(c)
    <3> DEFINE r == local[c]
    <3>1. r \in Call /\ Still
      BY <1>0, <2>5 DEF Decide, runtime
    <3>2. CASE MayGoOn(r) /\ StartNext(c, [r EXCEPT !.left = @ - 1])
      <4>1. [r EXCEPT !.left = @ - 1] \in Call
        BY <3>1, <3>2 DEF MayGoOn, Call
      <4>2. 1 \in Steps
        BY DEF Steps
      <4> QED BY <3>1, <3>2, <4>1, <4>2, <1>4
    <3>3. CASE Become(c, [r EXCEPT !.pc = "reporting", !.outcome = "completed"])
      <4>1. local'[c].pc = "reporting"
        BY <1>0, <3>3 DEF Become, Call
      <4> QED BY <3>1, <4>1 DEF Asking
    <3>4. CASE Continue(c, "recover")
      BY <3>1, <3>4, <1>3 DEF Asking
    <3> QED BY <2>5, <3>2, <3>3, <3>4 DEF Decide
  <2> QED BY <1>8, <2>1, <2>2, <2>3, <2>4, <2>5 DEF Executing
<1>9. CASE Ending(c)
  <2>1. CASE Recovered(c)
    <3>1. local'[c].pc = "reporting"
      BY <1>0, <2>1 DEF Recovered, Become, Call
    <3> QED BY <2>1, <3>1 DEF Recovered, runtime, Asking
  <2>2. CASE Reported(c)
    <3>1. local'[c] = Idle
      BY <1>0, <2>2 DEF Reported, Become
    <3> QED BY <2>2, <3>1 DEF Reported, runtime, Idle, Asking
  <2>3. CASE RecordFails(c)
    BY <2>3, <1>2 DEF RecordFails, runtime
  <2> QED BY <1>9, <2>1, <2>2, <2>3 DEF Ending
<1>10. CASE Initializing(c)
  <2>1. ASSUME Become(c, Idle)
        PROVE  Away
    <3>1. local'[c] = Idle
      BY <1>0, <2>1 DEF Become
    <3> QED BY <3>1 DEF Idle, Asking
  <2>2. CASE LoadContext(c)
    <3>1. "loading" \in Locations \ ({"accept"} \cup Asking) /\ Goto(c, "loading")
      BY <2>2 DEF LoadContext, Asking
    <3>2. Still
      BY <2>2 DEF LoadContext
    <3> QED BY <1>1, <3>1, <3>2
  <2>3. CASE Initialized(c)
    BY <2>1, <2>3 DEF Initialized, runtime
  <2>4. CASE InitializeFails(c)
    BY <2>1, <2>4 DEF InitializeFails, MarkFailed
  <2> QED BY <1>10, <2>2, <2>3, <2>4 DEF Initializing
<1> QED BY <1>5, <1>6, <1>7, <1>8, <1>9, <1>10 DEF Progress

\* A step of a caller keeps that plans in use are generated.
LEMMA GeneratedStep ==
    ASSUME NEW c \in Callers, IInv, TypeOK', PlansAreGenerated, Begin(c) \/ Progress(c)
    PROVE  PlansAreGenerated'
<1> USE Names
<1>0. /\ local \in [Callers -> Call] /\ local' \in [Callers -> Call]
      /\ plans \in [Plans -> 0..MaxCalls] /\ objective \in 0..MaxCalls /\ calls \in Nat
      /\ review \in Review
  BY DEF IInv, TypeOK
<1>1. Moves(c) /\ (Quiet(c) \/ Starts(c) \/ Returns(c))
  BY CallerStep DEF IInv
<1>2. /\ \A d \in Callers : d # c => local'[d] = local[d]
      /\ local'[c].snap \in {local[c].snap, review, NoReview}
  BY <1>1 DEF Moves
<1> DEFINE Used == local'[c].snap.plan # 0 => plans[local'[c].snap.plan] # 0
<1>3. Used
  BY <1>2 DEF PlansAreGenerated, NoReview
<1>4. \A p \in Plans : plans[p] = 0 => queue'[p] = queue[p]
  <2> SUFFICES ASSUME NEW p \in Plans, plans[p] = 0 PROVE queue'[p] = queue[p]
      OBVIOUS
  <2>0. queue \in [Plans -> [Steps -> [status : StepStatus, attempts : Nat]]]
    BY DEF IInv, TypeOK
  <2>1. CASE Quiet(c)
    BY <2>1 DEF Quiet
  <2>2. CASE Starts(c)
    <3> DEFINE q == local'[c].snap.plan
               s == local'[c].step
    <3>1. q \in Plans /\ \E n \in Nat : queue' = [queue EXCEPT ![q][s] = [status |-> "running", attempts |-> n]]
      BY <2>2 DEF Starts
    <3>2. q # p
      BY <3>1, <1>3 DEF Plans
    <3> HIDE DEF q, s
    <3> QED BY <2>0, <3>1, <3>2
  <2>3. CASE Returns(c)
    <3> DEFINE q == local[c].snap.plan
               s == local[c].step
    <3>1. \E result \in Results(local[c]), n \in Nat :
            queue' = [queue EXCEPT ![q][s] = [status |-> result, attempts |-> n]]
      BY <2>3 DEF Returns
    <3>2. q # p
      <4>1. p # 0
        BY DEF Plans
      <4> QED BY <4>1 DEF PlansAreGenerated
    <3> HIDE DEF q, s
    <3> QED BY <2>0, <3>1, <3>2
  <2> QED BY <1>1, <2>1, <2>2, <2>3
\* What is left to show, when no plan is added.
<1> DEFINE Aim == /\ phase' = "planning" => objective' # 0
                  /\ local'[c].pc \in {"accept"} \cup Asking => local'[c].goal # 0
                  /\ review'.plan # 0 => plans[review'.plan] # 0
<1>5. ASSUME plans' = plans, Aim
      PROVE  PlansAreGenerated'
  BY <1>2, <1>3, <1>4, <1>5 DEF PlansAreGenerated, Ahead
<1>6. CASE Begin(c)
  <2>1. PICK k \in Asked : Become(c, [Idle EXCEPT !.pc = Entry(k.op), !.ask = k,
                        !.goal = IF Entry(k.op) = "accept" THEN calls + 1 ELSE 0])
    BY <1>6 DEF Begin
  <2>2. Entry(k.op) \in {"initialize", "accept", "execute", "generate", "approve", "ready"}
    BY AskedAssumption DEF Asks, Entry
  <2>3. local'[c].pc = Entry(k.op) /\ local'[c].goal = IF Entry(k.op) = "accept" THEN calls + 1 ELSE 0
    BY <1>0, <2>1 DEF Become, Idle
  <2>4. Aim /\ plans' = plans
    <3>1. local'[c].pc \in {"accept"} \cup Asking => local'[c].goal # 0
      BY <1>0, <2>2, <2>3 DEF Asking
    <3> QED BY <1>6, <3>1 DEF Begin, runtime, PlansAreGenerated
  <2> QED BY <1>5, <2>4
<1>7. CASE AcceptObjective(c)
  <2>1. local'[c].pc = "accepting"
    BY <1>0, <1>7 DEF AcceptObjective, Goto, Call
  <2>2. Aim /\ plans' = plans
    BY <1>7, <2>1 DEF AcceptObjective, SetObjective, At, PlansAreGenerated, Asking, NoReview
  <2> QED BY <1>5, <2>2
<1>8. CASE GeneratePlan(c)
  <2>1. local'[c].goal = objective
    BY <1>0, <1>8 DEF GeneratePlan, Become, Call
  <2>2. Aim /\ plans' = plans
    BY <1>8, <2>1 DEF GeneratePlan, Planning, PlansAreGenerated, runtime
  <2> QED BY <1>5, <2>2
<1>9. CASE RetryGeneration(c)
  <2>1. local'[c].goal = local[c].goal /\ local[c].pc \in Asking
    BY <1>0, <1>9 DEF RetryGeneration, Goto, At, Asking, Call
  <2>2. Aim /\ plans' = plans
    BY <1>9, <2>1 DEF RetryGeneration, PlansAreGenerated, runtime
  <2> QED BY <1>5, <2>2
<1>10. ASSUME NEW p \in Plans, PlanArrives(c, p)
       PROVE  PlansAreGenerated'
  <2>1. /\ plans' = [plans EXCEPT ![p] = local[c].goal] /\ plans[p] = 0 /\ local[c].goal # 0
        /\ review'.plan = p /\ phase' = phase /\ objective' = objective
    BY <1>10 DEF PlanArrives, PlansAreGenerated, Asking
  <2>2. local'[c].pc \in {"persisting", "rejecting"}
    BY <1>0, <1>10 DEF PlanArrives, Goto, Call
  <2>3. \A q \in Plans : plans'[q] = 0 => plans[q] = 0
    BY <1>0, <2>1
  <2>4. \A q \in Plans : plans[q] # 0 => plans'[q] # 0
    BY <2>3, <1>0, <2>1
  <2>5. plans'[p] # 0
    BY <1>0, <2>1
  <2>6. \A d \in Callers : local'[d].snap.plan # 0 => plans'[local'[d].snap.plan] # 0
    <3> SUFFICES ASSUME NEW d \in Callers, local'[d].snap.plan # 0
                 PROVE  plans'[local'[d].snap.plan] # 0
        OBVIOUS
    <3>1. local'[d].snap.plan \in Plans
      BY <1>0 DEF Call, Review, NoReview
    <3>2. plans[local'[d].snap.plan] # 0
      BY <1>2, <1>3 DEF PlansAreGenerated
    <3> QED BY <2>4, <3>1, <3>2
  <2>7. \A d \in Callers : local'[d].pc \in {"accept"} \cup Asking => local'[d].goal # 0
    BY <1>2, <2>2 DEF PlansAreGenerated, Asking
  <2>8. \A q \in Plans : plans'[q] = 0 => Ahead(q, 0)'
    BY <1>4, <2>3 DEF PlansAreGenerated, Ahead
  <2> QED BY <2>1, <2>5, <2>6, <2>7, <2>8 DEF PlansAreGenerated
<1>12. CASE MarkInitialized(c)
  <2>1. local'[c].pc = "logging"
    BY <1>0, <1>12 DEF MarkInitialized, Goto, Call
  <2>2. Aim /\ plans' = plans
    BY <1>12, <2>1 DEF MarkInitialized, Asking, NoReview
  <2> QED BY <1>5, <2>2
<1>11. CASE /\ Progress(c) /\ ~MarkInitialized(c) /\ ~AcceptObjective(c) /\ ~GeneratePlan(c)
            /\ ~RetryGeneration(c) /\ \A p \in Plans : ~PlanArrives(c, p)
  <2>1. /\ objective' = objective /\ plans' = plans /\ review'.plan = review.plan
        /\ phase' = "planning" => phase = "planning"
        /\ local'[c].pc \notin {"accept"} \cup Asking
    BY <1>11, PlainStep DEF IInv
  <2>2. Aim
    BY <2>1 DEF PlansAreGenerated
  <2> QED BY <1>5, <2>1, <2>2
<1> QED BY <1>6, <1>7, <1>8, <1>9, <1>10, <1>11, <1>12

\* And that generation serves the objective.
LEMMA ServesStep ==
    ASSUME NEW c \in Callers, IInv, TypeOK', PlansAreGenerated, GenerationServesObjective,
           Begin(c) \/ Progress(c)
    PROVE  GenerationServesObjective'
<1> USE Names
<1>0. /\ local \in [Callers -> Call] /\ local' \in [Callers -> Call]
      /\ plans \in [Plans -> 0..MaxCalls]
  BY DEF IInv, TypeOK
<1>1. /\ \A d \in Callers : d # c => local'[d] = local[d]
      /\ local[c].pc = "idle" => overlap \/ \A d \in Callers : local[d].pc = "idle"
      /\ overlap' = overlap
  BY CallerStep DEF IInv, Moves
<1> SUFFICES ASSUME ~overlap
             PROVE  /\ review'.plan # 0 => plans'[review'.plan] = objective'
                    /\ \A d \in Callers : local'[d].pc \in Asking => local'[d].goal = objective'
  BY <1>1 DEF GenerationServesObjective, ActivePlanServesObjective
<1>2. \A d \in Callers : d # c => local'[d].pc = "idle"
  BY <1>1 DEF IInv, OneBusy
<1>3. /\ review.plan # 0 => plans[review.plan] = objective
      /\ local[c].pc \in Asking => local[c].goal = objective
  BY DEF GenerationServesObjective, ActivePlanServesObjective
<1> SUFFICES /\ review'.plan # 0 => plans'[review'.plan] = objective'
             /\ local'[c].pc \in Asking => local'[c].goal = objective'
  BY <1>2 DEF Asking
<1>4. CASE Begin(c)
  <2>1. PICK k \in Asked : Become(c, [Idle EXCEPT !.pc = Entry(k.op), !.ask = k,
                        !.goal = IF Entry(k.op) = "accept" THEN calls + 1 ELSE 0])
    BY <1>4 DEF Begin
  <2>2. Entry(k.op) \in {"initialize", "accept", "execute", "generate", "approve", "ready"}
    BY AskedAssumption DEF Asks, Entry
  <2>3. local'[c].pc = Entry(k.op)
    BY <1>0, <2>1 DEF Become, Idle
  <2> QED BY <1>3, <1>4, <2>2, <2>3 DEF Begin, runtime, Asking
<1>5. CASE AcceptObjective(c)
  <2>1. local'[c].pc = "accepting"
    BY <1>0, <1>5 DEF AcceptObjective, Goto, Call
  <2> QED BY <1>5, <2>1 DEF AcceptObjective, SetObjective, Asking, NoReview
<1>6. CASE GeneratePlan(c)
  <2>1. local'[c].goal = objective
    BY <1>0, <1>6 DEF GeneratePlan, Become, Call
  <2> QED BY <1>3, <1>6, <2>1 DEF GeneratePlan, runtime
<1>7. CASE RetryGeneration(c)
  <2>1. local'[c].goal = local[c].goal /\ local[c].pc \in Asking
    BY <1>0, <1>7 DEF RetryGeneration, Goto, At, Asking, Call
  <2> QED BY <1>3, <1>7, <2>1 DEF RetryGeneration, runtime
<1>8. ASSUME NEW p \in Plans, PlanArrives(c, p)
      PROVE  /\ review'.plan # 0 => plans'[review'.plan] = objective'
             /\ local'[c].pc \in Asking => local'[c].goal = objective'
  <2>1. /\ plans' = [plans EXCEPT ![p] = local[c].goal] /\ local[c].goal = objective
        /\ review'.plan = p /\ objective' = objective
    BY <1>3, <1>8 DEF PlanArrives, Asking
  <2>2. local'[c].pc \in {"persisting", "rejecting"}
    BY <1>0, <1>8 DEF PlanArrives, Goto, Call
  <2> QED BY <1>0, <2>1, <2>2 DEF Asking
<1>10. CASE MarkInitialized(c)
  <2>1. local'[c].pc = "logging"
    BY <1>0, <1>10 DEF MarkInitialized, Goto, Call
  <2> QED BY <1>10, <2>1 DEF MarkInitialized, Asking, NoReview
<1>9. CASE /\ Progress(c) /\ ~MarkInitialized(c) /\ ~AcceptObjective(c) /\ ~GeneratePlan(c)
           /\ ~RetryGeneration(c) /\ \A p \in Plans : ~PlanArrives(c, p)
  <2>1. /\ objective' = objective /\ plans' = plans /\ review'.plan = review.plan
        /\ local'[c].pc \notin {"accept"} \cup Asking
    BY <1>9, PlainStep DEF IInv
  <2> QED BY <1>3, <2>1
<1> QED BY <1>4, <1>5, <1>6, <1>7, <1>8, <1>9, <1>10

\* The invariant of the plans and their objectives.
PlansInv == IInv /\ PlansAreGenerated /\ GenerationServesObjective

\* It holds always.
LEMMA PlansHold == Spec => []PlansInv
<1>1. Init => PlansInv
  BY InitInv DEF Init, PlansInv, PlansAreGenerated, GenerationServesObjective, ActivePlanServesObjective,
      Ahead, Asking, Idle, NoReview, NewStep
<1>2. PlansInv /\ [Next]_vars => PlansInv'
  <2> SUFFICES ASSUME PlansInv, [Next]_vars PROVE PlansInv'
      OBVIOUS
  <2>1. IInv' /\ TypeOK'
    BY NextInv DEF PlansInv, IInv
  <2>2. ASSUME NEW c \in Callers, Begin(c) \/ Progress(c)
        PROVE  PlansInv'
    BY <2>1, <2>2, GeneratedStep, ServesStep DEF PlansInv
  <2>3. CASE UNCHANGED vars
    <3>1. UNCHANGED <<phase, objective, review, plans, queue, local, overlap>>
      BY <2>3 DEF vars
    <3>2. PlansAreGenerated'
      BY <3>1 DEF PlansInv, PlansAreGenerated, Ahead
    <3>3. GenerationServesObjective'
      BY <3>1 DEF PlansInv, GenerationServesObjective, ActivePlanServesObjective
    <3> QED BY <2>1, <3>2, <3>3 DEF PlansInv
  <2> QED BY <2>2, <2>3 DEF Next
<1> QED BY <1>1, <1>2, PTL DEF Spec

\* While calls do not overlap, the plan under review serves the objective the
\* runtime now has, whatever failed before.
THEOREM ReviewServesObjective == Spec => []ActivePlanServesObjective
<1>1. PlansInv => ActivePlanServesObjective
  BY DEF PlansInv, GenerationServesObjective
<1> QED BY <1>1, PlansHold, PTL

(* ------------------------- what a failure ends ------------------------- *)

\* The plans abandoned at a failure are plans somebody generated, and while one
\* of them is still under review nothing may be asked of the runtime.
AbandonedRest ==
    /\ \A p \in abandoned : p \in Plans /\ plans[p] # 0
    /\ review.plan \in abandoned => phase \notin {"ready", "planning"}

\* The steps that neither fail the runtime nor change the plan under review.
LEMMA CalmStep ==
    ASSUME NEW c \in Callers, TypeOK, Begin(c) \/ Progress(c),
           ~MarkInitialized(c), ~AcceptObjective(c), ~AcceptFails(c), ~InitializeFails(c),
           \A p \in Plans : ~PlanArrives(c, p)
    PROVE  /\ plans' = plans /\ abandoned' = abandoned /\ review'.plan = review.plan
           /\ phase' \in {phase, "context_loading"}
<1>1. CASE ApprovePlan(c)
  BY <1>1 DEF ApprovePlan, TypeOK, Review, NoReview, past
<1>2. CASE MarkReady(c)
  BY <1>2 DEF MarkReady, TypeOK, Review, NoReview
<1>3. CASE ~ApprovePlan(c) /\ ~MarkReady(c)
  BY <1>3 DEF Begin, Progress, Initializing, LoadContext, Initialized, Accepting, Accepted, Generating,
      GeneratePlan, RetryGeneration, GenerationFails, ThrowRejected, PlanPersisted, Reviewing,
      ReviewPersisted, Refused, Executing, Execute, ToolReturns, DirectReturns, HistoryAppended,
      Decide, Ending, Recovered, Reported, RecordFails, runtime, past
<1> QED BY <1>1, <1>2, <1>3

\* Every step of a caller keeps the abandoned plans at rest.
LEMMA AbandonedStep ==
    ASSUME NEW c \in Callers, PlansInv, AbandonedRest, Begin(c) \/ Progress(c)
    PROVE  AbandonedRest'
<1>0. TypeOK /\ plans \in [Plans -> 0..MaxCalls] /\ \A p \in abandoned : p # 0
  <2>1. TypeOK /\ plans \in [Plans -> 0..MaxCalls]
    BY DEF PlansInv, IInv, TypeOK
  <2>2. \A p \in Plans : p # 0
    BY DEF Plans
  <2> QED BY <2>1, <2>2 DEF AbandonedRest
<1>1. CASE MarkInitialized(c) \/ AcceptObjective(c)
  <2>1. review' = NoReview /\ plans' = plans /\ abandoned' = abandoned
    BY <1>1 DEF MarkInitialized, AcceptObjective, SetObjective, past
  <2>2. review'.plan = 0
    BY <2>1 DEF NoReview
  <2> QED BY <1>0, <2>1, <2>2 DEF AbandonedRest
<1>2. CASE AcceptFails(c) \/ InitializeFails(c)
  <2>1. review' = review /\ plans' = plans
    BY <1>2 DEF AcceptFails, InitializeFails
  <2>2. \/ phase' = phase /\ abandoned' = abandoned
        \/ phase' = "failed" /\ abandoned' = {p \in Plans : plans[p] # 0}
    BY <1>2 DEF AcceptFails, InitializeFails, MarkFailed
  <2> QED BY <2>1, <2>2 DEF AbandonedRest
<1>3. ASSUME NEW p \in Plans, PlanArrives(c, p)
      PROVE  AbandonedRest'
  <2>1. /\ plans' = [plans EXCEPT ![p] = local[c].goal] /\ plans[p] = 0 /\ local[c].goal # 0
        /\ review'.plan = p /\ abandoned' = abandoned
    BY <1>3 DEF PlanArrives, PlansInv, PlansAreGenerated, Asking, past
  <2>2. p \notin abandoned
    BY <2>1 DEF AbandonedRest
  <2>3. \A q \in abandoned : q \in Plans /\ plans'[q] # 0
    BY <1>0, <2>1, <2>2 DEF AbandonedRest
  <2> QED BY <2>1, <2>2, <2>3 DEF AbandonedRest
<1>4. CASE /\ ~MarkInitialized(c) /\ ~AcceptObjective(c) /\ ~AcceptFails(c) /\ ~InitializeFails(c)
           /\ \A p \in Plans : ~PlanArrives(c, p)
  <2>1. /\ plans' = plans /\ abandoned' = abandoned /\ review'.plan = review.plan
        /\ phase' \in {phase, "context_loading"}
    BY <1>0, <1>4, CalmStep
  <2> QED BY <2>1 DEF AbandonedRest
<1> QED BY <1>1, <1>2, <1>3, <1>4

\* They are at rest always.
LEMMA AbandonedHold == Spec => [](PlansInv /\ AbandonedRest)
<1>1. Init => AbandonedRest
  BY DEF Init, AbandonedRest
<1>2. PlansInv /\ AbandonedRest /\ [Next]_vars => AbandonedRest'
  <2> SUFFICES ASSUME PlansInv, AbandonedRest, [Next]_vars PROVE AbandonedRest'
      OBVIOUS
  <2>1. CASE UNCHANGED vars
    BY <2>1 DEF vars, AbandonedRest
  <2> QED BY <2>1, AbandonedStep DEF Next
<1> QED BY <1>1, <1>2, PlansHold, PTL DEF Spec

\* One step: what a failed runtime, and the abandoned plans, do not see.
LEMMA FailedStep ==
    ASSUME PlansInv, AbandonedRest, [Next]_vars
    PROVE  /\ phase = "failed" => readied' = readied
           /\ (readied' \ readied) \cap abandoned = {}
           /\ \A c \in Callers :
                At(c, "execute") /\ local'[c].pc \in {"tool", "directtool"} =>
                    phase # "failed" /\ review.plan \notin abandoned
<1>1. CASE UNCHANGED vars
  BY <1>1 DEF vars, At
<1>2. ASSUME NEW c \in Callers, Begin(c) \/ Progress(c)
      PROVE  /\ phase = "failed" => readied' = readied
             /\ (readied' \ readied) \cap abandoned = {}
             /\ \A d \in Callers :
                  At(d, "execute") /\ local'[d].pc \in {"tool", "directtool"} =>
                      phase # "failed" /\ review.plan \notin abandoned
  <2>1. TypeOK' /\ TypeOK
    <3>1. [Next]_vars /\ TypeOK /\ OnlyLoopsReport
      BY <1>2 DEF Next, IInv, PlansInv
    <3> QED BY <3>1, TypeNext
  <2>2. Moves(c)
    BY <1>2, <2>1, CallerStep DEF IInv, PlansInv
  <2>3. \/ readied' = readied
        \/ phase = "planning" /\ readied' = readied \cup {review.plan}
    <3>1. CASE MarkReady(c)
      BY <3>1 DEF MarkReady, Planning
    <3>2. CASE ~MarkReady(c)
      BY <1>2, <3>2 DEF Begin, Progress, Initializing, LoadContext, MarkInitialized, Initialized,
          InitializeFails, Accepting, AcceptObjective, AcceptFails, Accepted, Generating, GeneratePlan,
          RetryGeneration, GenerationFails, PlanArrives, ThrowRejected, PlanPersisted, Reviewing,
          ApprovePlan, ReviewPersisted, Refused, Executing, Execute, ToolReturns, DirectReturns,
          HistoryAppended, Decide, Ending, Recovered, Reported, RecordFails, past
    <3> QED BY <3>1, <3>2
  <2>4. phase = "failed" => readied' = readied
    BY <2>3
  <2>5. (readied' \ readied) \cap abandoned = {}
    BY <2>3 DEF AbandonedRest
  <2>6. ASSUME At(c, "execute"), local'[c].pc \in {"tool", "directtool"}
        PROVE  phase # "failed" /\ review.plan \notin abandoned
    <3>1. Refused(c) \/ Execute(c)
      BY <1>2, <2>6 DEF At, Begin, Progress, Initializing, LoadContext, MarkInitialized, Initialized,
        InitializeFails, Accepting, AcceptObjective, AcceptFails, Accepted, Generating,
        GeneratePlan, RetryGeneration, GenerationFails, PlanArrives, ThrowRejected, PlanPersisted, Reviewing,
        ApprovePlan, MarkReady, ReviewPersisted, Executing, ToolReturns, DirectReturns,
        HistoryAppended, Decide, Ending, Recovered, Reported, RecordFails
    <3>2. CASE Execute(c)
      <4>1. phase = "planning"
        BY <3>2 DEF Execute, Planning
      <4> QED BY <4>1 DEF AbandonedRest
    <3>3. CASE Refused(c)
      <4>1. Throw(c) /\ local \in [Callers -> Call]
        BY <3>3, <2>1 DEF Refused, TypeOK
      <4>2. local'[c] = Idle \/ local'[c] = [local[c] EXCEPT !.pc = "recover", !.caught = TRUE]
        BY <4>1, ThrowMoves
      <4>3. [local[c] EXCEPT !.pc = "recover", !.caught = TRUE].pc = "recover" /\ Idle.pc = "idle"
        BY <4>1 DEF Call, Idle
      <4>4. local'[c].pc \in {"idle", "recover"}
        BY <4>2, <4>3
      <4> QED BY <2>6, <4>4
    <3> QED BY <3>1, <3>2, <3>3
  <2>7. \A d \in Callers : d # c => local'[d] = local[d]
    BY <2>2 DEF Moves
  <2>8. ASSUME NEW d \in Callers, At(d, "execute"), local'[d].pc \in {"tool", "directtool"}
        PROVE  phase # "failed" /\ review.plan \notin abandoned
    <3>1. d = c
      BY <2>7, <2>8 DEF At
    <3> QED BY <2>6, <2>8, <3>1
  <2> QED BY <2>4, <2>5, <2>8
<1> QED BY <1>1, <1>2 DEF Next

\* A runtime that failed makes no plan ready and starts no step, and a plan of
\* before a failure is never made ready or begun again, although the runtime
\* may be initialized anew, from any phase and across calls in flight.
THEOREM PlansEndWithTheirRuntime == Spec => FailureEndsPlans
<1>1. PlansInv /\ AbandonedRest /\ [Next]_vars =>
        [/\ phase = "failed" => readied' = readied
         /\ (readied' \ readied) \cap abandoned = {}
         /\ \A c \in Callers :
              At(c, "execute") /\ local'[c].pc \in {"tool", "directtool"} =>
                  phase # "failed" /\ review.plan \notin abandoned]_vars
  BY FailedStep
<1> QED BY <1>1, AbandonedHold, PTL DEF Spec, FailureEndsPlans

(* -------------------- what a completed loop has done ------------------- *)

\* A loop at one of its steps: with the step it is at, and those it may still
\* take, it makes up what it was asked for.
InTurn(r) ==
    /\ r.snap.plan \in Plans /\ r.step \in Steps
    /\ r.left >= 1 /\ r.step + r.left = r.ask.max + 1

\* A plan the loop goes to execute: generated for it, and untouched.
GoesToExecute == {"persisting", "approve", "approving", "ready", "readying", "execute"}

\* What ran of the plan of a loop, from its generation to the loop's report.
LoopIsInOrder(r) ==
    r.ask.op = "loop" =>
        /\ r.pc \in GoesToExecute => review.plan \in Plans /\ Ahead(review.plan, 0)
        /\ r.pc = "tool" => InTurn(r) /\ RanTo(r.snap.plan, r.step - 1) /\ Ahead(r.snap.plan, r.step)
        /\ r.pc \in {"history", "decide"} /\ r.last = "executed" =>
                InTurn(r) /\ RanTo(r.snap.plan, r.step) /\ Ahead(r.snap.plan, r.step)
        /\ r.pc = "reporting" /\ r.outcome = "completed" =>
                r.snap.plan \in Plans /\ RanTo(r.snap.plan, r.ask.max)

\* While calls do not overlap, every loop is in order, and what the completed
\* ones reported stays true.
LoopsAreInOrder ==
    ~overlap =>
        /\ \A c \in Callers : LoopIsInOrder(local[c])
        /\ \A r \in reports : r.outcome = "completed" => r.plan \in Plans /\ RanTo(r.plan, r.max)

\* While calls do not overlap, what was executed stays executed.
LEMMA ExecutedStays ==
    ASSUME NEW c \in Callers, IInv, ~overlap, Quiet(c) \/ Starts(c) \/ Returns(c),
           NEW p \in Plans, NEW s \in Steps, queue[p][s].status = "executed"
    PROVE  queue'[p][s].status = "executed"
<1>0. queue \in [Plans -> [Steps -> [status : StepStatus, attempts : Nat]]]
  BY DEF IInv, TypeOK
<1>1. CASE Quiet(c)
  BY <1>1 DEF Quiet
<1>2. CASE Starts(c)
  <2> DEFINE q == local'[c].snap.plan
             t == local'[c].step
  <2>1. /\ q \in Plans /\ t \in Steps /\ queue[q][t].status # "executed"
        /\ \E n \in Nat : queue' = [queue EXCEPT ![q][t] = [status |-> "running", attempts |-> n]]
    BY <1>2 DEF Starts
  <2> HIDE DEF q, t
  <2> QED BY <1>0, <2>1
<1>3. CASE Returns(c)
  <2> DEFINE q == local[c].snap.plan
             t == local[c].step
  <2>1. \E result \in Results(local[c]), n \in Nat :
            queue' = [queue EXCEPT ![q][t] = [status |-> result, attempts |-> n]]
    BY <1>3 DEF Returns
  <2>2. queue[q][t].status = "running"
    BY <1>3 DEF IInv, OneBusy, Returns, At
  <2> HIDE DEF q, t
  <2> QED BY <1>0, <2>1, <2>2
<1> QED BY <1>1, <1>2, <1>3

\* A step that runs: where its caller is, and every status.
LEMMA RunMoves ==
    ASSUME NEW c \in Callers, NEW r \in Call, NEW t \in Steps, TypeOK, r.snap.plan \in Plans, RunStep(c, r, t)
    PROVE  /\ local'[c].pc = "tool" /\ local'[c].step = t
           /\ local'[c].ask = r.ask /\ local'[c].snap = r.snap /\ local'[c].left = r.left
           /\ \A s \in Steps : queue'[r.snap.plan][s].status =
                                    IF s = t THEN "running" ELSE queue[r.snap.plan][s].status
<1>0. /\ local \in [Callers -> Call]
      /\ queue \in [Plans -> [Steps -> [status : StepStatus, attempts : Nat]]]
  BY DEF TypeOK
<1> DEFINE n == queue[r.snap.plan][t].attempts + 1
           p == r.snap.plan
<1>1. /\ queue' = [queue EXCEPT ![p][t] = [status |-> "running", attempts |-> n]]
      /\ local'[c] = [r EXCEPT !.pc = "tool", !.step = t, !.tries = n]
  BY <1>0 DEF RunStep, Become
<1>2. /\ local'[c].pc = "tool" /\ local'[c].step = t
      /\ local'[c].ask = r.ask /\ local'[c].snap = r.snap /\ local'[c].left = r.left
  <2> HIDE DEF n, p
  <2> QED BY <1>1 DEF Call
<1>3. p \in Plans
  OBVIOUS
<1>4. \A s \in Steps : queue'[p][s].status = IF s = t THEN "running" ELSE queue[p][s].status
  <2> HIDE DEF n, p
  <2> QED BY <1>0, <1>1, <1>3
<1> QED BY <1>2, <1>4

\* A step answered at once.
LEMMA BlockedMoves ==
    ASSUME NEW c \in Callers, NEW r \in Call, TypeOK, AnswerBlocked(c, r)
    PROVE  local'[c].pc = "history" /\ local'[c].last = "blocked"
BY DEF AnswerBlocked, Become, TypeOK, Call

\* The next step of a plan that ran up to step k is step k + 1, and running it
\* keeps the loop in order.
LEMMA NextInOrder ==
    ASSUME NEW c \in Callers, NEW r \in Call, TypeOK, NEW k \in 0..NSteps,
           r.snap.plan \in Plans, RanTo(r.snap.plan, k), Ahead(r.snap.plan, k),
           r.left >= 1, r.ask.max \in Nat, k + 1 + r.left = r.ask.max + 1, StartNext(c, r)
    PROVE  LoopIsInOrder(local[c])'
<1> DEFINE p == r.snap.plan
<1>0. r.left \in Nat /\ NSteps \in Nat
  BY DEF Call
<1>1. CASE AnswerBlocked(c, r)
  <2>1. local'[c].pc = "history" /\ local'[c].last = "blocked"
    BY <1>1, BlockedMoves
  <2> QED BY <2>1 DEF LoopIsInOrder, GoesToExecute
<1>2. CASE ~AnswerBlocked(c, r)
  <2>1. PICK t \in FirstPending(p) : RunStep(c, r, t)
    BY <1>2 DEF StartNext
  <2>2. /\ t \in Steps /\ queue[p][t].status = "pending"
        /\ \A s \in Steps : queue[p][s].status = "pending" => t <= s
    BY <2>1 DEF FirstPending, Pending
  <2>3. t = k + 1
    <3>1. t \in Nat /\ t >= 1 /\ t <= NSteps
      BY <2>2, <1>0 DEF Steps
    <3>2. t > k
      BY <2>2, <3>1 DEF RanTo
    <3>3. k + 1 \in Steps
      BY <3>1, <3>2 DEF Steps
    <3>4. queue[p][k + 1].status = "pending"
      BY <3>3 DEF Ahead
    <3> QED BY <2>2, <3>1, <3>2, <3>3, <3>4
  <2>4. /\ local'[c].pc = "tool" /\ local'[c].step = t
        /\ local'[c].ask = r.ask /\ local'[c].snap = r.snap /\ local'[c].left = r.left
        /\ \A s \in Steps : queue'[p][s].status = IF s = t THEN "running" ELSE queue[p][s].status
    BY <2>1, <2>2, RunMoves
  <2>5. InTurn(local[c])'
    BY <1>0, <2>2, <2>3, <2>4 DEF InTurn
  <2>6. \A s \in Steps : s <= t - 1 => queue'[p][s].status = "executed"
    <3> SUFFICES ASSUME NEW s \in Steps, s <= t - 1 PROVE queue'[p][s].status = "executed"
      OBVIOUS
    <3>1. s <= k /\ s # t
      BY <2>3 DEF Steps
    <3> QED BY <2>4, <3>1 DEF RanTo
  <2>7. \A s \in Steps : s > t => queue'[p][s].status = "pending"
    <3> SUFFICES ASSUME NEW s \in Steps, s > t PROVE queue'[p][s].status = "pending"
      OBVIOUS
    <3>1. s > k /\ s # t
      BY <2>3 DEF Steps
    <3> QED BY <2>4, <3>1 DEF Ahead
  <2>8. local'[c].snap.plan = p
    BY <2>4
  <2> HIDE DEF p
  <2>9. (RanTo(local[c].snap.plan, local[c].step - 1))' /\ (Ahead(local[c].snap.plan, local[c].step))'
    BY <2>4, <2>6, <2>7, <2>8 DEF RanTo, Ahead
  <2> QED BY <2>4, <2>5, <2>9 DEF LoopIsInOrder, GoesToExecute
<1> QED BY <1>1, <1>2

\* A loop that begins to execute begins with the first step.
LEMMA ExecuteInOrder ==
    ASSUME NEW c \in Callers, TypeOK, LoopIsInOrder(local[c]), Execute(c)
    PROVE  LoopIsInOrder(local[c])'
<1> DEFINE k == local[c].ask
           r == [local[c] EXCEPT !.snap = review, !.left = Limit(k)]
<1>0. /\ local \in [Callers -> Call] /\ k \in {NoCall} \cup Asks /\ local[c].pc = "execute"
      /\ local[c] \in Call /\ review \in Review
  BY DEF TypeOK, Call, Execute, At
<1>1. Limit(k) \in Nat
  BY <1>0 DEF Limit, Asks, NoCall
<1>2. r \in Call /\ r.ask = k /\ r.snap = review /\ r.left = Limit(k)
  <2> DEFINE n == Limit(k)
  <2>1. n \in Nat /\ r = [local[c] EXCEPT !.snap = review, !.left = n]
    BY <1>1
  <2>2. local[c] \in Call /\ review \in Review /\ k = local[c].ask
    BY <1>0
  <2> HIDE DEF n, r, k
  <2>3. r \in Call /\ r.ask = k /\ r.snap = review /\ r.left = n
    BY <2>1, <2>2 DEF Call
  <2> QED BY <2>3 DEF n
<1> HIDE DEF r
<1>3. CASE k.op # "loop"
  <2>1. local'[c].ask = local[c].ask
    <3>1. ASSUME AnswerBlocked(c, r)
          PROVE  local'[c].ask = local[c].ask
      BY <1>0, <1>2, <3>1 DEF AnswerBlocked, Become, Call
    <3>2. ASSUME NEW t, RunStep(c, r, t)
          PROVE  local'[c].ask = local[c].ask
      <4> DEFINE n == queue[r.snap.plan][t].attempts + 1
      <4>1. local'[c] = [r EXCEPT !.pc = "tool", !.step = t, !.tries = n]
        BY <1>0, <3>2 DEF RunStep, Become
      <4> HIDE DEF n
      <4> QED BY <1>2, <4>1 DEF Call
    <3>3. CASE Become(c, [r EXCEPT !.pc = "directtool", !.step = k.step])
      <4>1. local'[c] = [r EXCEPT !.pc = "directtool", !.step = k.step]
        BY <1>0, <3>3 DEF Become
      <4> HIDE DEF k
      <4> QED BY <1>2, <4>1 DEF Call, k
    <3>4. \/ StartNext(c, r) \/ StartStep(c, r, k.step)
          \/ Become(c, [r EXCEPT !.pc = "directtool", !.step = k.step])
      BY <1>3 DEF Execute, r
    <3> QED BY <3>1, <3>2, <3>3, <3>4 DEF StartNext, StartStep
  <2> QED BY <1>3, <2>1 DEF LoopIsInOrder
<1>4. CASE k.op = "loop"
  <2>1. k.max \in 1..(NSteps + 1) /\ Limit(k) = k.max
    BY <1>0, <1>4 DEF Asks, NoCall, Limit
  <2>2. review.plan \in Plans /\ Ahead(review.plan, 0)
    BY <1>0, <1>4 DEF LoopIsInOrder, GoesToExecute
  <2>3. RanTo(review.plan, 0)
    BY DEF RanTo, Steps
  <2>4. CASE InOrder(k) /\ StartNext(c, r)
    <3>1. 0 \in 0..NSteps /\ r.left >= 1 /\ r.ask.max \in Nat /\ 0 + 1 + r.left = r.ask.max + 1
      BY <1>2, <2>1
    <3>2. r.snap.plan \in Plans /\ RanTo(r.snap.plan, 0) /\ Ahead(r.snap.plan, 0)
      BY <1>2, <2>2, <2>3
    <3> QED BY <1>2, <2>4, <3>1, <3>2, NextInOrder
  <2>5. CASE k.max = 1 /\ StartStep(c, r, GivenStep(k))
    <3>1. GivenStep(k) = 1 /\ 1 \in Steps
      BY <1>4 DEF GivenStep, Steps
    <3>2. CASE AnswerBlocked(c, r)
      <4>1. local'[c].pc = "history" /\ local'[c].last = "blocked"
        BY <1>2, <3>2, BlockedMoves
      <4> QED BY <4>1 DEF LoopIsInOrder, GoesToExecute
    <3>3. CASE RunStep(c, r, 1)
      <4> DEFINE p == r.snap.plan
      <4>0. p \in Plans /\ Ahead(p, 0)
        BY <1>2, <2>2
      <4>1. /\ local'[c].pc = "tool" /\ local'[c].step = 1
            /\ local'[c].ask = r.ask /\ local'[c].snap = r.snap /\ local'[c].left = r.left
            /\ \A s \in Steps : queue'[p][s].status = IF s = 1 THEN "running" ELSE queue[p][s].status
        BY <1>2, <3>1, <3>3, <4>0, RunMoves
      <4>2. InTurn(local[c])'
        BY <1>2, <2>1, <2>5, <3>1, <4>0, <4>1 DEF InTurn
      <4>3. \A s \in Steps : ~(s <= 0)
        BY DEF Steps
      <4>4. \A s \in Steps : s > 1 => queue'[p][s].status = "pending"
        BY <4>0, <4>1 DEF Ahead, Steps
      <4>5. local'[c].snap.plan = p
        BY <4>1
      <4> HIDE DEF p
      <4>6. (RanTo(local[c].snap.plan, local[c].step - 1))' /\ (Ahead(local[c].snap.plan, local[c].step))'
        BY <4>1, <4>3, <4>4, <4>5 DEF RanTo, Ahead
      <4> QED BY <4>1, <4>2, <4>6 DEF LoopIsInOrder, GoesToExecute
    <3> QED BY <2>5, <3>1, <3>2, <3>3 DEF StartStep
  <2> QED BY <1>4, <2>4, <2>5 DEF Execute, r
<1> QED BY <1>3, <1>4

\* A step of a loop that was executed leaves the plan executed up to it.
LEMMA ReturnInOrder ==
    ASSUME NEW c \in Callers, PlansInv, LoopIsInOrder(local[c]), ToolReturns(c)
    PROVE  LoopIsInOrder(local[c])'
<1>0. /\ TypeOK /\ local \in [Callers -> Call] /\ local[c] \in Call /\ local[c].pc = "tool"
      /\ queue \in [Plans -> [Steps -> [status : StepStatus, attempts : Nat]]]
  BY DEF PlansInv, IInv, TypeOK, ToolReturns, At
<1>1. PICK result \in Results(local[c]) :
        /\ queue' = [queue EXCEPT ![local[c].snap.plan][local[c].step] =
                            [status |-> result, attempts |-> local[c].tries]]
        /\ local'[c] = [local[c] EXCEPT !.pc = "history", !.last = result]
  BY <1>0 DEF ToolReturns, Become
<1>2. /\ local'[c].pc = "history" /\ local'[c].last = result /\ local'[c].ask = local[c].ask
      /\ local'[c].snap = local[c].snap /\ local'[c].step = local[c].step /\ local'[c].left = local[c].left
  BY <1>0, <1>1 DEF Call
<1>3. CASE local[c].ask.op # "loop" \/ result # "executed"
  BY <1>2, <1>3 DEF LoopIsInOrder, GoesToExecute
<1>4. CASE local[c].ask.op = "loop" /\ result = "executed"
  <2> DEFINE p == local[c].snap.plan
             k == local[c].step
             n == local[c].tries
  <2>1. InTurn(local[c]) /\ RanTo(p, k - 1) /\ Ahead(p, k)
    BY <1>0, <1>4 DEF LoopIsInOrder
  <2>2. p \in Plans /\ k \in Steps /\ n \in Nat /\ k \in Nat
    BY <1>0, <2>1 DEF InTurn, Call, Steps
  <2>3. queue' = [queue EXCEPT ![p][k] = [status |-> "executed", attempts |-> n]]
    BY <1>1, <1>4
  <2>4. InTurn(local[c])'
    BY <1>2, <2>1 DEF InTurn
  <2>5. local'[c].snap.plan = p /\ local'[c].step = k
    BY <1>2
  <2> HIDE DEF p, k, n
  <2>6. \A s \in Steps : queue'[p][s].status = IF s = k THEN "executed" ELSE queue[p][s].status
    BY <1>0, <2>2, <2>3
  <2>7. \A s \in Steps : s <= k => queue'[p][s].status = "executed"
    <3> SUFFICES ASSUME NEW s \in Steps, s <= k PROVE queue'[p][s].status = "executed"
        OBVIOUS
    <3>1. s = k \/ s <= k - 1
      BY <2>2 DEF Steps
    <3> QED BY <2>1, <2>6, <3>1 DEF RanTo
  <2>8. \A s \in Steps : s > k => queue'[p][s].status = "pending"
    BY <2>1, <2>2, <2>6 DEF Ahead, Steps
  <2>9. (RanTo(local[c].snap.plan, local[c].step))' /\ (Ahead(local[c].snap.plan, local[c].step))'
    BY <2>5, <2>7, <2>8 DEF RanTo, Ahead
  <2> QED BY <1>2, <2>4, <2>9 DEF LoopIsInOrder, GoesToExecute
<1> QED BY <1>3, <1>4

\* After a step, a loop goes on in order, has run what it was asked for, or
\* goes to its recovery.
LEMMA DecideInOrder ==
    ASSUME NEW c \in Callers, PlansInv, LoopIsInOrder(local[c]), Decide(c)
    PROVE  LoopIsInOrder(local[c])'
<1> DEFINE r == local[c]
<1>0. /\ TypeOK /\ local \in [Callers -> Call] /\ r \in Call /\ r.pc = "decide"
      /\ r.ask \in {NoCall} \cup Asks
  BY DEF PlansInv, IInv, TypeOK, Decide, At, Call
<1>1. CASE r.ask.op # "loop"
  <2>1. local'[c].ask.op # "loop"
    <3>1. CASE MayGoOn(r) /\ StartNext(c, [r EXCEPT !.left = @ - 1])
      <4> DEFINE q == [r EXCEPT !.left = @ - 1]
      <4>1. q \in Call /\ q.ask = r.ask
        BY <1>0, <3>1 DEF MayGoOn, Call
      <4> HIDE DEF q
      <4>2. ASSUME AnswerBlocked(c, q)
            PROVE  local'[c].ask = q.ask
        BY <1>0, <4>1, <4>2 DEF AnswerBlocked, Become, Call
      <4>3. ASSUME NEW t, RunStep(c, q, t)
            PROVE  local'[c].ask = q.ask
        <5> DEFINE n == queue[q.snap.plan][t].attempts + 1
        <5>1. local'[c] = [q EXCEPT !.pc = "tool", !.step = t, !.tries = n]
          BY <1>0, <4>3 DEF RunStep, Become
        <5> HIDE DEF n
        <5> QED BY <4>1, <5>1 DEF Call
      <4>4. StartNext(c, q)
        BY <3>1 DEF q
      <4>5. local'[c].ask = q.ask
        BY <4>2, <4>3, <4>4 DEF StartNext
      <4> QED BY <1>1, <4>1, <4>5
    <3>2. CASE Continue(c, "recover")
      BY <1>0, <1>1, <3>2 DEF Continue, Become, Idle, NoCall
    <3> QED BY <1>1, <3>1, <3>2 DEF Decide
  <2> QED BY <2>1 DEF LoopIsInOrder
<1>2. CASE r.ask.op = "loop"
  <2>0. r.ask.max \in 1..(NSteps + 1) /\ InOrder(r.ask) = (r.ask.max > 1)
    BY <1>0, <1>2 DEF Asks, NoCall, InOrder
  <2>1. r.last = "executed" =>
            InTurn(r) /\ RanTo(r.snap.plan, r.step) /\ Ahead(r.snap.plan, r.step)
    BY <1>0, <1>2 DEF LoopIsInOrder
  <2>2. CASE MayGoOn(r) /\ StartNext(c, [r EXCEPT !.left = @ - 1])
    <3> DEFINE q == [r EXCEPT !.left = @ - 1]
    <3>1. InTurn(r) /\ RanTo(r.snap.plan, r.step) /\ Ahead(r.snap.plan, r.step) /\ r.left > 1
      BY <2>1, <2>2 DEF MayGoOn
    <3>2. q \in Call /\ q.ask = r.ask /\ q.snap = r.snap /\ q.left = r.left - 1 /\ r.left \in Nat
      BY <1>0, <3>1 DEF Call
    <3>3. StartNext(c, q)
      BY <2>2
    <3> HIDE DEF q
    <3>4. /\ q.snap.plan \in Plans /\ RanTo(q.snap.plan, r.step) /\ Ahead(q.snap.plan, r.step)
          /\ q.left >= 1 /\ q.ask.max \in Nat /\ r.step \in 0..NSteps /\ r.step + 1 + q.left = q.ask.max + 1
      BY <2>0, <3>1, <3>2 DEF InTurn, Steps
    <3> HIDE DEF r
    <3> QED BY <1>0, <3>2, <3>3, <3>4, NextInOrder
  <2>3. CASE Become(c, [r EXCEPT !.pc = "reporting", !.outcome = "completed"])
             /\ Completed(r) /\ ~MayGoOn(r) /\ UNCHANGED queue
    <3>1. /\ local'[c].pc = "reporting" /\ local'[c].ask = r.ask /\ local'[c].snap = r.snap
      BY <1>0, <2>3 DEF Become, Call
    <3>2. r.snap.plan \in Plans /\ RanTo(r.snap.plan, r.ask.max)
      <4>1. CASE r.last = "executed"
        <5>1. r.left \in Nat /\ InTurn(r) /\ RanTo(r.snap.plan, r.step)
          BY <1>0, <2>1, <4>1 DEF Call
        <5>2. r.step = r.ask.max
          <6>1. r.step + r.left = r.ask.max + 1 /\ r.left >= 1 /\ r.step \in 1..NSteps
            BY <5>1 DEF InTurn, Steps
          <6>2. CASE r.ask.max > 1
            <7>1. ~(r.left > 1)
              BY <2>0, <2>3, <4>1, <6>2 DEF MayGoOn
            <7> QED BY <2>0, <5>1, <6>1, <7>1
          <6>3. CASE ~(r.ask.max > 1)
            BY <2>0, <5>1, <6>1, <6>3
          <6> QED BY <6>2, <6>3
        <5> QED BY <5>1, <5>2 DEF InTurn
      <4>2. CASE AllExecuted(r.snap.plan)
        <5>1. r.snap.plan \in Plans
          BY <1>0, <4>2 DEF AllExecuted, Call, Review, NoReview
        <5> QED BY <4>2, <5>1 DEF AllExecuted, RanTo
      <4> QED BY <2>3, <4>1, <4>2 DEF Completed
    <3>3. local'[c].snap.plan \in Plans /\ (RanTo(local[c].snap.plan, local[c].ask.max))'
      BY <2>3, <3>1, <3>2 DEF RanTo
    <3> QED BY <3>1, <3>3 DEF LoopIsInOrder, GoesToExecute
  <2>4. CASE Continue(c, "recover")
    <3>1. local'[c].pc = "recover"
      <4>1. local'[c] = [local[c] EXCEPT !.pc = "recover"]
        BY <1>0, <1>2, <2>4 DEF Continue, Goto
      <4> QED BY <1>0, <4>1 DEF Call
    <3> QED BY <3>1 DEF LoopIsInOrder, GoesToExecute
  <2> QED BY <2>2, <2>3, <2>4 DEF Decide
<1> QED BY <1>1, <1>2

\* Every step of a caller keeps its own loop in order.
LEMMA LoopStep ==
    ASSUME NEW c \in Callers, PlansInv, LoopIsInOrder(local[c]), Begin(c) \/ Progress(c)
    PROVE  LoopIsInOrder(local[c])'
<1> USE Names
<1>0. /\ TypeOK /\ local \in [Callers -> Call]
      /\ queue \in [Plans -> [Steps -> [status : StepStatus, attempts : Nat]]]
      /\ local[c] \in Call /\ review \in Review
  BY DEF PlansInv, IInv, TypeOK
\* Places where nothing is asked of a loop; rejections and answers lead there.
<1> DEFINE Off == {"idle", "accept", "accepting", "generate", "generating", "regenerating", "rejecting",
                   "directtool", "recover", "loading", "logging"}
<1>1. ASSUME local'[c].ask.op # "loop" \/ local'[c].pc \in Off
      PROVE  LoopIsInOrder(local[c])'
  BY <1>1 DEF LoopIsInOrder, GoesToExecute
<1>2. ASSUME Throw(c)
      PROVE  LoopIsInOrder(local[c])'
  <2>1. \/ local'[c] = Idle
        \/ local'[c] = [local[c] EXCEPT !.pc = "recover", !.caught = TRUE]
    BY <1>0, <1>2, ThrowMoves
  <2>2. local'[c].pc \in {"idle", "recover"}
    <3>1. CASE local'[c] = Idle
      BY <3>1 DEF Idle
    <3>2. CASE local'[c] = [local[c] EXCEPT !.pc = "recover", !.caught = TRUE]
      BY <1>0, <3>2 DEF Call
    <3> QED BY <2>1, <3>1, <3>2
  <2> QED BY <1>1, <2>2
<1>3. ASSUME NEW l \in Locations, Goto(c, l)
      PROVE  /\ local'[c].pc = l /\ local'[c].ask = local[c].ask /\ local'[c].snap = local[c].snap
             /\ local'[c].last = local[c].last /\ local'[c].left = local[c].left
             /\ local'[c].step = local[c].step
  BY <1>0, <1>3 DEF Goto, Call
<1>4. ASSUME NEW l \in Locations, Continue(c, l)
      PROVE  \/ LoopIsInOrder(local[c])'
             \/ Goto(c, l)
  <2>1. CASE local[c].ask.op = "loop"
    BY <1>4, <2>1 DEF Continue
  <2>2. CASE local[c].ask.op # "loop"
    <3>1. local'[c].pc = "idle"
      BY <1>0, <1>4, <2>2 DEF Continue, Become, Idle
    <3> QED BY <1>1, <3>1
  <2> QED BY <2>1, <2>2
\* On its way to the execution, a loop keeps its plan.
<1>5. ASSUME NEW l \in GoesToExecute, Goto(c, l), local[c].pc \in GoesToExecute,
             queue' = queue, review'.plan = review.plan
      PROVE  LoopIsInOrder(local[c])'
  <2>1. l \in Locations
    BY DEF GoesToExecute
  <2>2. local'[c].pc = l /\ local'[c].ask = local[c].ask
    BY <2>1, <1>3, <1>5
  <2>3. local[c].ask.op = "loop" => review.plan \in Plans /\ Ahead(review.plan, 0)
    BY <1>5 DEF LoopIsInOrder
  <2>4. local'[c].ask.op = "loop" => review'.plan \in Plans /\ (Ahead(review.plan, 0))'
    BY <1>5, <2>2, <2>3 DEF Ahead
  <2> QED BY <2>2, <2>4 DEF LoopIsInOrder, GoesToExecute
<1>6. CASE Begin(c)
  <2>1. PICK k \in Asked : Become(c, [Idle EXCEPT !.pc = Entry(k.op), !.ask = k,
                        !.goal = IF Entry(k.op) = "accept" THEN calls + 1 ELSE 0])
    BY <1>6 DEF Begin
  <2>2. local'[c].pc = Entry(k.op) /\ local'[c].ask = k
    BY <1>0, <2>1 DEF Become, Idle
  <2>3. k.op = "loop" => Entry(k.op) = "accept"
    BY DEF Entry
  <2> QED BY <1>1, <2>2, <2>3
<1>7. CASE Accepting(c)
  <2>1. CASE AcceptObjective(c)
    <3>1. local'[c].pc = "accepting"
      BY <2>1, <1>3 DEF AcceptObjective
    <3> QED BY <1>1, <3>1
  <2>2. CASE AcceptFails(c)
    BY <2>2, <1>2 DEF AcceptFails
  <2>3. CASE Accepted(c)
    <3>1. LoopIsInOrder(local[c])' \/ Goto(c, "generate")
      BY <2>3, <1>4 DEF Accepted
    <3>2. CASE Goto(c, "generate")
      <4>1. local'[c].pc = "generate"
        BY <3>2, <1>3
      <4> QED BY <1>1, <4>1
    <3> QED BY <3>1, <3>2
  <2> QED BY <1>7, <2>1, <2>2, <2>3 DEF Accepting
<1>8. CASE Generating(c)
  <2>1. CASE GeneratePlan(c)
    <3>1. local'[c].pc = "generating"
      BY <1>0, <2>1 DEF GeneratePlan, Become, Call
    <3> QED BY <1>1, <3>1
  <2>2. CASE RetryGeneration(c)
    <3>1. local'[c].pc = "regenerating"
      BY <2>2, <1>3 DEF RetryGeneration
    <3> QED BY <1>1, <3>1
  <2>3. CASE GenerationFails(c)
    BY <2>3, <1>2 DEF GenerationFails
  <2>4. ASSUME NEW p \in Plans, PlanArrives(c, p)
        PROVE  LoopIsInOrder(local[c])'
    <3>1. CASE Goto(c, "rejecting")
      <4>1. local'[c].pc = "rejecting"
        BY <3>1, <1>3
      <4> QED BY <1>1, <4>1
    <3>2. CASE Goto(c, "persisting")
      <4>1. local'[c].pc = "persisting"
        BY <3>2, <1>3
      <4>2. review'.plan = p /\ queue' = queue /\ plans[p] = 0
        BY <2>4 DEF PlanArrives
      <4>3. Ahead(p, 0)
        BY <4>2 DEF PlansInv, PlansAreGenerated
      <4>4. review'.plan \in Plans /\ (Ahead(review.plan, 0))'
        BY <4>2, <4>3 DEF Ahead
      <4> QED BY <4>1, <4>4 DEF LoopIsInOrder, GoesToExecute
    <3> QED BY <2>4, <3>1, <3>2 DEF PlanArrives
  <2>5. CASE ThrowRejected(c)
    BY <2>5, <1>2 DEF ThrowRejected
  <2>6. CASE PlanPersisted(c)
    <3>1. CASE Become(c, [local[c] EXCEPT !.pc = "reporting", !.outcome = "blocked"])
      <4>1. local'[c].pc = "reporting" /\ local'[c].outcome = "blocked"
        BY <1>0, <3>1 DEF Become, Call
      <4> QED BY <4>1 DEF LoopIsInOrder, GoesToExecute
    <3>2. CASE Continue(c, "approve")
      <4>1. LoopIsInOrder(local[c])' \/ Goto(c, "approve")
        BY <3>2, <1>4
      <4>2. "approve" \in GoesToExecute /\ local[c].pc \in GoesToExecute /\ queue' = queue /\ review' = review
        BY <2>6 DEF PlanPersisted, At, GoesToExecute, runtime
      <4> QED BY <4>1, <4>2, <1>5
    <3> QED BY <2>6, <3>1, <3>2 DEF PlanPersisted
  <2> QED BY <1>8, <2>1, <2>2, <2>3, <2>4, <2>5, <2>6 DEF Generating
<1>9. CASE Reviewing(c)
  <2>1. CASE ApprovePlan(c)
    <3>1. review'.plan = review.plan
      BY <1>0, <2>1 DEF ApprovePlan, Review, NoReview
    <3>2. "approving" \in GoesToExecute /\ local[c].pc \in GoesToExecute /\ queue' = queue /\ Goto(c, "approving")
      BY <2>1 DEF ApprovePlan, At, GoesToExecute
    <3> QED BY <3>1, <3>2, <1>5
  <2>2. CASE MarkReady(c)
    <3>1. review'.plan = review.plan
      BY <1>0, <2>2 DEF MarkReady, Review, NoReview
    <3>2. "readying" \in GoesToExecute /\ local[c].pc \in GoesToExecute /\ queue' = queue /\ Goto(c, "readying")
      BY <2>2 DEF MarkReady, At, GoesToExecute
    <3> QED BY <3>1, <3>2, <1>5
  <2>3. CASE ReviewPersisted(c)
    <3>1. \/ LoopIsInOrder(local[c])' \/ Goto(c, "ready") \/ Goto(c, "execute")
      BY <2>3, <1>4 DEF ReviewPersisted
    <3>2. /\ "ready" \in GoesToExecute /\ "execute" \in GoesToExecute /\ local[c].pc \in GoesToExecute
          /\ queue' = queue /\ review' = review
      BY <2>3 DEF ReviewPersisted, At, GoesToExecute, runtime
    <3> QED BY <3>1, <3>2, <1>5
  <2>4. CASE Refused(c)
    BY <2>4, <1>2 DEF Refused
  <2> QED BY <1>9, <2>1, <2>2, <2>3, <2>4 DEF Reviewing
<1>10. local[c].ask \in {NoCall} \cup Asks
  BY <1>0 DEF Call
<1>11. CASE Execute(c)
  BY <1>0, <1>10, <1>11, ExecuteInOrder
<1>12. CASE ToolReturns(c)
  BY <1>12, ReturnInOrder
<1>13. CASE DirectReturns(c)
  <2>1. local'[c].pc = "idle"
    BY <1>0, <1>13 DEF DirectReturns, Become, Idle
  <2> QED BY <1>1, <2>1
<1>14. CASE HistoryAppended(c)
  <2>1. /\ local'[c].pc = "decide" /\ local'[c].ask = local[c].ask /\ local'[c].snap = local[c].snap
        /\ local'[c].last = local[c].last /\ local'[c].left = local[c].left
        /\ local'[c].step = local[c].step /\ queue' = queue /\ local[c].pc = "history"
    BY <1>14, <1>3 DEF HistoryAppended, At
  <2>2. local[c].ask.op = "loop" /\ local[c].last = "executed" =>
            InTurn(local[c]) /\ RanTo(local[c].snap.plan, local[c].step) /\ Ahead(local[c].snap.plan, local[c].step)
    BY <2>1 DEF LoopIsInOrder
  <2>3. local'[c].ask.op = "loop" /\ local'[c].last = "executed" =>
            /\ InTurn(local[c])' /\ (RanTo(local[c].snap.plan, local[c].step))'
            /\ (Ahead(local[c].snap.plan, local[c].step))'
    BY <2>1, <2>2 DEF InTurn, RanTo, Ahead
  <2> QED BY <2>1, <2>3 DEF LoopIsInOrder, GoesToExecute
<1>15. CASE Decide(c)
  BY <1>15, DecideInOrder
<1>16. CASE Ending(c)
  <2>1. CASE Recovered(c)
    <3>1. local'[c].pc = "reporting" /\ local'[c].outcome # "completed"
      BY <1>0, <2>1 DEF Recovered, Become, Call
    <3> QED BY <3>1 DEF LoopIsInOrder, GoesToExecute
  <2>2. CASE Reported(c)
    <3>1. local'[c].pc = "idle"
      BY <1>0, <2>2 DEF Reported, Become, Idle
    <3> QED BY <1>1, <3>1
  <2>3. CASE RecordFails(c)
    BY <2>3, <1>2 DEF RecordFails
  <2> QED BY <1>16, <2>1, <2>2, <2>3 DEF Ending
<1>17. CASE Initializing(c)
  <2>1. ASSUME Become(c, Idle)
        PROVE  LoopIsInOrder(local[c])'
    <3>1. local'[c].pc = "idle"
      BY <1>0, <2>1 DEF Become, Idle
    <3> QED BY <1>1, <3>1
  <2>2. CASE LoadContext(c)
    <3>1. local'[c].pc = "loading"
      BY <2>2, <1>3 DEF LoadContext
    <3> QED BY <1>1, <3>1
  <2>3. CASE MarkInitialized(c)
    <3>1. local'[c].pc = "logging"
      BY <2>3, <1>3 DEF MarkInitialized
    <3> QED BY <1>1, <3>1
  <2>4. CASE Initialized(c)
    BY <2>1, <2>4 DEF Initialized
  <2>5. CASE InitializeFails(c)
    BY <2>1, <2>5 DEF InitializeFails
  <2> QED BY <1>17, <2>2, <2>3, <2>4, <2>5 DEF Initializing
<1> QED BY <1>6, <1>7, <1>8, <1>9, <1>11, <1>12, <1>13, <1>14, <1>15, <1>16, <1>17
        DEF Progress, Executing

\* A step of a caller keeps all loops in order and all reports true.
LEMMA LoopsStep ==
    ASSUME NEW c \in Callers, PlansInv, TypeOK', LoopsAreInOrder, Begin(c) \/ Progress(c)
    PROVE  LoopsAreInOrder'
<1>0. TypeOK /\ IInv /\ local \in [Callers -> Call]
  BY DEF PlansInv, IInv, TypeOK
<1>1. /\ \A d \in Callers : d # c => local'[d] = local[d]
      /\ local[c].pc = "idle" => overlap \/ \A d \in Callers : local[d].pc = "idle"
      /\ overlap' = overlap /\ (Quiet(c) \/ Starts(c) \/ Returns(c))
  BY <1>0, CallerStep DEF IInv, Moves
<1> SUFFICES ASSUME ~overlap
             PROVE  /\ \A d \in Callers : LoopIsInOrder(local[d])'
                    /\ \A r \in reports' : r.outcome = "completed" => r.plan \in Plans /\ (RanTo(r.plan, r.max))'
  BY <1>1 DEF LoopsAreInOrder
<1>2. LoopIsInOrder(local[c]) /\ \A r \in reports : r.outcome = "completed" => r.plan \in Plans /\ RanTo(r.plan, r.max)
  BY DEF LoopsAreInOrder
<1>3. \A d \in Callers : LoopIsInOrder(local[d])'
  <2> SUFFICES ASSUME NEW d \in Callers PROVE LoopIsInOrder(local[d])'
      OBVIOUS
  <2>1. CASE d = c
    BY <1>2, <2>1, LoopStep
  <2>2. CASE d # c
    <3>1. local'[d].pc = "idle"
      BY <1>0, <1>1, <2>2 DEF IInv, OneBusy
    <3> QED BY <3>1 DEF LoopIsInOrder, GoesToExecute
  <2> QED BY <2>1, <2>2
<1>4. ASSUME NEW p \in Plans, NEW m \in Nat, RanTo(p, m)
      PROVE  \A s \in Steps : s <= m => queue'[p][s].status = "executed"
  <2> SUFFICES ASSUME NEW s \in Steps, s <= m PROVE queue'[p][s].status = "executed"
      OBVIOUS
  <2>1. queue[p][s].status = "executed"
    BY <1>4 DEF RanTo
  <2> QED BY <1>0, <1>1, <2>1, ExecutedStays
<1>5. reports \subseteq [plan : {0} \cup Plans, max : 1..(NSteps + 1), outcome : Outcomes]
  BY <1>0 DEF TypeOK
<1>6. ASSUME NEW r \in reports, r.outcome = "completed"
      PROVE  r.plan \in Plans /\ \A s \in Steps : s <= r.max => queue'[r.plan][s].status = "executed"
  <2>1. r.plan \in Plans /\ RanTo(r.plan, r.max)
    BY <1>2, <1>6
  <2>2. r.max \in Nat
    BY <1>5, <1>6
  <2> QED BY <1>4, <2>1, <2>2
<1>7. ASSUME NEW r \in reports', r.outcome = "completed"
      PROVE  r.plan \in Plans /\ \A s \in Steps : s <= r.max => queue'[r.plan][s].status = "executed"
  <2>1. CASE r \in reports
    BY <1>6, <1>7, <2>1
  <2>2. CASE r \notin reports
    <3>1. Reported(c)
      BY <2>2 DEF Begin, Progress, Initializing, LoadContext, MarkInitialized, Initialized,
        InitializeFails, Accepting, AcceptObjective, AcceptFails, Accepted, Generating, GeneratePlan,
        RetryGeneration, GenerationFails, PlanArrives, ThrowRejected, PlanPersisted, Reviewing, ApprovePlan,
        MarkReady, ReviewPersisted, Refused, Executing, Execute, ToolReturns, DirectReturns, HistoryAppended,
        Decide, Ending, Recovered, RecordFails, past
    <3> DEFINE q == local[c]
    <3>2. r = [plan |-> q.snap.plan, max |-> q.ask.max, outcome |-> q.outcome]
      BY <2>2, <3>1 DEF Reported
    <3>3. r.plan = q.snap.plan /\ r.max = q.ask.max /\ q.outcome = "completed"
      BY <3>2, <1>7
    <3>4. q.ask.op = "loop" /\ q.pc = "reporting"
      BY <1>0, <3>1 DEF Reported, At, IInv, OnlyLoopsReport
    <3>5. q.snap.plan \in Plans /\ RanTo(q.snap.plan, q.ask.max)
      BY <1>2, <3>3, <3>4 DEF LoopIsInOrder
    <3>6. q.ask.max \in Nat
      <4>1. q.ask \in {NoCall} \cup Asks
        BY <1>0 DEF Call
      <4> QED BY <3>4, <4>1 DEF Asks, NoCall
    <3> HIDE DEF q
    <3> QED BY <1>4, <3>3, <3>5, <3>6
  <2> QED BY <2>1, <2>2
<1> QED BY <1>3, <1>7 DEF RanTo

\* The invariant of the loops holds always.
LEMMA LoopsHold == Spec => [](PlansInv /\ LoopsAreInOrder)
<1>1. Init => LoopsAreInOrder
  BY DEF Init, LoopsAreInOrder, LoopIsInOrder, Idle, NoCall
<1>2. PlansInv /\ LoopsAreInOrder /\ PlansInv' /\ [Next]_vars => LoopsAreInOrder'
  <2> SUFFICES ASSUME PlansInv, LoopsAreInOrder, PlansInv', [Next]_vars PROVE LoopsAreInOrder'
      OBVIOUS
  <2>1. ASSUME NEW c \in Callers, Begin(c) \/ Progress(c)
        PROVE  LoopsAreInOrder'
    <3>1. TypeOK'
      BY DEF PlansInv, IInv
    <3> QED BY <2>1, <3>1, LoopsStep
  <2>2. CASE UNCHANGED vars
    <3>1. UNCHANGED <<review, queue, local, overlap, reports>>
      BY <2>2 DEF vars
    <3> QED BY <3>1 DEF LoopsAreInOrder, LoopIsInOrder, InTurn, RanTo, Ahead
  <2> QED BY <2>1, <2>2 DEF Next
<1> QED BY <1>1, <1>2, PlansHold, PTL DEF Spec

\* While calls do not overlap, a loop that reports completed ran every step it
\* was asked for, and none of them is undone by what is called later.
THEOREM LoopsComplete == Spec => []CompletedLoopsRanTheirSteps
<1>1. LoopsAreInOrder => CompletedLoopsRanTheirSteps
  BY DEF LoopsAreInOrder, CompletedLoopsRanTheirSteps, RanTo
<1> QED BY <1>1, LoopsHold, PTL
=============================================================================
