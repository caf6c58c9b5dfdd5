------------------------- MODULE RepairAttemptProofs -------------------------
(* Theorems about RepairAttempt, for any attempts, files, models, calls,   *)
(* replies and prompts. What an attempt may send is decided before it      *)
(* sends, so the invariants follow ask, environment and decision from      *)
(* there on; the report file is shared, so its invariant speaks of the     *)
(* attempt that last opened it and of all that write over it.              *)
EXTENDS RepairAttempt, TLAPS

(* ------------------------------ commands ------------------------------- *)

LEMMA CommandType ==
    ASSUME NEW q \in Ask
    PROVE  Command(q) \in Ask
<1>1. Completion(q.completion) \in Nat
  BY DEF Completion, DefaultCompletionTokens, Ask
<1>2. [q EXCEPT !.completion = Completion(q.completion)] \in Ask
  BY <1>1 DEF Ask
<1>3. ASSUME NEW n \in Nat
      PROVE  [q EXCEPT !.provider = "fake-llm", !.model = NoModel, !.completion = n,
                       !.allowReal = FALSE, !.allowPremium = FALSE,
                       !.premiumApproved = FALSE] \in Ask
  BY DEF Ask, Providers
<1> QED BY <1>1, <1>2, <1>3 DEF Command, AgentCommand

LEMMA DecisionType ==
    ASSUME NEW c \in Ask, NEW e \in Environment, NEW prompt \in Nat, NEW risk
    PROVE  Decision(c, e, prompt, risk) \in [allowed : BOOLEAN, model : Models \cup {NoModel}, prompt : Nat]
<1>1. ModelOf(c, e) \in Models \cup {NoModel}
  BY DEF ModelOf, Ask, Environment
<1>2. WithinBudget(ModelOf(c, e), risk, prompt, Completion(c.completion), c.premiumApproved) \in BOOLEAN
  BY DEF WithinBudget
<1> QED BY <1>1, <1>2 DEF Decision, Undecided, RequestedModel

LEMMA CallType ==
    ASSUME NEW a \in Attempts, NEW c \in Calls[a]
    PROVE  c.ask \in Ask /\ c.env \in Environment
BY ConstantsAssumption

LEMMA FakeType ==
    ASSUME NEW files \in SUBSET Files, NEW p \in FakeProposals(files)
    PROVE  p \in Proposal
<1>1. NoProposal \in Proposal
  BY DEF NoProposal, Proposal
<1>2. ASSUME NEW o \in Operation
      PROVE  [operations |-> {o}, flagged |-> FALSE] \in Proposal
  BY DEF Proposal
<1> QED BY <1>1, <1>2 DEF FakeProposals

\* What is sent of an allowed decision: the model it judged, not of the premium tier.
LEMMA Judged ==
    ASSUME NEW c \in Ask, NEW e \in Environment, NEW prompt \in Nat, NEW risk \in {"low", "medium"},
           c.provider = "openrouter", Configured(c, e), Decision(c, e, prompt, risk).allowed
    PROVE  /\ Decision(c, e, prompt, risk) = [allowed |-> TRUE, model |-> ModelOf(c, e), prompt |-> prompt]
           /\ ModelOf(c, e) \in Models /\ TierOf[ModelOf(c, e)] # "premium"
           /\ prompt <= MaxPromptTokens
<1>1. ModelOf(c, e) \in Models
  BY DEF ModelOf, Configured, Ask, Environment
<1>2. WithinBudget(ModelOf(c, e), risk, prompt, Completion(c.completion), c.premiumApproved)
  BY DEF Decision, RequestedModel
<1>3. WithinBudget(ModelOf(c, e), risk, prompt, Completion(c.completion), c.premiumApproved) = TRUE
  BY <1>2 DEF WithinBudget
<1> QED BY <1>1, <1>2, <1>3 DEF Decision, RequestedModel, WithinBudget, Tier

LEMMA FoundType ==
    ASSUME NEW q \in Ask, NEW found, NEW files \in Found(q, found)
    PROVE  files \in SUBSET Files /\ (q.targets # {} => files = q.targets)
BY DEF Found, Ask

LEMMA SentType ==
    ASSUME NEW c \in Ask, NEW e \in Environment
    PROVE  ModelOf(c, e) \in Models \cup {NoModel}
BY DEF ModelOf, Ask, Environment

(* ------------------------------- steps --------------------------------- *)

Act(a) == Begin(a) \/ Proceed(a) \/ TimerFires(a) \/ Suffer(a) \/ UNCHANGED vars

\* Every step keeps the types.
LEMMA TypeStep ==
    ASSUME TypeOK, NEW a \in Attempts, Act(a)
    PROVE  TypeOK'
<1>1. CASE Begin(a)
  BY <1>1, TypeOK DEF Begin, At, Goto, request, outcome, TypeOK, Sites, Statuses
<1>2. CASE Validate(a)
  BY <1>2, TypeOK DEF Validate, At, Goto, Conclude, request, TypeOK, Sites, Statuses
<1>3. CASE CreateProvider(a)
  BY <1>3, TypeOK, CallType, FoundType DEF CreateProvider, At, Goto, request, outcome, TypeOK, Sites, Statuses
<1>4. CASE ProviderRefused(a)
  BY <1>4, TypeOK, CallType DEF ProviderRefused, At, Goto, request, outcome, TypeOK, Sites, Statuses
<1>5. CASE BuildContext(a)
  BY <1>5, TypeOK DEF BuildContext, At, Goto, request, outcome, TypeOK, Sites, Statuses
<1>6. CASE ProposeLocally(a)
  <2> PICK prompt \in Prompts, severity \in {"none", "error"},
           p \in IF Command(ask[a]).provider = "fake-llm" THEN FakeProposals(targets[a]) ELSE {NoProposal} :
              /\ decision' = [decision EXCEPT ![a] = Decision(Command(ask[a]), env[a], prompt, Risk(severity))]
              /\ proposal' = [proposal EXCEPT ![a] = p]
    BY <1>6 DEF ProposeLocally
  <2>1. Command(ask[a]) \in Ask /\ env[a] \in Environment /\ prompt \in Nat /\ targets[a] \in SUBSET Files
    BY TypeOK, CommandType, ConstantsAssumption DEF TypeOK
  <2>2. Decision(Command(ask[a]), env[a], prompt, Risk(severity))
           \in [allowed : BOOLEAN, model : Models \cup {NoModel}, prompt : Nat]
    BY <2>1, DecisionType
  <2>3. p \in Proposal
    <3>1. NoProposal \in Proposal
      BY DEF NoProposal, Proposal
    <3>2. p \in FakeProposals(targets[a]) => p \in Proposal
      BY <2>1, FakeType
    <3> QED BY <3>1, <3>2
  <2> QED BY <1>6, <2>2, <2>3, TypeOK DEF ProposeLocally, Goto, TypeOK, Sites
<1>7. CASE Send(a)
  BY <1>7, TypeOK, CommandType, DecisionType, ConstantsAssumption, SentType DEF Send, At, Goto, outcome, TypeOK, Sites, Statuses
<1>8. CASE ValidateProposal(a)
  BY <1>8, TypeOK DEF ValidateProposal, At, Goto, Conclude, request, TypeOK, Sites, Statuses
<1>9. CASE Preview(a)
  BY <1>9, TypeOK DEF Preview, At, Goto, Conclude, request, TypeOK, Sites, Statuses
<1>10. CASE OpenReport(a)
  BY <1>10, TypeOK DEF OpenReport, At, Goto, request, outcome, TypeOK, Sites, Statuses
<1>11. CASE FillReport(a)
  BY <1>11, TypeOK DEF FillReport, At, Goto, request, TypeOK, Sites, Statuses, Filled
<1>12. CASE TimerFires(a)
  BY <1>12, TypeOK DEF TimerFires, Goto, Conclude, Raise, TypeOK, Sites, Statuses, NoProposal, Proposal
<1>13. CASE Headers(a)
  BY <1>13, TypeOK DEF Headers, At, Goto, request, outcome, TypeOK, Sites, Statuses
<1>14. CASE Body(a)
  BY <1>14, TypeOK, ConstantsAssumption DEF Body, At, Goto, TypeOK, Sites, Statuses
<1>15. CASE AnswerUnusable(a)
  BY <1>15, TypeOK DEF AnswerUnusable, Goto, Conclude, Raise, TypeOK, Sites, Statuses, NoProposal, Proposal
<1>16. CASE StepFails(a)
  BY <1>16, TypeOK DEF StepFails, Goto, Conclude, Raise, request, TypeOK, Sites, Statuses, NoProposal, Proposal
<1>17. CASE ReportFails(a)
  BY <1>17, TypeOK DEF ReportFails, Goto, Conclude, Raise, request, TypeOK, Sites, Statuses, NoProposal, Proposal
<1>18. CASE ReportFailsAgain(a)
  BY <1>18, TypeOK DEF ReportFailsAgain, Goto, request, outcome, TypeOK, Sites, Statuses
<1>19. CASE UNCHANGED vars
  BY <1>19, TypeOK DEF vars, request, outcome, TypeOK, Sites, Statuses
<1> QED BY Act(a), <1>1, <1>2, <1>3, <1>4, <1>5, <1>6, <1>7, <1>8, <1>9, <1>10, <1>11, <1>12, <1>13, <1>14, <1>15, <1>16, <1>17, <1>18, <1>19 DEF Act, Proceed, Suffer

Before(b) == pc[b] \in {"providing", "context", "prompted"}
Asked(b) == pc[b] \in {"context", "prompted", "waiting", "reading", "proposed", "previewing"}

\* Where an attempt can be in each stage, what it has not done yet, and what is known
\* of it once its provider was created.
Placed(b) ==
    /\ pc[b] \in {"idle", "validating"} => stage[b] = "validation"
    /\ Before(b) \/ Asked(b) \/ pc[b] = "returned" => stage[b] = "repair"
    /\ stage[b] = "validation" \/ Before(b) => sent[b] = NotSent
    /\ stage[b] = "validation" => status[b] \in {"none", "inspected", "failed"}
    /\ status[b] = "diff_ready" =>
          stage[b] = "repair" /\ pc[b] \in {"reporting", "filling", "returned", "thrown"}
    /\ Asked(b) =>
          /\ Command(ask[b]).provider = "openrouter" => Configured(Command(ask[b]), env[b])
          /\ ask[b].targets # {} => targets[b] = ask[b].targets

LEMMA PlacedStep ==
    ASSUME TypeOK, NEW a \in Attempts, Act(a), NEW b \in Attempts, Placed(b), Placed(a)
    PROVE  Placed(b)'
<1>1. CASE Begin(a)
  BY <1>1, TypeOK DEF Begin, At, Goto, request, outcome, TypeOK, Placed, Before, Asked
<1>2. CASE Validate(a)
  BY <1>2, TypeOK DEF Validate, At, Goto, Conclude, request, TypeOK, Placed, Before, Asked
<1>3. CASE CreateProvider(a)
  BY <1>3, TypeOK, CallType, FoundType DEF CreateProvider, At, Goto, request, outcome, TypeOK, Placed, Before, Asked
<1>4. CASE ProviderRefused(a)
  BY <1>4, TypeOK DEF ProviderRefused, At, Goto, request, outcome, TypeOK, Placed, Before, Asked
<1>5. CASE BuildContext(a)
  BY <1>5, TypeOK DEF BuildContext, At, Goto, request, outcome, TypeOK, Placed, Before, Asked
<1>6. CASE ProposeLocally(a)
  BY <1>6, TypeOK DEF ProposeLocally, At, Goto, TypeOK, Placed, Before, Asked
<1>7. CASE Send(a)
  BY <1>7, TypeOK DEF Send, At, Goto, outcome, TypeOK, Placed, Before, Asked
<1>8. CASE ValidateProposal(a)
  BY <1>8, TypeOK DEF ValidateProposal, At, Goto, Conclude, request, TypeOK, Placed, Before, Asked
<1>9. CASE Preview(a)
  BY <1>9, TypeOK DEF Preview, At, Goto, Conclude, request, TypeOK, Placed, Before, Asked
<1>10. CASE OpenReport(a)
  BY <1>10, TypeOK DEF OpenReport, At, Goto, request, outcome, TypeOK, Placed, Before, Asked
<1>11. CASE FillReport(a)
  BY <1>11, TypeOK DEF FillReport, At, Goto, request, TypeOK, Placed, Before, Asked
<1>12. CASE TimerFires(a)
  BY <1>12, TypeOK DEF TimerFires, Goto, Conclude, Raise, TypeOK, Placed, Before, Asked
<1>13. CASE Headers(a)
  BY <1>13, TypeOK DEF Headers, At, Goto, request, outcome, TypeOK, Placed, Before, Asked
<1>14. CASE Body(a)
  BY <1>14, TypeOK DEF Body, At, Goto, TypeOK, Placed, Before, Asked
<1>15. CASE AnswerUnusable(a)
  BY <1>15, TypeOK DEF AnswerUnusable, Goto, Conclude, Raise, TypeOK, Placed, Before, Asked
<1>16. CASE StepFails(a)
  BY <1>16, TypeOK DEF StepFails, Goto, Conclude, Raise, request, TypeOK, Placed, Before, Asked
<1>17. CASE ReportFails(a)
  BY <1>17, TypeOK DEF ReportFails, Goto, Conclude, Raise, request, TypeOK, Placed, Before, Asked
<1>18. CASE ReportFailsAgain(a)
  BY <1>18, TypeOK DEF ReportFailsAgain, Goto, request, outcome, TypeOK, Placed, Before, Asked
<1>19. CASE UNCHANGED vars
  BY <1>19, TypeOK DEF vars, request, outcome, TypeOK, Placed, Before, Asked
<1> QED BY Act(a), <1>1, <1>2, <1>3, <1>4, <1>5, <1>6, <1>7, <1>8, <1>9, <1>10, <1>11, <1>12, <1>13, <1>14, <1>15, <1>16, <1>17, <1>18, <1>19 DEF Act, Proceed, Suffer

\* A request that was sent is the one decided on from what was asked.
Cleared(b) ==
    sent[b] # NotSent =>
        /\ Command(ask[b]).provider = "openrouter" /\ Configured(Command(ask[b]), env[b])
        /\ sent[b].model = ModelOf(Command(ask[b]), env[b])
        /\ decision[b] = [allowed |-> TRUE, model |-> sent[b].model, prompt |-> sent[b].prompt]
        /\ sent[b].model \in Models /\ TierOf[sent[b].model] # "premium"
        /\ sent[b].prompt <= MaxPromptTokens

LEMMA ClearedStep ==
    ASSUME TypeOK, NEW a \in Attempts, Act(a), NEW b \in Attempts, Cleared(b), Placed(b)
    PROVE  Cleared(b)'
<1>1. CASE CreateProvider(a) \/ ProviderRefused(a) \/ ProposeLocally(a)
  BY <1>1, TypeOK DEF CreateProvider, ProviderRefused, ProposeLocally, At, request, TypeOK, Cleared, Placed, Before
<1>2. CASE Send(a)
  <2>1. CASE b = a
    <3> PICK prompt \in Prompts, severity \in {"none", "error"} :
             /\ Command(ask[a]).provider = "openrouter"
             /\ Decision(Command(ask[a]), env[a], prompt, Risk(severity)).allowed
             /\ decision' = [decision EXCEPT ![a] = Decision(Command(ask[a]), env[a], prompt, Risk(severity))]
             /\ sent' = [sent EXCEPT ![a] = [model |-> ModelOf(Command(ask[a]), env[a]), prompt |-> prompt]]
      BY <1>2 DEF Send
    <3>1. Command(ask[a]) \in Ask /\ env[a] \in Environment /\ prompt \in Nat
      BY TypeOK, CommandType, ConstantsAssumption DEF TypeOK
    <3>2. Configured(Command(ask[a]), env[a])
      BY <1>2, <2>1 DEF Send, At, Placed, Asked
    <3>3. Risk(severity) \in {"low", "medium"}
      BY DEF Risk
    <3>4. /\ decision'[a] = [allowed |-> TRUE, model |-> ModelOf(Command(ask[a]), env[a]), prompt |-> prompt]
          /\ ModelOf(Command(ask[a]), env[a]) \in Models
          /\ TierOf[ModelOf(Command(ask[a]), env[a])] # "premium"
          /\ prompt <= MaxPromptTokens
      BY <3>1, <3>2, <3>3, Judged, TypeOK DEF TypeOK
    <3>5. /\ sent'[a].model = ModelOf(Command(ask[a]), env[a]) /\ sent'[a].prompt = prompt
          /\ ask' = ask /\ env' = env
      BY <1>2, TypeOK DEF Send, TypeOK
    <3> QED BY <2>1, <3>2, <3>4, <3>5 DEF Cleared
  <2>2. CASE b # a
    BY <1>2, <2>2, TypeOK DEF Send, TypeOK, Cleared
  <2> QED BY <2>1, <2>2
<1>3. CASE UNCHANGED <<ask, env, decision, sent>>
  BY <1>3 DEF Cleared
<1> QED BY Act(a), <1>1, <1>2, <1>3 DEF Act, Proceed, Suffer, Begin, Validate, BuildContext, Headers,
     Body, AnswerUnusable, TimerFires, ValidateProposal, Preview, StepFails, OpenReport, FillReport,
     ReportFails, ReportFailsAgain, request, vars

\* A proposal that reached the preview was allowed and found valid, and stays.
Kept(b) ==
    /\ pc[b] \in {"waiting", "reading"} => decision[b].allowed
    /\ pc[b] \in {"proposed", "previewing"} /\ proposal[b].operations # {} => decision[b].allowed
    /\ pc[b] = "previewing" => IsValid(proposal[b], targets[b], related[b])
    /\ status[b] = "diff_ready" =>
          /\ decision[b].allowed /\ proposal[b].operations # {}
          /\ \A o \in proposal[b].operations :
                o.file \in targets[b] /\ (ask[b].targets # {} => o.file \in ask[b].targets)

LEMMA KeptStep ==
    ASSUME TypeOK, NEW a \in Attempts, Act(a), NEW b \in Attempts, Kept(b), Placed(b)
    PROVE  Kept(b)'
<1>1. CASE Begin(a)
  BY <1>1, TypeOK DEF Begin, At, Goto, request, outcome, TypeOK, Kept
<1>2. CASE Validate(a)
  BY <1>2, TypeOK DEF Validate, At, Goto, Conclude, request, TypeOK, Kept
<1>3. CASE CreateProvider(a)
  BY <1>3, TypeOK DEF CreateProvider, At, Goto, request, outcome, TypeOK, Kept, Placed
<1>4. CASE ProviderRefused(a)
  BY <1>4, TypeOK DEF ProviderRefused, At, Goto, request, outcome, TypeOK, Kept, Placed
<1>5. CASE BuildContext(a)
  BY <1>5, TypeOK DEF BuildContext, At, Goto, request, outcome, TypeOK, Kept
<1>6. CASE ProposeLocally(a)
  <2>1. CASE b = a
    <3> PICK prompt \in Prompts, severity \in {"none", "error"},
             p \in IF Command(ask[a]).provider = "fake-llm" THEN FakeProposals(targets[a]) ELSE {NoProposal} :
                /\ decision' = [decision EXCEPT ![a] = Decision(Command(ask[a]), env[a], prompt, Risk(severity))]
                /\ proposal' = [proposal EXCEPT ![a] = p]
      BY <1>6 DEF ProposeLocally
    <3>1. decision'[a] = Decision(Command(ask[a]), env[a], prompt, Risk(severity)) /\ proposal'[a] = p
      BY TypeOK DEF TypeOK
    <3>2. p.operations # {} => decision'[a].allowed
      BY <3>1 DEF Decision, Undecided, NoProposal
    <3>3. pc'[a] = "proposed" /\ status'[a] = status[a] /\ status[a] # "diff_ready"
      BY <1>6, <2>1, TypeOK DEF ProposeLocally, At, Goto, TypeOK, Placed
    <3> QED BY <2>1, <3>1, <3>2, <3>3 DEF Kept
  <2>2. CASE b # a
    BY <1>6, <2>2, TypeOK DEF ProposeLocally, Goto, TypeOK, Kept, IsValid
  <2> QED BY <2>1, <2>2
<1>7. CASE Send(a)
  BY <1>7, TypeOK DEF Send, At, Goto, outcome, TypeOK, Kept
<1>8. CASE ValidateProposal(a)
  BY <1>8, TypeOK DEF ValidateProposal, At, Goto, Conclude, request, TypeOK, Kept
<1>9. CASE Preview(a)
  BY <1>9, TypeOK DEF Preview, At, Goto, Conclude, request, TypeOK, Kept, Placed, Asked, IsValid, Editable
<1>10. CASE OpenReport(a)
  BY <1>10, TypeOK DEF OpenReport, At, Goto, request, outcome, TypeOK, Kept
<1>11. CASE FillReport(a)
  BY <1>11, TypeOK DEF FillReport, At, Goto, request, TypeOK, Kept
<1>12. CASE TimerFires(a)
  BY <1>12, TypeOK DEF TimerFires, Goto, Conclude, Raise, TypeOK, Kept
<1>13. CASE Headers(a)
  BY <1>13, TypeOK DEF Headers, At, Goto, request, outcome, TypeOK, Kept
<1>14. CASE Body(a)
  BY <1>14, TypeOK DEF Body, At, Goto, TypeOK, Kept, Placed
<1>15. CASE AnswerUnusable(a)
  BY <1>15, TypeOK DEF AnswerUnusable, Goto, Conclude, Raise, TypeOK, Kept
<1>16. CASE StepFails(a)
  BY <1>16, TypeOK DEF StepFails, Goto, Conclude, Raise, request, TypeOK, Kept
<1>17. CASE ReportFails(a)
  BY <1>17, TypeOK DEF ReportFails, Goto, Conclude, Raise, request, TypeOK, Kept
<1>18. CASE ReportFailsAgain(a)
  BY <1>18, TypeOK DEF ReportFailsAgain, Goto, request, outcome, TypeOK, Kept
<1>19. CASE UNCHANGED vars
  BY <1>19, TypeOK DEF vars, request, outcome, TypeOK, Kept
<1> QED BY Act(a), <1>1, <1>2, <1>3, <1>4, <1>5, <1>6, <1>7, <1>8, <1>9, <1>10, <1>11, <1>12, <1>13, <1>14, <1>15, <1>16, <1>17, <1>18, <1>19 DEF Act, Proceed, Suffer

\* The report of an attempt that wrote alone: what it was told to write, or not yet.
Reported(b) ==
    /\ pc[b] = "filling" => report.by # {}
    /\ report.by = {b} =>
          /\ pc[b] = "filling" => report.status = "none" /\ ~report.whole
          /\ pc[b] = "returned" =>
                report = [by |-> {b}, of |-> "repair", status |-> status[b], whole |-> TRUE]
          /\ pc[b] # "returned" => report.status \notin {"diff_ready", "proposal_invalid"}

LEMMA ReportedStep ==
    ASSUME TypeOK, NEW a \in Attempts, Act(a), NEW b \in Attempts, Reported(b), Reported(a),
           Placed(a), Placed(b)
    PROVE  Reported(b)'
<1>1. CASE Begin(a)
  BY <1>1, TypeOK DEF Begin, At, Goto, request, outcome, TypeOK, Reported
<1>2. CASE Validate(a)
  BY <1>2, TypeOK DEF Validate, At, Goto, Conclude, request, TypeOK, Reported
<1>3. CASE CreateProvider(a)
  BY <1>3, TypeOK DEF CreateProvider, At, Goto, request, outcome, TypeOK, Reported
<1>4. CASE ProviderRefused(a)
  BY <1>4, TypeOK DEF ProviderRefused, At, Goto, request, outcome, TypeOK, Reported
<1>5. CASE BuildContext(a)
  BY <1>5, TypeOK DEF BuildContext, At, Goto, request, outcome, TypeOK, Reported
<1>6. CASE ProposeLocally(a)
  BY <1>6, TypeOK DEF ProposeLocally, At, Goto, TypeOK, Reported
<1>7. CASE Send(a)
  BY <1>7, TypeOK DEF Send, At, Goto, outcome, TypeOK, Reported
<1>8. CASE ValidateProposal(a)
  BY <1>8, TypeOK DEF ValidateProposal, At, Goto, Conclude, request, TypeOK, Reported
<1>9. CASE Preview(a)
  BY <1>9, TypeOK DEF Preview, At, Goto, Conclude, request, TypeOK, Reported
<1>10. CASE OpenReport(a)
  BY <1>10, TypeOK DEF OpenReport, At, Goto, request, outcome, TypeOK, Reported
<1>11. CASE FillReport(a)
  <2>1. report.by # {} /\ report.by \subseteq Attempts
    BY <1>11, TypeOK DEF FillReport, At, Reported, TypeOK
  <2>2. report' = Filled(a)
    BY <1>11 DEF FillReport
  <2>3. CASE report.by = {a}
    <3>1. report' = [by |-> {a}, of |-> stage[a], status |-> status[a], whole |-> TRUE]
      BY <2>2, <2>3 DEF Filled
    <3>2. CASE b = a
      <4>1. CASE stage[a] = "validation"
        BY <1>11, <3>1, <3>2, <4>1, TypeOK DEF FillReport, Goto, TypeOK, Reported, Placed
      <4>2. CASE stage[a] = "repair"
        BY <1>11, <3>1, <3>2, <4>2, TypeOK DEF FillReport, Goto, TypeOK, Reported
      <4> QED BY <4>1, <4>2, TypeOK DEF TypeOK
    <3>3. CASE b # a
      BY <3>1, <3>3 DEF Reported
    <3> QED BY <3>2, <3>3
  <2>4. CASE report.by # {a}
    <3>1. report'.by = report.by \cup {a} /\ report'.by # {} /\ report'.by # {b}
      BY <2>1, <2>2, <2>4 DEF Filled
    <3> QED BY <3>1 DEF Reported
  <2> QED BY <2>3, <2>4
<1>12. CASE TimerFires(a)
  BY <1>12, TypeOK DEF TimerFires, Goto, Conclude, Raise, TypeOK, Reported
<1>13. CASE Headers(a)
  BY <1>13, TypeOK DEF Headers, At, Goto, request, outcome, TypeOK, Reported
<1>14. CASE Body(a)
  BY <1>14, TypeOK DEF Body, At, Goto, TypeOK, Reported
<1>15. CASE AnswerUnusable(a)
  BY <1>15, TypeOK DEF AnswerUnusable, Goto, Conclude, Raise, TypeOK, Reported
<1>16. CASE StepFails(a)
  BY <1>16, TypeOK DEF StepFails, Goto, Conclude, Raise, request, TypeOK, Reported
<1>17. CASE ReportFails(a)
  BY <1>17, TypeOK DEF ReportFails, Goto, Conclude, Raise, request, TypeOK, Reported
<1>18. CASE ReportFailsAgain(a)
  BY <1>18, TypeOK DEF ReportFailsAgain, Goto, request, outcome, TypeOK, Reported
<1>19. CASE UNCHANGED vars
  BY <1>19, TypeOK DEF vars, request, outcome, TypeOK, Reported
<1> QED BY Act(a), <1>1, <1>2, <1>3, <1>4, <1>5, <1>6, <1>7, <1>8, <1>9, <1>10, <1>11, <1>12, <1>13, <1>14, <1>15, <1>16, <1>17, <1>18, <1>19 DEF Act, Proceed, Suffer

(* ------------------------------ theorems ------------------------------- *)

\* The inductive invariant.
IInv == TypeOK /\ \A b \in Attempts : Placed(b) /\ Cleared(b) /\ Kept(b) /\ Reported(b)

LEMMA Invariance == Spec => []IInv
<1>1. Init => IInv
  BY ConstantsAssumption DEF Init, IInv, TypeOK, Placed, Before, Asked, Cleared, Kept, Reported,
     NoAsk, NoEnvironment, NoProposal, NotSent, Undecided, NoReport, Ask, Environment, Proposal,
     Operation, Providers, Sites, Statuses
<1>2. IInv /\ [Next]_vars => IInv'
  <2> SUFFICES ASSUME IInv, [Next]_vars
               PROVE  IInv'
    OBVIOUS
  <2>1. CASE Attempts = {}
    BY <2>1 DEF IInv, Next, TypeOK, vars, request, outcome
  <2>2. CASE Attempts # {}
    <3>1. PICK a \in Attempts : Act(a)
      BY <2>2 DEF Next, Act
    <3>2. TypeOK'
      BY <3>1, TypeStep DEF IInv
    <3>3. \A b \in Attempts : Placed(b)'
      BY <3>1, PlacedStep DEF IInv
    <3>4. \A b \in Attempts : Cleared(b)'
      BY <3>1, ClearedStep DEF IInv
    <3>5. \A b \in Attempts : Kept(b)'
      BY <3>1, KeptStep DEF IInv
    <3>6. \A b \in Attempts : Reported(b)'
      BY <3>1, ReportedStep DEF IInv
    <3> QED BY <3>2, <3>3, <3>4, <3>5, <3>6 DEF IInv
  <2> QED BY <2>1, <2>2
<1> QED BY <1>1, <1>2, PTL DEF Spec

\* Every variable keeps its type.
THEOREM TypeCorrect == Spec => []TypeOK
<1>1. IInv => TypeOK
  BY DEF IInv
<1> QED BY <1>1, Invariance, PTL

\* A remote model is called only when caller and environment opted in and an agent's
\* policy agreed; one that policy takes for premium only when approved, unless the
\* environment names it.
THEOREM OptedIn == Spec => []RealCallsAreOptedIn
<1>1. IInv => RealCallsAreOptedIn
  <2> SUFFICES ASSUME IInv, NEW a \in Attempts, sent[a] # NotSent
               PROVE  /\ ask[a].provider = "openrouter" /\ ask[a].allowReal
                      /\ env[a].enabled /\ env[a].valid
                      /\ ask[a].caller = "agent" =>
                            /\ AgentAllows(ask[a])
                            /\ env[a].model = NoModel /\ sent[a].model \in AgentPremium =>
                                  ask[a].allowPremium /\ ask[a].premiumApproved
    BY DEF RealCallsAreOptedIn
  <2>1. ask[a] \in Ask /\ Cleared(a)
    BY DEF IInv, TypeOK
  <2>2. /\ ask[a].provider = "openrouter" /\ ask[a].allowReal
        /\ env[a].enabled /\ env[a].valid
        /\ ask[a].caller = "agent" => AgentAllows(ask[a])
    BY <2>1 DEF Cleared, Configured, Command, AgentCommand, Ask
  <2>3. ASSUME ask[a].caller = "agent", env[a].model = NoModel, sent[a].model \in AgentPremium
        PROVE  ask[a].allowPremium /\ ask[a].premiumApproved
    <3>1. sent[a].model = ask[a].model
      BY <2>1, <2>2, <2>3 DEF Cleared, Command, AgentCommand, ModelOf, Ask
    <3> QED BY <2>2, <2>3, <3>1 DEF AgentAllows
  <2> QED BY <2>2, <2>3
<1> QED BY <1>1, Invariance, PTL

\* The model and the prompt sent are those the model policy judged and allowed.
THEOREM JudgedIsSent == Spec => []SentIsJudged
<1>1. IInv => SentIsJudged
  BY DEF IInv, SentIsJudged, Cleared
<1> QED BY <1>1, Invariance, PTL

\* A diff is ready only of an allowed, changing proposal on files the repair was for.
THEOREM DiffIsTheRepairs == Spec => []DiffIsOfTheRepair
<1>1. IInv => DiffIsOfTheRepair
  BY DEF IInv, DiffIsOfTheRepair, Kept
<1> QED BY <1>1, Invariance, PTL

\* A report written by one attempt alone says what its caller was told.
THEOREM ReportTrue == Spec => []ReportIsTheResult
<1>1. IInv => ReportIsTheResult
  BY DEF IInv, ReportIsTheResult, Reported
<1> QED BY <1>1, Invariance, PTL
=============================================================================
