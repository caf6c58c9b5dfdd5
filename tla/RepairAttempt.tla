--------------------------- MODULE RepairAttempt ---------------------------
(***************************************************************************)
(* The repair command (CliRuntimeBridge.repair), given by a user or by the *)
(* agent loop: which provider and model it may use, the call of the remote *)
(* model under its timer, the judgement of the answer and the report.      *)
(*                                                                         *)
(* Every attempt is a process of its own, with its own environment         *)
(* variables; they share the report file of the directory they run in.     *)
(* The file system, the server and the network may fail at any await.      *)
(***************************************************************************)
EXTENDS Naturals, FiniteSets

CONSTANTS
    Attempts,      \* repair commands
    Files,         \* files of the project
    Models,        \* names of remote models
    NoModel,       \* no name given
    AgentPremium,  \* the names the agent's provider policy takes for premium
    TierOf,        \* the tier the budget control reads in each name
    Calls,         \* what each attempt may be asked, and find in its environment variables
    Replies,       \* proposals a remote model can make
    Prompts        \* estimated tokens of a prompt

Providers == {"static", "fake-llm", "openrouter"}
Tiers == {"free", "cheap", "premium"}
Operation == [kind : {"replace_file", "create_file", "delete_file"}, file : Files]

\* A proposal is its operations, and whether path, threat or quality rules object.
Proposal == [operations : SUBSET Operation, flagged : BOOLEAN]

\* completion is the estimated-completion-tokens asked for, 0 when there is none.
Ask == [caller : {"user", "agent"}, provider : Providers, model : Models \cup {NoModel},
        completion : Nat, allowReal : BOOLEAN, allowPremium : BOOLEAN,
        premiumApproved : BOOLEAN, targets : SUBSET Files]

\* valid: the key is there and the other variables parse.
Environment == [enabled : BOOLEAN, valid : BOOLEAN, model : Models \cup {NoModel}]

ASSUME ConstantsAssumption ==
    /\ NoModel \notin Models
    /\ AgentPremium \subseteq Models
    /\ TierOf \in [Models -> Tiers]
    /\ Calls \in [Attempts -> SUBSET [ask : Ask, env : Environment]]
    /\ Replies \subseteq Proposal
    /\ Prompts \subseteq Nat

VARIABLES
    pc,        \* where the attempt is
    ask,       \* what was asked
    env,       \* the environment of its process
    targets,   \* files it was asked to repair, or that the findings name
    related,   \* files read beside them
    decision,  \* the model policy's decision
    sent,      \* the request the server was sent
    timer,     \* whether the timer of that request runs
    proposal,  \* the proposal received
    stage,     \* validation of the project, or the repair after it
    status,    \* status of that stage's result
    caught,    \* whether the stage is in its catch block
    report     \* the report file: whose text it holds, and what it says

request == <<decision, sent, timer>>
outcome == <<proposal, stage, status, caught>>
vars == <<pc, ask, env, targets, related, request, outcome, report>>

NoAsk == [caller |-> "user", provider |-> "static", model |-> NoModel, completion |-> 0,
          allowReal |-> FALSE, allowPremium |-> FALSE, premiumApproved |-> FALSE, targets |-> {}]
NoEnvironment == [enabled |-> FALSE, valid |-> FALSE, model |-> NoModel]
NoProposal == [operations |-> {}, flagged |-> FALSE]
NotSent == [model |-> NoModel, prompt |-> 0]
NoReport == [by |-> {}, of |-> "none", status |-> "none", whole |-> TRUE]
Statuses == {"none", "inspected", "proposal_invalid", "diff_ready", "failed"}
Sites == {"idle", "validating", "providing", "context", "prompted", "waiting", "reading",
          "proposed", "previewing", "reporting", "filling", "returned", "thrown"}
Ended == {"returned", "thrown"}

-----------------------------------------------------------------------------
(* Who may use which model. *)

MaxPromptTokens == 8000
MaxCompletionTokens == 2000
MaxTotalTokens == 10000
AgentMaxCompletionTokens == 8000
DefaultCompletionTokens == 1200

Completion(n) == IF n = 0 THEN DefaultCompletionTokens ELSE n

\* AgentProviderPolicy.evaluate.
AgentAllows(q) ==
    /\ q.provider = "openrouter" => q.allowReal /\ q.model # NoModel
    /\ q.provider = "openrouter" /\ q.model \in AgentPremium => q.allowPremium /\ q.premiumApproved
    /\ q.completion <= AgentMaxCompletionTokens

\* Mutant: the policy's verdict reported but not heeded.
AgentCommandAnyway(q) == [q EXCEPT !.completion = Completion(q.completion)]

\* The repair command the agent's bridge makes of its configuration.
AgentCommand(q) ==
    IF AgentAllows(q)
    THEN [q EXCEPT !.completion = Completion(q.completion)]
    ELSE [q EXCEPT !.provider = "fake-llm", !.model = NoModel,
                   !.completion = Completion(q.completion), !.allowReal = FALSE,
                   !.allowPremium = FALSE, !.premiumApproved = FALSE]

Command(q) == IF q.caller = "agent" THEN AgentCommand(q) ELSE q

\* The environment's model goes before the one asked for.
ModelOf(c, e) == IF e.model # NoModel THEN e.model ELSE c.model

Configured(c, e) ==
    /\ c.provider = "openrouter"
    /\ c.allowReal /\ e.enabled /\ e.valid
    /\ ModelOf(c, e) # NoModel

Risk(severity) == IF severity \in {"error", "warning"} THEN "medium" ELSE "low"

\* Without a request the role's own model is taken, which is free.
Tier(model) == IF model \in Models THEN TierOf[model] ELSE "free"

\* ModelBudgetController.check; no price in the catalogue reaches the cost limit.
WithinBudget(model, risk, prompt, completion, approved) ==
    /\ prompt <= MaxPromptTokens
    /\ completion <= MaxCompletionTokens
    /\ prompt + completion <= MaxTotalTokens
    /\ Tier(model) = "premium" => risk = "high" /\ approved

\* Mutant: the model of the command line judged, not the one the loader resolved.
RequestedOfCommand(c, e) == c.model

\* The provider judges the model it is going to send (openRouterProvider.model).
RequestedModel(c, e) == ModelOf(c, e)

\* Local providers are allowed whatever they are asked.
Undecided == [allowed |-> TRUE, model |-> NoModel, prompt |-> 0]

Decision(c, e, prompt, risk) ==
    IF c.provider # "openrouter"
    THEN Undecided
    ELSE LET model == RequestedModel(c, e) IN
         [allowed |-> WithinBudget(model, risk, prompt, Completion(c.completion),
                                   c.premiumApproved),
          model |-> model, prompt |-> prompt]

\* FakeLlmRepairProposalProvider echoes the first target; a target too large to be
\* read counts as one that does not exist.
FakeProposals(files) ==
    IF files = {} THEN {NoProposal}
    ELSE {[operations |-> {o}, flagged |-> FALSE] :
             o \in {p \in Operation : p.file \in files /\ p.kind # "delete_file"}}

\* Mutant: the validator content with any file of the context.
EditableContext(files, others) == files \cup others

\* PatchSafetyValidator.validate.
Editable(files, others) == files

IsValid(p, files, others) ==
    /\ p.operations # {}
    /\ ~p.flagged
    /\ \A o \in p.operations : o.file \in Editable(files, others) /\ o.kind # "delete_file"

-----------------------------------------------------------------------------
Init ==
    /\ pc = [a \in Attempts |-> "idle"]
    /\ ask = [a \in Attempts |-> NoAsk]
    /\ env = [a \in Attempts |-> NoEnvironment]
    /\ targets = [a \in Attempts |-> {}]
    /\ related = [a \in Attempts |-> {}]
    /\ decision = [a \in Attempts |-> Undecided]
    /\ sent = [a \in Attempts |-> NotSent]
    /\ timer = [a \in Attempts |-> FALSE]
    /\ proposal = [a \in Attempts |-> NoProposal]
    /\ stage = [a \in Attempts |-> "validation"]
    /\ status = [a \in Attempts |-> "none"]
    /\ caught = [a \in Attempts |-> FALSE]
    /\ report = NoReport

At(a, site) == pc[a] = site
Goto(a, site) == pc' = [pc EXCEPT ![a] = site]

\* What the stage ends in goes into the report.
Conclude(a, verdict) ==
    /\ Goto(a, "reporting")
    /\ status' = [status EXCEPT ![a] = verdict]

\* The catch block of the stage; a failed result has no proposal.
Raise(a) ==
    /\ ~caught[a]
    /\ Conclude(a, "failed")
    /\ caught' = [caught EXCEPT ![a] = TRUE]
    /\ proposal' = [proposal EXCEPT ![a] = NoProposal]

Begin(a) ==
    /\ At(a, "idle")
    /\ Goto(a, "validating")
    /\ UNCHANGED <<ask, env, targets, related, request, outcome, report>>

\* The project is validated, and a report of that written, before the repair.
Validate(a) ==
    /\ At(a, "validating")
    /\ Conclude(a, "inspected")
    /\ UNCHANGED <<ask, env, targets, related, request, proposal, stage, caught, report>>

\* Targets are those asked for, or those the findings name; a failed validation has none.
Found(q, found) == IF q.targets # {} THEN {q.targets} ELSE IF found THEN SUBSET Files ELSE {{}}

\* Nothing before this depends on what was asked, so it is chosen here.
CreateProvider(a) ==
    /\ At(a, "providing")
    /\ \E c \in Calls[a] :
          /\ Command(c.ask).provider = "openrouter" => Configured(Command(c.ask), c.env)
          /\ ask' = [ask EXCEPT ![a] = c.ask]
          /\ env' = [env EXCEPT ![a] = c.env]
          /\ \E files \in Found(c.ask, status[a] = "inspected") :
                targets' = [targets EXCEPT ![a] = files]
    /\ Goto(a, "context")
    /\ UNCHANGED <<related, request, outcome, report>>

\* The parser, the bridge or the configuration refuses the provider.
ProviderRefused(a) ==
    /\ At(a, "providing")
    /\ \E c \in Calls[a] :
          /\ Command(c.ask).provider = "openrouter" /\ ~Configured(Command(c.ask), c.env)
          /\ ask' = [ask EXCEPT ![a] = c.ask]
          /\ env' = [env EXCEPT ![a] = c.env]
    /\ Goto(a, "thrown")
    /\ UNCHANGED <<targets, related, request, outcome, report>>

\* Files beside the targets are context only, and none is looked for without a target.
BuildContext(a) ==
    /\ At(a, "context")
    /\ \E others \in SUBSET (Files \ targets[a]) :
          /\ targets[a] = {} => others = {}
          /\ related' = [related EXCEPT ![a] = others]
    /\ Goto(a, "prompted")
    /\ UNCHANGED <<ask, env, targets, request, outcome, report>>

\* A local provider, or the static fallback of a blocked one, answers at once.
ProposeLocally(a) ==
    /\ At(a, "prompted")
    /\ \E prompt \in Prompts, severity \in {"none", "error"} :
          LET c == Command(ask[a])
              d == Decision(c, env[a], prompt, Risk(severity)) IN
          /\ c.provider # "openrouter" \/ ~d.allowed
          /\ decision' = [decision EXCEPT ![a] = d]
          /\ \E p \in IF c.provider = "fake-llm" THEN FakeProposals(targets[a]) ELSE {NoProposal} :
                proposal' = [proposal EXCEPT ![a] = p]
    /\ Goto(a, "proposed")
    /\ UNCHANGED <<ask, env, targets, related, sent, timer, stage, status, caught, report>>

\* OpenRouterClient.createChatCompletion up to the fetch.
Send(a) ==
    /\ At(a, "prompted")
    /\ \E prompt \in Prompts, severity \in {"none", "error"} :
          LET c == Command(ask[a])
              d == Decision(c, env[a], prompt, Risk(severity)) IN
          /\ c.provider = "openrouter" /\ d.allowed
          /\ decision' = [decision EXCEPT ![a] = d]
          /\ sent' = [sent EXCEPT ![a] = [model |-> ModelOf(c, env[a]), prompt |-> prompt]]
    /\ timer' = [timer EXCEPT ![a] = TRUE]
    /\ Goto(a, "waiting")
    /\ UNCHANGED <<ask, env, targets, related, outcome, report>>

\* Mutant: mapResponse returned without await, so that finally clears the timer at the headers.
HeadersClearTimer(a) ==
    /\ At(a, "waiting")
    /\ timer' = [timer EXCEPT ![a] = FALSE]
    /\ Goto(a, "reading")
    /\ UNCHANGED <<ask, env, targets, related, decision, sent, outcome, report>>

\* The server answers: the headers first, which keep the timer running, then the body.
Headers(a) ==
    /\ At(a, "waiting")
    /\ Goto(a, "reading")
    /\ UNCHANGED <<ask, env, targets, related, request, outcome, report>>

Body(a) ==
    /\ At(a, "reading")
    /\ \E p \in Replies : proposal' = [proposal EXCEPT ![a] = p]
    /\ timer' = [timer EXCEPT ![a] = FALSE]
    /\ Goto(a, "proposed")
    /\ UNCHANGED <<ask, env, targets, related, decision, sent, stage, status, caught, report>>

\* A network or HTTP error, or an answer that is no safe proposal: nothing is retried.
AnswerUnusable(a) ==
    /\ pc[a] \in {"waiting", "reading"}
    /\ Raise(a)
    /\ timer' = [timer EXCEPT ![a] = FALSE]
    /\ UNCHANGED <<ask, env, targets, related, decision, sent, stage, report>>

\* The timer aborts the fetch, or the reading of the body; what arrives later is dropped.
TimerFires(a) ==
    /\ timer[a]
    /\ pc[a] \in {"waiting", "reading"}
    /\ Raise(a)
    /\ timer' = [timer EXCEPT ![a] = FALSE]
    /\ UNCHANGED <<ask, env, targets, related, decision, sent, stage, report>>

ValidateProposal(a) ==
    /\ At(a, "proposed")
    /\ IF IsValid(proposal[a], targets[a], related[a])
       THEN Goto(a, "previewing") /\ UNCHANGED status
       ELSE Conclude(a, "proposal_invalid")
    /\ UNCHANGED <<ask, env, targets, related, request, proposal, stage, caught, report>>

Preview(a) ==
    /\ At(a, "previewing")
    /\ Conclude(a, "diff_ready")
    /\ UNCHANGED <<ask, env, targets, related, request, proposal, stage, caught, report>>

\* Validation, context, a local provider or a preview throws.
StepFails(a) ==
    /\ pc[a] \in {"validating", "context", "prompted", "previewing"}
    /\ Raise(a)
    /\ UNCHANGED <<ask, env, targets, related, request, stage, report>>

-----------------------------------------------------------------------------
(* RepairAttemptReporter.write, and that of the validation: writeFile truncates, then fills. *)

OpenReport(a) ==
    /\ At(a, "reporting")
    /\ report' = [by |-> {a}, of |-> stage[a], status |-> "none", whole |-> FALSE]
    /\ Goto(a, "filling")
    /\ UNCHANGED <<ask, env, targets, related, request, outcome>>

\* Two texts over each other are no report.
Filled(a) ==
    IF report.by = {a}
    THEN [by |-> {a}, of |-> stage[a], status |-> status[a], whole |-> TRUE]
    ELSE [by |-> report.by \cup {a}, of |-> "none", status |-> "none", whole |-> FALSE]

FillReport(a) ==
    /\ At(a, "filling")
    /\ report' = Filled(a)
    /\ IF stage[a] = "validation"
       THEN /\ Goto(a, "providing")
            /\ stage' = [stage EXCEPT ![a] = "repair"]
            /\ caught' = [caught EXCEPT ![a] = FALSE]
       ELSE Goto(a, "returned") /\ UNCHANGED <<stage, caught>>
    /\ UNCHANGED <<ask, env, targets, related, request, proposal, status>>

\* Mutant: a catch block that answers without reporting.
ReportFailsQuietly(a) ==
    /\ pc[a] \in {"reporting", "filling"}
    /\ ~caught[a] /\ stage[a] = "repair"
    /\ Goto(a, "returned")
    /\ status' = [status EXCEPT ![a] = "failed"]
    /\ caught' = [caught EXCEPT ![a] = TRUE]
    /\ proposal' = [proposal EXCEPT ![a] = NoProposal]
    /\ UNCHANGED <<ask, env, targets, related, request, stage, report>>

\* The first failure to report is caught, and reported; the second ends the command.
ReportFails(a) ==
    /\ pc[a] \in {"reporting", "filling"}
    /\ Raise(a)
    /\ UNCHANGED <<ask, env, targets, related, request, stage, report>>

ReportFailsAgain(a) ==
    /\ pc[a] \in {"reporting", "filling"}
    /\ caught[a]
    /\ Goto(a, "thrown")
    /\ UNCHANGED <<ask, env, targets, related, request, outcome, report>>

-----------------------------------------------------------------------------
\* What the process does by itself.
Proceed(a) ==
    \/ Validate(a) \/ CreateProvider(a) \/ ProviderRefused(a) \/ BuildContext(a)
    \/ ProposeLocally(a) \/ Send(a) \/ ValidateProposal(a) \/ Preview(a)
    \/ OpenReport(a) \/ FillReport(a)

\* What a server, a network or a disk does to it.
Suffer(a) ==
    \/ Headers(a) \/ Body(a) \/ AnswerUnusable(a)
    \/ StepFails(a) \/ ReportFails(a) \/ ReportFailsAgain(a)

Next == \E a \in Attempts : Begin(a) \/ Proceed(a) \/ TimerFires(a) \/ Suffer(a)

Spec == Init /\ [][Next]_vars

\* Awaits of the file system settle and timers fire; no server need answer.
Fairness == \A a \in Attempts : WF_vars(Proceed(a)) /\ WF_vars(TimerFires(a))

FairSpec == Spec /\ Fairness

-----------------------------------------------------------------------------
(* Properties. *)

\* Every variable has its type.
TypeOK ==
    /\ pc \in [Attempts -> Sites]
    /\ ask \in [Attempts -> Ask]
    /\ env \in [Attempts -> Environment]
    /\ targets \in [Attempts -> SUBSET Files]
    /\ related \in [Attempts -> SUBSET Files]
    /\ decision \in [Attempts -> [allowed : BOOLEAN, model : Models \cup {NoModel}, prompt : Nat]]
    /\ sent \in [Attempts -> [model : Models \cup {NoModel}, prompt : Nat]]
    /\ timer \in [Attempts -> BOOLEAN]
    /\ proposal \in [Attempts -> Proposal]
    /\ stage \in [Attempts -> {"validation", "repair"}]
    /\ status \in [Attempts -> Statuses]
    /\ caught \in [Attempts -> BOOLEAN]
    /\ report \in [by : SUBSET Attempts, of : {"none", "validation", "repair"},
                   status : Statuses, whole : BOOLEAN]

\* A remote model is called only when the caller and the environment both opted in and,
\* for an agent, its provider policy agreed to what was asked, whatever command the
\* bridge, the parser and the loader made of it on the way; a model the agent's policy
\* knows as premium only when it was approved, unless the environment put it in the
\* place of the one the policy judged.
RealCallsAreOptedIn ==
    \A a \in Attempts : sent[a] # NotSent =>
        /\ ask[a].provider = "openrouter" /\ ask[a].allowReal
        /\ env[a].enabled /\ env[a].valid
        /\ ask[a].caller = "agent" =>
              /\ AgentAllows(ask[a])
              /\ env[a].model = NoModel /\ sent[a].model \in AgentPremium =>
                    ask[a].allowPremium /\ ask[a].premiumApproved

\* The model and the prompt that are sent are the ones the model policy judged, and allowed:
\* no request goes out in the premium tier, none with a prompt over the limit.
SentIsJudged ==
    \A a \in Attempts : sent[a] # NotSent =>
        /\ decision[a] = [allowed |-> TRUE, model |-> sent[a].model, prompt |-> sent[a].prompt]
        /\ sent[a].model \in Models /\ TierOf[sent[a].model] # "premium"
        /\ sent[a].prompt <= MaxPromptTokens

\* A diff is ready only of a proposal that changes something, and nothing but files the
\* repair was for, never one read as context; and never when the policy blocked the
\* provider and the fallback's proposal was taken.
DiffIsOfTheRepair ==
    \A a \in Attempts : status[a] = "diff_ready" =>
        /\ decision[a].allowed
        /\ proposal[a].operations # {}
        /\ \A o \in proposal[a].operations :
              /\ o.file \in targets[a]
              /\ ask[a].targets # {} => o.file \in ask[a].targets

\* A report written by an attempt alone says what its caller was told: the result
\* returned, and no diff when the command threw.
ReportIsTheResult ==
    \A a \in Attempts : report.by = {a} =>
        /\ pc[a] = "returned" =>
              report = [by |-> {a}, of |-> "repair", status |-> status[a], whole |-> TRUE]
        /\ pc[a] = "thrown" => report.status \notin {"diff_ready", "proposal_invalid"}

\* Every attempt ends, though the server may accept the request and never answer, or send
\* headers and no body.
EveryAttemptEnds == \A a \in Attempts : pc[a] # "idle" ~> pc[a] \in Ended

=============================================================================
