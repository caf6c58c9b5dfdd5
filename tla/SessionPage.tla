----------------------------- MODULE SessionPage -----------------------------
(* The session page of the web client: what it holds of a session while the  *)
(* user works through plan, patch, diff, sandbox, recovery, apply and        *)
(* rollback, and the guide it asks the server for after every change.        *)
(*                                                                           *)
(* A handler runs in the closure of the render it was clicked in: it awaits  *)
(* the server, sets what it got, whatever the page shows by then, logs the   *)
(* event in the session and shows the session the server answers with. An    *)
(* effect asks for a new guide 150 ms after the last change; a few handlers  *)
(* also ask for one themselves, from their own, older closure. Answers to    *)
(* these requests may arrive in any order, and any request may fail.         *)
(*                                                                           *)
(* Abstracted: the user waits for a handler before the next click; of        *)
(* several selected files, that a selection was approved; panels that only   *)
(* show something. What the server checks of a decision when it applies is   *)
(* ApprovalFlow, what it writes is PatchApply.                               *)
EXTENDS WorkflowGuide, FiniteSets

CONSTANTS
    Sessions,       \* the sessions of the user
    None,           \* no session, plan, proposal or result
    Proposals,      \* identifiers of proposals; a new one takes one not in use
    Plans,          \* the plans the server answers with
    Attempts,       \* what clients send as currentAttempt; 0: nothing, as the page
    MaxQuestions,   \* bound on the questions a session has pending
    MaxExtras       \* bound on clicks outside the guide, failed requests, results
                    \* that are not good and guides answered late, together

MaxRecoveries == 2      \* prepareRecovery sends maxAttempts: 2
MaxPosts == 2           \* bound on the guides asked for and not answered

Plan == [readOnly : BOOLEAN, valid : BOOLEAN, risky : BOOLEAN]

ASSUME NoneAssumption == None \notin Sessions /\ None \notin Proposals
ASSUME PlansAssumption == Plans \subseteq Plan
ASSUME AttemptsAssumption == Attempts \subseteq Nat
ASSUME PageBoundsAssumption == MaxQuestions \in Nat /\ MaxExtras \in Nat

\* What the page holds of a session, each with the session or the proposal it
\* is of, and whether of the whole proposal or of the files approved
Proposal == [id : Proposals, session : Sessions, valid : BOOLEAN, repairs : SUBSET Proposals]
Result(statuses) == [of : Proposals, session : Sessions, whole : BOOLEAN, status : statuses]
Page ==
    [prepared : BOOLEAN, questions : 0..MaxQuestions,
     plan : [of : Sessions, plan : Plans] \cup {None},
     proposal : Proposal \cup {None}, selected : BOOLEAN,
     diff : Result({"ready", "blocked"}) \cup {None},
     sandbox : Result(Sandboxes \ {"none"}) \cup {None},
     recovery : Result(Recoveries \ {"none"}) \cup {None},
     apply : Result(Applies \ {"none"}) \cup {None},
     rollback : Result(Rollbacks \ {"none"}) \cup {None},
     snapshot : Sessions \cup {None}, verified : BOOLEAN, report : Sessions \cup {None}]

\* resetSessionArtifacts
EmptyPage ==
    [prepared |-> FALSE, questions |-> 0, plan |-> None, proposal |-> None,
     selected |-> FALSE, diff |-> None, sandbox |-> None, recovery |-> None, apply |-> None,
     rollback |-> None, snapshot |-> None, verified |-> FALSE, report |-> None]

\* clearPlanAndDownstreamArtifacts
Cleared(p) ==
    [EmptyPage EXCEPT !.prepared = p.prepared, !.questions = p.questions, !.report = p.report]

Requests ==
    {"start", "resume", "prepare", "plan", "patch", "diff", "sandbox", "recovery", "repair",
     "dry_run", "apply", "dry_rollback", "rollback", "snapshot", "verify", "report", "answer",
     "route", "decide"}

NoCall == [op |-> "none"]
Decisions == {"refuse", "approve", "approve_patch", "verify", "rollback"}
\* A handler that awaits the server: what it awaits, the decision it carries
\* out, the render it runs in, and what it does besides: clear the plan or drop
\* the patch once routed, ask for a guide from its own closure at its end
Call ==
    [op : Requests, decision : Decisions \cup {None}, at : {"result", "log", "end"},
     session : Sessions \cup {None}, seen : Page, then : SUBSET {"refresh", "clear", "drop"}]

Post == [offer : Actions, newest : BOOLEAN]

VARIABLES
    session,    \* the session shown
    page,       \* what the page holds of it
    guide,      \* the action the guide offers, or None
    fresh,      \* history: the guide is the newest answer to what a render asked
    due,        \* the effect's timer is running
    posts,      \* the guides asked for, oldest first
    call,       \* the handler that awaits the server
    asking,     \* a refreshQuestions no handler waits for is in flight
    saved,      \* the sessions there are
    extras      \* how many of MaxExtras there were

pageVars == <<session, page, guide, fresh, due, posts, call, asking, saved, extras>>
guiding == <<guide, fresh, posts>>

PageInit ==
    /\ session = None /\ page = EmptyPage
    /\ guide = None /\ fresh = FALSE /\ due = FALSE /\ posts = <<>>
    /\ call = NoCall /\ asking = FALSE
    /\ saved = {}
    /\ extras = 0

\* What counts against MaxExtras
Extra(is) ==
    /\ is => extras < MaxExtras
    /\ extras' = IF is THEN extras + 1 ELSE extras

(* ------------------------------ the guide ------------------------------ *)

StatusOf(result) == IF result = None THEN "none" ELSE result.status
Verdict(result, valid) == CASE result = None -> "none" [] valid -> "valid" [] OTHER -> "rejected"

\* buildWorkflowArtifactState of a render that shows p in session s. The risk of
\* the proposal counts only without a plan, when planning is the step to take.
ArtifactState(s, p) ==
    LET readOnly == p.plan # None /\ p.plan.plan.readOnly
        masked(status) == IF readOnly THEN "none" ELSE status
    IN [started |-> s # None, prepared |-> p.prepared, asked |-> p.questions > 0,
        readOnly |-> readOnly,
        plan |-> Verdict(p.plan, p.plan # None /\ p.plan.plan.valid),
        proposal |-> masked(Verdict(p.proposal, p.proposal # None /\ p.proposal.valid)),
        diff |-> masked(StatusOf(p.diff)), sandbox |-> masked(StatusOf(p.sandbox)),
        recovery |-> masked(StatusOf(p.recovery)),
        repaired |-> /\ ~readOnly /\ p.recovery # None /\ p.proposal # None
                     /\ p.proposal.id # p.recovery.of,
        snapshot |-> ~readOnly /\ p.snapshot # None,
        apply |-> masked(StatusOf(p.apply)), rollback |-> masked(StatusOf(p.rollback)),
        verified |-> ~readOnly /\ p.verified, report |-> p.report # None,
        risky |-> p.plan # None /\ p.plan.plan.risky]

\* Chosen from a set of one, for TLC to evaluate the state once
Offer(s, p) == CHOOSE offer \in {NextAction(a) : a \in {ArtifactState(s, p)}} : TRUE

ShowOfSessions(s, p) ==
    /\ session' = s /\ page' = p
    /\ due' = (s # None /\ s # session)

\* A render that changes what the effect depends on starts its timer again.
\* Without a session there is no guide; a reset takes it away too.
Show(s, p) ==
    /\ session' = s /\ page' = p
    /\ due' = (s # None)

KeepGuide(s) ==
    /\ guide' = IF s = None THEN None ELSE guide
    /\ fresh' = (s # None /\ fresh)

DropGuide == guide' = None /\ fresh' = FALSE

\* refreshRuntimeWorkflowState, called in the render of call c
RefreshFrom(c) ==
    IF c.session = None
      THEN DropGuide /\ UNCHANGED posts
      ELSE /\ posts' = Append(posts, [offer |-> Offer(c.session, c.seen), newest |-> FALSE])
           /\ UNCHANGED <<guide, fresh>>

\* Asking for a guide while another is not answered is an extra
Slow ==
    /\ Len(posts) < MaxPosts
    /\ Extra(posts # <<>>)

\* The effect's timer: the guide of what is shown now
AskForGuide ==
    /\ due /\ Slow
    /\ due' = FALSE
    /\ posts' = Append(posts, [offer |-> Offer(session, page), newest |-> TRUE])
    /\ UNCHANGED <<session, page, guide, fresh, call, asking, saved>>

\* What was asked before the i-th is no longer the newest
Overtaken(i) ==
    [j \in 1..(Len(posts) - 1) |->
        IF j < i THEN [posts[j] EXCEPT !.newest = FALSE] ELSE posts[j + 1]]

GuideArrives(i) ==
    /\ guide' = posts[i].offer
    /\ fresh' = posts[i].newest
    /\ posts' = Overtaken(i)
    /\ UNCHANGED <<session, page, due, call, asking, saved, extras>>

GuideFails(i) ==
    /\ Extra(TRUE)
    /\ fresh' = FALSE
    /\ posts' = Overtaken(i)
    /\ UNCHANGED <<session, page, guide, due, call, asking, saved>>

(* --------------------------- handlers and results ---------------------- *)

BeginCall(op, decision, then) ==
    /\ call = NoCall
    /\ call' = [op |-> op, decision |-> decision, at |-> "result", session |-> session,
                seen |-> page, then |-> then]
    /\ UNCHANGED <<session, page, guiding, due, asking, saved>>

\* Nothing left to await, or only what comes before it asks for a guide
Return == call' = IF "refresh" \in call.then THEN [call EXCEPT !.at = "end"] ELSE NoCall

\* The handler goes on to log its result in the session
ThenLog == call' = [call EXCEPT !.at = "log"]

\* The handler shows a result, whatever the page shows by now, and logs it
Set(p, bad) ==
    /\ Extra(bad)
    /\ Show(session, p)
    /\ KeepGuide(session)
    /\ ThenLog
    /\ UNCHANGED <<posts, asking, saved>>

\* A handler with nothing to log
SetAndEnd(p, bad) ==
    /\ Extra(bad)
    /\ Show(session, p)
    /\ KeepGuide(session)
    /\ Return
    /\ UNCHANGED <<posts, asking, saved>>

Awaits(op) == call # NoCall /\ call.op = op /\ call.at = "result"

\* Bound: a proposal is asked for only while an identifier is not in use
InUse(p) ==
    (UNION {IF p[r] = None THEN {} ELSE {p[r].of} :
                r \in {"diff", "sandbox", "recovery", "apply", "rollback"}})
    \cup (IF p.proposal = None THEN {} ELSE p.proposal.repairs \cup {p.proposal.id})
NewId == CHOOSE i \in Proposals : i \notin InUse(page) \cup InUse(call.seen)

\* What a request about the proposal of the render is a result of
ResultOf(whole, status) ==
    [of |-> call.seen.proposal.id, session |-> call.seen.proposal.session,
     whole |-> whole, status |-> status]

(* ---------------------------- session and context ---------------------- *)

\* createSession: show the new session, then prepare its workflow
SessionStarted ==
    /\ Awaits("start")
    /\ \E s \in Sessions \ saved :
        /\ saved' = saved \cup {s}
        /\ Show(s, page)
        /\ call' = [call EXCEPT !.op = "prepare", !.session = s, !.seen = page]
    /\ UNCHANGED <<guiding, asking, extras>>

\* prepareWorkflowForSession
WorkflowPrepared ==
    /\ Awaits("prepare")
    /\ \E n \in 0..MaxQuestions :
        SetAndEnd([page EXCEPT !.prepared = TRUE, !.questions = n], FALSE)

\* resumeSession: reset and show it, then refresh what is saved of it; 120 ms
\* later ask for a guide, in the render the user resumed it from
Resume(s) ==
    /\ s \in saved /\ call = NoCall
    /\ Show(s, EmptyPage) /\ DropGuide
    /\ call' = [op |-> "resume", decision |-> None, at |-> "result", session |-> session,
                seen |-> page, then |-> {"refresh"}]
    /\ UNCHANGED <<posts, asking, saved>>

SavedArrives ==
    /\ Awaits("resume")
    /\ \E n \in 0..MaxQuestions, found \in BOOLEAN :
        Show(session, [page EXCEPT !.prepared = n > 0 \/ found, !.questions = n])
    /\ KeepGuide(session)
    /\ Return
    /\ UNCHANGED <<posts, asking, saved, extras>>

\* startNewSessionView
NewSession ==
    /\ session # None /\ call = NoCall
    /\ Show(None, EmptyPage) /\ DropGuide
    /\ UNCHANGED <<posts, call, asking, saved>>

QuestionCountedDown ==
    /\ Awaits("answer")
    /\ SetAndEnd([page EXCEPT !.questions = @ - 1], FALSE)

\* answerQuestion
QuestionAnswered ==
    /\ Awaits("answer")
    /\ SetAndEnd([page EXCEPT !.questions = IF @ = 0 THEN 0 ELSE @ - 1], FALSE)

\* refreshQuestions: the server asks again what was answered
QuestionsArrive ==
    /\ asking /\ asking' = FALSE
    /\ \E n \in 0..MaxQuestions :
        Show(session, [page EXCEPT !.questions = n, !.prepared = @ \/ n > 0])
    /\ KeepGuide(session)
    /\ UNCHANGED <<posts, call, saved, extras>>

(* --------------------------- plan and patch ---------------------------- *)

PlanArrives ==
    /\ Awaits("plan")
    /\ \E p \in Plans :
        Set([page EXCEPT !.plan = [of |-> call.session, plan |-> p]], ~p.valid)

ProposalArrives ==
    /\ Awaits("patch")
    /\ \E valid \in BOOLEAN :
        Set([page EXCEPT !.proposal = [id |-> NewId, session |-> call.session,
                                       valid |-> valid, repairs |-> {}],
                         !.selected = FALSE, !.diff = None, !.sandbox = None,
                         !.recovery = None, !.apply = None, !.rollback = None], ~valid)

\* generateDiff, of the files approved or of all
DiffArrives ==
    /\ Awaits("diff")
    /\ \E status \in {"ready", "blocked"} :
        Set([page EXCEPT !.diff = ResultOf(~call.seen.selected, status), !.sandbox = None,
                         !.recovery = None, !.apply = None, !.rollback = None],
            status = "blocked")

SandboxArrives ==
    /\ Awaits("sandbox")
    /\ \E status \in Sandboxes \ {"none"} :
        Set([page EXCEPT !.sandbox = ResultOf(~call.seen.selected, status), !.recovery = None],
            status # "passed")

(* ------------------------------- recovery ------------------------------ *)

\* optionalNumber answers 0 for what is not sent, so ?? keeps it and the
\* attempts stored are not counted
CurrentAttempt(sent) == sent

\* PatchRecoveryLoop.prepareRepair
PrepareRepair(attempt, proposal, sandbox) ==
    CASE \/ attempt < 1 \/ ~sandbox.whole \/ sandbox.of # proposal.id
         \/ sandbox.session # proposal.session -> "not_recoverable"
      [] attempt > MaxRecoveries -> "max_attempts_reached"
      [] OTHER -> "repair_prompt_ready"

\* The page sends no attempt, which is 0 of Attempts: its own recoveries are not
\* recoverable. The other numbers are those of a client that counts; what holds
\* of all answers holds of the page's.
RecoveryArrives ==
    /\ Awaits("recovery")
    /\ \E sent \in Attempts :
        Set([page EXCEPT !.recovery = ResultOf(TRUE,
                PrepareRepair(CurrentAttempt(sent), call.seen.proposal, call.seen.sandbox))], FALSE)

RepairKeepsPreview ==
    /\ Awaits("repair")
    /\ \E valid \in BOOLEAN :
        Set([page EXCEPT !.proposal = [id |-> NewId, session |-> call.seen.proposal.session,
                                       valid |-> valid,
                                       repairs |-> call.seen.proposal.repairs
                                                        \cup {call.seen.proposal.id}]], FALSE)

\* generateRecoveryProposal: the recovery stays, what was of the old patch goes
RepairArrives ==
    /\ Awaits("repair")
    /\ \E valid \in BOOLEAN :
        Set([page EXCEPT !.proposal = [id |-> NewId, session |-> call.seen.proposal.session,
                                       valid |-> valid,
                                       repairs |-> call.seen.proposal.repairs
                                                        \cup {call.seen.proposal.id}],
                         !.selected = FALSE, !.diff = None, !.sandbox = None,
                         !.apply = None, !.rollback = None], FALSE)

(* -------------------------- apply and rollback ------------------------- *)

DryRunArrives ==
    /\ Awaits("dry_run")
    /\ \E status \in {"dry_run", "failed"} :
        Set([page EXCEPT !.apply = ResultOf(~call.seen.selected, status), !.rollback = None],
            status # "dry_run")

\* assertSandboxPassedForApply: result, preview and patch are of one proposal id
SandboxPassedForApply(p) ==
    /\ p.sandbox # None /\ p.sandbox.status = "passed"
    /\ \A r \in {p.sandbox, p.diff} :
        r.of = p.proposal.id /\ r.session = p.proposal.session /\ r.whole = ~p.selected

\* Whether the decision taken authorises it is the server's to say
ApplyArrives ==
    /\ Awaits("apply") /\ SandboxPassedForApply(call.seen)
    /\ \E status \in {"applied", "failed"} :
        Set([page EXCEPT !.apply = ResultOf(~call.seen.selected, status), !.rollback = None],
            status # "applied")

RollbackArrives ==
    \E op \in {"dry_rollback", "rollback"} :
        /\ Awaits(op)
        /\ \E status \in {IF op = "rollback" THEN "rolled_back" ELSE "dry_run", "failed"} :
            Set([page EXCEPT !.rollback = [call.seen.apply EXCEPT !.status = status]],
                status = "failed")

SnapshotArrives ==
    Awaits("snapshot") /\ SetAndEnd([page EXCEPT !.snapshot = call.session], FALSE)

ReportArrives ==
    Awaits("report") /\ SetAndEnd([page EXCEPT !.report = call.session], FALSE)

VerifyArrives ==
    /\ Awaits("verify")
    /\ \E passed \in BOOLEAN : SetAndEnd([page EXCEPT !.verified = passed], ~passed)

(* ------------------------- commands and decisions ---------------------- *)

\* routeCommand: show the session it answers with, ask for the questions
\* without waiting; then clear the plan, or drop the patch of a read-only one
RouteArrives ==
    /\ Awaits("route")
    /\ asking' = TRUE
    /\ Show(call.session,
            CASE "clear" \in call.then -> Cleared(page)
              [] "drop" \in call.then -> [page EXCEPT !.proposal = None, !.diff = None,
                                                     !.sandbox = None, !.apply = None]
              [] OTHER -> page)
    /\ IF "clear" \in call.then THEN DropGuide ELSE KeepGuide(call.session)
    /\ Return
    /\ UNCHANGED <<posts, saved, extras>>

\* handleApprovalDecision: what an accepted decision leads to
DecisionArrives ==
    /\ Awaits("decide")
    /\ \/ call' = NoCall /\ UNCHANGED page
       \/ /\ call.decision \in {"refuse", "approve"}
          /\ call' = [call EXCEPT !.op = "route"] /\ UNCHANGED page
       \/ /\ call.decision \in {"verify", "rollback"}
          /\ call' = [call EXCEPT !.op = call.decision] /\ UNCHANGED page
       \/ /\ call.decision = "approve_patch"
          /\ page' = [page EXCEPT !.selected = TRUE]
          /\ call' = [call EXCEPT !.op = "diff", !.seen.selected = TRUE]
    /\ UNCHANGED <<session, guiding, due, asking, saved, extras>>

\* sendSessionCommand: the session comes back as the server has it
LogArrives ==
    /\ call # NoCall /\ call.at = "log"
    /\ Show(call.session, page)
    /\ KeepGuide(call.session)
    /\ Return
    /\ UNCHANGED <<posts, asking, saved, extras>>

HandlerEnds ==
    /\ call # NoCall /\ call.at = "end" /\ Slow
    /\ RefreshFrom(call)
    /\ call' = NoCall
    /\ UNCHANGED <<session, page, due, asking, saved>>

\* A request fails; that of an apply the server refuses always does
RefusedApply == Awaits("apply") /\ ~SandboxPassedForApply(call.seen)

CallFails ==
    /\ call # NoCall /\ call' = NoCall
    /\ Extra(~RefusedApply)
    /\ UNCHANGED <<session, page, guiding, due, asking, saved>>

QuestionsFail ==
    /\ asking /\ asking' = FALSE
    /\ Extra(TRUE)
    /\ UNCHANGED <<session, page, guiding, due, call, saved>>

(* -------------------------------- clicks ------------------------------- *)

Valid(proposal) == proposal # None /\ proposal.valid

\* The early returns of the handlers
HandlerRuns(op, p) ==
    CASE op \in {"prepare", "plan", "snapshot", "verify", "report"} -> TRUE
      [] op = "answer" -> p.questions > 0
      [] op = "patch" -> p.plan # None /\ p.plan.plan.valid
      [] op \in {"diff", "sandbox"} -> Valid(p.proposal)
      [] op = "recovery" -> p.proposal # None /\ StatusOf(p.sandbox) \notin {"none", "passed"}
      [] op = "repair" -> p.proposal # None /\ StatusOf(p.recovery) = "repair_prompt_ready"
      [] op \in {"dry_run", "apply"} -> p.proposal # None /\ p.diff # None
      [] op \in {"dry_rollback", "rollback"} -> p.apply # None

\* What the panels allow besides. That a risky patch has its snapshot is
\* checked in PatchApply.
PanelAllows(op, p) ==
    /\ op \in {"sandbox", "dry_run", "apply"} => Valid(p.proposal) /\ StatusOf(p.diff) = "ready"
    /\ op = "apply" => StatusOf(p.sandbox) = "passed"
    /\ op = "recovery" => StatusOf(p.recovery) \in {"none", "repair_prompt_ready"}
    /\ op \in {"dry_rollback", "rollback"} => StatusOf(p.apply) = "applied"

\* generatePlan asks for the answers first, generatePatch makes no patch of a
\* read-only plan
Run(op) ==
    /\ session # None /\ HandlerRuns(op, page)
    /\ CASE op = "plan" /\ page.plan = None /\ page.questions > 0 ->
                BeginCall("route", None, {"refresh"})
         [] op = "patch" /\ page.plan.plan.readOnly -> BeginCall("route", None, {"drop"})
         [] op \in {"patch", "repair"} /\ ~(op = "patch" /\ page.plan.plan.readOnly) ->
                Proposals \ InUse(page) # {} /\ BeginCall(op, None, {})
         [] OTHER -> BeginCall(op, None, {})

StartSession ==
    /\ session = None /\ Sessions \ saved # {}
    /\ BeginCall("start", None, {})
    /\ UNCHANGED extras

PanelOps == Requests \ {"start", "resume", "route", "decide"}

\* A decision on what the approval centre lists
Decide(decision) ==
    /\ session # None
    /\ decision = "approve_patch" => Valid(page.proposal)
    /\ decision = "rollback" => StatusOf(page.apply) = "applied"
    /\ decision \in {"refuse", "approve", "verify"} => page.plan # None
    /\ BeginCall("decide", decision, {"refresh"} \cup IF decision = "refuse" THEN {"clear"} ELSE {})

\* A command of the user, and a plan cancelled, to be changed or restricted
Command ==
    /\ session # None
    /\ \/ BeginCall("route", None, {})
       \/ page.plan # None /\ BeginCall("route", None, {"clear"})

Click ==
    /\ Extra(TRUE)
    /\ \/ \E op \in PanelOps : PanelAllows(op, page) /\ Run(op)
       \/ \E d \in Decisions : Decide(d)
       \/ Command
       \/ \E s \in Sessions : Resume(s)
       \/ NewSession

\* toNextWorkflowAction: starting a session and verifying have no handler
GuideOps ==
    [prepare_workflow |-> "prepare", answer_runtime_questions |-> "answer",
     generate_runtime_plan |-> "plan", generate_patch_proposal |-> "patch",
     generate_diff_preview |-> "diff", create_snapshot |-> "snapshot",
     verify_sandbox |-> "sandbox", prepare_recovery |-> "recovery",
     generate_repaired_patch |-> "repair", dry_run_apply |-> "dry_run",
     export_report |-> "report"]
\* What the guide offers without a button of its own is done in the panels
PanelsDo == [apply_patch |-> "apply", rollback_patch |-> "rollback"]

FollowGuide ==
    /\ \/ guide \in DOMAIN GuideOps /\ Run(GuideOps[guide])
       \/ /\ guide \in DOMAIN PanelsDo /\ PanelAllows(PanelsDo[guide], page)
          /\ Run(PanelsDo[guide])
    /\ UNCHANGED extras

(* ------------------------------ behaviours ----------------------------- *)

Results ==
    \/ SessionStarted \/ WorkflowPrepared \/ SavedArrives \/ QuestionAnswered
    \/ PlanArrives \/ ProposalArrives \/ DiffArrives \/ SandboxArrives
    \/ RecoveryArrives \/ RepairArrives \/ DryRunArrives \/ ApplyArrives
    \/ RollbackArrives \/ SnapshotArrives \/ ReportArrives \/ VerifyArrives
    \/ RouteArrives \/ DecisionArrives \/ LogArrives \/ HandlerEnds

PageNext ==
    \/ StartSession \/ Click \/ FollowGuide
    \/ Results \/ CallFails \/ QuestionsArrive \/ QuestionsFail
    \/ AskForGuide
    \/ \E i \in DOMAIN posts : GuideArrives(i) \/ GuideFails(i)

PageSpec == PageInit /\ [][PageNext]_pageVars

\* Requests are answered, timers fire, and the user does what the guide offers
FairSpec ==
    /\ PageSpec
    /\ WF_pageVars(StartSession \/ FollowGuide)
    /\ WF_pageVars(Results \/ (RefusedApply /\ CallFails)) /\ WF_pageVars(QuestionsArrive)
    /\ WF_pageVars(AskForGuide \/ \E i \in DOMAIN posts : GuideArrives(i))

(* ------------------------------ properties ----------------------------- *)

\* The page holds what its types allow. A question count below zero would be a
\* handler counting down what a late answer of the server had already taken.
PageTypeOK ==
    /\ session \in Sessions \cup {None} /\ page \in Page
    /\ guide \in Actions \cup {None} /\ fresh \in BOOLEAN /\ due \in BOOLEAN
    /\ Len(posts) <= MaxPosts /\ \A i \in DOMAIN posts : posts[i] \in Post
    /\ call = NoCall \/ call \in Call
    /\ asking \in BOOLEAN
    /\ saved \subseteq Sessions
    /\ extras \in 0..MaxExtras

\* What the page shows belongs together: plan, proposal, snapshot and report are
\* of the session shown, and the preview, the sandbox result, the apply and the
\* rollback are of the proposal shown; a recovery may be of one it repairs.
ShownBelongTogether ==
    LET isOf(r, ids) == page[r] = None \/ (page[r].of \in ids /\ page[r].session = session)
    IN /\ page.plan # None => page.plan.of = session
       /\ page.snapshot \in {None, session} /\ page.report \in {None, session}
       /\ page.proposal # None =>
            /\ page.proposal.session = session
            /\ \A r \in {"diff", "sandbox", "apply", "rollback"} : isOf(r, {page.proposal.id})
            /\ isOf("recovery", page.proposal.repairs \cup {page.proposal.id})
       /\ page.proposal = None => \A r \in {"diff", "sandbox", "apply"} : page[r] = None

Quiet == session # None /\ ~due /\ posts = <<>> /\ call = NoCall

\* Once nothing is in flight, a guide that a render asked for last is the guide
\* of what the page shows: no change of the page escapes the effect.
GuideFollowsRender == Quiet /\ fresh => guide = Offer(session, page)

\* A repaired proposal counts as a proposal to preview even when it was
\* rejected; a recovery and a rollback outlive the patch that a read-only plan
\* drops; a selection approved is what is applied even when its preview failed
RepairRejected(p) == p.proposal # None /\ ~p.proposal.valid /\ p.proposal.repairs # {}
RecoveryOutlives(p) == p.proposal = None /\ p.recovery # None
RollbackOutlives(p) == p.apply = None /\ p.rollback # None
SelectionNotPreviewed(p) == p.selected /\ p.diff # None /\ p.diff.whole

\* What the server's state machine offers, the page's handler carries out: its
\* early returns refuse nothing that is offered, and what the panels apply is
\* what the server accepts. The four cases above are the exceptions.
OfferIsActedOn ==
    LET offer == Offer(session, page)
    IN session # None =>
        /\ offer \in DOMAIN GuideOps =>
            \/ HandlerRuns(GuideOps[offer], page)
            \/ RepairRejected(page) \/ RecoveryOutlives(page)
        /\ offer \in DOMAIN PanelsDo /\ call = NoCall =>
            /\ \/ HandlerRuns(PanelsDo[offer], page) /\ PanelAllows(PanelsDo[offer], page)
               \/ offer = "rollback_patch" /\ RollbackOutlives(page)
            /\ offer = "apply_patch" => SandboxPassedForApply(page) \/ SelectionNotPreviewed(page)

\* Where following the guide ends without a report: there is no guide, or it
\* offers nothing the page does, or it is an overtaken one that nothing renews,
\* or the recovery is refused
Stalled ==
    \/ guide \in {None, "none", "run_verify"}
    \/ Quiet /\ ~fresh /\ guide # Offer(session, page)
    \/ RepairRejected(page) \/ RecoveryOutlives(page) \/ RollbackOutlives(page)
    \/ StatusOf(page.recovery) = "not_recoverable"
    \/ Proposals = InUse(page)

\* A user who does what the guide offers gets to a report or leaves the session,
\* through a failed sandbox, its repair, apply and rollback, unless the guide
\* stalls; provided the questions, once answered, do not come back for ever.
GuideLeadsOn ==
    <>[](page.questions = 0) => (session # None ~> session = None \/ page.report # None \/ Stalled)

=============================================================================
