---------------------------- MODULE ApprovalFlow ----------------------------
(* From an approval to the write of a patch in the API server              *)
(* (RuntimeApiController): a user decides an approval request, the server  *)
(* stores the decision in decisions.json of the session, and an apply      *)
(* looks the decision up, checks it against the patch and runs it.         *)
(*                                                                         *)
(* The server is one process without locks: its handlers interleave at     *)
(* every await, and a store is a whole file that is read, changed in       *)
(* memory, truncated and written. Callers keep what the server answered    *)
(* and may send it back in a later call.                                   *)
(*                                                                         *)
(* Abstracted: the session log is only a call that may fail; identifiers   *)
(* of previews are positions; a dry run, which authorises nothing and      *)
(* writes nothing, is left out; what the runner does is PatchApply.        *)
EXTENDS Naturals, FiniteSets, Sequences

CONSTANTS
    Handlers,       \* requests the server may be working on at a time
    Proposals,      \* validated patch proposals
    Files,          \* paths of the project
    FilesOf,        \* the files of each proposal
    PlanFiles,      \* the candidate files of the runtime plan
    HighRisk,       \* proposals the analyzer rates high
    Passing,        \* the patches whose sandbox verification passes
    RequestKinds,   \* the kinds of request the callers decide
    NoProposal,     \* proposalId or proposal not given
    NoDecision,     \* no decision found or given
    MaxPreviews,    \* bound on the diff previews of the session
    MaxCalls,       \* bound on the decisions and applies of a behaviour
    MaxCrashes      \* bound on the times the server is killed

ASSUME FilesAssumption ==
    /\ FilesOf \in [Proposals -> (SUBSET Files) \ {{}}]
    /\ PlanFiles \subseteq Files
    /\ HighRisk \subseteq Proposals
    /\ NoProposal \notin Proposals
ASSUME KindsAssumption ==
    RequestKinds \subseteq {"plan", "patch", "risk", "verify", "dirty_working_tree", "rollback"}
ASSUME BoundsAssumption == MaxPreviews \in Nat /\ MaxCalls \in Nat /\ MaxCrashes \in Nat

(* -------------------------- patches and previews ----------------------- *)

\* What is previewed, verified and applied: a proposal, whole, or filtered to
\* the selected files under an identifier of its own.
Target == {t \in [proposal : Proposals, selected : SUBSET Files] :
                t.selected \subseteq FilesOf[t.proposal]}

TargetFiles(t) == IF t.selected = {} THEN FilesOf[t.proposal] ELSE t.selected

ASSUME PassingAssumption == Passing \subseteq Target

(* ------------------------------- decisions ----------------------------- *)

Approving == {"approve", "approve_selected_files"}
Refusing  == {"ask_revision", "reject"}
Kind      == {"plan", "patch", "risk", "verify", "dirty_working_tree", "rollback"}

\* An accepted decision: the request's kind, the proposal a patch or risk
\* request is about, and the files approved (none when it refuses).
Decision ==
    {d \in [kind : Kind, about : Proposals \cup {NoProposal},
            action : Approving \cup Refusing, files : SUBSET Files] :
        /\ d.action \in Refusing => d.files = {}
        /\ d.kind \in {"patch", "risk"} => d.about # NoProposal /\ d.files \subseteq FilesOf[d.about]}

Locations == {"idle", "load", "open", "write", "log", "lookup", "run"}

Slots == 1..MaxPreviews
Document == [Slots -> Decision \cup {NoDecision}]
EmptyDocument == [i \in Slots |-> NoDecision]

\* What a caller says of the session's artifacts when it decides. That a
\* snapshot is available, which approving a high-risk request needs, is also
\* only the caller's word, and stops nothing here.
Artifacts == [proposal : Proposals \cup {NoProposal}, preview : {0} \cup Slots,
              appliedFiles : SUBSET Files]

NoJob == [op |-> "none"]
DecideJob == [op : {"decide"}, decision : Decision, preview : Slots]
ApplyJob == [op : {"apply"}, target : Target, preview : Slots,
             sandbox : Target, decision : Decision \cup {NoDecision}]
Job == {NoJob} \cup DecideJob \cup ApplyJob

VARIABLES
    previews,   \* the diff previews of the session, oldest first
    file,       \* whether decisions.json holds any text
    doc,        \* what load() reads from it: the newest decision on each preview
    pc,         \* where each handler is
    job,        \* what each handler was asked, and the decision it goes by
    mem,        \* the document each deciding handler loaded
    answers,    \* the decisions the server answered
    reported,   \* the file sets of the apply results the server answered
    applied,    \* history: the patches the runner wrote, and what let them
    decided,    \* history: every decision a user took
    standing,   \* history: the newest decision recorded on each preview
    disturbed,  \* history: a read overlapped another handler's save, or a kill did
    calls, crashes

store  == <<file, doc>>
client == <<answers, reported>>
past   == <<applied, decided, standing, disturbed>>
vars   == <<previews, file, doc, pc, job, mem, answers, reported,
            applied, decided, standing, disturbed, calls, crashes>>

Init ==
    /\ previews = <<>>
    /\ file = "empty" /\ doc = EmptyDocument
    /\ pc = [h \in Handlers |-> "idle"]
    /\ job = [h \in Handlers |-> NoJob]
    /\ mem = [h \in Handlers |-> EmptyDocument]
    /\ answers = {} /\ reported = {}
    /\ applied = {} /\ decided = {}
    /\ standing = EmptyDocument
    /\ disturbed = FALSE
    /\ calls = 0 /\ crashes = 0

(* ---------------------------- the approval centre ---------------------- *)

\* The artifacts of one session: its proposal with no preview yet, or with a
\* preview of that proposal, whole or filtered; a result the server answered.
Known(s) ==
    /\ s \in Artifacts
    /\ s.preview # 0 => /\ s.preview \in DOMAIN previews
                        /\ previews[s.preview].proposal = s.proposal
    /\ s.appliedFiles \in reported \cup {{}}

\* ApprovalCenter.build: the requests it lists for these artifacts
Listed(kind, s) ==
    /\ kind = "patch" => s.proposal # NoProposal
    /\ kind = "risk" => s.proposal \in HighRisk
    /\ kind = "rollback" => s.appliedFiles # {}

RequestFiles(kind, s) ==
    CASE kind = "plan" -> PlanFiles
      [] kind \in {"patch", "risk"} -> FilesOf[s.proposal]
      [] kind = "rollback" -> s.appliedFiles
      [] kind \in {"verify", "dirty_working_tree"} -> {}

AllowApprove(kind, s) == kind = "patch" => s.preview # 0

\* defaultActions: which answers a request can be given
Enabled(kind, s, action) ==
    \/ action \in Refusing
    \/ action = "approve" /\ AllowApprove(kind, s)
    \/ /\ action = "approve_selected_files"
       /\ kind = "patch" /\ Cardinality(FilesOf[s.proposal]) > 1
       /\ AllowApprove(kind, s)

NormalizedFiles(kind, s, action, selected) ==
    CASE action \in Refusing -> {}
      [] action = "approve" -> RequestFiles(kind, s)
      [] OTHER -> selected \cap RequestFiles(kind, s)

\* The decision decide() returns for an answer it accepts
DecisionOn(kind, s, action, selected) ==
    [kind |-> kind, about |-> IF kind \in {"patch", "risk"} THEN s.proposal ELSE NoProposal,
     action |-> action, files |-> NormalizedFiles(kind, s, action, selected)]

(* --------------------------- handlers and stores ----------------------- *)

Goto(h, at, what) ==
    /\ pc' = [pc EXCEPT ![h] = at]
    /\ job' = [job EXCEPT ![h] = what]

Return(h) == Goto(h, "idle", NoJob)

\* generatePatchDiff: a preview of a proposal, whole or filtered
GenerateDiff ==
    /\ Len(previews) < MaxPreviews
    /\ \E t \in Target : previews' = Append(previews, t)
    /\ UNCHANGED <<store, pc, job, mem, client, past, calls, crashes>>

(* ------------------------------ resolveApproval ------------------------ *)

\* A decision that is not accepted returns at once and changes nothing. An
\* accepted one is stored under the preview of the caller's artifacts, if
\* they have one; the session is loaded first, and may fail to.
StartDecide(h) ==
    /\ pc[h] = "idle" /\ calls < MaxCalls
    /\ \E s \in Artifacts, k \in RequestKinds, a \in Approving \cup Refusing, fs \in SUBSET Files :
        LET d == DecisionOn(k, s, a, fs) IN
        /\ Known(s) /\ Listed(k, s) /\ Enabled(k, s, a)
        /\ decided' = decided \cup {d}
        /\ \/ /\ s.preview # 0
              /\ Goto(h, "load", [op |-> "decide", decision |-> d, preview |-> s.preview])
              /\ UNCHANGED answers
           \/ /\ s.preview = 0
              /\ answers' = answers \cup {d}
              /\ UNCHANGED <<pc, job>>
    /\ calls' = calls + 1
    /\ UNCHANGED <<previews, store, mem, reported, applied, standing, disturbed, crashes>>

\* session.load throws: nothing is stored and the caller gets an error
DecideFails(h) ==
    /\ pc[h] = "load"
    /\ Return(h)
    /\ UNCHANGED <<previews, store, mem, client, past, calls, crashes>>

\* A handler between its load and its write
Saving(h) == pc[h] \in {"open", "write"}

\* ApprovalDecisionStore.load, whose catch takes a torn file for no file
LoadDecisions(h) ==
    /\ pc[h] = "load"
    /\ Goto(h, "open", job[h])
    /\ mem' = [mem EXCEPT ![h] = doc]
    /\ disturbed' = (disturbed \/ \E g \in Handlers : Saving(g))
    /\ UNCHANGED <<previews, store, client, applied, decided, standing, calls, crashes>>

\* writeFile truncates
OpenDecisions(h) ==
    /\ pc[h] = "open"
    /\ Goto(h, "write", job[h])
    /\ file' = "empty" /\ doc' = EmptyDocument
    /\ UNCHANGED <<previews, mem, client, past, calls, crashes>>

SavedOnce(h) ==
    IF mem[h][job[h].preview] # NoDecision
      THEN mem[h] ELSE [mem[h] EXCEPT ![job[h].preview] = job[h].decision]

\* save(): the decision goes last, so it is the newest on its preview
Saved(h) == [mem[h] EXCEPT ![job[h].preview] = job[h].decision]

\* and writes over whatever is there: over a longer text it leaves a tail no
\* parser accepts.
WriteDecisions(h) ==
    /\ pc[h] = "write"
    /\ Goto(h, "log", job[h])
    /\ \/ doc' = Saved(h)
       \/ file = "filled" /\ doc' = EmptyDocument
    /\ file' = "filled"
    /\ mem' = [mem EXCEPT ![h] = EmptyDocument]
    /\ standing' = [standing EXCEPT ![job[h].preview] = job[h].decision]
    /\ UNCHANGED <<previews, client, applied, decided, disturbed, calls, crashes>>

\* session.addRuntimeAction, then the answer, unless that throws
AnswerDecision(h) ==
    /\ pc[h] = "log"
    /\ Return(h)
    /\ answers' \in {answers, answers \cup {job[h].decision}}
    /\ UNCHANGED <<previews, store, mem, reported, past, calls, crashes>>

(* ------------------------------ applyRuntimePatch ---------------------- *)

\* A caller asks to apply a patch of a preview, with a sandbox result and,
\* if it has one, a decision the server once answered.
StartApply(h) ==
    /\ pc[h] = "idle" /\ calls < MaxCalls
    /\ \E t \in Target, i \in DOMAIN previews, s \in Passing, d \in answers \cup {NoDecision} :
        Goto(h, "lookup", [op |-> "apply", target |-> t, preview |-> i,
                           sandbox |-> s, decision |-> d])
    /\ calls' = calls + 1
    /\ UNCHANGED <<previews, store, mem, client, past, crashes>>

\* findLatest: the newest decision stored for this patch and preview
Stored(h) ==
    IF previews[job[h].preview] = job[h].target THEN doc[job[h].preview] ELSE NoDecision

\* the stored decision, else the caller's
Effective(h) == IF Stored(h) # NoDecision THEN Stored(h) ELSE job[h].decision

\* assertSandboxPassedForApply: result, preview and patch are of one proposal id
SandboxPassed(h) ==
    /\ job[h].sandbox = job[h].target
    /\ previews[job[h].preview] = job[h].target

AuthorisesCovered(d, t, diff) ==
    /\ d # NoDecision
    /\ d.action \in Approving
    /\ d.files # {} /\ d.files \subseteq TargetFiles(t) \cap TargetFiles(diff)

\* PatchApplyAuthorization.authorize
Authorises(d, t, diff) ==
    /\ diff = t
    /\ d # NoDecision
    /\ d.action \in Approving
    /\ d.files # {}
    /\ d.files \subseteq TargetFiles(t) \cap TargetFiles(diff)
    /\ TargetFiles(diff) \subseteq d.files
    /\ TargetFiles(t) \subseteq TargetFiles(diff)
    /\ d.action = "approve_selected_files" => Cardinality(TargetFiles(t)) = Cardinality(d.files)

\* The lookup, then the checks, which run without an await
Lookup(h) ==
    /\ pc[h] = "lookup"
    /\ disturbed' = (disturbed \/ \E g \in Handlers : pc[g] = "write")
    /\ IF SandboxPassed(h) /\ Authorises(Effective(h), job[h].target, previews[job[h].preview])
         THEN Goto(h, "run", [job[h] EXCEPT !.decision = Effective(h)])
         ELSE Return(h)
    /\ UNCHANGED <<previews, store, mem, client, applied, decided, standing, calls, crashes>>

\* The bridge and the runner refuse or write; the result is answered unless
\* logging it in the session throws.
RunApply(h) ==
    /\ pc[h] = "run"
    /\ Return(h)
    /\ \/ UNCHANGED <<applied, reported>>
       \/ /\ applied' = applied \cup {[target |-> job[h].target, preview |-> job[h].preview,
                                       decision |-> job[h].decision]}
          /\ reported' \in {reported, reported \cup {TargetFiles(job[h].target)}}
    /\ UNCHANGED <<previews, store, mem, answers, decided, standing, disturbed, calls, crashes>>

(* ------------------------------- the process --------------------------- *)

\* The server is killed and started again: its handlers are gone, the file
\* stays as it is.
Crash ==
    /\ crashes < MaxCrashes
    /\ \E h \in Handlers : pc[h] # "idle"
    /\ pc' = [h \in Handlers |-> "idle"]
    /\ job' = [h \in Handlers |-> NoJob]
    /\ mem' = [h \in Handlers |-> EmptyDocument]
    /\ disturbed' = (disturbed \/ \E h \in Handlers : pc[h] = "write")
    /\ crashes' = crashes + 1
    /\ UNCHANGED <<previews, store, client, applied, decided, standing, calls>>

Decide(h) ==
    \/ StartDecide(h) \/ DecideFails(h) \/ LoadDecisions(h)
    \/ OpenDecisions(h) \/ WriteDecisions(h) \/ AnswerDecision(h)

Apply(h) == StartApply(h) \/ Lookup(h) \/ RunApply(h)

Next == GenerateDiff \/ Crash \/ \E h \in Handlers : Decide(h) \/ Apply(h)

Spec == Init /\ [][Next]_vars

(* ------------------------------- invariants ---------------------------- *)

JobTyped(h) ==
    /\ pc[h] \in {"load", "open", "write", "log"} => job[h] \in DecideJob
    /\ pc[h] \in {"lookup", "run"} => job[h] \in ApplyJob
    /\ pc[h] # "idle" => job[h].preview \in DOMAIN previews

\* Every variable keeps its type; in particular a decision never carries files
\* its request did not offer, nor any file when it refuses, in the store, in a
\* handler or with a caller.
TypeOK ==
    /\ previews \in Seq(Target) /\ Len(previews) \leq MaxPreviews
    /\ file \in {"empty", "filled"} /\ doc \in Document
    /\ pc \in [Handlers -> Locations]
    /\ job \in [Handlers -> Job]
    /\ \A h \in Handlers : JobTyped(h)
    /\ mem \in [Handlers -> Document]
    /\ answers \subseteq Decision /\ decided \subseteq Decision
    /\ reported \subseteq SUBSET Files
    /\ applied \subseteq [target : Target, preview : Slots, decision : Decision]
    /\ standing \in Document
    /\ disturbed \in BOOLEAN
    /\ calls \in 0..MaxCalls /\ crashes \in 0..MaxCrashes

\* Whatever is lost, torn, echoed by callers or interleaved: a patch the runner
\* wrote was previewed and passed the sandbox as exactly that patch, and a user
\* took an approving decision on exactly its files.
AppliedWasCleared ==
    \A a \in applied :
        /\ a.preview \in DOMAIN previews /\ previews[a.preview] = a.target
        /\ a.target \in Passing
        /\ a.decision \in decided
        /\ a.decision.action \in Approving
        /\ a.decision.files = TargetFiles(a.target)

(* ------------------------- the inductive invariant --------------------- *)

\* Whatever the server holds or answered, a user once decided
Provenance ==
    /\ answers \subseteq decided
    /\ \A i \in Slots : doc[i] \in decided \cup {NoDecision}
    /\ \A h \in Handlers, i \in Slots : mem[h][i] \in decided \cup {NoDecision}
    /\ \A h \in Handlers :
        /\ pc[h] \in {"load", "open", "write", "log"} => job[h].decision \in decided
        /\ pc[h] = "lookup" => job[h].decision \in decided \cup {NoDecision}

\* What is true of an apply that was let through
ClearedToRun ==
    \A h \in Handlers :
        /\ pc[h] = "lookup" => job[h].sandbox \in Passing
        /\ pc[h] = "run" =>
            /\ previews[job[h].preview] = job[h].target
            /\ job[h].target \in Passing
            /\ job[h].decision \in decided
            /\ job[h].decision.action \in Approving
            /\ job[h].decision.files = TargetFiles(job[h].target)

\* Undisturbed, at most one handler saves, from the newest decisions, and the
\* file holds those except while it is being rewritten.
Quiet ==
    ~disturbed =>
        /\ \A g, h \in Handlers : Saving(g) /\ Saving(h) => g = h
        /\ \A h \in Handlers : Saving(h) => mem[h] = standing
        /\ \A h \in Handlers : pc[h] = "write" => file = "empty"
        /\ (\A h \in Handlers : pc[h] # "write") => doc = standing

IInv == TypeOK /\ Provenance /\ ClearedToRun /\ AppliedWasCleared /\ Quiet

(* --------------------------- action properties ------------------------- *)

LetThrough(h) == pc[h] = "lookup" /\ pc'[h] = "run"

\* As long as no read of the store overlapped a save and no kill interrupted
\* one, the decision that lets an apply through is the newest one recorded on
\* the preview, whoever sent what along.
NewestDecisionRules ==
    [][\A h \in Handlers : LetThrough(h) /\ ~disturbed' =>
            standing[job[h].preview] \in {NoDecision, job'[h].decision}]_vars

\* A rejected patch is not applied: once a refusal is recorded on a preview and
\* until another decision replaces it, no apply of the preview is let through
\* (patch-apply-authorization-test.ts:106).
RejectionStands ==
    [][\A h \in Handlers : LetThrough(h) /\ standing[job[h].preview] # NoDecision =>
            standing[job[h].preview].action \notin Refusing]_vars
=============================================================================
