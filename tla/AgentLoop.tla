----------------------------- MODULE AgentLoop -----------------------------
(***************************************************************************)
(* The approval-gated agent loop of the CLI.  The loop is one JSON file;   *)
(* every `zero agent ...` command is a process that loads the whole file,  *)
(* works on its own copy and writes the whole copy back, and nothing stops *)
(* two commands from running at once.                                      *)
(***************************************************************************)
EXTENDS Integers, Sequences

CONSTANTS
    Procs,          \* command processes
    Proposals,      \* patch proposals (and their fingerprints)
    NoProposal,     \* no parsable proposal in the metadata
    ReadOnlySteps,  \* the read-only kinds, in the order `agent run` takes them
    StepKinds,      \* the kinds users pass to `agent step`
    MaxRequests,    \* bound: approval requests in the file when a command starts
    MaxCrashes      \* bound: processes killed

ReadOnlyKinds == {ReadOnlySteps[i] : i \in 1 .. Len(ReadOnlySteps)}

GatedKinds ==
    {"request_repair_proposal", "show_diff_preview", "request_approval",
     "apply_patch", "revalidate_project", "report_result"}

\* The default actions of a loop; "cancel" is not among them
Kinds == ReadOnlyKinds \cup GatedKinds

SafeSteps ==
    ReadOnlySteps \o
    <<"request_repair_proposal", "show_diff_preview", "request_approval">>

\* The order in which `agent run` takes them
Before(j, k) ==
    \E a, b \in 1 .. Len(SafeSteps) : a < b /\ SafeSteps[a] = j /\ SafeSteps[b] = k

RunKinds == ReadOnlyKinds \cup
    {"request_repair_proposal", "show_diff_preview", "request_approval"}

ASSUME NoProposalAssumption == NoProposal \notin Proposals
ASSUME ReadOnlyAssumption ==
    /\ ReadOnlySteps \in Seq(STRING)
    /\ "cancel" \notin ReadOnlyKinds
    /\ ReadOnlyKinds \cap GatedKinds = {}
ASSUME StepKindsAssumption == StepKinds \subseteq Kinds \cup {"cancel"}
ASSUME BoundsAssumption == MaxRequests \in Nat /\ MaxCrashes \in Nat

Approval == [proposal : Proposals, status : {"pending", "approved", "rejected"}]

LoopState ==
    [status : {"waiting_for_user", "running", "completed", "failed"},
     actions : [Kinds -> {"pending", "executed", "blocked"}],
     proposal : Proposals \cup {NoProposal},
     ready : BOOLEAN,
     approvals : Seq(Approval)]

Fresh ==
    [status |-> "waiting_for_user", actions |-> [k \in Kinds |-> "pending"],
     proposal |-> NoProposal, ready |-> FALSE, approvals |-> <<>>]

VARIABLES
    disk,        \* agent-loop-state.json: "absent", "torn" or "whole"
    file,        \* what it holds when it is whole
    pc,          \* where each command process is
    mem,         \* its copy of the state
    todo,        \* the steps it still has to execute
    crashes,     \* processes killed so far
    granted,     \* history: proposals a user approved
    written      \* history: proposals the runner wrote to the project

procVars == <<pc, mem, todo>>
history == <<granted, written>>
vars == <<disk, file, procVars, crashes, history>>

Init ==
    /\ disk = "absent"
    /\ file = Fresh
    /\ pc = [p \in Procs |-> "idle"]
    /\ mem = [p \in Procs |-> Fresh]
    /\ todo = [p \in Procs |-> {}]
    /\ crashes = 0
    /\ granted = {}
    /\ written = {}

-----------------------------------------------------------------------------
(* Pure functions of the loop state.                                       *)

Ended(s) == s.status \in {"completed", "failed"}

\* Mutant: the menu forgets that a step was already executed
OffersExecutedSteps(s, k) == ~Ended(s) /\ s.actions[k] # "blocked"

CanExecute(s, k) ==
    /\ ~Ended(s)
    /\ \/ k = "request_approval"
       \/ k = "apply_patch" /\ s.actions[k] # "executed"
       \/ s.actions[k] = "pending"

LatestApproval(s) == s.approvals[Len(s.approvals)]

\* Mutant: the gate takes any request, decided or not
GateTakesPending(s) ==
    s.approvals # <<>> /\ LatestApproval(s).proposal = s.proposal

\* Mutant: it looks for an approved request instead of the latest one
GateTakesAnyApproval(s) ==
    \E i \in 1 .. Len(s.approvals) :
        s.approvals[i].status = "approved" /\ s.approvals[i].proposal = s.proposal

\* The gate and the fingerprint comparison in front of the runner
Cleared(s) ==
    /\ s.approvals # <<>>
    /\ LatestApproval(s).status = "approved"
    /\ LatestApproval(s).proposal = s.proposal

\* execution_apply_patch and execution_revalidate_project are in the metadata
CanReport(s) ==
    s.actions["apply_patch"] = "executed" /\ s.actions["revalidate_project"] = "executed"

Executed(s, k) == [s EXCEPT !.status = "running", !.actions[k] = "executed"]
Blocked(s, k)  == [s EXCEPT !.status = "running", !.actions[k] = "blocked"]
Failed(s)      == [s EXCEPT !.status = "failed"]

Requested(s) ==
    [Executed(s, "request_approval") EXCEPT
        !.approvals = Append(@, [proposal |-> s.proposal, status |-> "pending"])]

\* Mutant: a failed step is tried again
RestRetries(steps, k, s) ==
    IF s.status = "failed" THEN steps
    ELSE IF k \in Kinds /\ s.actions[k] = "blocked" THEN {}
    ELSE steps \ {k}

\* `agent run` returns on a failed loop or a blocked action
Rest(steps, k, s) ==
    IF s.status = "failed" \/ (k \in Kinds /\ s.actions[k] = "blocked")
    THEN {}
    ELSE steps \ {k}

-----------------------------------------------------------------------------
(* A command starts: it loads the file, or replaces or removes it.         *)

Begin(p, where, s, steps) ==
    /\ pc[p] = "idle"
    /\ pc' = [pc EXCEPT ![p] = where]
    /\ mem' = [mem EXCEPT ![p] = s]
    /\ todo' = [todo EXCEPT ![p] = steps]
    /\ UNCHANGED <<disk, file, crashes, written>>

BeginStart(p) == Begin(p, "store", Fresh, {}) /\ UNCHANGED granted

BeginStep(p) ==
    /\ disk = "whole"
    /\ \E k \in StepKinds :
        /\ k = "report_result" => CanReport(file)
        /\ k = "request_approval" => Len(file.approvals) < MaxRequests
        /\ Begin(p, "work", file, {k})
    /\ UNCHANGED granted

\* The safe steps not executed in the loaded copy; no other step of the run
\* executes them
LeftToRun(s) == {k \in RunKinds : s.actions[k] # "executed"}

BeginRun(p) ==
    /\ disk = "whole"
    /\ LeftToRun(file) # {}
    /\ "request_approval" \in LeftToRun(file) => Len(file.approvals) < MaxRequests
    /\ Begin(p, "work", file, LeftToRun(file))
    /\ UNCHANGED granted

\* `approve` and `reject` look at neither the loop nor the earlier decision
BeginDecide(p) ==
    /\ disk = "whole"
    /\ \E i \in 1 .. Len(file.approvals), d \in {"approved", "rejected"} :
        /\ Begin(p, "store", [file EXCEPT !.approvals[i].status = d], {})
        /\ granted' = IF d = "approved" THEN granted \cup {file.approvals[i].proposal}
                                        ELSE granted

\* rm: a write in flight goes on in a file that no longer has a name
Reset(p) ==
    /\ pc[p] = "idle" /\ disk # "absent"
    /\ disk' = "absent" /\ file' = Fresh
    /\ pc' = [q \in Procs |-> IF pc[q] = "writing" THEN "orphan" ELSE pc[q]]
    /\ UNCHANGED <<mem, todo, crashes, history>>

-----------------------------------------------------------------------------
(* AgentStepExecutor.execute, by the kind of the step.                     *)

At(p, k) ==
    /\ pc[p] = "work"
    /\ k \in todo[p]
    /\ \A j \in todo[p] : ~Before(j, k)

Finish(p, k, s) ==
    /\ pc' = [pc EXCEPT ![p] = "store"]
    /\ mem' = [mem EXCEPT ![p] = s]
    /\ todo' = [todo EXCEPT ![p] = Rest(todo[p], k, s)]
    /\ UNCHANGED <<disk, file, crashes, granted>>

\* No default action has this kind: an issue of severity error
Cancel(p) ==
    /\ At(p, "cancel")
    /\ Finish(p, "cancel", Failed(mem[p]))
    /\ UNCHANGED written

\* An issue of severity warning; the copy is saved all the same
NotExecutable(p) ==
    /\ \E k \in Kinds :
        At(p, k) /\ ~CanExecute(mem[p], k) /\ Finish(p, k, mem[p])
    /\ UNCHANGED written

\* The bridge throws: a read-only tool or the repair provider failed
ToolThrows(p) ==
    /\ \E k \in ReadOnlyKinds \cup {"request_repair_proposal", "revalidate_project"} :
        At(p, k) /\ CanExecute(mem[p], k) /\ Finish(p, k, Failed(mem[p]))
    /\ UNCHANGED written

ReadOnlyStep(p) ==
    \E k \in ReadOnlyKinds \cup {"show_diff_preview", "revalidate_project"} :
        /\ At(p, k)
        /\ CanExecute(mem[p], k)
        /\ Finish(p, k, Executed(mem[p], k))
        /\ UNCHANGED written

RequestRepair(p) ==
    /\ At(p, "request_repair_proposal")
    /\ CanExecute(mem[p], "request_repair_proposal")
    /\ \E x \in Proposals \cup {NoProposal}, valid \in BOOLEAN :
        /\ valid => x # NoProposal
        /\ Finish(p, "request_repair_proposal",
                  [Executed(mem[p], "request_repair_proposal")
                     EXCEPT !.proposal = x, !.ready = valid])
    /\ UNCHANGED written

RequestApproval(p) ==
    /\ At(p, "request_approval")
    /\ CanExecute(mem[p], "request_approval")
    /\ Finish(p, "request_approval",
              IF mem[p].ready THEN Requested(mem[p])
                              ELSE Blocked(mem[p], "request_approval"))
    /\ UNCHANGED written

RefuseApply(p) ==
    /\ At(p, "apply_patch")
    /\ CanExecute(mem[p], "apply_patch")
    /\ ~Cleared(mem[p])
    /\ Finish(p, "apply_patch", Blocked(mem[p], "apply_patch"))
    /\ UNCHANGED written

\* The runner applies the patch, fails half-way, or refuses it: the action
\* counts as executed in every case, unless the runner itself throws
ApplyPatch(p) ==
    /\ At(p, "apply_patch")
    /\ CanExecute(mem[p], "apply_patch")
    /\ Cleared(mem[p])
    /\ \/ Finish(p, "apply_patch", Executed(mem[p], "apply_patch"))
       \/ Finish(p, "apply_patch", Failed(mem[p]))
    /\ written' \in {written, written \cup {mem[p].proposal}}

ReportResult(p) ==
    /\ At(p, "report_result")
    /\ CanExecute(mem[p], "report_result")
    /\ Finish(p, "report_result",
              [Executed(mem[p], "report_result") EXCEPT !.status = "completed"])
    /\ UNCHANGED written

Execute(p) ==
    \/ Cancel(p) \/ NotExecutable(p) \/ ToolThrows(p) \/ ReadOnlyStep(p)
    \/ RequestRepair(p) \/ RequestApproval(p) \/ RefuseApply(p)
    \/ ApplyPatch(p) \/ ReportResult(p)

-----------------------------------------------------------------------------
(* AgentLoopStateStore.save: writeFile truncates the file, then fills it.  *)

OpenFile(p) ==
    /\ pc[p] = "store"
    /\ disk' = "torn" /\ file' = Fresh
    /\ pc' = [pc EXCEPT ![p] = "writing"]
    /\ UNCHANGED <<mem, todo, crashes, history>>

Continue(p) ==
    /\ pc' = [pc EXCEPT ![p] = IF todo[p] = {} THEN "idle" ELSE "work"]
    /\ mem' = [mem EXCEPT ![p] = IF todo[p] = {} THEN Fresh ELSE @]
    /\ UNCHANGED <<todo, crashes, history>>

\* Over another command's text a shorter one leaves that text's tail behind
WriteFile(p) ==
    /\ pc[p] = "writing"
    /\ \/ disk' = "whole" /\ file' = mem[p]
       \/ disk = "whole" /\ disk' = "torn" /\ file' = Fresh
    /\ Continue(p)

WriteOrphan(p) ==
    /\ pc[p] = "orphan"
    /\ UNCHANGED <<disk, file>>
    /\ Continue(p)

Crash(p) ==
    /\ pc[p] # "idle"
    /\ crashes < MaxCrashes
    /\ crashes' = crashes + 1
    /\ pc' = [pc EXCEPT ![p] = "idle"]
    /\ mem' = [mem EXCEPT ![p] = Fresh]
    /\ todo' = [todo EXCEPT ![p] = {}]
    /\ UNCHANGED <<disk, file, history>>

BeginCommand(p) ==
    BeginStart(p) \/ BeginStep(p) \/ BeginRun(p) \/ BeginDecide(p) \/ Reset(p)
Proceed(p) == Execute(p) \/ OpenFile(p) \/ WriteFile(p) \/ WriteOrphan(p)

Next == \E p \in Procs : BeginCommand(p) \/ Proceed(p) \/ Crash(p)

Spec == Init /\ [][Next]_vars

Fairness == \A p \in Procs : WF_vars(Proceed(p))
FairSpec == Spec /\ Fairness

-----------------------------------------------------------------------------
(* Safety.                                                                 *)

\* Every copy of the loop state has its shape, and a process at work has a
\* step to execute: `agent run` never goes to work on an empty list.
TypeOK ==
    /\ disk \in {"absent", "torn", "whole"}
    /\ file \in LoopState
    /\ pc \in [Procs -> {"idle", "work", "store", "writing", "orphan"}]
    /\ mem \in [Procs -> LoopState]
    /\ todo \in [Procs -> SUBSET (Kinds \cup {"cancel"})]
    /\ \A p \in Procs : pc[p] = "work" => todo[p] # {}
    /\ crashes \in 0 .. MaxCrashes
    /\ granted \in SUBSET Proposals
    /\ written \in SUBSET Proposals

\* Whatever commands overlap, crash or overwrite each other, the runner only
\* ever wrote proposals a user had approved by then.
AppliedWasGranted == written \subseteq granted

Copies == {file} \cup {mem[p] : p \in Procs}

\* In the file and in every process's copy, each approval request names the
\* proposal of that copy: the one the user reviewed is the one that is applied.
ApprovalsNameProposal ==
    \A s \in Copies : \A i \in 1 .. Len(s.approvals) :
        s.approvals[i].proposal = s.proposal

-----------------------------------------------------------------------------
(* The inductive invariant: every copy of the loop state is consistent on  *)
(* its own, and its approved requests are ones the user approved.          *)

\* Requests exist only once the repair step ran, which it does once per copy
Consistent(s, g) ==
    /\ s.ready => s.proposal # NoProposal
    /\ s.ready \/ s.approvals # <<>> => s.actions["request_repair_proposal"] = "executed"
    /\ \A i \in 1 .. Len(s.approvals) :
        /\ s.approvals[i].proposal = s.proposal
        /\ s.approvals[i].status = "approved" => s.proposal \in g

IInv ==
    /\ TypeOK
    /\ Consistent(file, granted)
    /\ \A p \in Procs : Consistent(mem[p], granted)
    /\ AppliedWasGranted

-----------------------------------------------------------------------------
(* The abstract promise, under commands that run one after the other: the  *)
(* state of the loop is the copy of the process that is about to save it.  *)

Saving == {p \in Procs : pc[p] \in {"store", "writing"}}
View == IF Saving = {} THEN file ELSE mem[CHOOSE p \in Saving : TRUE]
LoopExists == disk # "absent" \/ Saving # {}

ViewLoop ==
    IF ~LoopExists THEN "none" ELSE IF Ended(View) THEN View.status ELSE "open"
ViewProposal == IF LoopExists THEN View.proposal ELSE NoProposal
ViewDecision ==
    IF LoopExists /\ View.approvals # <<>> THEN LatestApproval(View).status ELSE "none"
ViewApplied == LoopExists /\ View.actions["apply_patch"] = "executed"
ViewRevalidated == LoopExists /\ View.actions["revalidate_project"] = "executed"

Promise == INSTANCE GatedApply WITH
    loop <- ViewLoop, proposal <- ViewProposal, decision <- ViewDecision,
    applied <- ViewApplied, revalidated <- ViewRevalidated

\* With one command at a time and no crash the loop file keeps the promise of
\* GatedApply: one proposal, applied at most once, under its latest decision.
KeepsPromise == Promise!Spec

-----------------------------------------------------------------------------
(* Liveness, when the tools return and a started process keeps running.    *)

\* Every command ends: `agent run --until approval` takes each step at most
\* once, whatever state another command left the loop in.
EveryCommandEnds == \A p \in Procs : pc[p] # "idle" ~> pc[p] = "idle"

=============================================================================
