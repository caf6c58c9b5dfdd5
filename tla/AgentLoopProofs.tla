-------------------------- MODULE AgentLoopProofs --------------------------
(***************************************************************************)
(* For every set of command processes, proposals and read-only steps: the  *)
(* types, that an approval request names the proposal of the copy it is    *)
(* in, and that only approved proposals are ever written, however commands *)
(* overlap, overwrite one another or are killed; and that a single process *)
(* that is not killed implements GatedApply.                               *)
(***************************************************************************)
EXTENDS AgentLoop, TLAPS

-----------------------------------------------------------------------------
(* What the functions of the loop state preserve.                          *)

\* A new loop is a consistent one.
LEMMA FreshState ==
    ASSUME NEW g
    PROVE  Fresh \in LoopState /\ Consistent(Fresh, g)
<1>1. Fresh \in LoopState
  BY DEF Fresh, LoopState
<1>2. Consistent(Fresh, g)
  BY DEF Fresh, Consistent
<1> QED
  BY <1>1, <1>2

\* Executing or blocking a step, or failing, leaves the approvals alone.
LEMMA StepState ==
    ASSUME NEW g, NEW s \in LoopState, Consistent(s, g), NEW k \in Kinds
    PROVE  /\ Executed(s, k) \in LoopState /\ Consistent(Executed(s, k), g)
           /\ k # "request_repair_proposal" =>
                Blocked(s, k) \in LoopState /\ Consistent(Blocked(s, k), g)
           /\ Failed(s) \in LoopState /\ Consistent(Failed(s), g)
<1>1. Executed(s, k) \in LoopState
  BY DEF Executed, LoopState
<1>2. Consistent(Executed(s, k), g)
  BY DEF Executed, Consistent, LoopState
<1>3. Blocked(s, k) \in LoopState
  BY DEF Blocked, LoopState
<1>4. k # "request_repair_proposal" => Consistent(Blocked(s, k), g)
  BY DEF Blocked, Consistent, LoopState
<1>5. Failed(s) \in LoopState /\ Consistent(Failed(s), g)
  BY DEF Failed, Consistent, LoopState
<1> QED
  BY <1>1, <1>2, <1>3, <1>4, <1>5

\* A ready copy names a proposal, and the new request names the same one.
LEMMA RequestedState ==
    ASSUME NEW g, NEW s \in LoopState, Consistent(s, g), s.ready
    PROVE  Requested(s) \in LoopState /\ Consistent(Requested(s), g)
<1> DEFINE a == [proposal |-> s.proposal, status |-> "pending"]
           e == Executed(s, "request_approval")
<1>1. "request_approval" \in Kinds
  BY DEF Kinds, GatedKinds
<1>2. e \in LoopState /\ Consistent(e, g)
  BY <1>1, StepState
<1>3. e.proposal = s.proposal /\ e.approvals = s.approvals /\ e.ready = s.ready
  BY DEF Executed, LoopState
<1>4. a \in Approval
  BY NoProposalAssumption DEF Approval, Consistent, LoopState
<1> DEFINE later == Append(s.approvals, a)
<1>5. s.approvals \in Seq(Approval)
  BY DEF LoopState
<1> HIDE DEF a, e
<1>6. /\ later \in Seq(Approval)
      /\ Len(later) = Len(s.approvals) + 1
      /\ \A i \in 1 .. Len(s.approvals) : later[i] = s.approvals[i]
      /\ later[Len(s.approvals) + 1] = a
  BY <1>4, <1>5
<1> HIDE DEF later
<1>7. Requested(s) = [e EXCEPT !.approvals = later]
  BY <1>3 DEF Requested, e, later, a
<1>8. Requested(s) \in LoopState
  BY <1>2, <1>6, <1>7 DEF LoopState
<1>9. /\ Requested(s).approvals = later
      /\ Requested(s).proposal = s.proposal
      /\ Requested(s).ready = s.ready
      /\ Requested(s).actions = e.actions
  BY <1>2, <1>3, <1>7 DEF LoopState
<1>10. \A i \in 1 .. Len(later) :
          /\ later[i].proposal = s.proposal
          /\ later[i].status = "approved" => s.proposal \in g
  <2> TAKE i \in 1 .. Len(later)
  <2>1. CASE i = Len(s.approvals) + 1
    BY <2>1, <1>6 DEF a
  <2>2. CASE i # Len(s.approvals) + 1
    <3>1. i \in 1 .. Len(s.approvals)
      BY <2>2, <1>5, <1>6
    <3> QED
      BY <3>1, <1>6 DEF Consistent
  <2> QED
    BY <2>1, <2>2
<1>11. e.actions["request_repair_proposal"] = "executed" /\ s.proposal # NoProposal
  BY <1>2, <1>3 DEF Consistent
<1> QED
  BY <1>8, <1>9, <1>10, <1>11 DEF Consistent

\* The repair step runs only where no approval was requested yet.
LEMMA RepairedState ==
    ASSUME NEW g, NEW s \in LoopState, Consistent(s, g),
           CanExecute(s, "request_repair_proposal"),
           NEW x \in Proposals \cup {NoProposal}, NEW valid \in BOOLEAN,
           valid => x # NoProposal
    PROVE  LET t == [Executed(s, "request_repair_proposal")
                       EXCEPT !.proposal = x, !.ready = valid]
           IN  t \in LoopState /\ Consistent(t, g)
<1> DEFINE e == Executed(s, "request_repair_proposal")
           t == [e EXCEPT !.proposal = x, !.ready = valid]
<1>1. "request_repair_proposal" \in Kinds
  BY DEF Kinds, GatedKinds
<1>2. s.approvals = <<>>
  BY DEF CanExecute, Consistent
<1>3. e \in LoopState
  BY <1>1, StepState
<1>4. e.approvals = <<>> /\ e.actions["request_repair_proposal"] = "executed"
  BY <1>1, <1>2 DEF Executed, LoopState
<1> HIDE DEF e
<1>5. t \in LoopState
  BY <1>3 DEF LoopState
<1>6. t.approvals = <<>> /\ t.actions = e.actions /\ t.proposal = x /\ t.ready = valid
  BY <1>3, <1>4 DEF LoopState
<1> HIDE DEF t
<1>7. Consistent(t, g)
  BY <1>4, <1>6 DEF Consistent
<1> QED
  BY <1>5, <1>7 DEF t, e

\* Deciding a request changes its status only.
LEMMA DecidedState ==
    ASSUME NEW g, NEW h, NEW s \in LoopState, Consistent(s, g), g \subseteq h,
           NEW i \in 1 .. Len(s.approvals), NEW d \in {"approved", "rejected"},
           d = "approved" => s.approvals[i].proposal \in h
    PROVE  LET t == [s EXCEPT !.approvals[i].status = d]
           IN  t \in LoopState /\ Consistent(t, h)
<1> DEFINE t == [s EXCEPT !.approvals[i].status = d]
           b == [s.approvals EXCEPT ![i] = [s.approvals[i] EXCEPT !.status = d]]
<1>1. s.approvals \in Seq(Approval) /\ s.approvals[i] \in Approval
  BY DEF LoopState
<1>2. [s.approvals[i] EXCEPT !.status = d] \in Approval
  BY <1>1 DEF Approval
<1>3. b \in Seq(Approval) /\ Len(b) = Len(s.approvals)
  BY <1>1, <1>2
<1>4. t = [s EXCEPT !.approvals = b]
  BY DEF LoopState
<1>5. \A j \in 1 .. Len(s.approvals) :
        /\ b[j].proposal = s.approvals[j].proposal
        /\ b[j].status = "approved" =>
             s.approvals[j].status = "approved" \/ s.approvals[j].proposal \in h
  <2> TAKE j \in 1 .. Len(s.approvals)
  <2>1. CASE j = i
    BY <2>1, <1>1 DEF Approval
  <2>2. CASE j # i
    BY <2>2, <1>1
  <2> QED
    BY <2>1, <2>2
<1>6. b = <<>> <=> s.approvals = <<>>
  BY <1>1, <1>3
<1> HIDE DEF b
<1>7. t \in LoopState
  BY <1>3, <1>4 DEF LoopState
<1>8. /\ t.approvals = b /\ t.proposal = s.proposal
      /\ t.ready = s.ready /\ t.actions = s.actions
  BY <1>4 DEF LoopState
<1> HIDE DEF t
<1>9. Consistent(t, h)
  BY <1>3, <1>5, <1>6, <1>8 DEF Consistent
<1> QED
  BY <1>7, <1>9 DEF t

\* More approvals never make a copy inconsistent.
LEMMA MoreGranted ==
    ASSUME NEW g, NEW h, g \subseteq h, NEW s, Consistent(s, g)
    PROVE  Consistent(s, h)
BY DEF Consistent
-----------------------------------------------------------------------------
(* The steps of the processes.                                             *)

\* The initial states satisfy the inductive invariant.
LEMMA InitIInv == Init => IInv
<1> SUFFICES ASSUME Init PROVE IInv
  OBVIOUS
<1>1. Fresh \in LoopState /\ Consistent(Fresh, granted)
  BY FreshState
<1>2. crashes \in 0 .. MaxCrashes
  BY BoundsAssumption DEF Init
<1>3. TypeOK
  BY <1>1, <1>2 DEF Init, TypeOK
<1> QED
  BY <1>1, <1>3 DEF Init, IInv, AppliedWasGranted

\* A command starts with a consistent copy and, if it goes to work, a step.
LEMMA BeginPreserves ==
    ASSUME IInv, NEW p \in Procs, NEW where \in {"work", "store"},
           NEW s \in LoopState, NEW steps \in SUBSET (Kinds \cup {"cancel"}),
           where = "work" => steps # {},
           Begin(p, where, s, steps),
           granted \subseteq granted', granted' \subseteq Proposals,
           Consistent(s, granted')
    PROVE  IInv'
<1>1. TypeOK'
  <2> USE DEF IInv, TypeOK, Begin
  <2>1. pc' \in [Procs -> {"idle", "work", "store", "writing", "orphan"}]
    OBVIOUS
  <2>2. mem' \in [Procs -> LoopState]
    OBVIOUS
  <2>3. todo' \in [Procs -> SUBSET (Kinds \cup {"cancel"})]
    OBVIOUS
  <2>4. \A q \in Procs : pc'[q] = "work" => todo'[q] # {}
    OBVIOUS
  <2>5. /\ disk' \in {"absent", "torn", "whole"} /\ file' \in LoopState
        /\ crashes' \in 0 .. MaxCrashes /\ granted' \in SUBSET Proposals
        /\ written' \in SUBSET Proposals
    OBVIOUS
  <2> QED
    BY <2>1, <2>2, <2>3, <2>4, <2>5
<1>2. Consistent(file', granted')
  BY MoreGranted DEF IInv, Begin
<1>3. ASSUME NEW q \in Procs PROVE Consistent(mem'[q], granted')
  <2>1. CASE q = p
    BY <2>1 DEF IInv, TypeOK, Begin
  <2>2. CASE q # p
    <3>1. mem'[q] = mem[q] /\ Consistent(mem[q], granted)
      BY <2>2 DEF IInv, TypeOK, Begin
    <3> QED
      BY <3>1, MoreGranted
  <2> QED
    BY <2>1, <2>2
<1>4. AppliedWasGranted'
  BY DEF IInv, AppliedWasGranted, Begin
<1> QED
  BY <1>1, <1>2, <1>3, <1>4 DEF IInv

\* start, step, run, approve, reject and reset.
LEMMA BeginCommandStep ==
    ASSUME IInv, NEW p \in Procs, BeginCommand(p)
    PROVE  IInv'
<1>1. file \in LoopState /\ Consistent(file, granted)
  BY DEF IInv, TypeOK
<1>2. granted \subseteq Proposals
  BY DEF IInv, TypeOK
<1>3. {} \in SUBSET (Kinds \cup {"cancel"})
  OBVIOUS
<1>4. CASE BeginStart(p)
  BY <1>2, <1>3, <1>4, BeginPreserves, FreshState DEF BeginStart
<1>5. CASE BeginStep(p)
  <2>1. PICK k \in StepKinds : Begin(p, "work", file, {k})
    BY <1>5 DEF BeginStep
  <2>2. {k} \in SUBSET (Kinds \cup {"cancel"}) /\ {k} # {}
    BY StepKindsAssumption
  <2> QED
    BY <1>1, <1>2, <1>5, <2>1, <2>2, BeginPreserves DEF BeginStep
<1>6. CASE BeginRun(p)
  <2>1. LeftToRun(file) \in SUBSET (Kinds \cup {"cancel"})
    BY DEF LeftToRun, RunKinds, Kinds, GatedKinds
  <2> QED
    BY <1>1, <1>2, <1>6, <2>1, BeginPreserves DEF BeginRun
<1>7. CASE BeginDecide(p)
  <2>1. PICK i \in 1 .. Len(file.approvals), d \in {"approved", "rejected"} :
          /\ Begin(p, "store", [file EXCEPT !.approvals[i].status = d], {})
          /\ granted' = IF d = "approved" THEN granted \cup {file.approvals[i].proposal}
                                          ELSE granted
    BY <1>7 DEF BeginDecide
  <2>2. file.approvals[i].proposal \in Proposals
    <3>1. file.approvals \in Seq(Approval)
      BY <1>1 DEF LoopState
    <3>2. file.approvals[i] \in Approval
      BY <3>1
    <3> QED
      BY <3>2 DEF Approval
  <2> DEFINE t == [file EXCEPT !.approvals[i].status = d]
  <2>3. granted \subseteq granted' /\ granted' \subseteq Proposals
    BY <1>2, <2>1, <2>2
  <2>4. t \in LoopState /\ Consistent(t, granted')
    BY <1>1, <2>1, <2>3, DecidedState
  <2> HIDE DEF t
  <2>5. Begin(p, "store", t, {})
    BY <2>1 DEF t
  <2> QED
    BY <1>3, <2>3, <2>4, <2>5, BeginPreserves
<1>8. CASE Reset(p)
  <2> USE <1>8 DEF Reset, history
  <2>1. Fresh \in LoopState /\ Consistent(Fresh, granted)
    BY FreshState
  <2>2. TypeOK'
    BY <2>1 DEF IInv, TypeOK
  <2> QED
    BY <2>1, <2>2 DEF IInv, AppliedWasGranted
<1> QED
  BY <1>4, <1>5, <1>6, <1>7, <1>8 DEF BeginCommand

\* A step ends with a consistent copy and wrote approved proposals only.
LEMMA FinishPreserves ==
    ASSUME IInv, NEW p \in Procs, NEW k,
           NEW s \in LoopState, Consistent(s, granted), Finish(p, k, s),
           written' \subseteq granted
    PROVE  IInv'
<1>1. TypeOK'
  <2> USE DEF IInv, TypeOK, Finish
  <2>1. Rest(todo[p], k, s) \in SUBSET (Kinds \cup {"cancel"})
    BY DEF Rest
  <2>2. pc' \in [Procs -> {"idle", "work", "store", "writing", "orphan"}]
    OBVIOUS
  <2>3. mem' \in [Procs -> LoopState]
    OBVIOUS
  <2>4. todo' \in [Procs -> SUBSET (Kinds \cup {"cancel"})]
    BY <2>1
  <2>5. \A q \in Procs : pc'[q] = "work" => todo'[q] # {}
    OBVIOUS
  <2> QED
    BY <2>2, <2>3, <2>4, <2>5
<1>2. ASSUME NEW q \in Procs PROVE Consistent(mem'[q], granted')
  BY DEF IInv, TypeOK, Finish
<1>3. Consistent(file', granted') /\ AppliedWasGranted'
  BY DEF IInv, Finish, AppliedWasGranted
<1> QED
  BY <1>1, <1>2, <1>3 DEF IInv

\* Every way a step of the executor ends.
LEMMA ExecuteStep ==
    ASSUME IInv, NEW p \in Procs, Execute(p)
    PROVE  IInv'
<1>1. mem[p] \in LoopState /\ Consistent(mem[p], granted)
  BY DEF IInv, TypeOK
<1>2. written \subseteq granted
  BY DEF IInv, AppliedWasGranted
<1>3. GatedKinds \subseteq Kinds /\ ReadOnlyKinds \subseteq Kinds
  BY DEF Kinds
<1>4. CASE Cancel(p)
  <2>1. Failed(mem[p]) \in LoopState /\ Consistent(Failed(mem[p]), granted)
    BY <1>1, <1>3, StepState DEF GatedKinds
  <2> QED
    BY <1>2, <1>4, <2>1, FinishPreserves DEF Cancel
<1>5. CASE NotExecutable(p)
  BY <1>1, <1>2, <1>5, FinishPreserves DEF NotExecutable
<1>6. CASE ToolThrows(p)
  <2>1. Failed(mem[p]) \in LoopState /\ Consistent(Failed(mem[p]), granted)
    BY <1>1, <1>3, StepState DEF GatedKinds
  <2> QED
    BY <1>2, <1>6, <2>1, FinishPreserves DEF ToolThrows
<1>7. CASE ReadOnlyStep(p)
  <2>1. PICK k \in ReadOnlyKinds \cup {"show_diff_preview", "revalidate_project"} :
          /\ At(p, k)
          /\ Finish(p, k, Executed(mem[p], k))
          /\ UNCHANGED written
    BY <1>7 DEF ReadOnlyStep
  <2>2. Executed(mem[p], k) \in LoopState /\ Consistent(Executed(mem[p], k), granted)
    BY <1>1, <1>3, StepState DEF GatedKinds
  <2> QED
    BY <1>2, <2>1, <2>2, FinishPreserves
<1>8. CASE RequestRepair(p)
  <2>1. PICK x \in Proposals \cup {NoProposal}, valid \in BOOLEAN :
          /\ valid => x # NoProposal
          /\ Finish(p, "request_repair_proposal",
                    [Executed(mem[p], "request_repair_proposal")
                       EXCEPT !.proposal = x, !.ready = valid])
    BY <1>8 DEF RequestRepair
  <2> DEFINE t == [Executed(mem[p], "request_repair_proposal")
                     EXCEPT !.proposal = x, !.ready = valid]
  <2>2. t \in LoopState /\ Consistent(t, granted)
    BY <1>1, <1>8, <2>1, RepairedState DEF RequestRepair
  <2>3. Finish(p, "request_repair_proposal", t)
    BY <2>1
  <2> HIDE DEF t
  <2> QED
    BY <1>2, <1>8, <2>2, <2>3, FinishPreserves DEF RequestRepair
<1>9. CASE RequestApproval(p)
  <2> DEFINE t == IF mem[p].ready THEN Requested(mem[p])
                                  ELSE Blocked(mem[p], "request_approval")
  <2>1. t \in LoopState /\ Consistent(t, granted)
    BY <1>1, <1>3, StepState, RequestedState DEF GatedKinds
  <2>2. Finish(p, "request_approval", t)
    BY <1>9 DEF RequestApproval
  <2> HIDE DEF t
  <2> QED
    BY <1>2, <1>9, <2>1, <2>2, FinishPreserves DEF RequestApproval
<1>10. CASE RefuseApply(p)
  <2>1. /\ Blocked(mem[p], "apply_patch") \in LoopState
        /\ Consistent(Blocked(mem[p], "apply_patch"), granted)
    BY <1>1, <1>3, StepState DEF GatedKinds
  <2> QED
    BY <1>2, <1>10, <2>1, FinishPreserves DEF RefuseApply
<1>11. CASE ApplyPatch(p)
  <2>1. PICK t \in {Executed(mem[p], "apply_patch"), Failed(mem[p])} :
          Finish(p, "apply_patch", t)
    BY <1>11 DEF ApplyPatch
  <2>2. t \in LoopState /\ Consistent(t, granted)
    BY <1>1, <1>3, StepState DEF GatedKinds
  <2>3. mem[p].proposal \in granted
    <3>1. Len(mem[p].approvals) \in 1 .. Len(mem[p].approvals)
      BY <1>1, <1>11 DEF ApplyPatch, Cleared, LoopState
    <3> QED
      BY <1>1, <1>11, <3>1 DEF ApplyPatch, Cleared, LatestApproval, Consistent
  <2>4. written' \subseteq granted
    BY <1>2, <1>11, <2>3 DEF ApplyPatch
  <2> QED
    BY <1>11, <2>1, <2>2, <2>4, FinishPreserves DEF ApplyPatch
<1>12. CASE ReportResult(p)
  <2> DEFINE e == Executed(mem[p], "report_result")
             t == [e EXCEPT !.status = "completed"]
  <2>1. e \in LoopState /\ Consistent(e, granted)
    BY <1>1, <1>3, StepState DEF GatedKinds
  <2> HIDE DEF e
  <2>2. t \in LoopState /\ Consistent(t, granted)
    BY <2>1 DEF LoopState, Consistent
  <2>3. Finish(p, "report_result", t)
    BY <1>12 DEF ReportResult, e
  <2> HIDE DEF t
  <2> QED
    BY <1>2, <1>12, <2>2, <2>3, FinishPreserves DEF ReportResult
<1> QED
  BY <1>4, <1>5, <1>6, <1>7, <1>8, <1>9, <1>10, <1>11, <1>12 DEF Execute

\* Saving a copy, or losing it, leaves consistent copies.
LEMMA SaveStep ==
    ASSUME IInv, NEW p \in Procs,
           OpenFile(p) \/ WriteFile(p) \/ WriteOrphan(p) \/ Crash(p)
    PROVE  IInv'
<1>1. Fresh \in LoopState /\ Consistent(Fresh, granted)
  BY FreshState
<1>2. mem[p] \in LoopState /\ Consistent(mem[p], granted)
  BY DEF IInv, TypeOK
<1>3. CASE OpenFile(p)
  BY <1>1, <1>3 DEF IInv, TypeOK, AppliedWasGranted, OpenFile, history
<1>4. ASSUME Continue(p), file' \in {file, mem[p], Fresh},
             disk' \in {"absent", "torn", "whole"}
      PROVE  IInv'
  <2> USE <1>1, <1>2, <1>4 DEF IInv, TypeOK, Continue, history
  <2>1. pc' \in [Procs -> {"idle", "work", "store", "writing", "orphan"}]
    OBVIOUS
  <2>2. mem' \in [Procs -> LoopState]
    OBVIOUS
  <2>3. \A q \in Procs : pc'[q] = "work" => todo'[q] # {}
    OBVIOUS
  <2>4. \A q \in Procs : Consistent(mem'[q], granted')
    OBVIOUS
  <2>5. file' \in LoopState /\ Consistent(file', granted')
    OBVIOUS
  <2> QED
    BY <2>1, <2>2, <2>3, <2>4, <2>5 DEF AppliedWasGranted
<1>5. CASE WriteFile(p)
  BY <1>4, <1>5 DEF WriteFile
<1>6. CASE WriteOrphan(p)
  BY <1>4, <1>6 DEF WriteOrphan, IInv, TypeOK
<1>7. CASE Crash(p)
  <2> USE <1>1, <1>7 DEF IInv, TypeOK, Crash, history
  <2>1. crashes' \in 0 .. MaxCrashes
    BY BoundsAssumption
  <2>2. pc' \in [Procs -> {"idle", "work", "store", "writing", "orphan"}]
    OBVIOUS
  <2>3. mem' \in [Procs -> LoopState] /\ todo' \in [Procs -> SUBSET (Kinds \cup {"cancel"})]
    OBVIOUS
  <2>4. \A q \in Procs : pc'[q] = "work" => todo'[q] # {}
    OBVIOUS
  <2>5. \A q \in Procs : Consistent(mem'[q], granted')
    OBVIOUS
  <2> QED
    BY <2>1, <2>2, <2>3, <2>4, <2>5 DEF AppliedWasGranted
<1> QED
  BY <1>3, <1>5, <1>6, <1>7

\* Every step of the specification preserves the inductive invariant.
LEMMA NextIInv == IInv /\ [Next]_vars => IInv'
<1> SUFFICES ASSUME IInv, [Next]_vars PROVE IInv'
  OBVIOUS
<1>1. ASSUME NEW p \in Procs, BeginCommand(p) \/ Proceed(p) \/ Crash(p) PROVE IInv'
  BY <1>1, BeginCommandStep, ExecuteStep, SaveStep DEF Proceed
<1>2. ASSUME UNCHANGED vars PROVE IInv'
  BY <1>2 DEF vars, procVars, history, IInv, TypeOK, AppliedWasGranted
<1> QED
  BY <1>1, <1>2 DEF Next

-----------------------------------------------------------------------------
(* The theorems.                                                           *)

\* The inductive invariant holds in every reachable state.
THEOREM IInvHolds == Spec => []IInv
<1>1. Init => IInv
  BY InitIInv
<1>2. IInv /\ [Next]_vars => IInv'
  BY NextIInv
<1> QED
  BY <1>1, <1>2, PTL DEF Spec

\* Every copy of the loop state keeps its shape, in the file and in memory.
THEOREM TypeCorrect == Spec => []TypeOK
<1>1. IInv => TypeOK
  BY DEF IInv
<1> QED
  BY <1>1, IInvHolds, PTL

\* The runner only ever writes proposals a user approved, for any number of
\* overlapping and killed commands.
THEOREM OnlyGrantedIsApplied == Spec => []AppliedWasGranted
<1>1. IInv => AppliedWasGranted
  BY DEF IInv
<1> QED
  BY <1>1, IInvHolds, PTL

\* An approval request names the proposal of the copy it is in, so the
\* fingerprint comparison never refuses what the commands themselves wrote.
THEOREM RequestsNameTheProposal == Spec => []ApprovalsNameProposal
<1>1. IInv => ApprovalsNameProposal
  BY DEF IInv, ApprovalsNameProposal, Copies, Consistent
<1> QED
  BY <1>1, IInvHolds, PTL
-----------------------------------------------------------------------------
(* Commands that run one after the other and are not killed implement      *)
(* GatedApply: with a single process the file and that process's copy      *)
(* agree whenever it goes to work, so each step of the executor is one     *)
(* step of the promise, or none.                                           *)

\* What one process at a time adds to IInv
SerialInv(p) ==
    /\ pc[p] \in {"idle", "work", "store", "writing"}
    /\ pc[p] = "writing" => disk = "torn"
    /\ pc[p] # "writing" => disk \in {"absent", "whole"}
    /\ pc[p] = "work" => disk = "whole" /\ mem[p] = file
    /\ "report_result" \in todo[p] =>
         pc[p] = "work" /\ todo[p] = {"report_result"} /\ CanReport(file)
    /\ \A s \in {file, mem[p]} :
         s.actions["request_repair_proposal"] = "pending" => s.proposal = NoProposal

\* The initial states satisfy it.
LEMMA InitSerial ==
    ASSUME NEW p \in Procs, Init
    PROVE  SerialInv(p)
<1>1. Fresh.proposal = NoProposal
  BY DEF Fresh
<1> QED
  BY <1>1 DEF Init, SerialInv

\* A copy on which a command starts, or with which a step ends.
LEMMA SerialBegin ==
    ASSUME NEW p, Procs = {p}, IInv, SerialInv(p), BeginCommand(p)
    PROVE  SerialInv(p)'
<1> USE DEF IInv, TypeOK, SerialInv, Begin
<1>1. Fresh.proposal = NoProposal
  BY DEF Fresh
<1>2. CASE BeginStart(p)
  BY <1>1, <1>2 DEF BeginStart
<1>3. CASE BeginStep(p)
  BY <1>3 DEF BeginStep
<1>4. CASE BeginRun(p)
  <2>1. "report_result" \notin LeftToRun(file)
    BY ReadOnlyAssumption DEF LeftToRun, RunKinds, GatedKinds
  <2> QED
    BY <1>4, <2>1 DEF BeginRun
<1>5. CASE BeginDecide(p)
  <2>1. PICK i \in 1 .. Len(file.approvals), d \in {"approved", "rejected"} :
          Begin(p, "store", [file EXCEPT !.approvals[i].status = d], {})
    BY <1>5 DEF BeginDecide
  <2> DEFINE t == [file EXCEPT !.approvals[i].status = d]
  <2>2. t.actions = file.actions /\ t.proposal = file.proposal
    BY DEF LoopState
  <2> HIDE DEF t
  <2>3. Begin(p, "store", t, {})
    BY <2>1 DEF t
  <2> QED
    BY <1>5, <2>2, <2>3 DEF BeginDecide
<1>6. CASE Reset(p)
  BY <1>1, <1>6 DEF Reset
<1> QED
  BY <1>2, <1>3, <1>4, <1>5, <1>6 DEF BeginCommand

\* Saving leaves the copy of the process in the file.
LEMMA SerialSave ==
    ASSUME NEW p, Procs = {p}, IInv, SerialInv(p),
           OpenFile(p) \/ WriteFile(p) \/ WriteOrphan(p)
    PROVE  SerialInv(p)'
<1> USE DEF IInv, TypeOK, SerialInv
<1>1. Fresh.proposal = NoProposal
  BY DEF Fresh
<1>2. CASE OpenFile(p)
  BY <1>1, <1>2 DEF OpenFile
<1>3. CASE WriteFile(p)
  BY <1>1, <1>3 DEF WriteFile, Continue
<1>4. CASE WriteOrphan(p)
  BY <1>4 DEF WriteOrphan
<1> QED
  BY <1>2, <1>3, <1>4

\* A step of the executor turns the copy, which is the file, into s.
LEMMA SerialFinish ==
    ASSUME NEW p, Procs = {p}, IInv, SerialInv(p),
           NEW k, At(p, k), NEW s, Finish(p, k, s),
           s.actions["request_repair_proposal"] = "pending" => s.proposal = NoProposal
    PROVE  /\ SerialInv(p)'
           /\ LoopExists /\ View = mem[p]
           /\ LoopExists' /\ View' = s
<1> USE DEF IInv, TypeOK, SerialInv, At, Finish
<1>1. SerialInv(p)'
  BY DEF Rest
<1>2. Saving = {} /\ Saving' = {p}
  BY DEF Saving
<1>3. LoopExists /\ View = mem[p] /\ LoopExists'
  BY <1>2 DEF LoopExists, View
<1>4. View' = mem'[CHOOSE q \in {p} : TRUE]
  BY <1>2 DEF View
<1> QED
  BY <1>1, <1>3, <1>4

\* Outside its own steps a process shows the file, or the copy it is saving.
LEMMA SerialView ==
    ASSUME NEW p, Procs = {p}, IInv, SerialInv(p)
    PROVE  /\ LoopExists <=> disk # "absent" \/ pc[p] = "store"
           /\ View = IF pc[p] \in {"store", "writing"} THEN mem[p] ELSE file
<1>1. CASE pc[p] \in {"store", "writing"}
  <2>1. Saving = {p}
    BY <1>1 DEF Saving
  <2>2. View = mem[CHOOSE q \in {p} : TRUE]
    BY <2>1 DEF View
  <2> QED
    BY <1>1, <2>1, <2>2 DEF LoopExists, SerialInv
<1>2. CASE pc[p] \notin {"store", "writing"}
  BY <1>2 DEF Saving, LoopExists, View
<1> QED
  BY <1>1, <1>2

-----------------------------------------------------------------------------
(* Each step of the executor is a step of GatedApply.                      *)

\* A step that changes nothing the promise is about.
LEMMA QuietStep ==
    ASSUME LoopExists, LoopExists', NEW s, View' = s,
           s.proposal = View.proposal, s.approvals = View.approvals,
           \A k \in {"apply_patch", "revalidate_project"} :
             s.actions[k] = "executed" <=> View.actions[k] = "executed",
           \/ s.status = View.status
           \/ ~Ended(s) /\ ~Ended(View)
    PROVE  UNCHANGED Promise!vars
<1>1. ViewLoop' = ViewLoop
  BY DEF ViewLoop, Ended
<1>2. ViewProposal' = ViewProposal
  BY DEF ViewProposal
<1>3. ViewDecision' = ViewDecision
  BY DEF ViewDecision, LatestApproval
<1>4. ViewApplied' = ViewApplied /\ ViewRevalidated' = ViewRevalidated
  BY DEF ViewApplied, ViewRevalidated
<1> QED
  BY <1>1, <1>2, <1>3, <1>4 DEF Promise!vars

\* A failing step is Fail.
LEMMA FailStep ==
    ASSUME LoopExists, LoopExists', View \in LoopState, View' = Failed(View)
    PROVE  Promise!Next
<1>1. /\ Failed(View).status = "failed"
      /\ Failed(View).proposal = View.proposal
      /\ Failed(View).approvals = View.approvals
      /\ Failed(View).actions = View.actions
  BY DEF Failed, LoopState
<1>2. ViewLoop # "none" /\ ViewLoop' = "failed"
  BY <1>1 DEF ViewLoop, Ended
<1>3. UNCHANGED <<ViewProposal, ViewDecision, ViewApplied, ViewRevalidated>>
  BY <1>1 DEF ViewProposal, ViewDecision, LatestApproval, ViewApplied, ViewRevalidated
<1> QED
  BY <1>2, <1>3 DEF Promise!Next, Promise!Fail

\* What executing a step changes.
LEMMA ExecutedFields ==
    ASSUME NEW s \in LoopState, NEW k \in Kinds
    PROVE  /\ Executed(s, k).status = "running"
           /\ Executed(s, k).proposal = s.proposal
           /\ Executed(s, k).approvals = s.approvals
           /\ \A j \in Kinds :
                Executed(s, k).actions[j] = IF j = k THEN "executed" ELSE s.actions[j]
BY DEF Executed, LoopState

\* What blocking a step changes.
LEMMA BlockedFields ==
    ASSUME NEW s \in LoopState, NEW k \in Kinds
    PROVE  /\ Blocked(s, k).status = "running"
           /\ Blocked(s, k).proposal = s.proposal
           /\ Blocked(s, k).approvals = s.approvals
           /\ \A j \in Kinds :
                Blocked(s, k).actions[j] = IF j = k THEN "blocked" ELSE s.actions[j]
BY DEF Blocked, LoopState

\* Failing changes the status only.
LEMMA FailedFields ==
    ASSUME NEW s \in LoopState
    PROVE  Failed(s).actions = s.actions /\ Failed(s).proposal = s.proposal
BY DEF Failed, LoopState

\* Every step of the executor, taken by the only process.
LEMMA SerialExecute ==
    ASSUME NEW p, Procs = {p}, IInv, SerialInv(p), Execute(p)
    PROVE  SerialInv(p)' /\ (Promise!Next \/ UNCHANGED Promise!vars)
<1>1. mem[p] \in LoopState /\ Consistent(mem[p], granted)
  BY DEF IInv, TypeOK
<1>2. mem[p].actions["request_repair_proposal"] = "pending" => mem[p].proposal = NoProposal
  BY DEF SerialInv
<1>3. /\ GatedKinds \subseteq Kinds /\ ReadOnlyKinds \subseteq Kinds
      /\ ReadOnlyKinds \cap GatedKinds = {}
      /\ {"request_repair_proposal", "show_diff_preview", "request_approval",
           "apply_patch", "revalidate_project", "report_result"} \subseteq Kinds
  BY ReadOnlyAssumption DEF Kinds, GatedKinds
<1>4. CASE Cancel(p)
  <2>1. Failed(mem[p]).actions = mem[p].actions /\ Failed(mem[p]).proposal = mem[p].proposal
    BY <1>1, FailedFields
  <2> QED
    BY <1>1, <1>2, <1>4, <2>1, SerialFinish, FailStep DEF Cancel
<1>5. CASE NotExecutable(p)
  <2>1. PICK k \in Kinds : At(p, k) /\ Finish(p, k, mem[p])
    BY <1>5 DEF NotExecutable
  <2> QED
    BY <1>2, <2>1, SerialFinish, QuietStep
<1>6. CASE ToolThrows(p)
  <2>1. PICK k : At(p, k) /\ Finish(p, k, Failed(mem[p]))
    BY <1>6 DEF ToolThrows
  <2>2. Failed(mem[p]).actions = mem[p].actions /\ Failed(mem[p]).proposal = mem[p].proposal
    BY <1>1, FailedFields
  <2> QED
    BY <1>1, <1>2, <2>1, <2>2, SerialFinish, FailStep
<1>7. CASE ReadOnlyStep(p)
  <2>1. PICK k \in ReadOnlyKinds \cup {"show_diff_preview", "revalidate_project"} :
          At(p, k) /\ CanExecute(mem[p], k) /\ Finish(p, k, Executed(mem[p], k))
    BY <1>7 DEF ReadOnlyStep
  <2> DEFINE s == Executed(mem[p], k)
  <2>2. /\ s.status = "running" /\ s.proposal = mem[p].proposal
        /\ s.approvals = mem[p].approvals
        /\ \A j \in Kinds : s.actions[j] =
             IF j = k THEN "executed" ELSE mem[p].actions[j]
    BY <1>1, <1>3, ExecutedFields
  <2>3. k \in Kinds /\ k \notin {"apply_patch", "request_repair_proposal"}
    BY <1>3 DEF GatedKinds
  <2>4. ~Ended(s) /\ ~Ended(mem[p])
    BY <2>1, <2>2 DEF Ended, CanExecute
  <2>5. s.actions["apply_patch"] = mem[p].actions["apply_patch"]
    BY <1>3, <2>2, <2>3 DEF GatedKinds
  <2> HIDE DEF s
  <2>6. /\ SerialInv(p)'
        /\ LoopExists /\ View = mem[p]
        /\ LoopExists' /\ View' = s
    <3>1. s.actions["request_repair_proposal"] = mem[p].actions["request_repair_proposal"]
      BY <1>3, <2>2, <2>3 DEF GatedKinds
    <3> QED
      BY <1>2, <2>1, <2>2, <3>1, SerialFinish DEF s
  <2>7. CASE k = "revalidate_project"
    <3>1. s.actions["revalidate_project"] = "executed"
      BY <1>3, <2>2, <2>7 DEF GatedKinds
    <3>2. ViewLoop = "open" /\ ViewLoop' = "open" /\ ViewRevalidated'
      BY <2>4, <2>6, <3>1 DEF ViewLoop, ViewRevalidated
    <3>3. UNCHANGED <<ViewProposal, ViewDecision, ViewApplied>>
      BY <2>2, <2>5, <2>6 DEF ViewProposal, ViewDecision, LatestApproval, ViewApplied
    <3>4. ViewRevalidated' = TRUE
      BY <3>2 DEF ViewRevalidated
    <3> QED
      BY <2>6, <3>2, <3>3, <3>4 DEF Promise!Next, Promise!Revalidate
  <2>8. CASE k # "revalidate_project"
    <3>1. s.actions["revalidate_project"] = mem[p].actions["revalidate_project"]
      BY <1>3, <2>2, <2>3, <2>8 DEF GatedKinds
    <3> QED
      BY <2>2, <2>4, <2>5, <2>6, <3>1, QuietStep
  <2> QED
    BY <2>7, <2>8
<1>8. CASE RequestRepair(p)
  <2>1. PICK x \in Proposals \cup {NoProposal}, valid \in BOOLEAN :
          Finish(p, "request_repair_proposal",
                    [Executed(mem[p], "request_repair_proposal")
                       EXCEPT !.proposal = x, !.ready = valid])
    BY <1>8 DEF RequestRepair
  <2> DEFINE e == Executed(mem[p], "request_repair_proposal")
             s == [e EXCEPT !.proposal = x, !.ready = valid]
  <2>2. /\ e \in LoopState
        /\ e.status = "running" /\ e.approvals = mem[p].approvals
        /\ \A j \in Kinds : e.actions[j] =
             IF j = "request_repair_proposal" THEN "executed" ELSE mem[p].actions[j]
    BY <1>1, <1>3, ExecutedFields, StepState
  <2> HIDE DEF e
  <2>3. /\ s.status = "running" /\ s.approvals = mem[p].approvals
        /\ s.actions = e.actions /\ s.proposal = x
    BY <2>2 DEF LoopState
  <2>4. /\ s.actions["request_repair_proposal"] = "executed"
        /\ \A k \in {"apply_patch", "revalidate_project"} : s.actions[k] = mem[p].actions[k]
    BY <1>3, <2>2, <2>3 DEF GatedKinds
  <2>5. Finish(p, "request_repair_proposal", s)
    BY <2>1 DEF e
  <2>6. ~Ended(s) /\ ~Ended(mem[p]) /\ mem[p].proposal = NoProposal
    BY <1>2, <1>8, <2>3 DEF RequestRepair, CanExecute, Ended
  <2> HIDE DEF s
  <2>7. /\ SerialInv(p)'
        /\ LoopExists /\ View = mem[p]
        /\ LoopExists' /\ View' = s
    BY <1>8, <2>4, <2>5, SerialFinish DEF RequestRepair
  <2>8. CASE x = NoProposal
    BY <2>3, <2>4, <2>6, <2>7, <2>8, QuietStep
  <2>9. CASE x # NoProposal
    <3>1. ViewLoop = "open" /\ ViewProposal = NoProposal /\ ViewProposal' \in Proposals
      BY <2>3, <2>6, <2>7, <2>9 DEF ViewLoop, ViewProposal
    <3>2. UNCHANGED <<ViewLoop, ViewDecision, ViewApplied, ViewRevalidated>>
      BY <2>3, <2>4, <2>6, <2>7
      DEF ViewLoop, ViewDecision, LatestApproval, ViewApplied, ViewRevalidated
    <3> QED
      BY <2>7, <3>1, <3>2 DEF Promise!Next, Promise!Propose
  <2> QED
    BY <2>8, <2>9
<1>9. CASE RequestApproval(p)
  <2>1. Finish(p, "request_approval",
               IF mem[p].ready THEN Requested(mem[p])
                               ELSE Blocked(mem[p], "request_approval"))
    BY <1>9 DEF RequestApproval
  <2>2. ~Ended(mem[p])
    BY <1>9 DEF RequestApproval, CanExecute
  <2>3. CASE ~mem[p].ready
    <3> DEFINE s == Blocked(mem[p], "request_approval")
    <3>1. /\ s.status = "running" /\ s.proposal = mem[p].proposal
          /\ s.approvals = mem[p].approvals
          /\ \A j \in Kinds : s.actions[j] =
               IF j = "request_approval" THEN "blocked" ELSE mem[p].actions[j]
      BY <1>1, <1>3, BlockedFields
    <3>2. \A k \in GatedKinds \ {"request_approval"} : s.actions[k] = mem[p].actions[k]
      BY <1>3, <3>1
    <3>3. Finish(p, "request_approval", s)
      BY <2>1, <2>3
    <3> HIDE DEF s
    <3>4. /\ SerialInv(p)'
          /\ LoopExists /\ View = mem[p]
          /\ LoopExists' /\ View' = s
      BY <1>2, <1>9, <3>1, <3>2, <3>3, SerialFinish DEF RequestApproval, GatedKinds
    <3> QED
      BY <2>2, <3>1, <3>2, <3>4, QuietStep DEF Ended, GatedKinds
  <2>4. CASE mem[p].ready
    <3> DEFINE s == Requested(mem[p])
               e == Executed(mem[p], "request_approval")
               a == [proposal |-> mem[p].proposal, status |-> "pending"]
    <3>1. /\ e \in LoopState
          /\ e.status = "running" /\ e.proposal = mem[p].proposal
          /\ e.approvals = mem[p].approvals
          /\ \A j \in Kinds : e.actions[j] =
               IF j = "request_approval" THEN "executed" ELSE mem[p].actions[j]
      BY <1>1, <1>3, ExecutedFields, StepState
    <3>2. mem[p].approvals \in Seq(Approval) /\ a \in Approval
      BY <1>1, <2>4, NoProposalAssumption DEF LoopState, Approval, Consistent
    <3> HIDE DEF a
    <3> DEFINE later == Append(mem[p].approvals, a)
    <3>3. later # <<>> /\ later[Len(later)] = a
      BY <3>2
    <3> HIDE DEF later
    <3>4. s = [e EXCEPT !.approvals = later]
      BY <3>1 DEF Requested, later, a
    <3> HIDE DEF e
    <3>5. /\ s.status = "running" /\ s.proposal = mem[p].proposal
          /\ s.approvals = later /\ s.actions = e.actions
      BY <3>1, <3>4 DEF LoopState
    <3>6. \A k \in GatedKinds \ {"request_approval"} : s.actions[k] = mem[p].actions[k]
      BY <1>3, <3>1, <3>5
    <3>7. Finish(p, "request_approval", s)
      BY <2>1, <2>4
    <3> HIDE DEF s
    <3>8. /\ SerialInv(p)'
          /\ LoopExists /\ View = mem[p]
          /\ LoopExists' /\ View' = s
      BY <1>2, <1>9, <3>5, <3>6, <3>7, SerialFinish DEF RequestApproval, GatedKinds
    <3>9. ViewLoop = "open" /\ ViewLoop' = "open"
      BY <2>2, <3>5, <3>8 DEF ViewLoop, Ended
    <3>10. ViewProposal # NoProposal /\ ViewProposal' = ViewProposal
      BY <1>1, <2>4, <3>5, <3>8 DEF ViewProposal, Consistent
    <3>11. ViewDecision' = "pending"
      BY <3>3, <3>5, <3>8 DEF ViewDecision, LatestApproval, a
    <3>12. UNCHANGED <<ViewApplied, ViewRevalidated>>
      BY <3>6, <3>8 DEF ViewApplied, ViewRevalidated, GatedKinds
    <3> QED
      BY <3>8, <3>9, <3>10, <3>11, <3>12 DEF Promise!Next, Promise!Ask
  <2> QED
    BY <2>3, <2>4
<1>10. CASE RefuseApply(p)
  <2> DEFINE s == Blocked(mem[p], "apply_patch")
  <2>1. /\ s.status = "running" /\ s.proposal = mem[p].proposal
        /\ s.approvals = mem[p].approvals
        /\ \A j \in Kinds : s.actions[j] =
             IF j = "apply_patch" THEN "blocked" ELSE mem[p].actions[j]
    BY <1>1, <1>3, BlockedFields
  <2>2. \A k \in GatedKinds \ {"apply_patch"} : s.actions[k] = mem[p].actions[k]
    BY <1>3, <2>1
  <2>3. s.actions["apply_patch"] # "executed" /\ mem[p].actions["apply_patch"] # "executed"
    BY <1>3, <1>10, <2>1 DEF GatedKinds, RefuseApply, CanExecute
  <2>4. ~Ended(mem[p]) /\ Finish(p, "apply_patch", s)
    BY <1>10 DEF RefuseApply, CanExecute
  <2> HIDE DEF s
  <2>5. /\ SerialInv(p)'
        /\ LoopExists /\ View = mem[p]
        /\ LoopExists' /\ View' = s
    BY <1>2, <1>10, <2>1, <2>2, <2>4, SerialFinish DEF RefuseApply, GatedKinds
  <2> QED
    BY <2>1, <2>2, <2>3, <2>4, <2>5, QuietStep DEF Ended, GatedKinds
<1>11. CASE ApplyPatch(p)
  <2>1. At(p, "apply_patch") /\ ~Ended(mem[p]) /\ mem[p].actions["apply_patch"] # "executed"
    BY <1>11 DEF ApplyPatch, CanExecute
  <2>2. CASE Finish(p, "apply_patch", Failed(mem[p]))
    <3>1. Failed(mem[p]).actions = mem[p].actions /\ Failed(mem[p]).proposal = mem[p].proposal
      BY <1>1, FailedFields
    <3> QED
      BY <1>1, <1>2, <2>1, <2>2, <3>1, SerialFinish, FailStep
  <2>3. CASE Finish(p, "apply_patch", Executed(mem[p], "apply_patch"))
    <3> DEFINE s == Executed(mem[p], "apply_patch")
    <3>1. /\ s.status = "running" /\ s.proposal = mem[p].proposal
          /\ s.approvals = mem[p].approvals
          /\ \A j \in Kinds : s.actions[j] =
               IF j = "apply_patch" THEN "executed" ELSE mem[p].actions[j]
      BY <1>1, <1>3, ExecutedFields
    <3>2. /\ \A k \in GatedKinds \ {"apply_patch"} : s.actions[k] = mem[p].actions[k]
          /\ s.actions["apply_patch"] = "executed"
      BY <1>3, <3>1 DEF GatedKinds
    <3> HIDE DEF s
    <3>3. /\ SerialInv(p)'
          /\ LoopExists /\ View = mem[p]
          /\ LoopExists' /\ View' = s
      BY <1>2, <2>1, <2>3, <3>1, <3>2, SerialFinish DEF s, GatedKinds
    <3>4. ViewLoop = "open" /\ ViewLoop' = "open"
      BY <2>1, <3>1, <3>3 DEF ViewLoop, Ended
    <3>5. ViewDecision = "approved"
      BY <1>11, <3>3 DEF ViewDecision, ApplyPatch, Cleared
    <3>6. ViewApplied = FALSE /\ ViewApplied' = TRUE
      BY <2>1, <3>2, <3>3 DEF ViewApplied
    <3>7. UNCHANGED <<ViewProposal, ViewDecision, ViewRevalidated>>
      BY <3>1, <3>2, <3>3
      DEF ViewProposal, ViewDecision, LatestApproval, ViewRevalidated, GatedKinds
    <3> QED
      BY <3>3, <3>4, <3>5, <3>6, <3>7 DEF Promise!Next, Promise!Apply
  <2> QED
    BY <1>11, <2>2, <2>3 DEF ApplyPatch
<1>12. CASE ReportResult(p)
  <2> DEFINE e == Executed(mem[p], "report_result")
             s == [e EXCEPT !.status = "completed"]
  <2>1. At(p, "report_result") /\ Finish(p, "report_result", s) /\ ~Ended(mem[p])
    BY <1>12 DEF ReportResult, CanExecute
  <2>2. /\ e \in LoopState
        /\ e.proposal = mem[p].proposal /\ e.approvals = mem[p].approvals
        /\ \A j \in Kinds : e.actions[j] =
             IF j = "report_result" THEN "executed" ELSE mem[p].actions[j]
    BY <1>1, <1>3, ExecutedFields, StepState
  <2> HIDE DEF e
  <2>3. /\ s.status = "completed" /\ s.proposal = mem[p].proposal
        /\ s.approvals = mem[p].approvals /\ s.actions = e.actions
    BY <2>2 DEF LoopState
  <2>4. \A k \in GatedKinds \ {"report_result"} : s.actions[k] = mem[p].actions[k]
    BY <1>3, <2>2, <2>3
  <2> HIDE DEF s
  <2>5. /\ SerialInv(p)'
        /\ LoopExists /\ View = mem[p]
        /\ LoopExists' /\ View' = s
    BY <1>2, <2>1, <2>3, <2>4, SerialFinish DEF GatedKinds
  <2>6. CanReport(mem[p])
    BY <2>1 DEF At, SerialInv
  <2>7. ViewLoop = "open" /\ ViewLoop' = "completed"
    BY <2>1, <2>3, <2>5 DEF ViewLoop, Ended
  <2>8. ViewApplied /\ ViewRevalidated
    BY <2>5, <2>6 DEF ViewApplied, ViewRevalidated, CanReport
  <2>9. UNCHANGED <<ViewProposal, ViewDecision, ViewApplied, ViewRevalidated>>
    BY <2>3, <2>4, <2>5
    DEF ViewProposal, ViewDecision, LatestApproval, ViewApplied, ViewRevalidated, GatedKinds
  <2> QED
    BY <2>5, <2>7, <2>8, <2>9 DEF Promise!Next, Promise!Complete
<1> QED
  BY <1>4, <1>5, <1>6, <1>7, <1>8, <1>9, <1>10, <1>11, <1>12 DEF Execute

-----------------------------------------------------------------------------
(* The other steps of a command.                                           *)

\* A loop that starts, or is removed, forgets everything.
LEMMA BeginView ==
    ASSUME NEW p, Procs = {p}, IInv, SerialInv(p), BeginCommand(p)
    PROVE  Promise!Next \/ UNCHANGED Promise!vars
<1>1. pc[p] = "idle" /\ p \in Procs
  BY DEF BeginCommand, BeginStart, BeginStep, BeginRun, BeginDecide, Begin, Reset
<1>2. View = file /\ (LoopExists <=> disk # "absent")
  BY <1>1, SerialView
<1>3. SerialInv(p)' /\ IInv'
  BY <1>1, SerialBegin, BeginCommandStep
<1>4. /\ LoopExists' <=> disk' # "absent" \/ pc'[p] = "store"
      /\ View' = IF pc'[p] \in {"store", "writing"} THEN mem'[p] ELSE file'
  <2>1. CASE pc'[p] \in {"store", "writing"}
    <3>1. Saving' = {p}
      BY <2>1 DEF Saving
    <3>2. View' = mem'[CHOOSE q \in {p} : TRUE]
      BY <3>1 DEF View
    <3> QED
      BY <1>3, <2>1, <3>1, <3>2 DEF LoopExists, SerialInv
  <2>2. CASE pc'[p] \notin {"store", "writing"}
    BY <2>2 DEF Saving, LoopExists, View
  <2> QED
    BY <2>1, <2>2
<1>5. /\ Fresh.proposal = NoProposal /\ Fresh.approvals = <<>> /\ ~Ended(Fresh)
      /\ Fresh.actions["apply_patch"] # "executed"
      /\ Fresh.actions["revalidate_project"] # "executed"
  BY DEF Fresh, Ended, Kinds, GatedKinds
<1> USE DEF IInv, TypeOK, Begin
<1>6. CASE BeginStart(p)
  <2>1. LoopExists' /\ View' = Fresh
    BY <1>4, <1>6 DEF BeginStart
  <2>2. Promise!Start
    BY <1>5, <2>1 DEF Promise!Start, Promise!Blank, ViewLoop, ViewProposal, ViewDecision,
                      ViewApplied, ViewRevalidated
  <2> QED
    BY <2>2 DEF Promise!Next
<1>7. CASE BeginStep(p) \/ BeginRun(p)
  <2>1. LoopExists /\ LoopExists' /\ View' = View
    BY <1>2, <1>4, <1>7 DEF BeginStep, BeginRun
  <2> QED
    BY <2>1, QuietStep
<1>8. CASE BeginDecide(p)
  <2>1. PICK i \in 1 .. Len(file.approvals), d \in {"approved", "rejected"} :
          Begin(p, "store", [file EXCEPT !.approvals[i].status = d], {})
    BY <1>8 DEF BeginDecide
  <2> DEFINE t == [file EXCEPT !.approvals[i].status = d]
  <2>2. file.approvals \in Seq(Approval) /\ file.approvals[i] \in Approval
    <3>1. file.approvals \in Seq(Approval)
      BY DEF LoopState
    <3> QED
      BY <3>1
  <2>3. /\ t.status = file.status /\ t.proposal = file.proposal /\ t.actions = file.actions
        /\ t.approvals = [file.approvals EXCEPT ![i] = [file.approvals[i] EXCEPT !.status = d]]
    BY DEF LoopState
  <2> HIDE DEF t
  <2>4. Begin(p, "store", t, {}) /\ disk = "whole"
    BY <1>8, <2>1 DEF t, BeginDecide
  <2>5. LoopExists /\ LoopExists' /\ View' = t
    BY <1>2, <1>4, <2>4
  <2>6. UNCHANGED <<ViewLoop, ViewProposal, ViewApplied, ViewRevalidated>>
    BY <1>2, <2>3, <2>5 DEF ViewLoop, Ended, ViewProposal, ViewApplied, ViewRevalidated
  <2>7. file.approvals # <<>> /\ t.approvals # <<>> /\ Len(t.approvals) = Len(file.approvals)
    BY <2>2, <2>3
  <2>8. ViewDecision = LatestApproval(file).status /\ ViewDecision' = LatestApproval(t).status
    BY <1>2, <2>5, <2>7 DEF ViewDecision, LatestApproval
  <2>9. CASE i = Len(file.approvals)
    <3>1. LatestApproval(t).status = d
      BY <2>2, <2>3, <2>7, <2>9 DEF LatestApproval, Approval
    <3>2. ViewDecision # "none"
      BY <2>2, <2>8, <2>9 DEF LatestApproval, Approval
    <3> QED
      BY <2>6, <2>8, <3>1, <3>2 DEF Promise!Next, Promise!Decide
  <2>10. CASE i # Len(file.approvals)
    <3>1. LatestApproval(t) = LatestApproval(file)
      BY <2>2, <2>3, <2>7, <2>10 DEF LatestApproval
    <3> QED
      BY <2>6, <2>8, <3>1 DEF Promise!vars
  <2> QED
    BY <2>9, <2>10
<1>9. CASE Reset(p)
  <2>1. ~LoopExists'
    BY <1>1, <1>4, <1>9 DEF Reset
  <2>2. Promise!Reset
    BY <2>1 DEF Promise!Reset, Promise!Blank, ViewLoop, ViewProposal, ViewDecision,
                ViewApplied, ViewRevalidated
  <2> QED
    BY <2>2 DEF Promise!Next
<1> QED
  BY <1>6, <1>7, <1>8, <1>9 DEF BeginCommand

\* Saving is invisible: the copy was already what the promise shows.
LEMMA SaveView ==
    ASSUME NEW p, Procs = {p}, IInv, SerialInv(p), SerialInv(p)',
           OpenFile(p) \/ WriteFile(p) \/ WriteOrphan(p)
    PROVE  UNCHANGED Promise!vars
<1> USE DEF IInv, TypeOK
<1>1. View = mem[p] /\ LoopExists
  BY SerialView DEF OpenFile, WriteFile, WriteOrphan, SerialInv
<1>2. View' = mem[p] /\ LoopExists'
  <2>1. CASE OpenFile(p)
    <3>1. Saving' = {p} /\ mem' = mem
      BY <2>1 DEF OpenFile, Saving
    <3>2. View' = mem'[CHOOSE q \in {p} : TRUE]
      BY <3>1 DEF View
    <3> QED
      BY <3>1, <3>2 DEF LoopExists
  <2>2. CASE WriteFile(p)
    <3>1. Saving' = {} /\ file' = mem[p] /\ disk' = "whole"
      BY <2>2 DEF WriteFile, Continue, Saving, SerialInv
    <3> QED
      BY <3>1 DEF View, LoopExists
  <2>3. CASE WriteOrphan(p)
    BY <2>3 DEF WriteOrphan, SerialInv
  <2> QED
    BY <2>1, <2>2, <2>3
<1> QED
  BY <1>1, <1>2, QuietStep

-----------------------------------------------------------------------------
(* The theorem.                                                            *)

\* One command at a time, none of them killed: the loop file implements
\* GatedApply, for every set of proposals and read-only steps.
THEOREM SerialLoopKeepsPromise ==
    ASSUME NEW CONSTANT p, Procs = {p}, MaxCrashes = 0
    PROVE  Spec => KeepsPromise
<1>1. Init => Promise!Init
  <2> SUFFICES ASSUME Init PROVE Promise!Init
    OBVIOUS
  <2>1. ~LoopExists
    BY DEF Init, LoopExists, Saving
  <2> QED
    BY <2>1 DEF Promise!Init, ViewLoop, ViewProposal, ViewDecision, ViewApplied, ViewRevalidated
<1>2. Init => SerialInv(p)
  BY InitSerial
<1>3. IInv /\ SerialInv(p) /\ [Next]_vars =>
        SerialInv(p)' /\ [Promise!Next]_Promise!vars
  <2> SUFFICES ASSUME IInv, SerialInv(p), [Next]_vars
               PROVE  SerialInv(p)' /\ (Promise!Next \/ UNCHANGED Promise!vars)
    OBVIOUS
  <2>1. CASE BeginCommand(p)
    BY <2>1, SerialBegin, BeginView
  <2>2. CASE Execute(p)
    BY <2>2, SerialExecute
  <2>3. CASE OpenFile(p) \/ WriteFile(p) \/ WriteOrphan(p)
    BY <2>3, SerialSave, SaveView
  <2>4. ~Crash(p)
    BY DEF Crash, IInv, TypeOK
  <2>5. CASE UNCHANGED vars
    <3>1. SerialInv(p)'
      BY <2>5 DEF vars, procVars, SerialInv
    <3>2. View' = View /\ (LoopExists' <=> LoopExists)
      BY <2>5 DEF vars, procVars, View, Saving, LoopExists
    <3>3. UNCHANGED Promise!vars
      BY <3>2 DEF Promise!vars, ViewLoop, ViewProposal, ViewDecision, ViewApplied,
                  ViewRevalidated
    <3> QED
      BY <3>1, <3>3
  <2> QED
    BY <2>1, <2>2, <2>3, <2>4, <2>5 DEF Next, Proceed
<1>4. Spec => []IInv
  BY IInvHolds
<1> QED
  BY <1>1, <1>2, <1>3, <1>4, PTL DEF Spec, KeepsPromise, Promise!Spec
=============================================================================
