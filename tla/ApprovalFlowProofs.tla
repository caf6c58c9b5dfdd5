------------------------- MODULE ApprovalFlowProofs -------------------------
(***************************************************************************)
(* For every set of handlers, proposals, files and bounds: the types, that *)
(* a written patch was previewed, verified and approved as it is, and that *)
(* without overlaps the newest decision rules.  All follow from IInv of    *)
(* ApprovalFlow.                                                           *)
(***************************************************************************)
EXTENDS ApprovalFlow, TLAPS

\* A decision on a listed request is a well-formed decision.
LEMMA DecisionTyped ==
    ASSUME NEW s \in Artifacts, NEW k \in RequestKinds, NEW a \in Approving \cup Refusing,
           NEW fs \in SUBSET Files, Listed(k, s)
    PROVE  DecisionOn(k, s, a, fs) \in Decision
<1> DEFINE d == DecisionOn(k, s, a, fs)
<1>1. k \in Kind
  BY KindsAssumption DEF Kind
<1>2. k \in {"patch", "risk"} => s.proposal \in Proposals
  BY FilesAssumption DEF Listed, Artifacts
<1>3. RequestFiles(k, s) \in SUBSET Files
  <2>1. PlanFiles \in SUBSET Files /\ s.appliedFiles \in SUBSET Files
    BY FilesAssumption DEF Artifacts
  <2>2. k \in {"patch", "risk"} => FilesOf[s.proposal] \in SUBSET Files
    BY <1>2, FilesAssumption
  <2>3. CASE k \in {"patch", "risk"}
    BY <2>2, <2>3 DEF RequestFiles
  <2>4. CASE k = "plan"
    BY <2>1, <2>4 DEF RequestFiles
  <2>5. CASE k = "rollback"
    BY <2>1, <2>5 DEF RequestFiles
  <2>6. CASE k = "verify"
    BY <2>6 DEF RequestFiles
  <2>7. CASE k = "dirty_working_tree"
    BY <2>7 DEF RequestFiles
  <2> QED
    BY <1>1, <2>3, <2>4, <2>5, <2>6, <2>7 DEF Kind
<1>4. k \in {"patch", "risk"} => RequestFiles(k, s) = FilesOf[s.proposal]
  BY DEF RequestFiles
<1>5. NormalizedFiles(k, s, a, fs) \in SUBSET Files
  BY <1>3 DEF NormalizedFiles
<1>6. a \in Refusing => NormalizedFiles(k, s, a, fs) = {}
  BY DEF NormalizedFiles, Refusing
<1>7. k \in {"patch", "risk"} => NormalizedFiles(k, s, a, fs) \subseteq FilesOf[s.proposal]
  BY <1>4 DEF NormalizedFiles
<1>8. k \in {"patch", "risk"} => s.proposal # NoProposal
  BY <1>2, FilesAssumption
<1> QED
  BY <1>1, <1>2, <1>5, <1>6, <1>7, <1>8 DEF DecisionOn, Decision

\* A decision that authorises a patch approves exactly the patch's files.
LEMMA AuthorisedFiles ==
    ASSUME NEW d, NEW t, NEW diff, Authorises(d, t, diff)
    PROVE  /\ d # NoDecision
           /\ d.action \in Approving
           /\ d.files = TargetFiles(t)
BY DEF Authorises

\* A position of a preview is a slot, and holds a patch.
LEMMA PreviewSlots ==
    ASSUME TypeOK
    PROVE  /\ DOMAIN previews \subseteq Slots
           /\ \A i \in DOMAIN previews : previews[i] \in Target
BY BoundsAssumption DEF TypeOK, Slots

\* A document with one slot replaced is a document.
LEMMA DocumentUpdate ==
    ASSUME NEW m \in Document, NEW i \in Slots, NEW d \in Decision
    PROVE  [m EXCEPT ![i] = d] \in Document
BY DEF Document

LEMMA EmptyTyped == EmptyDocument \in Document
BY DEF EmptyDocument, Document

\* The initial states satisfy the inductive invariant.
LEMMA InitIInv == Init => IInv
<1> SUFFICES ASSUME Init PROVE IInv
  OBVIOUS
<1> USE EmptyTyped, BoundsAssumption DEF Init
<1>1. TypeOK
  <2>1. previews \in Seq(Target) /\ Len(previews) = 0
    OBVIOUS
  <2>2. \A h \in Handlers : JobTyped(h) /\ pc[h] = "idle"
    BY DEF JobTyped
  <2>3. mem \in [Handlers -> Document]
    OBVIOUS
  <2>4. doc \in Document /\ standing \in Document
    OBVIOUS
  <2>5. disturbed \in BOOLEAN
    OBVIOUS
  <2>6. calls \in 0..MaxCalls /\ crashes \in 0..MaxCrashes
    OBVIOUS
  <2>7. pc \in [Handlers -> Locations]
    BY DEF Locations
  <2>8. job \in [Handlers -> Job]
    BY DEF Job
  <2> QED
    BY <2>1, <2>2, <2>3, <2>4, <2>5, <2>6, <2>7, <2>8 DEF TypeOK
<1>2. Provenance /\ ClearedToRun /\ AppliedWasCleared /\ Quiet
  BY DEF Provenance, ClearedToRun, AppliedWasCleared, Quiet, Saving, EmptyDocument
<1> QED
  BY <1>1, <1>2 DEF IInv

\* A new preview leaves the older ones where they are.
LEMMA GenerateDiffStep == IInv /\ GenerateDiff => IInv'
<1> SUFFICES ASSUME IInv, GenerateDiff PROVE IInv'
  OBVIOUS
<1> USE DEF GenerateDiff, store, client, past
<1>1. /\ previews' \in Seq(Target) /\ Len(previews') \leq MaxPreviews
      /\ DOMAIN previews \subseteq DOMAIN previews'
      /\ \A i \in DOMAIN previews : previews'[i] = previews[i]
  BY BoundsAssumption DEF IInv, TypeOK
<1>2. TypeOK'
  <2>1. \A h \in Handlers : JobTyped(h)'
    BY <1>1 DEF IInv, TypeOK, JobTyped
  <2> QED
    BY <1>1, <2>1 DEF IInv, TypeOK
<1>3. Provenance' /\ Quiet'
  BY DEF IInv, Provenance, Quiet, Saving
<1>4. ClearedToRun'
  BY <1>1 DEF IInv, TypeOK, JobTyped, ClearedToRun
<1>5. AppliedWasCleared'
  BY <1>1 DEF IInv, AppliedWasCleared, TypeOK
<1> QED
  BY <1>2, <1>3, <1>4, <1>5 DEF IInv

\* A kill leaves the file and what callers know.
LEMMA CrashStep == IInv /\ Crash => IInv'
<1> SUFFICES ASSUME IInv, Crash PROVE IInv'
  OBVIOUS
<1> USE DEF Crash, store, client
<1>1. TypeOK'
  <2>1. \A h \in Handlers : JobTyped(h)'
    BY DEF JobTyped
  <2>2. mem' \in [Handlers -> Document]
    BY EmptyTyped
  <2>3. disturbed' \in BOOLEAN
    BY DEF IInv, TypeOK
  <2>4. crashes' \in 0..MaxCrashes
    BY BoundsAssumption DEF IInv, TypeOK
  <2>5. job' \in [Handlers -> Job] /\ pc' \in [Handlers -> Locations]
    BY DEF Job, Locations
  <2> QED
    BY <2>1, <2>2, <2>3, <2>4, <2>5 DEF IInv, TypeOK
<1>2. Provenance' /\ ClearedToRun'
  BY DEF IInv, Provenance, ClearedToRun, EmptyDocument
<1>3. AppliedWasCleared'
  BY DEF IInv, AppliedWasCleared
<1>4. Quiet'
  BY DEF IInv, Quiet, Saving
<1> QED
  BY <1>1, <1>2, <1>3, <1>4 DEF IInv

\* Only the session decides what a decision is stored under.
LEMMA StartDecideStep ==
    ASSUME IInv, NEW h \in Handlers, StartDecide(h)
    PROVE  IInv'
<1> USE DEF StartDecide, store
<1>1. PICK s \in Artifacts, k \in RequestKinds, a \in Approving \cup Refusing, fs \in SUBSET Files :
        LET d == DecisionOn(k, s, a, fs) IN
        /\ Known(s) /\ Listed(k, s) /\ Enabled(k, s, a)
        /\ decided' = decided \cup {d}
        /\ \/ /\ s.preview # 0
              /\ Goto(h, "load", [op |-> "decide", decision |-> d, preview |-> s.preview])
              /\ UNCHANGED answers
           \/ /\ s.preview = 0
              /\ answers' = answers \cup {d}
              /\ UNCHANGED <<pc, job>>
  OBVIOUS
<1> DEFINE d == DecisionOn(k, s, a, fs)
<1>2. d \in Decision
  BY <1>1, DecisionTyped
<1>3. s.preview # 0 => s.preview \in DOMAIN previews /\ s.preview \in Slots
  BY <1>1, PreviewSlots DEF Known, IInv
<1>4. decided' = decided \cup {d}
  BY <1>1
<1> HIDE DEF d
<1>5. CASE /\ s.preview # 0
           /\ Goto(h, "load", [op |-> "decide", decision |-> d, preview |-> s.preview])
           /\ UNCHANGED answers
  <2> USE <1>5 DEF Goto
  <2>1. TypeOK'
    <3>1. \A g \in Handlers : JobTyped(g)'
      BY <1>2, <1>3 DEF IInv, TypeOK, JobTyped, DecideJob
    <3>2. pc' \in [Handlers -> Locations]
      BY DEF IInv, TypeOK, Locations
    <3>3. calls' \in 0..MaxCalls
      BY BoundsAssumption DEF IInv, TypeOK
    <3>4. decided' \subseteq Decision
      BY <1>2, <1>4 DEF IInv, TypeOK
    <3>5. answers' = answers /\ answers \subseteq Decision
      BY DEF IInv, TypeOK
    <3>6. job' \in [Handlers -> Job]
      BY <1>2, <1>3 DEF IInv, TypeOK, Job, DecideJob
    <3> QED
      BY <3>1, <3>2, <3>3, <3>4, <3>5, <3>6 DEF IInv, TypeOK
  <2>2. Provenance'
    BY <1>4 DEF IInv, TypeOK, Provenance, JobTyped
  <2>3. ClearedToRun'
    BY <1>4 DEF IInv, TypeOK, ClearedToRun
  <2>4. AppliedWasCleared'
    BY <1>4 DEF IInv, AppliedWasCleared
  <2>5. Quiet'
    <3>1. \A g \in Handlers : Saving(g)' <=> Saving(g)
      BY DEF IInv, TypeOK, Saving
    <3>2. \A g \in Handlers : pc'[g] = "write" <=> pc[g] = "write"
      BY DEF IInv, TypeOK
    <3> QED
      BY <3>1, <3>2 DEF IInv, Quiet
  <2> QED
    BY <2>1, <2>2, <2>3, <2>4, <2>5 DEF IInv
<1>6. CASE s.preview = 0 /\ answers' = answers \cup {d} /\ UNCHANGED <<pc, job>>
  <2> USE <1>6
  <2>1. TypeOK'
    <3>1. \A g \in Handlers : JobTyped(g)'
      BY DEF IInv, TypeOK, JobTyped
    <3>2. calls' \in 0..MaxCalls
      BY BoundsAssumption DEF IInv, TypeOK
    <3> QED
      BY <1>2, <1>4, <3>1, <3>2 DEF IInv, TypeOK
  <2>2. Provenance'
    BY <1>4 DEF IInv, Provenance
  <2>3. ClearedToRun'
    BY <1>4 DEF IInv, ClearedToRun
  <2>4. AppliedWasCleared'
    BY <1>4 DEF IInv, AppliedWasCleared
  <2>5. Quiet'
    BY DEF IInv, Quiet, Saving
  <2> QED
    BY <2>1, <2>2, <2>3, <2>4, <2>5 DEF IInv
<1> QED
  BY <1>1, <1>5, <1>6 DEF d

\* A handler that returns keeps nothing.
LEMMA ReturnTyped ==
    ASSUME TypeOK, NEW h \in Handlers, Return(h), UNCHANGED previews
    PROVE  /\ pc' \in [Handlers -> Locations]
           /\ job' \in [Handlers -> Job]
           /\ \A g \in Handlers : JobTyped(g)'
BY DEF TypeOK, Return, Goto, JobTyped, Job, Locations

\* A failing session load leaves everything else alone.
LEMMA DecideFailsStep ==
    ASSUME IInv, NEW h \in Handlers, DecideFails(h)
    PROVE  IInv'
<1> USE DEF DecideFails, store, client, past
<1>1. TypeOK'
  <2>1. /\ pc' \in [Handlers -> Locations]
        /\ job' \in [Handlers -> Job]
        /\ \A g \in Handlers : JobTyped(g)'
    BY ReturnTyped DEF IInv
  <2> QED
    BY <2>1 DEF IInv, TypeOK
<1>2. Provenance' /\ ClearedToRun'
  BY DEF IInv, TypeOK, Provenance, ClearedToRun, Return, Goto
<1>3. AppliedWasCleared' /\ Quiet'
  BY DEF IInv, TypeOK, AppliedWasCleared, Quiet, Saving, Return, Goto
<1> QED
  BY <1>1, <1>2, <1>3 DEF IInv

\* A load no save overlaps reads the newest decisions.
LEMMA LoadDecisionsStep ==
    ASSUME IInv, NEW h \in Handlers, LoadDecisions(h)
    PROVE  IInv'
<1> USE DEF LoadDecisions, Goto, store, client
<1>1. TypeOK'
  <2>1. \A g \in Handlers : JobTyped(g)'
    BY DEF IInv, TypeOK, JobTyped
  <2>2. disturbed' \in BOOLEAN
    BY DEF IInv, TypeOK
  <2>3. mem' \in [Handlers -> Document]
    BY DEF IInv, TypeOK
  <2>4. pc' \in [Handlers -> Locations]
    BY DEF IInv, TypeOK, Locations
  <2> QED
    BY <2>1, <2>2, <2>3, <2>4 DEF IInv, TypeOK
<1>2. Provenance' /\ ClearedToRun'
  BY DEF IInv, TypeOK, Provenance, ClearedToRun
<1>3. AppliedWasCleared'
  BY DEF IInv, AppliedWasCleared
<1>4. Quiet'
  <2> SUFFICES ASSUME ~disturbed' PROVE Quiet'
    BY DEF Quiet
  <2>1. ~disturbed /\ \A g \in Handlers : ~Saving(g)
    OBVIOUS
  <2>2. doc = standing
    BY <2>1 DEF IInv, Quiet, Saving
  <2>3. \A g \in Handlers : Saving(g)' <=> g = h
    BY <2>1 DEF Saving, IInv, TypeOK
  <2>4. mem'[h] = standing' /\ doc' = standing'
    BY <2>2 DEF IInv, TypeOK
  <2>5. \A g \in Handlers : pc'[g] # "write"
    BY <2>3 DEF Saving, IInv, TypeOK
  <2> QED
    BY <2>3, <2>4, <2>5 DEF Quiet
<1> QED
  BY <1>1, <1>2, <1>3, <1>4 DEF IInv

\* Truncating the file is no save yet.
LEMMA OpenDecisionsStep ==
    ASSUME IInv, NEW h \in Handlers, OpenDecisions(h)
    PROVE  IInv'
<1> USE DEF OpenDecisions, Goto, client, past
<1>1. TypeOK'
  <2>1. \A g \in Handlers : JobTyped(g)'
    BY DEF IInv, TypeOK, JobTyped
  <2>2. pc' \in [Handlers -> Locations] /\ job' \in [Handlers -> Job]
    BY DEF IInv, TypeOK, Locations
  <2> QED
    BY <2>1, <2>2, EmptyTyped DEF IInv, TypeOK
<1>2. Provenance' /\ ClearedToRun'
  BY DEF IInv, TypeOK, Provenance, ClearedToRun, EmptyDocument
<1>3. AppliedWasCleared'
  BY DEF IInv, AppliedWasCleared
<1>4. Quiet'
  <2>1. \A g \in Handlers : Saving(g)' <=> Saving(g)
    BY DEF IInv, TypeOK, Saving
  <2>2. pc'[h] = "write"
    BY DEF IInv, TypeOK
  <2> QED
    BY <2>1, <2>2 DEF IInv, Quiet
<1> QED
  BY <1>1, <1>2, <1>3, <1>4 DEF IInv

\* A save no other overlaps leaves the newest decisions in the file.
LEMMA WriteDecisionsStep ==
    ASSUME IInv, NEW h \in Handlers, WriteDecisions(h)
    PROVE  IInv'
<1> USE DEF WriteDecisions, Goto, client
<1>1. job[h] \in DecideJob /\ job[h].decision \in Decision /\ job[h].preview \in Slots
  BY DEF IInv, TypeOK, JobTyped, DecideJob
<1>2. Saved(h) \in Document
  BY <1>1, DocumentUpdate DEF IInv, TypeOK, Saved
<1>3. doc' \in {Saved(h), EmptyDocument}
  OBVIOUS
<1>4. TypeOK'
  <2>1. \A g \in Handlers : JobTyped(g)'
    BY DEF IInv, TypeOK, JobTyped
  <2>2. pc' \in [Handlers -> Locations] /\ job' \in [Handlers -> Job]
    BY DEF IInv, TypeOK, Locations
  <2>3. doc' \in Document /\ file' \in {"empty", "filled"}
    BY <1>2, <1>3, EmptyTyped
  <2>4. standing' \in Document
    BY <1>1, DocumentUpdate DEF IInv, TypeOK
  <2>5. mem' \in [Handlers -> Document]
    BY EmptyTyped DEF IInv, TypeOK
  <2> QED
    BY <2>1, <2>2, <2>3, <2>4, <2>5 DEF IInv, TypeOK
<1>5. Provenance'
  <2>1. \A i \in Slots : Saved(h)[i] \in decided \cup {NoDecision}
    BY <1>1 DEF IInv, TypeOK, Provenance, Saved, Document
  <2>2. \A i \in Slots : doc'[i] \in decided \cup {NoDecision}
    BY <1>3, <2>1 DEF EmptyDocument
  <2>3. \A g \in Handlers, i \in Slots : mem'[g][i] \in decided \cup {NoDecision}
    BY DEF IInv, TypeOK, Provenance, EmptyDocument
  <2> QED
    BY <2>2, <2>3 DEF IInv, TypeOK, Provenance
<1>6. ClearedToRun' /\ AppliedWasCleared'
  BY DEF IInv, TypeOK, ClearedToRun, AppliedWasCleared
<1>7. Quiet'
  <2> SUFFICES ASSUME ~disturbed PROVE Quiet'
    BY DEF Quiet
  <2>1. pc[h] = "write" /\ Saving(h)
    BY DEF Saving
  <2>2. mem[h] = standing /\ file = "empty"
    BY <2>1 DEF IInv, Quiet
  <2>3. doc' = standing'
    BY <2>2 DEF Saved
  <2>4. \A g \in Handlers : ~Saving(g)'
    BY <2>1 DEF IInv, TypeOK, Quiet, Saving
  <2>5. \A g \in Handlers : pc'[g] # "write"
    BY <2>4 DEF Saving
  <2> QED
    BY <2>3, <2>4, <2>5 DEF Quiet
<1> QED
  BY <1>4, <1>5, <1>6, <1>7 DEF IInv

\* What is answered was decided.
LEMMA AnswerDecisionStep ==
    ASSUME IInv, NEW h \in Handlers, AnswerDecision(h)
    PROVE  IInv'
<1> USE DEF AnswerDecision, store, past
<1>1. job[h].decision \in decided /\ job[h].decision \in Decision
  BY DEF IInv, TypeOK, Provenance
<1>2. answers' \subseteq decided /\ answers' \subseteq Decision
  BY <1>1 DEF IInv, TypeOK, Provenance
<1>3. TypeOK'
  <2>1. /\ pc' \in [Handlers -> Locations]
        /\ job' \in [Handlers -> Job]
        /\ \A g \in Handlers : JobTyped(g)'
    BY ReturnTyped DEF IInv
  <2> QED
    BY <1>2, <2>1 DEF IInv, TypeOK
<1>4. Provenance' /\ ClearedToRun'
  BY <1>2 DEF IInv, TypeOK, Provenance, ClearedToRun, Return, Goto
<1>5. AppliedWasCleared' /\ Quiet'
  BY DEF IInv, TypeOK, AppliedWasCleared, Quiet, Saving, Return, Goto
<1> QED
  BY <1>3, <1>4, <1>5 DEF IInv

\* An apply starts with a decision the server once answered, or none.
LEMMA StartApplyStep ==
    ASSUME IInv, NEW h \in Handlers, StartApply(h)
    PROVE  IInv'
<1> USE DEF StartApply, Goto, store, client, past
<1>1. PICK t \in Target, i \in DOMAIN previews, s \in Passing, d \in answers \cup {NoDecision} :
        Goto(h, "lookup", [op |-> "apply", target |-> t, preview |-> i,
                           sandbox |-> s, decision |-> d])
  OBVIOUS
<1>2. i \in Slots /\ s \in Target /\ d \in Decision \cup {NoDecision}
  BY <1>1, PreviewSlots, PassingAssumption DEF IInv, TypeOK
<1>3. d \in decided \cup {NoDecision}
  BY DEF IInv, Provenance
<1>4. TypeOK'
  <2>1. \A g \in Handlers : JobTyped(g)'
    BY <1>1, <1>2 DEF IInv, TypeOK, JobTyped, ApplyJob
  <2>2. pc' \in [Handlers -> Locations]
    BY <1>1 DEF IInv, TypeOK, Locations
  <2>3. job' \in [Handlers -> Job]
    BY <1>1, <1>2 DEF IInv, TypeOK, Job, ApplyJob
  <2>4. calls' \in 0..MaxCalls
    BY BoundsAssumption DEF IInv, TypeOK
  <2> QED
    BY <2>1, <2>2, <2>3, <2>4 DEF IInv, TypeOK
<1>5. Provenance' /\ ClearedToRun'
  BY <1>1, <1>3 DEF IInv, TypeOK, Provenance, ClearedToRun
<1>6. AppliedWasCleared'
  BY DEF IInv, AppliedWasCleared
<1>7. Quiet'
  <2>1. \A g \in Handlers : Saving(g)' <=> Saving(g)
    BY <1>1 DEF IInv, TypeOK, Saving
  <2>2. \A g \in Handlers : pc'[g] = "write" <=> pc[g] = "write"
    BY <1>1 DEF IInv, TypeOK
  <2> QED
    BY <2>1, <2>2 DEF IInv, Quiet
<1> QED
  BY <1>4, <1>5, <1>6, <1>7 DEF IInv

\* An apply is let through only on a decision somebody took, on its files.
LEMMA LookupStep ==
    ASSUME IInv, NEW h \in Handlers, Lookup(h)
    PROVE  IInv'
<1> USE DEF Lookup, store, client
<1>1. /\ job[h] \in ApplyJob
      /\ job[h].preview \in DOMAIN previews /\ job[h].preview \in Slots
  BY PreviewSlots DEF IInv, TypeOK, JobTyped
<1>2. /\ Effective(h) \in decided \cup {NoDecision}
      /\ Effective(h) \in Decision \cup {NoDecision}
  BY <1>1 DEF IInv, TypeOK, Provenance, Effective, Stored, Document
<1>3. disturbed' \in BOOLEAN
  BY DEF IInv, TypeOK
<1>4. AppliedWasCleared'
  BY DEF IInv, AppliedWasCleared
<1>5. CASE Return(h)
  <2>1. TypeOK'
    <3>1. /\ pc' \in [Handlers -> Locations]
          /\ job' \in [Handlers -> Job]
          /\ \A g \in Handlers : JobTyped(g)'
      BY <1>5, ReturnTyped DEF IInv
    <3> QED
      BY <1>3, <3>1 DEF IInv, TypeOK
  <2>2. Provenance' /\ ClearedToRun'
    BY <1>5 DEF IInv, TypeOK, Provenance, ClearedToRun, Return, Goto
  <2>3. Quiet'
    BY <1>5 DEF IInv, TypeOK, Quiet, Saving, Return, Goto
  <2> QED
    BY <1>4, <2>1, <2>2, <2>3 DEF IInv
<1>6. CASE /\ SandboxPassed(h)
           /\ Authorises(Effective(h), job[h].target, previews[job[h].preview])
           /\ Goto(h, "run", [job[h] EXCEPT !.decision = Effective(h)])
  <2> USE DEF Goto
  <2>1. /\ Effective(h) \in Decision /\ Effective(h) \in decided
        /\ Effective(h).action \in Approving
        /\ Effective(h).files = TargetFiles(job[h].target)
    BY <1>2, <1>6, AuthorisedFiles
  <2>2. previews[job[h].preview] = job[h].target /\ job[h].target \in Passing
    BY <1>6 DEF SandboxPassed, IInv, ClearedToRun
  <2>3. [job[h] EXCEPT !.decision = Effective(h)] \in ApplyJob
    BY <1>1, <2>1 DEF ApplyJob
  <2>4. /\ job'[h].preview = job[h].preview /\ job'[h].target = job[h].target
        /\ job'[h].decision = Effective(h)
    BY <1>1, <1>6 DEF IInv, TypeOK, ApplyJob
  <2>5. TypeOK'
    <3>1. \A g \in Handlers : JobTyped(g)'
      BY <1>1, <1>6, <2>3, <2>4 DEF IInv, TypeOK, JobTyped
    <3>2. pc' \in [Handlers -> Locations] /\ job' \in [Handlers -> Job]
      BY <1>6, <2>3 DEF IInv, TypeOK, Locations, Job
    <3> QED
      BY <1>3, <3>1, <3>2 DEF IInv, TypeOK
  <2>6. Provenance'
    BY <1>6 DEF IInv, TypeOK, Provenance
  <2>7. ClearedToRun'
    BY <1>6, <2>1, <2>2, <2>4 DEF IInv, TypeOK, ClearedToRun
  <2>8. Quiet'
    <3>1. \A g \in Handlers : Saving(g)' <=> Saving(g)
      BY <1>6 DEF IInv, TypeOK, Saving
    <3>2. \A g \in Handlers : pc'[g] = "write" <=> pc[g] = "write"
      BY <1>6 DEF IInv, TypeOK
    <3> QED
      BY <3>1, <3>2 DEF IInv, Quiet
  <2> QED
    BY <1>4, <2>5, <2>6, <2>7, <2>8 DEF IInv
<1> QED
  BY <1>5, <1>6

\* What the runner writes had been let through.
LEMMA RunApplyStep ==
    ASSUME IInv, NEW h \in Handlers, RunApply(h)
    PROVE  IInv'
<1> USE DEF RunApply, store
<1> DEFINE entry == [target |-> job[h].target, preview |-> job[h].preview,
                     decision |-> job[h].decision]
<1>1. /\ job[h] \in ApplyJob /\ job[h].preview \in DOMAIN previews
      /\ previews[job[h].preview] = job[h].target
      /\ job[h].target \in Passing
      /\ job[h].decision \in decided /\ job[h].decision.action \in Approving
      /\ job[h].decision.files = TargetFiles(job[h].target)
  BY DEF IInv, TypeOK, JobTyped, ClearedToRun
<1>2. job[h].target \in Target /\ job[h].preview \in Slots /\ job[h].decision \in Decision
  BY <1>1 DEF ApplyJob, IInv, TypeOK
<1>3. TargetFiles(job[h].target) \in SUBSET Files
  BY <1>2, FilesAssumption DEF Target, TargetFiles
<1>4. applied' \subseteq applied \cup {entry} /\ reported' \subseteq reported \cup {TargetFiles(job[h].target)}
  OBVIOUS
<1>5. TypeOK'
  <2>1. /\ pc' \in [Handlers -> Locations]
        /\ job' \in [Handlers -> Job]
        /\ \A g \in Handlers : JobTyped(g)'
    BY ReturnTyped DEF IInv
  <2>2. applied' \subseteq [target : Target, preview : Slots, decision : Decision]
    BY <1>2, <1>4 DEF IInv, TypeOK
  <2>3. reported' \subseteq SUBSET Files
    BY <1>3, <1>4 DEF IInv, TypeOK
  <2> QED
    BY <2>1, <2>2, <2>3 DEF IInv, TypeOK
<1>6. Provenance' /\ ClearedToRun'
  BY DEF IInv, TypeOK, Provenance, ClearedToRun, Return, Goto
<1>7. AppliedWasCleared'
  BY <1>1, <1>4 DEF IInv, AppliedWasCleared
<1>8. Quiet'
  BY DEF IInv, TypeOK, Quiet, Saving, Return, Goto
<1> QED
  BY <1>5, <1>6, <1>7, <1>8 DEF IInv

\* Every step preserves the inductive invariant.
LEMMA NextIInv == IInv /\ [Next]_vars => IInv'
<1> SUFFICES ASSUME IInv, [Next]_vars PROVE IInv'
  OBVIOUS
<1>1. CASE GenerateDiff
  BY <1>1, GenerateDiffStep
<1>2. CASE Crash
  BY <1>2, CrashStep
<1>3. ASSUME NEW h \in Handlers, Decide(h) PROVE IInv'
  BY <1>3, StartDecideStep, DecideFailsStep, LoadDecisionsStep, OpenDecisionsStep,
     WriteDecisionsStep, AnswerDecisionStep DEF Decide
<1>4. ASSUME NEW h \in Handlers, Apply(h) PROVE IInv'
  BY <1>4, StartApplyStep, LookupStep, RunApplyStep DEF Apply
<1>5. CASE UNCHANGED vars
  <2> USE <1>5 DEF vars
  <2>1. TypeOK'
    BY DEF IInv, TypeOK, JobTyped
  <2>2. Provenance' /\ ClearedToRun'
    BY DEF IInv, Provenance, ClearedToRun
  <2>3. AppliedWasCleared' /\ Quiet'
    BY DEF IInv, AppliedWasCleared, Quiet, Saving
  <2> QED
    BY <2>1, <2>2, <2>3 DEF IInv
<1> QED
  BY <1>1, <1>2, <1>3, <1>4, <1>5 DEF Next

\* IInv holds in every state of every behaviour.
THEOREM IInvHolds == Spec => []IInv
BY InitIInv, NextIInv, PTL DEF Spec

\* Every variable keeps its type; a decision carries only files its request
\* offered, and none when it refuses (ApprovalCenter.normalizeSelectedFiles).
THEOREM TypeCorrect == Spec => []TypeOK
<1>1. IInv => TypeOK
  BY DEF IInv
<1> QED
  BY <1>1, IInvHolds, PTL

\* Whatever is lost, torn, echoed by callers or interleaved, the runner only
\* writes a patch that was previewed, verified and approved with exactly its
\* files (RuntimeApiController.applyRuntimePatch).
THEOREM AppliedCleared == Spec => []AppliedWasCleared
<1>1. IInv => AppliedWasCleared
  BY DEF IInv
<1> QED
  BY <1>1, IInvHolds, PTL

\* A step that lets an apply through goes by the newest decision, if reads and
\* saves of the store did not overlap.
LEMMA LetThroughByNewest ==
    ASSUME IInv, [Next]_vars, NEW h \in Handlers, LetThrough(h), ~disturbed'
    PROVE  standing[job[h].preview] \in {NoDecision, job'[h].decision}
<1> USE DEF LetThrough
<1>1. Lookup(h)
  <2>1. \A g \in Handlers : Decide(g) => pc'[h] = pc[h] \/ pc'[h] # "run"
    BY DEF Decide, StartDecide, DecideFails, LoadDecisions, OpenDecisions, WriteDecisions,
           AnswerDecision, Return, Goto, IInv, TypeOK
  <2>2. \A g \in Handlers : StartApply(g) \/ RunApply(g) => pc'[h] = pc[h] \/ pc'[h] # "run"
    BY DEF StartApply, RunApply, Return, Goto, IInv, TypeOK
  <2>3. \A g \in Handlers : Lookup(g) /\ g # h => pc'[h] = pc[h]
    BY DEF Lookup, Return, Goto, IInv, TypeOK
  <2>4. GenerateDiff \/ Crash \/ UNCHANGED vars => pc'[h] # "run"
    BY DEF GenerateDiff, Crash, vars
  <2> QED
    BY <2>1, <2>2, <2>3, <2>4 DEF Next, Apply
<1>2. doc = standing
  BY <1>1 DEF Lookup, IInv, Quiet
<1>3. /\ previews[job[h].preview] = job[h].target
      /\ job'[h] = [job[h] EXCEPT !.decision = Effective(h)]
  BY <1>1 DEF Lookup, Return, Goto, SandboxPassed, IInv, TypeOK
<1>4. job'[h].decision = Effective(h)
  BY <1>3 DEF IInv, TypeOK, JobTyped, ApplyJob
<1>5. Stored(h) = standing[job[h].preview]
  BY <1>2, <1>3 DEF Stored
<1> QED
  BY <1>4, <1>5 DEF Effective

\* As long as no read of the decision file overlapped a save and no kill
\* interrupted one, a newer refusal always stops an apply
\* (ApprovalDecisionStore.findLatest before the caller's own decision).
THEOREM NewestRules == Spec => NewestDecisionRules
<1>1. IInv /\ [Next]_vars =>
        [\A h \in Handlers : LetThrough(h) /\ ~disturbed' =>
            standing[job[h].preview] \in {NoDecision, job'[h].decision}]_vars
  BY LetThroughByNewest
<1> QED
  BY <1>1, IInvHolds, PTL DEF Spec, NewestDecisionRules
=============================================================================
