-------------------------- MODULE SnapshotsProofs --------------------------
(***************************************************************************)
(* For every number of requests, files and contents, and every request: a  *)
(* snapshot the user was told of can be restored, a restore that goes      *)
(* through it puts back what was read, and a capture beside no other hides *)
(* no change.  All follow from the inductive invariant IInv of Snapshots.  *)
(***************************************************************************)
EXTENDS Snapshots, TLAPS

-----------------------------------------------------------------------------
(* The records of the requests.                                             *)

\* A request's record with one field changed is one.
LEMMA JobUpdates ==
    ASSUME NEW j \in Job
    PROVE  /\ \A x \in Held : [j EXCEPT !.held = x] \in Job
           /\ \A x \in Seq(Files) \cup Seq(Line) : [j EXCEPT !.left = x] \in Job
           /\ \A x \in Seq(Line) : [j EXCEPT !.lines = x] \in Job
           /\ \A x \in [Files -> Held] : [j EXCEPT !.seen = x] \in Job
           /\ \A x \in SUBSET Files : [j EXCEPT !.missing = x] \in Job
           /\ \A x \in SUBSET Files : [j EXCEPT !.changed = x] \in Job
           /\ [j EXCEPT !.alone = FALSE] \in Job
BY DEF Job

\* The record of a request that is not there.
LEMMA IdleJob == NoJob \in Job
BY BoundsAssumption DEF NoJob, Job, Held

\* A request done with its present file.
LEMMA PastJob ==
    ASSUME NEW j \in Job, j.left # <<>>, NEW T, j.left \in Seq(T)
    PROVE  /\ Past(j) \in Job /\ Past(j).left = Tail(j.left) /\ Past(j).left \in Seq(T)
           /\ Past(j).op = j.op /\ Past(j).id = j.id /\ Past(j).lines = j.lines
           /\ Past(j).held = j.held /\ Past(j).alone = j.alone /\ Past(j).seen = j.seen
           /\ Past(j).changed = j.changed /\ Past(j).missing = j.missing
<1>1. Tail(j.left) \in Seq(T) /\ Tail(j.left) \in Seq(Files) \cup Seq(Line)
  BY DEF Job
<1>2. Past(j) \in Job
  BY <1>1, JobUpdates DEF Past
<1> QED
  BY <1>1, <1>2 DEF Past, Job

\* A request that lists its present file.
LEMMA ListedJob ==
    ASSUME NEW j \in Job, j.left # <<>>, j.left \in Seq(Files), NEW existed \in BOOLEAN
    PROVE  /\ Listed(j, existed) \in Job
           /\ Listed(j, existed).left = Tail(j.left) /\ Listed(j, existed).left \in Seq(Files)
           /\ Listed(j, existed).lines = Append(j.lines, [file |-> Head(j.left), existed |-> existed])
           /\ Listed(j, existed).op = j.op /\ Listed(j, existed).id = j.id
           /\ Listed(j, existed).held = j.held
<1>1. Past(j) \in Job /\ Past(j).left = Tail(j.left) /\ Past(j).lines = j.lines
      /\ Past(j).op = j.op /\ Past(j).id = j.id /\ Past(j).left \in Seq(Files) /\ Past(j).held = j.held
  BY PastJob
<1>2. [file |-> Head(j.left), existed |-> existed] \in Line
  BY DEF Line
<1>3. Append(j.lines, [file |-> Head(j.left), existed |-> existed]) \in Seq(Line)
  BY <1>2 DEF Job
<1>4. Listed(j, existed) = [Past(j) EXCEPT !.lines = Append(j.lines, [file |-> Head(j.left), existed |-> existed])]
  BY <1>1 DEF Listed
<1>5. Listed(j, existed) \in Job
  BY <1>1, <1>3, <1>4, JobUpdates
<1> QED
  BY <1>1, <1>4, <1>5 DEF Job

-----------------------------------------------------------------------------
(* The types, and the points of the code.                                   *)

\* A step of one request keeps the types if the record it leaves fits the
\* point it goes to.
LEMMA OwnStep ==
    ASSUME TypeOK, NEW h \in Handlers, NEW p, NEW j,
           pc' = [pc EXCEPT ![h] = p], job' = [job EXCEPT ![h] = j],
           Fits(p, j, calls'), SharedTyped', calls <= calls'
    PROVE  TypeOK'
<1>1. /\ pc' \in [Handlers -> Points] /\ job' \in [Handlers -> Job]
      /\ pc'[h] = p /\ job'[h] = j
      /\ \A g \in Handlers \ {h} : pc'[g] = pc[g] /\ job'[g] = job[g]
  BY DEF TypeOK, Fits
<1>2. ASSUME NEW g \in Handlers PROVE Fits(pc'[g], job'[g], calls')
  <2>1. CASE g = h
    BY <2>1, <1>1
  <2>2. CASE g # h
    <3>1. Fits(pc[g], job[g], calls) /\ calls \in Nat /\ calls' \in Nat
      BY DEF TypeOK, SharedTyped
    <3>2. \A n : n \in 1..calls => n \in 1..calls'
      BY <3>1
    <3> QED
      BY <2>2, <1>1, <3>1, <3>2 DEF Fits
  <2> QED
    BY <2>1, <2>2
<1> QED
  BY <1>1, <1>2 DEF TypeOK

\* A step that leaves what is shared alone, or changes one part of it.
LEMMA SharedKept ==
    ASSUME TypeOK, UNCHANGED <<refused, calls, edits, crashes>>,
           disk' \in [Files -> Held], before' \in [Files -> Held], after' \in [Files -> Held],
           captured' \in [Files -> Held], acknowledged' \in BOOLEAN,
           manifest' \in Manifest, manifest'.id <= calls, newest' = newest
    PROVE  SharedTyped' /\ calls <= calls'
BY DEF TypeOK, SharedTyped

\* What the types say of one request.
LEMMA OwnTyped ==
    ASSUME TypeOK, NEW h \in Handlers
    PROVE  /\ job[h] \in Job /\ pc[h] \in Points
           /\ Fits(pc[h], job[h], calls)
           /\ job[h].id \in Nat /\ job[h].lines \in Seq(Line) /\ job[h].held \in Held
           /\ job[h].op = "create" =>
                job[h].left \in Seq(Files) /\ (job[h].left # <<>> => Now(h) \in Files)
           /\ job[h].op # "create" =>
                /\ job[h].left \in Seq(Line)
                /\ job[h].left # <<>> => Now(h) \in Line /\ Now(h).file \in Files
           /\ job[h].left # <<>> => Target(h) \in Files
<1>1. job[h] \in Job /\ pc[h] \in Points /\ Fits(pc[h], job[h], calls)
  BY DEF TypeOK
<1>2. job[h].op = "create" =>
          job[h].left \in Seq(Files) /\ (job[h].left # <<>> => Now(h) \in Files)
  BY <1>1 DEF Now, Fits
<1>3. job[h].op # "create" =>
          job[h].left \in Seq(Line) /\ (job[h].left # <<>> => Now(h) \in Line)
  BY <1>1 DEF Now, Fits
<1>4. \A l \in Line : l.file \in Files
  BY DEF Line
<1> QED
  BY <1>1, <1>2, <1>3, <1>4 DEF Job, Target

\* The lines of a list are about files.
LEMMA LinesTyped ==
    ASSUME NEW lines \in Seq(Line), NEW k \in DOMAIN lines
    PROVE  lines[k] \in Line /\ lines[k].file \in Files
<1>1. lines[k] \in Line
  OBVIOUS
<1> QED
  BY <1>1 DEF Line

\* What they say of the rest.
LEMMA RestTyped ==
    ASSUME TypeOK
    PROVE  /\ disk \in [Files -> Held] /\ before \in [Files -> Held] /\ after \in [Files -> Held]
           /\ captured \in [Files -> Held] /\ manifest \in Manifest /\ manifest.id <= calls
           /\ acknowledged \in BOOLEAN /\ newest \in Nat /\ calls \in Nat /\ newest <= calls
           /\ pc \in [Handlers -> Points] /\ job \in [Handlers -> Job]
           /\ Torn \in Held /\ Absent \in Held
           /\ \A old, new \in Held : Filled(old, new) \subseteq Held
BY DEF TypeOK, SharedTyped, Held, Filled

\* A request ends, whatever it was.
LEMMA EndTypes ==
    ASSUME TypeOK, NEW h \in Handlers, End(h),
           UNCHANGED <<disk, refused, folder, bounds, newest, captured>>, acknowledged' \in BOOLEAN
    PROVE  TypeOK'
<1>1. Fits("idle", NoJob, calls')
  BY IdleJob DEF NoJob, Fits, Points
<1>2. SharedTyped' /\ calls <= calls'
  BY RestTyped, SharedKept DEF folder, bounds
<1> QED
  BY <1>1, <1>2, OwnStep DEF End, Go

\* The requests that take a snapshot.
LEMMA CreateTypes ==
    ASSUME TypeOK, NEW h \in Handlers, Create(h)
    PROVE  TypeOK'
<1> USE DEF folder, bounds, history, Go
<1>1. /\ job[h] \in Job /\ pc[h] \in Points /\ Fits(pc[h], job[h], calls)
      /\ job[h].lines \in Seq(Line) /\ job[h].held \in Held
      /\ job[h].op = "create" =>
           job[h].left \in Seq(Files) /\ (job[h].left # <<>> => Now(h) \in Files)
  BY OwnTyped
<1>2. /\ disk \in [Files -> Held] /\ before \in [Files -> Held] /\ after \in [Files -> Held]
      /\ captured \in [Files -> Held] /\ manifest \in Manifest /\ manifest.id <= calls
      /\ acknowledged \in BOOLEAN /\ pc \in [Handlers -> Points] /\ job \in [Handlers -> Job]
      /\ Torn \in Held /\ \A old, new \in Held : Filled(old, new) \subseteq Held
  BY RestTyped
<1>3. pc[h] \in {"copy", "fill"} => job[h].left # <<>>
  BY <1>1 DEF Fits
<1>4. CASE CreateBlocked(h)
  BY <1>4, <1>2, EndTypes DEF CreateBlocked
<1>5. CASE ReadTarget(h)
  <2>1. job[h].op = "create" /\ pc[h] = "visit" /\ job[h].left # <<>> /\ Now(h) \in Files
    BY <1>1, <1>5 DEF ReadTarget, Visiting, At
  <2>2. captured' \in [Files -> Held]
    BY <1>2, <1>5, <2>1 DEF ReadTarget
  <2>3. SharedTyped' /\ calls <= calls'
    BY <1>2, <1>5, <2>2, SharedKept DEF ReadTarget
  <2>4. CASE job' = [job EXCEPT ![h].held = disk[Now(h)]] /\ pc' = [pc EXCEPT ![h] = "copy"]
    <3> DEFINE j == [job[h] EXCEPT !.held = disk[Now(h)]]
    <3>1. j \in Job /\ job' = [job EXCEPT ![h] = j]
      BY <1>1, <1>2, <2>1, <2>4, JobUpdates
    <3>2. j.op = "create" /\ j.left = job[h].left /\ j.id = job[h].id
      BY <1>1, <2>1 DEF Job
    <3> HIDE DEF j
    <3>3. Fits("copy", j, calls')
      BY <1>1, <1>5, <2>1, <3>1, <3>2 DEF Fits, Points, ReadTarget
    <3> QED
      BY <2>3, <2>4, <3>1, <3>3, OwnStep
  <2>5. CASE job' = [job EXCEPT ![h] = Listed(@, FALSE)] /\ UNCHANGED pc
    <3> DEFINE j == Listed(job[h], FALSE)
    <3>1. j \in Job /\ j.op = "create" /\ j.id = job[h].id /\ j.left \in Seq(Files)
      BY <1>1, <2>1, ListedJob
    <3>2. job' = [job EXCEPT ![h] = j] /\ pc' = [pc EXCEPT ![h] = "visit"]
      BY <1>2, <2>1, <2>5
    <3> HIDE DEF j
    <3>3. Fits("visit", j, calls')
      BY <1>1, <1>5, <2>1, <3>1 DEF Fits, Points, ReadTarget
    <3> QED
      BY <2>3, <3>2, <3>3, OwnStep
  <2> QED
    BY <1>5, <2>4, <2>5 DEF ReadTarget
<1>6. CASE OpenCopy(h)
  <2>1. job[h].op = "create" /\ pc[h] = "copy" /\ job[h].left # <<>> /\ Now(h) \in Files
    BY <1>1, <1>3, <1>6 DEF OpenCopy, At
  <2>2. before' \in [Files -> Held]
    BY <1>2, <1>6, <2>1 DEF OpenCopy
  <2>3. SharedTyped' /\ calls <= calls'
    BY <1>2, <1>6, <2>2, SharedKept DEF OpenCopy
  <2>4. job' = [job EXCEPT ![h] = job[h]] /\ pc' = [pc EXCEPT ![h] = "fill"]
    BY <1>2, <1>6 DEF OpenCopy
  <2>5. Fits("fill", job[h], calls')
    BY <1>1, <1>6, <2>1 DEF OpenCopy, Fits, Points
  <2> QED
    BY <2>3, <2>4, <2>5, OwnStep
<1>7. CASE FillCopy(h)
  <2> DEFINE j == Listed(job[h], TRUE)
  <2>1. job[h].op = "create" /\ pc[h] = "fill" /\ job[h].left # <<>> /\ Now(h) \in Files
    BY <1>1, <1>3, <1>7 DEF FillCopy, At
  <2>2. before' \in [Files -> Held]
    <3>1. PICK c \in Filled(before[Now(h)], job[h].held) : before' = [before EXCEPT ![Now(h)] = c]
      BY <1>7 DEF FillCopy
    <3>2. c \in Held
      BY <1>1, <1>2, <2>1
    <3> QED
      BY <1>2, <2>1, <3>1, <3>2
  <2>3. SharedTyped' /\ calls <= calls'
    BY <1>2, <1>7, <2>2, SharedKept DEF FillCopy
  <2>4. j \in Job /\ j.op = "create" /\ j.id = job[h].id /\ j.left \in Seq(Files)
    BY <1>1, <2>1, ListedJob
  <2>5. job' = [job EXCEPT ![h] = j] /\ pc' = [pc EXCEPT ![h] = "visit"]
    BY <1>7 DEF FillCopy
  <2> HIDE DEF j
  <2>6. Fits("visit", j, calls')
    BY <1>1, <1>7, <2>1, <2>4 DEF FillCopy, Fits, Points
  <2> QED
    BY <2>3, <2>5, <2>6, OwnStep
<1>8. CASE CopyFails(h)
  <2> DEFINE j == Listed(job[h], FALSE)
  <2>1. job[h].op = "create" /\ pc[h] \in {"copy", "fill"} /\ job[h].left # <<>>
    BY <1>1, <1>3, <1>8 DEF CopyFails, At
  <2>2. SharedTyped' /\ calls <= calls'
    BY <1>2, <1>8, SharedKept DEF CopyFails
  <2>3. j \in Job /\ j.op = "create" /\ j.id = job[h].id /\ j.left \in Seq(Files)
    BY <1>1, <2>1, ListedJob
  <2>4. job' = [job EXCEPT ![h] = j] /\ pc' = [pc EXCEPT ![h] = "visit"]
    BY <1>8 DEF CopyFails
  <2> HIDE DEF j
  <2>5. Fits("visit", j, calls')
    BY <1>1, <1>8, <2>1, <2>3 DEF CopyFails, Fits, Points
  <2> QED
    BY <2>2, <2>4, <2>5, OwnStep
<1>9. CASE OpenManifest(h)
  <2>1. job[h].op = "create" /\ pc[h] = "visit"
    BY <1>9 DEF OpenManifest, Visited, At
  <2>2. manifest' \in Manifest /\ manifest'.id = 0 /\ calls \in Nat
    BY <1>9, RestTyped DEF OpenManifest, Manifest, TornManifest
  <2>3. SharedTyped' /\ calls <= calls'
    BY <1>2, <1>9, <2>2, SharedKept DEF OpenManifest
  <2>4. job' = [job EXCEPT ![h] = job[h]] /\ pc' = [pc EXCEPT ![h] = "manifest"]
    BY <1>2, <1>9 DEF OpenManifest
  <2>5. Fits("manifest", job[h], calls')
    BY <1>1, <1>9, <2>1 DEF OpenManifest, Fits, Points
  <2> QED
    BY <2>3, <2>4, <2>5, OwnStep
<1>10. CASE FillManifest(h)
  <2>1. job[h].op = "create" /\ pc[h] = "manifest" /\ job[h].id \in 1..calls /\ calls \in 0..MaxCalls
    BY <1>1, <1>10 DEF FillManifest, At, Fits, TypeOK, SharedTyped
  <2>2. manifest' \in Manifest /\ manifest'.id <= calls
    <3>1. job[h].id \in 1..MaxCalls
      BY <1>1, <2>1 DEF Job
    <3>2. [id |-> job[h].id, lines |-> job[h].lines] \in Manifest
      BY <1>1, <3>1 DEF Manifest
    <3>3. TornManifest \in Manifest /\ TornManifest.id = 0
      BY DEF Manifest, TornManifest
    <3> QED
      BY <1>1, <2>1, <3>2, <3>3, <1>10 DEF FillManifest
  <2>3. SharedTyped' /\ calls <= calls'
    BY <1>2, <1>10, <2>2, SharedKept DEF FillManifest
  <2>4. job' = [job EXCEPT ![h] = job[h]] /\ pc' = [pc EXCEPT ![h] = "report"]
    BY <1>2, <1>10 DEF FillManifest
  <2>5. Fits("report", job[h], calls')
    BY <1>1, <1>10, <2>1 DEF FillManifest, Fits, Points
  <2> QED
    BY <2>3, <2>4, <2>5, OwnStep
<1>11. CASE CreateReport(h)
  <2>1. acknowledged' \in BOOLEAN
    BY <1>11 DEF CreateReport
  <2> QED
    BY <1>11, <2>1, EndTypes DEF CreateReport
<1> QED
  BY <1>4, <1>5, <1>6, <1>7, <1>8, <1>9, <1>10, <1>11 DEF Create

\* What a request that begins finds.
LEMMA BeginTyped ==
    ASSUME TypeOK, calls < MaxCalls, calls' = calls + 1,
           newest' \in 0..calls', captured' \in [Files -> Held], acknowledged' \in BOOLEAN,
           UNCHANGED <<disk, refused, folder, edits, crashes>>
    PROVE  SharedTyped' /\ calls <= calls'
<1>1. manifest.id \in Nat
  BY DEF TypeOK, SharedTyped, Manifest, NoManifest, TornManifest
<1>2. calls' \in 0..MaxCalls /\ calls <= calls' /\ manifest.id <= calls'
  BY <1>1, BoundsAssumption DEF TypeOK, SharedTyped
<1> QED
  BY <1>2 DEF TypeOK, SharedTyped, folder

\* A request that begins to take a snapshot.
LEMMA BeginCreateTypes ==
    ASSUME TypeOK, NEW h \in Handlers, NEW files \in Requests, BeginCreate(h, files)
    PROVE  TypeOK'
<1> DEFINE j == [NoJob EXCEPT !.op = "create", !.id = calls + 1, !.left = files]
<1>1. /\ pc[h] = "idle" /\ calls < MaxCalls /\ calls' = calls + 1
      /\ job' = [job EXCEPT ![h] = j] /\ pc' = [pc EXCEPT ![h] = "visit"]
      /\ newest' \in {calls + 1, 0}
      /\ captured' = [f \in Files |-> Absent] /\ acknowledged' = FALSE
      /\ UNCHANGED <<disk, refused, folder, edits, crashes>>
  BY DEF BeginCreate, Go
<1>2. files \in Seq(Files) /\ calls \in Nat /\ calls + 1 \in 0..MaxCalls
  BY <1>1, FilesAssumption, BoundsAssumption DEF TypeOK, SharedTyped
<1>3. j \in Job /\ j.op = "create" /\ j.left = files /\ j.id = calls + 1
  <2>1. calls + 1 \in 0..MaxCalls /\ files \in Seq(Files)
    BY <1>2
  <2>3. j \in Job
    BY <2>1, IdleJob DEF Job
  <2>2. j.op = "create" /\ j.left = files /\ j.id = calls + 1
    BY DEF NoJob
  <2> QED
    BY <2>2, <2>3
<1> HIDE DEF j
<1>4. SharedTyped' /\ calls <= calls'
  <2>1. captured' \in [Files -> Held] /\ newest' \in 0..calls'
    BY <1>1, <1>2 DEF Held
  <2> QED
    BY <1>1, <2>1, BeginTyped
<1>5. Fits("visit", j, calls')
  BY <1>1, <1>2, <1>3 DEF Fits, Points
<1> QED
  BY <1>1, <1>4, <1>5, OwnStep

\* A capture or restore that begins tells the others that they are not alone.
LEMMA BeginOnTypes ==
    ASSUME TypeOK, NEW h \in Handlers, NEW op \in {"capture", "restore"}, BeginOn(h, op)
    PROVE  TypeOK'
<1> DEFINE alone == Working(op) = {}
           j == [NoJob EXCEPT !.op = op, !.alone = alone]
<1>1. /\ calls < MaxCalls /\ calls' = calls + 1
      /\ UNCHANGED <<disk, refused, folder, edits, crashes, history>>
      /\ pc' = [pc EXCEPT ![h] = "load"]
      /\ job' = [g \in Handlers |-> IF g = h THEN j
                                   ELSE IF job[g].op = op THEN [job[g] EXCEPT !.alone = FALSE]
                                   ELSE job[g]]
  BY DEF BeginOn, Go
<1>2. alone \in BOOLEAN
  OBVIOUS
<1> HIDE DEF alone
<1>3. j \in Job /\ j.op = op /\ j.left = <<>>
  <2>1. j \in Job
    BY <1>2, IdleJob DEF Job
  <2>2. j.op = op /\ j.left = <<>>
    BY DEF NoJob
  <2> QED
    BY <2>1, <2>2
<1> HIDE DEF j
<1>4. calls \in Nat /\ pc \in [Handlers -> Points] /\ job \in [Handlers -> Job]
  BY RestTyped
<1>5. SharedTyped' /\ calls <= calls'
  <2>1. captured' \in [Files -> Held] /\ newest' \in 0..calls' /\ acknowledged' \in BOOLEAN
    BY <1>1 DEF TypeOK, SharedTyped, history
  <2> QED
    BY <1>1, <2>1, BeginTyped
<1>6. Fits("load", j, calls')
  BY <1>3 DEF Fits, Points
<1>7. ASSUME NEW g \in Handlers, g # h PROVE Fits(pc'[g], job'[g], calls')
  <2>1. Fits(pc[g], job[g], calls) /\ pc'[g] = pc[g] /\ job[g] \in Job
    BY <1>1, <1>4, <1>7 DEF TypeOK
  <2>2. Fits(pc[g], job[g], calls')
    BY <1>1, <1>4, <2>1 DEF Fits
  <2>3. CASE job[g].op = op
    <3> DEFINE k == [job[g] EXCEPT !.alone = FALSE]
    <3>1. k \in Job /\ k.op = job[g].op /\ k.left = job[g].left /\ k.id = job[g].id
      BY <2>1, JobUpdates DEF Job
    <3>2. job'[g] = k
      BY <1>1, <1>7, <2>3
    <3> HIDE DEF k
    <3> QED
      BY <2>1, <2>2, <3>1, <3>2 DEF Fits
  <2>4. CASE job[g].op # op
    BY <1>1, <1>7, <2>1, <2>2, <2>4
  <2> QED
    BY <2>3, <2>4
<1>8. ASSUME NEW g \in Handlers PROVE Fits(pc'[g], job'[g], calls')
  <2>1. pc'[h] = "load" /\ job'[h] = j
    BY <1>1, <1>4
  <2> QED
    BY <1>6, <1>7, <2>1
<1>9. job' \in [Handlers -> Job] /\ pc' \in [Handlers -> Points]
  <2>1. \A g \in Handlers : job'[g] \in Job
    BY <1>8 DEF Fits
  <2>2. DOMAIN job' = Handlers /\ job' = [g \in Handlers |-> job'[g]]
    BY <1>1
  <2>3. pc' \in [Handlers -> Points]
    BY <1>1, <1>4 DEF Points
  <2> QED
    BY <2>1, <2>2, <2>3
<1> QED
  BY <1>5, <1>8, <1>9 DEF TypeOK

\* The requests that work through a snapshot, from the manifest to their end.
LEMMA UseTypes ==
    ASSUME TypeOK, NEW h \in Handlers,
           Load(h) \/ LoadFails(h) \/ Capture(h) \/ Restore(h) \/ Report(h) \/ IOFails(h)
    PROVE  TypeOK'
<1> USE DEF folder, bounds, history, Go
<1>1. /\ job[h] \in Job /\ pc[h] \in Points /\ Fits(pc[h], job[h], calls)
      /\ job[h].held \in Held /\ job[h].op \in {"none", "create", "capture", "restore"}
      /\ job[h].op # "create" =>
            /\ job[h].left \in Seq(Line)
            /\ job[h].left # <<>> => Now(h) \in Line /\ Now(h).file \in Files
      /\ job[h].left # <<>> => Target(h) \in Files
  BY OwnTyped DEF Job
<1>2. /\ disk \in [Files -> Held] /\ before \in [Files -> Held] /\ after \in [Files -> Held]
      /\ captured \in [Files -> Held] /\ manifest \in Manifest /\ manifest.id <= calls
      /\ acknowledged \in BOOLEAN /\ pc \in [Handlers -> Points] /\ job \in [Handlers -> Job]
      /\ Torn \in Held /\ Absent \in Held /\ \A old, new \in Held : Filled(old, new) \subseteq Held
  BY RestTyped
<1>3. pc[h] \in {"copy", "fill", "compare"} => job[h].left # <<>>
  BY <1>1 DEF Fits
<1>4. job[h].seen \in [Files -> Held] /\ job[h].missing \subseteq Files /\ job[h].changed \subseteq Files
  BY <1>1 DEF Job
\* a step that leaves the shared state alone but for one typed part
<1>5. ASSUME NEW p \in Points, NEW j \in Job,
             p # "idle" /\ p # "load" /\ p \notin {"manifest", "report"},
             pc' = [pc EXCEPT ![h] = p], job' = [job EXCEPT ![h] = j],
             pc[h] \notin {"idle", "load"}, job[h].op # "create", j.op = job[h].op,
             j.id = job[h].id, j.left \in Seq(Line),
             p \in {"copy", "fill", "compare"} => j.left # <<>>,
             p = "compare" => j.op = "capture",
             disk' \in [Files -> Held], after' \in [Files -> Held],
             UNCHANGED <<refused, before, manifest, bounds, history>>
      PROVE  TypeOK'
  <2>1. SharedTyped' /\ calls <= calls'
    BY <1>2, <1>5, SharedKept
  <2>2. Fits(p, j, calls')
    BY <1>1, <1>5 DEF Fits
  <2> QED
    BY <1>5, <2>1, <2>2, OwnStep
<1>6. CASE Load(h)
  <2> DEFINE j == [job[h] EXCEPT !.id = manifest.id, !.left = manifest.lines, !.lines = manifest.lines]
  <2>1. manifest \in [id : 1..MaxCalls, lines : Seq(Line)] /\ manifest.id \in 1..calls
    <3>1. manifest \in [id : 1..MaxCalls, lines : Seq(Line)]
      BY <1>2, <1>6 DEF Load, Whole, Manifest
    <3> QED
      BY <3>1, <1>2, RestTyped
  <2>2. job[h].op \in {"capture", "restore"}
    BY <1>1, <1>6 DEF Load, Fits
  <2>3. j \in Job /\ j.op = job[h].op /\ j.id = manifest.id /\ j.left = manifest.lines
    <3>1. manifest.id \in 0..MaxCalls /\ manifest.lines \in Seq(Line)
      BY <2>1
    <3> QED
      BY <1>1, <3>1 DEF Job
  <2>4. job' = [job EXCEPT ![h] = j] /\ pc' = [pc EXCEPT ![h] = "visit"]
    BY <1>6 DEF Load
  <2> HIDE DEF j
  <2>5. SharedTyped' /\ calls <= calls'
    BY <1>2, <1>6, SharedKept DEF Load
  <2>6. Fits("visit", j, calls')
    BY <1>6, <2>1, <2>2, <2>3 DEF Load, Fits, Points
  <2> QED
    BY <2>4, <2>5, <2>6, OwnStep
<1>7. CASE LoadFails(h) \/ Report(h) \/ IOFails(h)
  BY <1>2, <1>7, EndTypes DEF LoadFails, Report, IOFails
<1>8. CASE ReadCurrent(h)
  <2>1. job[h].op = "capture" /\ pc[h] = "visit" /\ job[h].left # <<>>
    BY <1>8 DEF ReadCurrent, Visiting, At
  <2>2. CASE job' = [job EXCEPT ![h].held = disk[Target(h)], ![h].seen[Target(h)] = disk[Target(h)]]
             /\ pc' = [pc EXCEPT ![h] = "copy"]
    <3> DEFINE k == [job[h] EXCEPT !.held = disk[Target(h)]]
               s == [job[h].seen EXCEPT ![Target(h)] = disk[Target(h)]]
               j == [k EXCEPT !.seen = s]
    <3>1. k \in Job /\ s \in [Files -> Held]
      BY <1>1, <1>2, <1>4, <2>1, JobUpdates
    <3>2. j \in Job
      BY <3>1, JobUpdates
    <3>3. j.op = job[h].op /\ j.id = job[h].id /\ j.left = job[h].left
      BY <1>1, <3>1 DEF Job
    <3>4. job' = [job EXCEPT ![h] = j]
      BY <1>1, <1>2, <2>2 DEF Job
    <3> HIDE DEF j
    <3> QED
      BY <1>1, <1>2, <1>5, <1>8, <2>1, <2>2, <3>2, <3>3, <3>4 DEF ReadCurrent, Points
  <2>3. CASE job' = [job EXCEPT ![h].missing = @ \cup {Target(h)}] /\ pc' = [pc EXCEPT ![h] = "compare"]
    <3> DEFINE j == [job[h] EXCEPT !.missing = job[h].missing \cup {Target(h)}]
    <3>1. j \in Job
      BY <1>1, <1>4, <2>1, JobUpdates
    <3>2. j.op = job[h].op /\ j.id = job[h].id /\ j.left = job[h].left
      BY <1>1 DEF Job
    <3>3. job' = [job EXCEPT ![h] = j]
      BY <2>3
    <3> HIDE DEF j
    <3> QED
      BY <1>1, <1>2, <1>5, <1>8, <2>1, <2>3, <3>1, <3>2, <3>3 DEF ReadCurrent, Points
  <2> QED
    BY <1>8, <2>2, <2>3 DEF ReadCurrent
<1>9. CASE OpenAfter(h)
  <2>1. job[h].op = "capture" /\ pc[h] = "copy" /\ job[h].left # <<>>
    BY <1>3, <1>9 DEF OpenAfter, At
  <2>2. after' \in [Files -> Held]
    BY <1>1, <1>2, <1>9, <2>1 DEF OpenAfter
  <2>3. job' = [job EXCEPT ![h] = job[h]]
    BY <1>2, <1>9 DEF OpenAfter
  <2> QED
    BY <1>1, <1>2, <1>5, <1>9, <2>1, <2>2, <2>3 DEF OpenAfter, Points
<1>10. CASE FillAfter(h)
  <2>1. job[h].op = "capture" /\ pc[h] = "fill" /\ job[h].left # <<>>
    BY <1>3, <1>10 DEF FillAfter, At
  <2>2. after' \in [Files -> Held]
    <3>1. PICK c \in Filled(after[Target(h)], job[h].held) : after' = [after EXCEPT ![Target(h)] = c]
      BY <1>10 DEF FillAfter
    <3>2. c \in Held
      BY <1>1, <1>2, <2>1
    <3> QED
      BY <1>2, <3>1, <3>2
  <2>3. job' = [job EXCEPT ![h] = job[h]]
    BY <1>2, <1>10 DEF FillAfter
  <2> QED
    BY <1>1, <1>2, <1>5, <1>10, <2>1, <2>2, <2>3 DEF FillAfter, Points
<1>11. CASE AfterFails(h)
  <2> DEFINE j == [job[h] EXCEPT !.missing = job[h].missing \cup {Target(h)}]
  <2>1. job[h].op = "capture" /\ pc[h] \in {"copy", "fill"} /\ job[h].left # <<>>
    BY <1>3, <1>11 DEF AfterFails, At
  <2>2. j \in Job
    BY <1>1, <1>4, <2>1, JobUpdates
  <2>3. j.op = job[h].op /\ j.id = job[h].id /\ j.left = job[h].left
    BY <1>1 DEF Job
  <2>4. job' = [job EXCEPT ![h] = j]
    BY <1>11 DEF AfterFails
  <2> HIDE DEF j
  <2> QED
    BY <1>1, <1>2, <1>5, <1>11, <2>1, <2>2, <2>3, <2>4 DEF AfterFails, Points
<1>12. CASE Compare(h)
  <2> DEFINE c == IF FileChanged(Now(h)) THEN Past(job[h]).changed \cup {Target(h)}
                                         ELSE Past(job[h]).changed
             j == [Past(job[h]) EXCEPT !.changed = c]
  <2>1. job[h].op = "capture" /\ pc[h] = "compare" /\ job[h].left # <<>>
    BY <1>3, <1>12 DEF Compare, At
  <2>2. Past(job[h]) \in Job /\ Past(job[h]).op = job[h].op /\ Past(job[h]).id = job[h].id
        /\ Past(job[h]).left \in Seq(Line) /\ Past(job[h]).changed = job[h].changed
    BY <1>1, <2>1, PastJob
  <2>3. c \subseteq Files
    BY <1>1, <1>4, <2>1, <2>2
  <2>4. job' = [job EXCEPT ![h] = j]
    BY <1>12 DEF Compare
  <2> HIDE DEF c
  <2>5. j \in Job
    BY <2>2, <2>3, JobUpdates
  <2>6. j.op = job[h].op /\ j.id = job[h].id /\ j.left \in Seq(Line)
    BY <2>2 DEF Job
  <2> HIDE DEF j
  <2> QED
    BY <1>1, <1>2, <1>5, <1>12, <2>1, <2>4, <2>5, <2>6 DEF Compare, Points
<1>13. CASE Delete(h)
  <2> DEFINE s == [Past(job[h]).seen EXCEPT ![Target(h)] = Absent]
             j == [Past(job[h]) EXCEPT !.seen = s]
  <2>1. job[h].op = "restore" /\ pc[h] = "visit" /\ job[h].left # <<>>
    BY <1>13 DEF Delete, Restores, Visiting, At
  <2>2. Past(job[h]) \in Job /\ Past(job[h]).op = job[h].op /\ Past(job[h]).id = job[h].id
        /\ Past(job[h]).left \in Seq(Line) /\ Past(job[h]).seen = job[h].seen
    BY <1>1, <2>1, PastJob
  <2>3. s \in [Files -> Held] /\ disk' \in [Files -> Held]
    BY <1>1, <1>2, <1>4, <1>13, <2>1, <2>2 DEF Delete
  <2>4. job' = [job EXCEPT ![h] = j] /\ pc' = [pc EXCEPT ![h] = "visit"]
    BY <1>2, <1>13, <2>1 DEF Delete
  <2> HIDE DEF s
  <2>5. j \in Job
    BY <2>2, <2>3, JobUpdates
  <2>6. j.op = job[h].op /\ j.id = job[h].id /\ j.left \in Seq(Line)
    BY <2>2 DEF Job
  <2> HIDE DEF j
  <2> QED
    BY <1>1, <1>2, <1>5, <1>13, <2>1, <2>3, <2>4, <2>5, <2>6 DEF Delete, Points
<1>14. CASE ReadCopy(h)
  <2> DEFINE j == [job[h] EXCEPT !.held = before[Target(h)]]
  <2>1. job[h].op = "restore" /\ pc[h] = "visit" /\ job[h].left # <<>>
    BY <1>14 DEF ReadCopy, Restores, Visiting, At
  <2>2. j \in Job
    BY <1>1, <1>2, <2>1, JobUpdates
  <2>3. j.op = job[h].op /\ j.id = job[h].id /\ j.left = job[h].left
    BY <1>1 DEF Job
  <2>4. job' = [job EXCEPT ![h] = j]
    BY <1>14 DEF ReadCopy
  <2> HIDE DEF j
  <2> QED
    BY <1>1, <1>2, <1>5, <1>14, <2>1, <2>2, <2>3, <2>4 DEF ReadCopy, Points
<1>15. CASE OpenTarget(h)
  <2>1. job[h].op = "restore" /\ pc[h] = "copy" /\ job[h].left # <<>>
    BY <1>3, <1>15 DEF OpenTarget, At
  <2>2. disk' \in [Files -> Held]
    BY <1>1, <1>2, <1>15, <2>1 DEF OpenTarget
  <2>3. job' = [job EXCEPT ![h] = job[h]]
    BY <1>2, <1>15 DEF OpenTarget
  <2> QED
    BY <1>1, <1>2, <1>5, <1>15, <2>1, <2>2, <2>3 DEF OpenTarget, Points
<1>16. CASE FillTarget(h)
  <2> DEFINE s == [Past(job[h]).seen EXCEPT ![Target(h)] = job[h].held]
             j == [Past(job[h]) EXCEPT !.seen = s]
  <2>1. job[h].op = "restore" /\ pc[h] = "fill" /\ job[h].left # <<>>
    BY <1>3, <1>16 DEF FillTarget, At
  <2>2. Past(job[h]) \in Job /\ Past(job[h]).op = job[h].op /\ Past(job[h]).id = job[h].id
        /\ Past(job[h]).left \in Seq(Line) /\ Past(job[h]).seen = job[h].seen
    BY <1>1, <2>1, PastJob
  <2>3. disk' \in [Files -> Held]
    <3>1. PICK c \in Filled(disk[Target(h)], job[h].held) : disk' = [disk EXCEPT ![Target(h)] = c]
      BY <1>16 DEF FillTarget
    <3>2. c \in Held
      BY <1>1, <1>2, <2>1
    <3> QED
      BY <1>2, <3>1, <3>2
  <2>4. s \in [Files -> Held]
    BY <1>1, <1>4, <2>1, <2>2
  <2>5. job' = [job EXCEPT ![h] = j] /\ pc' = [pc EXCEPT ![h] = "visit"]
    BY <1>16 DEF FillTarget
  <2> HIDE DEF s
  <2>6. j \in Job
    BY <2>2, <2>4, JobUpdates
  <2>7. j.op = job[h].op /\ j.id = job[h].id /\ j.left \in Seq(Line)
    BY <2>2 DEF Job
  <2> HIDE DEF j
  <2> QED
    BY <1>1, <1>2, <1>5, <1>16, <2>1, <2>3, <2>5, <2>6, <2>7 DEF FillTarget, Points
<1>17. CASE RestoreFails(h)
  <2> DEFINE m == Past(job[h]).missing \cup {Target(h)}
             j == [Past(job[h]) EXCEPT !.missing = m]
  <2>1. job[h].op = "restore" /\ pc[h] \in {"visit", "copy", "fill"} /\ job[h].left # <<>>
    BY <1>3, <1>17 DEF RestoreFails, Visiting, At
  <2>2. Past(job[h]) \in Job /\ Past(job[h]).op = job[h].op /\ Past(job[h]).id = job[h].id
        /\ Past(job[h]).left \in Seq(Line) /\ Past(job[h]).missing = job[h].missing
    BY <1>1, <2>1, PastJob
  <2>3. m \subseteq Files
    BY <1>1, <1>4, <2>1, <2>2
  <2>4. job' = [job EXCEPT ![h] = j] /\ pc' = [pc EXCEPT ![h] = "visit"]
    BY <1>17 DEF RestoreFails
  <2> HIDE DEF m
  <2>5. j \in Job
    BY <2>2, <2>3, JobUpdates
  <2>6. j.op = job[h].op /\ j.id = job[h].id /\ j.left \in Seq(Line)
    BY <2>2 DEF Job
  <2> HIDE DEF j
  <2> QED
    BY <1>1, <1>2, <1>5, <1>17, <2>1, <2>4, <2>5, <2>6 DEF RestoreFails, Points
<1> QED
  BY <1>6, <1>7, <1>8, <1>9, <1>10, <1>11, <1>12, <1>13, <1>14, <1>15, <1>16, <1>17
  DEF Capture, Restore

\* The rest of the world, and the end of the server.
LEMMA WorldTypes ==
    ASSUME TypeOK,
           \/ \E f \in Files, c \in Contents \cup {Absent} : Edit(f, c)
           \/ \E f \in Files : PathBecomesLink(f)
           \/ Crash
    PROVE  TypeOK'
<1> USE DEF folder, history
<1>1. CASE \E f \in Files, c \in Contents \cup {Absent} : Edit(f, c)
  <2> PICK f \in Files, c \in Contents \cup {Absent} : Edit(f, c)
    BY <1>1
  <2>1. disk' \in [Files -> Held] /\ edits' \in 0..MaxEdits
    BY BoundsAssumption DEF Edit, TypeOK, SharedTyped, Held
  <2> QED
    BY <2>1 DEF Edit, TypeOK, SharedTyped
<1>2. CASE \E f \in Files : PathBecomesLink(f)
  <2>1. refused' \subseteq Files /\ edits' \in 0..MaxEdits
    BY <1>2, BoundsAssumption DEF PathBecomesLink, TypeOK, SharedTyped
  <2> QED
    BY <1>2, <2>1 DEF PathBecomesLink, TypeOK, SharedTyped
<1>3. CASE Crash
  <2>1. crashes' \in 0..MaxCrashes
    BY <1>3, BoundsAssumption DEF Crash, TypeOK, SharedTyped
  <2>2. Fits("idle", NoJob, calls)
    BY IdleJob DEF NoJob, Fits, Points
  <2>3. pc' \in [Handlers -> Points] /\ job' \in [Handlers -> Job]
    BY <1>3, <2>2 DEF Crash, Fits
  <2> QED
    BY <1>3, <2>1, <2>2, <2>3 DEF Crash, TypeOK, SharedTyped
<1> QED
  BY <1>1, <1>2, <1>3

\* Every step keeps the types.
LEMMA NextTypes == TypeOK /\ [Next]_vars => TypeOK'
<1> SUFFICES ASSUME TypeOK, [Next]_vars PROVE TypeOK'
  OBVIOUS
<1>1. CASE Next
  BY <1>1, BeginCreateTypes, BeginOnTypes, CreateTypes, UseTypes, WorldTypes DEF Next, Proceed
<1>2. CASE UNCHANGED vars
  BY <1>2 DEF vars, folder, bounds, history, TypeOK, SharedTyped
<1> QED
  BY <1>1, <1>2

\* They hold at the start.
LEMMA InitTypes == Init => TypeOK
<1> SUFFICES ASSUME Init PROVE TypeOK
  OBVIOUS
<1>1. SharedTyped
  <2>1. [f \in Files |-> Absent] \in [Files -> Held] /\ disk \in [Files -> Held]
    BY DEF Init, Held
  <2>2. NoManifest \in Manifest /\ NoManifest.id = 0
    BY DEF Manifest, NoManifest
  <2>3. before \in [Files -> Held] /\ after \in [Files -> Held] /\ captured \in [Files -> Held]
    BY <2>1 DEF Init
  <2>4. manifest \in Manifest /\ refused = {} /\ acknowledged \in BOOLEAN
    BY <2>2 DEF Init
  <2>5. manifest.id <= calls
    <3>1. manifest.id = 0 /\ calls = 0
      BY <2>2 DEF Init
    <3> QED
      BY <3>1
  <2>6. calls \in 0..MaxCalls /\ edits \in 0..MaxEdits /\ crashes \in 0..MaxCrashes /\ newest \in 0..calls
    BY BoundsAssumption DEF Init
  <2> QED
    BY <2>1, <2>3, <2>4, <2>5, <2>6 DEF SharedTyped
<1>2. Fits("idle", NoJob, calls)
  BY IdleJob DEF NoJob, Fits, Points
<1> QED
  BY <1>1, <1>2, IdleJob DEF Init, TypeOK, Points

\* The variables hold what the code can put there, and no request stands where
\* the code it runs does not go.
THEOREM TypeCorrect == Spec => []TypeOK
BY InitTypes, NextTypes, PTL DEF Spec

-----------------------------------------------------------------------------
(* The snapshot that is taken, and its manifest.                            *)

\* Steps that leave the copies, the manifest and the requests that take
\* snapshots alone, or end one of these.
LEMMA FolderKept ==
    ASSUME IInv, UNCHANGED <<before, manifest, newest, captured, acknowledged>>,
           \A g \in Handlers : job'[g].op = "create" => job'[g] = job[g] /\ pc'[g] = pc[g]
    PROVE  NewestInv' /\ CreateInv' /\ ManifestInv'
<1>1. \A g \in Working("create")' : g \in Working("create") /\ job'[g] = job[g] /\ pc'[g] = pc[g]
  BY DEF Working
<1>2. NewestInv'
  BY <1>1 DEF IInv, NewestInv
<1>3. ManifestInv'
  BY DEF IInv, ManifestInv, Describes, FilesDiffer
<1>4. CreateInv'
  <2> SUFFICES ASSUME NEW h \in Working("create")', newest # 0
               PROVE  Creating(h)'
    BY DEF CreateInv
  <2> QED
    BY <1>1 DEF IInv, CreateInv, Creating, Describes, FilesDiffer, Now, IsInjective
<1> QED
  BY <1>2, <1>3, <1>4

\* While the newest snapshot is taken, the request that takes it is the only
\* one that may write the folder.
LEMMA OnlyCreator ==
    ASSUME IInv, NEW h \in Handlers, job[h].op = "create", newest # 0
    PROVE  /\ job[h].id = newest /\ Creating(h) /\ ~acknowledged
           /\ \A g \in Handlers : job[g].op = "create" => g = h
<1>1. h \in Working("create")
  BY DEF Working
<1>2. \A g \in Handlers : job[g].op = "create" => g \in Working("create")
  BY DEF Working
<1>3. job[h].id = newest /\ \A g \in Working("create") : g = h
  BY <1>1 DEF IInv, NewestInv
<1>4. Creating(h)
  BY <1>1 DEF IInv, CreateInv
<1>5. ~acknowledged
  BY <1>1 DEF IInv, NewestInv
<1> QED
  BY <1>2, <1>3, <1>4, <1>5

\* A step of the request that takes the newest snapshot, before its manifest
\* is there.
LEMMA CreatorStep ==
    ASSUME IInv, NEW h \in Handlers, job[h].op = "create", pc[h] # "report",
           UNCHANGED <<newest, acknowledged>>,
           job'[h].op = "create", job'[h].id = job[h].id,
           \A g \in Handlers \ {h} : job'[g] = job[g] /\ pc'[g] = pc[g],
           newest # 0 => Creating(h)' /\ (pc'[h] # "report" => manifest'.id # newest)
    PROVE  NewestInv' /\ CreateInv' /\ (pc'[h] # "report" => ManifestInv')
<1>1. \A g \in Handlers : job'[g].op = "create" => job[g].op = "create"
  OBVIOUS
<1>2. newest # 0 => \A g \in Working("create")' : g = h
  BY <1>1, OnlyCreator DEF Working
<1>3. newest # 0 => job'[h].id = newest
  BY OnlyCreator
<1>4. h \in Working("create")
  BY DEF Working
<1>5. ~acknowledged
  BY <1>4 DEF IInv, NewestInv
<1>6. NewestInv'
  BY <1>2, <1>3, <1>5 DEF NewestInv
<1>7. CreateInv'
  BY <1>2 DEF CreateInv
<1>8. pc'[h] # "report" => ManifestInv'
  BY DEF ManifestInv
<1> QED
  BY <1>6, <1>7, <1>8

\* One more line: what it says of its file holds, and the lines before it are
\* about other files.
LEMMA OneMoreLine ==
    ASSUME IInv, NEW h \in Handlers, job[h].op = "create", job[h].left # <<>>,
           Creating(h), NEW existed \in BOOLEAN, job'[h] = Listed(job[h], existed),
           \A f \in Files \ {Now(h)} : before'[f] = before[f] /\ captured'[f] = captured[f],
           Now(h) \notin Faulty =>
               /\ existed <=> captured'[Now(h)] # Absent
               /\ existed => before'[Now(h)] = captured'[Now(h)]
    PROVE  /\ Describes(job[h].lines)' /\ FilesDiffer(job[h].lines)'
           /\ IsInjective(job[h].left)'
           /\ (\A i \in DOMAIN job[h].left, k \in DOMAIN job[h].lines :
                   job[h].lines[k].file # job[h].left[i])'
<1> DEFINE n == Now(h)
           l == [file |-> n, existed |-> existed]
           lines == job[h].lines
           left == job[h].left
<1>1. /\ job[h] \in Job /\ lines \in Seq(Line) /\ left \in Seq(Files) /\ n \in Files
  BY OwnTyped DEF IInv
<1>2. job'[h].left = Tail(left) /\ job'[h].lines = Append(lines, l)
  BY <1>1, ListedJob DEF Now
<1>3. n = left[1] /\ 1 \in DOMAIN left /\ l \in Line
  BY <1>1 DEF Now, Line
<1>4. \A i \in DOMAIN Tail(left) : i + 1 \in DOMAIN left /\ Tail(left)[i] = left[i + 1] /\ i + 1 # 1
                                    /\ i \in Nat
  BY <1>1, <1>3
<1>5. \A i, k \in DOMAIN left : left[i] = left[k] => i = k
  BY DEF Creating, IsInjective
<1>6. \A k \in DOMAIN lines : lines[k].file # n /\ lines[k].file \in Files /\ lines[k] \in Line
  <2> TAKE k \in DOMAIN lines
  <2>1. lines[k] \in Line
    BY <1>1
  <2>2. lines[k].file # n
    BY <1>3 DEF Creating
  <2> QED
    BY <2>1, <2>2 DEF Line
<1>7. /\ DOMAIN Append(lines, l) = 1..(Len(lines) + 1)
      /\ Append(lines, l)[Len(lines) + 1] = l
      /\ \A k \in DOMAIN lines : Append(lines, l)[k] = lines[k]
      /\ \A k \in 1..(Len(lines) + 1) : k # Len(lines) + 1 => k \in DOMAIN lines
      /\ Len(lines) \in Nat
  BY <1>1, <1>3
<1> HIDE DEF l, lines, left, n
<1>8. l.file = n /\ l.existed = existed
  BY DEF l
<1>9. Describes(job[h].lines)'
  <2> SUFFICES ASSUME NEW k \in 1..(Len(lines) + 1), Append(lines, l)[k].file \notin Faulty
               PROVE  /\ Append(lines, l)[k].existed <=> captured'[Append(lines, l)[k].file] # Absent
                      /\ Append(lines, l)[k].existed =>
                            before'[Append(lines, l)[k].file] = captured'[Append(lines, l)[k].file]
    BY <1>2, <1>7 DEF Describes
  <2>1. CASE k = Len(lines) + 1
    BY <2>1, <1>7, <1>8 DEF n
  <2>2. CASE k # Len(lines) + 1
    <3>1. k \in DOMAIN lines /\ Append(lines, l)[k] = lines[k]
      BY <2>2, <1>7
    <3>2. lines[k].file # n /\ lines[k].file \in Files
      BY <3>1, <1>6
    <3>3. /\ lines[k].existed <=> captured[lines[k].file] # Absent
          /\ lines[k].existed => before[lines[k].file] = captured[lines[k].file]
      BY <3>1 DEF Creating, Describes, lines
    <3> QED
      BY <3>1, <3>2, <3>3 DEF n
  <2> QED
    BY <2>1, <2>2
<1>10. FilesDiffer(job[h].lines)'
  <2> SUFFICES ASSUME NEW i \in 1..(Len(lines) + 1), NEW k \in 1..(Len(lines) + 1),
                      Append(lines, l)[i].file = Append(lines, l)[k].file
               PROVE  i = k
    BY <1>2, <1>7 DEF FilesDiffer
  <2>1. i \in DOMAIN lines /\ k \in DOMAIN lines => i = k
    BY <1>7 DEF Creating, FilesDiffer, lines
  <2> QED
    BY <2>1, <1>6, <1>7, <1>8
<1>11. IsInjective(job[h].left)'
  BY <1>2, <1>4, <1>5 DEF IsInjective
<1>12. (\A i \in DOMAIN job[h].left, k \in DOMAIN job[h].lines :
            job[h].lines[k].file # job[h].left[i])'
  <2> SUFFICES ASSUME NEW i \in DOMAIN Tail(left), NEW k \in 1..(Len(lines) + 1)
               PROVE  Append(lines, l)[k].file # Tail(left)[i]
    BY <1>2, <1>7
  <2>1. Tail(left)[i] = left[i + 1] /\ i + 1 \in DOMAIN left /\ left[i + 1] # n
    BY <1>3, <1>4, <1>5
  <2>2. k \in DOMAIN lines => lines[k].file # left[i + 1]
    BY <2>1 DEF Creating, lines, left
  <2> QED
    BY <2>1, <2>2, <1>7, <1>8
<1> QED
  BY <1>9, <1>10, <1>11, <1>12

\* The steps of a request that takes a snapshot.
LEMMA CreateFolder ==
    ASSUME IInv, NEW h \in Handlers, Create(h)
    PROVE  NewestInv' /\ CreateInv' /\ ManifestInv'
<1> USE DEF folder, bounds, history, Go
<1>1. /\ job[h] \in Job /\ job[h].held \in Held /\ job[h].lines \in Seq(Line)
      /\ Fits(pc[h], job[h], calls) /\ job[h].id \in Nat
      /\ job[h].op = "create" =>
           job[h].left \in Seq(Files) /\ (job[h].left # <<>> => Now(h) \in Files)
  BY OwnTyped DEF IInv
<1>2. /\ pc \in [Handlers -> Points] /\ job \in [Handlers -> Job]
      /\ before \in [Files -> Held] /\ captured \in [Files -> Held] /\ manifest \in Manifest
  BY RestTyped DEF IInv
<1>3. pc[h] \in {"copy", "fill"} => job[h].left # <<>>
  BY <1>1 DEF Fits
<1>4. newest # 0 /\ job[h].op = "create" => job[h].id = newest /\ Creating(h)
  BY OnlyCreator
<1>5. CASE CreateBlocked(h)
  <2>1. NoJob.op = "none" /\ job' = [job EXCEPT ![h] = NoJob] /\ pc' = [pc EXCEPT ![h] = "idle"]
    BY <1>5 DEF CreateBlocked, End, NoJob
  <2>2. \A g \in Handlers : job'[g].op = "create" => job'[g] = job[g] /\ pc'[g] = pc[g]
    BY <1>2, <2>1
  <2> QED
    BY <1>5, <2>2, FolderKept DEF CreateBlocked
<1>6. CASE ReadTarget(h)
  <2>1. job[h].op = "create" /\ pc[h] = "visit" /\ job[h].left # <<>> /\ Now(h) \in Files
    BY <1>1, <1>6 DEF ReadTarget, Visiting, At
  <2>2. newest # 0 => captured' = [captured EXCEPT ![Now(h)] = disk[Now(h)]]
    BY <1>4, <1>6, <2>1 DEF ReadTarget
  <2>3. CASE disk[Now(h)] # Absent /\ job' = [job EXCEPT ![h].held = disk[Now(h)]]
             /\ pc' = [pc EXCEPT ![h] = "copy"]
    <3>1. /\ job'[h].op = "create" /\ job'[h].id = job[h].id /\ job'[h].left = job[h].left
          /\ job'[h].lines = job[h].lines /\ job'[h].held = disk[Now(h)] /\ pc'[h] = "copy"
          /\ \A g \in Handlers \ {h} : job'[g] = job[g] /\ pc'[g] = pc[g]
      BY <1>1, <1>2, <2>1, <2>3 DEF Job
    <3>2. ASSUME newest # 0 PROVE Creating(h)'
      <4>1. \A k \in DOMAIN job[h].lines : job[h].lines[k].file # Now(h)
        BY <1>1, <1>4, <2>1, <3>2 DEF Creating, Now
      <4>2. \A k \in DOMAIN job[h].lines : job[h].lines[k].file \in Files
        BY <1>1, LinesTyped
      <4>3. Describes(job[h].lines)'
        BY <1>2, <1>4, <1>6, <2>1, <2>2, <3>1, <3>2, <4>1, <4>2
        DEF ReadTarget, Creating, Describes
      <4>4. Now(h)' = Now(h) /\ job'[h].held = captured'[Now(h)]
        BY <1>2, <2>1, <2>2, <3>1, <3>2 DEF Now
      <4> QED
        BY <1>4, <1>6, <2>1, <2>3, <3>1, <3>2, <4>3, <4>4
        DEF ReadTarget, Creating, FilesDiffer, IsInjective
    <3>3. newest # 0 => manifest'.id # newest
      BY <1>4, <1>6, <2>1 DEF ReadTarget, Creating
    <3> QED
      BY <1>6, <2>1, <3>1, <3>2, <3>3, CreatorStep DEF ReadTarget
  <2>4. CASE (disk[Now(h)] = Absent \/ Now(h) \in Faulty)
             /\ job' = [job EXCEPT ![h] = Listed(@, FALSE)] /\ UNCHANGED pc
    <3>1. /\ job'[h] = Listed(job[h], FALSE) /\ pc'[h] = "visit"
          /\ \A g \in Handlers \ {h} : job'[g] = job[g] /\ pc'[g] = pc[g]
      BY <1>2, <2>1, <2>4
    <3>2. job'[h].op = "create" /\ job'[h].id = job[h].id
      BY <1>1, <2>1, <3>1, ListedJob
    <3>3. ASSUME newest # 0 PROVE Creating(h)'
      <4>1. \A f \in Files \ {Now(h)} : before'[f] = before[f] /\ captured'[f] = captured[f]
        BY <1>2, <1>6, <2>1, <2>2, <3>3 DEF ReadTarget
      <4>2. Now(h) \notin Faulty => captured'[Now(h)] = Absent
        BY <1>2, <2>1, <2>2, <2>4, <3>3
      <4>3. manifest' = manifest /\ newest' = newest /\ manifest.id # newest
        BY <1>4, <1>6, <2>1, <3>3 DEF ReadTarget, Creating
      <4>4. FALSE \in BOOLEAN /\ Creating(h)
        BY <1>4, <2>1, <3>3
      <4> QED
        BY <2>1, <3>1, <4>1, <4>2, <4>3, <4>4, OneMoreLine DEF Creating
    <3>4. newest # 0 => manifest'.id # newest
      BY <1>4, <1>6, <2>1 DEF ReadTarget, Creating
    <3> QED
      BY <1>6, <2>1, <3>1, <3>2, <3>3, <3>4, CreatorStep DEF ReadTarget
  <2> QED
    BY <1>6, <2>3, <2>4 DEF ReadTarget
<1>7. CASE OpenCopy(h)
  <2>1. job[h].op = "create" /\ pc[h] = "copy" /\ job[h].left # <<>> /\ Now(h) \in Files
    BY <1>1, <1>3, <1>7 DEF OpenCopy, At
  <2>2. /\ before' = [before EXCEPT ![Now(h)] = Torn] /\ pc'[h] = "fill" /\ job' = job
        /\ \A g \in Handlers \ {h} : job'[g] = job[g] /\ pc'[g] = pc[g]
        /\ UNCHANGED <<manifest, newest, captured, acknowledged>>
    BY <1>2, <1>7 DEF OpenCopy
  <2>3. ASSUME newest # 0 PROVE Creating(h)'
    <3>1. \A k \in DOMAIN job[h].lines : job[h].lines[k].file # Now(h)
      BY <1>1, <1>4, <2>1, <2>3 DEF Creating, Now
    <3>2. \A k \in DOMAIN job[h].lines : job[h].lines[k].file \in Files
      BY <1>1, LinesTyped
    <3>3. Describes(job[h].lines)'
      BY <1>2, <1>4, <2>1, <2>2, <2>3, <3>1, <3>2 DEF Creating, Describes
    <3>4. Now(h)' = Now(h) /\ before'[Now(h)] = Torn
      BY <1>2, <2>1, <2>2 DEF Now
    <3> QED
      BY <1>4, <2>1, <2>2, <2>3, <3>3, <3>4 DEF Creating, FilesDiffer, IsInjective
  <2>4. newest # 0 => manifest'.id # newest
    BY <1>4, <2>1, <2>2 DEF Creating
  <2> QED
    BY <2>1, <2>2, <2>3, <2>4, CreatorStep
<1>8. CASE FillCopy(h)
  <2>1. job[h].op = "create" /\ pc[h] = "fill" /\ job[h].left # <<>> /\ Now(h) \in Files
    BY <1>1, <1>3, <1>8 DEF FillCopy, At
  <2> PICK c \in Filled(before[Now(h)], job[h].held) : before' = [before EXCEPT ![Now(h)] = c]
    BY <1>8 DEF FillCopy
  <2>2. /\ job'[h] = Listed(job[h], TRUE) /\ pc'[h] = "visit"
        /\ \A g \in Handlers \ {h} : job'[g] = job[g] /\ pc'[g] = pc[g]
        /\ UNCHANGED <<manifest, newest, captured, acknowledged>>
    BY <1>2, <1>8 DEF FillCopy
  <2>3. job'[h].op = "create" /\ job'[h].id = job[h].id
    BY <1>1, <2>1, <2>2, ListedJob
  <2>4. ASSUME newest # 0 PROVE Creating(h)'
    <3>1. before[Now(h)] = Torn /\ job[h].held = captured[Now(h)] /\ job[h].held # Absent
      BY <1>4, <2>1, <2>4 DEF Creating
    <3>2. c = job[h].held
      BY <3>1 DEF Filled
    <3>3. \A f \in Files \ {Now(h)} : before'[f] = before[f] /\ captured'[f] = captured[f]
      BY <1>2, <2>1, <2>2
    <3>4. captured'[Now(h)] # Absent /\ before'[Now(h)] = captured'[Now(h)]
      BY <1>2, <2>1, <2>2, <3>1, <3>2
    <3>5. manifest.id # newest
      BY <1>4, <2>1, <2>4 DEF Creating
    <3>6. TRUE \in BOOLEAN /\ Creating(h)
      BY <1>4, <2>1, <2>4
    <3> QED
      BY <2>1, <2>2, <3>3, <3>4, <3>5, <3>6, OneMoreLine DEF Creating
  <2>5. newest # 0 => manifest'.id # newest
    BY <1>4, <2>1, <2>2 DEF Creating
  <2> QED
    BY <2>1, <2>2, <2>3, <2>4, <2>5, CreatorStep
<1>9. CASE CopyFails(h)
  <2>1. /\ job[h].op = "create" /\ pc[h] \in {"copy", "fill"} /\ job[h].left # <<>>
        /\ Now(h) \in Files /\ Now(h) \in Faulty
    BY <1>1, <1>3, <1>9 DEF CopyFails, At
  <2>2. /\ job'[h] = Listed(job[h], FALSE) /\ pc'[h] = "visit"
        /\ \A g \in Handlers \ {h} : job'[g] = job[g] /\ pc'[g] = pc[g]
        /\ UNCHANGED <<before, manifest, newest, captured, acknowledged>>
    BY <1>2, <1>9 DEF CopyFails
  <2>3. job'[h].op = "create" /\ job'[h].id = job[h].id
    BY <1>1, <2>1, <2>2, ListedJob
  <2>4. ASSUME newest # 0 PROVE Creating(h)'
    <3>1. manifest.id # newest
      BY <1>4, <2>1, <2>4 DEF Creating
    <3>2. FALSE \in BOOLEAN /\ Creating(h)
      BY <1>4, <2>1, <2>4
    <3> QED
      BY <2>1, <2>2, <3>1, <3>2, OneMoreLine DEF Creating
  <2>5. newest # 0 => manifest'.id # newest
    BY <1>4, <2>1, <2>2 DEF Creating
  <2> QED
    BY <2>1, <2>2, <2>3, <2>4, <2>5, CreatorStep
<1>10. CASE OpenManifest(h)
  <2>1. job[h].op = "create" /\ pc[h] = "visit"
    BY <1>10 DEF OpenManifest, Visited, At
  <2>2. /\ manifest' = TornManifest /\ pc'[h] = "manifest" /\ job' = job
        /\ \A g \in Handlers \ {h} : job'[g] = job[g] /\ pc'[g] = pc[g]
        /\ UNCHANGED <<before, newest, captured, acknowledged>>
    BY <1>2, <1>10 DEF OpenManifest
  <2>3. newest # 0 => manifest'.id # newest
    BY <2>2 DEF TornManifest
  <2>4. newest # 0 => Creating(h)'
    BY <1>4, <2>1, <2>2, <2>3 DEF Creating, Describes, FilesDiffer, IsInjective
  <2> QED
    BY <2>1, <2>2, <2>3, <2>4, CreatorStep
<1>11. CASE FillManifest(h)
  <2>1. job[h].op = "create" /\ pc[h] = "manifest"
    BY <1>11 DEF FillManifest, At
  <2>2. /\ pc'[h] = "report" /\ job' = job
        /\ \A g \in Handlers \ {h} : job'[g] = job[g] /\ pc'[g] = pc[g]
        /\ UNCHANGED <<before, newest, captured, acknowledged>>
    BY <1>2, <1>11 DEF FillManifest
  <2>3. newest # 0 => manifest' = [id |-> newest, lines |-> job[h].lines]
    BY <1>4, <1>11, <2>1 DEF FillManifest, Creating, Whole
  <2>4. newest # 0 => Creating(h)'
    BY <1>4, <2>1, <2>2, <2>3 DEF Creating, Describes, FilesDiffer, IsInjective
  <2>5. NewestInv' /\ CreateInv'
    BY <2>1, <2>2, <2>4, CreatorStep
  <2>6. ManifestInv'
    BY <1>4, <2>1, <2>2, <2>3 DEF ManifestInv, Creating, Describes, FilesDiffer
  <2> QED
    BY <2>5, <2>6
<1>12. CASE CreateReport(h)
  <2>1. job[h].op = "create" /\ pc[h] = "report"
    BY <1>12 DEF CreateReport, At
  <2>2. /\ NoJob.op = "none" /\ job' = [job EXCEPT ![h] = NoJob] /\ pc' = [pc EXCEPT ![h] = "idle"]
        /\ UNCHANGED <<before, manifest, newest, captured>>
    BY <1>12 DEF CreateReport, End, NoJob
  <2>3. \A g \in Handlers : job'[g].op = "create" => g # h /\ job[g].op = "create" /\ job'[g] = job[g] /\ pc'[g] = pc[g]
    BY <1>2, <2>2
  <2>4. newest # 0 => Working("create")' = {}
    BY <2>1, <2>3, OnlyCreator DEF Working
  <2>5. acknowledged' => newest # 0
    <3>1. job[h].id # 0
      BY <1>1, <2>1 DEF Fits
    <3>2. acknowledged => newest # 0
      BY DEF IInv, NewestInv
    <3> QED
      BY <1>12, <3>1, <3>2 DEF CreateReport
  <2>6. newest # 0 => manifest.id = newest
    BY <1>4, <2>1 DEF Creating
  <2>7. NewestInv'
    BY <2>2, <2>4, <2>5, <2>6 DEF NewestInv
  <2>8. CreateInv'
    BY <2>2, <2>4 DEF CreateInv
  <2>9. ManifestInv'
    BY <2>2 DEF IInv, ManifestInv, Describes, FilesDiffer
  <2> QED
    BY <2>7, <2>8, <2>9
<1> QED
  BY <1>5, <1>6, <1>7, <1>8, <1>9, <1>10, <1>11, <1>12 DEF Create

\* A snapshot begun beside no other is the newest, and nothing of it is there.
LEMMA BeginCreateFolder ==
    ASSUME IInv, NEW h \in Handlers, NEW files \in Requests, BeginCreate(h, files)
    PROVE  NewestInv' /\ CreateInv' /\ ManifestInv'
<1> DEFINE j == [NoJob EXCEPT !.op = "create", !.id = calls + 1, !.left = files]
<1>1. /\ pc[h] = "idle" /\ job' = [job EXCEPT ![h] = j] /\ pc' = [pc EXCEPT ![h] = "visit"]
      /\ newest' = IF Working("create") = {} THEN calls + 1 ELSE 0
      /\ acknowledged' = FALSE /\ UNCHANGED <<before, manifest>>
  BY DEF BeginCreate, Go, folder
<1>2. j.op = "create" /\ j.id = calls + 1 /\ j.left = files /\ j.lines = <<>>
  BY DEF NoJob
<1> HIDE DEF j
<1>3. /\ pc \in [Handlers -> Points] /\ job \in [Handlers -> Job] /\ calls \in Nat
      /\ manifest \in Manifest /\ manifest.id <= calls
  BY RestTyped DEF IInv
<1>4. manifest.id \in Nat /\ manifest.id # calls + 1
  <2>1. manifest.id \in Nat
    BY <1>3 DEF Manifest, NoManifest, TornManifest
  <2> QED
    BY <2>1, <1>3
<1>5. newest' # 0 => Working("create") = {} /\ newest' = calls + 1
  BY <1>1
<1>6. newest' # 0 => \A g \in Working("create")' : g = h
  BY <1>1, <1>3, <1>5 DEF Working
<1>7. job'[h] = j /\ pc'[h] = "visit"
  BY <1>1, <1>3
<1>8. NewestInv'
  BY <1>1, <1>2, <1>5, <1>6, <1>7 DEF NewestInv
<1>9. ManifestInv'
  BY <1>1, <1>4, <1>5 DEF ManifestInv
<1>10. newest' # 0 => Creating(h)'
  <2>1. IsInjective(files)
    BY FilesAssumption
  <2> QED
    BY <1>1, <1>2, <1>4, <1>5, <1>7, <2>1 DEF Creating, Describes, FilesDiffer, IsInjective
<1>11. CreateInv'
  BY <1>6, <1>10 DEF CreateInv
<1> QED
  BY <1>8, <1>9, <1>11

-----------------------------------------------------------------------------
(* The captures and restores that work through it.                          *)

\* Steps that leave them alone, and the newest snapshot in place while one of
\* them works through it.
LEMMA UseKept ==
    ASSUME IInv, after' = after, refused \subseteq refused',
           \A g \in Handlers : job'[g].op \in {"capture", "restore"} =>
               job'[g] = job[g] /\ pc'[g] = pc[g],
           \A g \in Handlers, op \in {"capture", "restore"} : Through(g, op)' =>
               UNCHANGED <<manifest, newest, captured>>
    PROVE  UseInv'
<1> SUFFICES ASSUME NEW h \in Handlers PROVE OnLines(h)' /\ Restored(h)' /\ Compared(h)'
  BY DEF UseInv
<1>1. OnLines(h) /\ Restored(h) /\ Compared(h)
  BY DEF IInv, UseInv
<1>2. CASE job'[h].op \in {"capture", "restore"}
  <2>1. job'[h] = job[h] /\ pc'[h] = pc[h]
    BY <1>2
  <2>2. \A op \in {"capture", "restore"} : Through(h, op)' =>
            Through(h, op) /\ UNCHANGED <<manifest, newest, captured>>
    BY <2>1 DEF Through
  <2>3. OnLines(h)'
    BY <1>1, <2>1, <2>2 DEF OnLines, Done
  <2>4. Restored(h)'
    BY <1>1, <2>1, <2>2 DEF Restored, Done, Target, Now, At
  <2>5. Compared(h)'
    <3>1. \A g \in Handlers : job'[g].op = "capture" => job[g].op = "capture"
      OBVIOUS
    <3> QED
      BY <1>1, <2>1, <2>2, <3>1 DEF Compared, Alone, Done, Target, Now
  <2> QED
    BY <2>3, <2>4, <2>5
<1>3. CASE job'[h].op \notin {"capture", "restore"}
  BY <1>3 DEF OnLines, Restored, Compared, Through, Alone, At
<1> QED
  BY <1>2, <1>3

\* No capture or restore works through the newest snapshot before it is there.
LEMMA ThroughWhole ==
    ASSUME IInv, NEW h \in Handlers, NEW op \in {"capture", "restore"}, Through(h, op)
    PROVE  /\ newest # 0 /\ manifest.id = newest /\ job[h].lines = manifest.lines
           /\ Describes(job[h].lines) /\ FilesDiffer(job[h].lines)
           /\ \A g \in Handlers : job[g].op = "create" => pc[g] = "report" /\ job[g].id = newest
<1>1. Fits(pc[h], job[h], calls)
  BY DEF IInv, TypeOK
<1>2. newest # 0
  BY <1>1 DEF Through, Fits
<1>3. manifest.id = newest /\ job[h].lines = manifest.lines
  BY DEF IInv, UseInv, OnLines
<1>4. Describes(manifest.lines) /\ FilesDiffer(manifest.lines)
  BY <1>2, <1>3 DEF IInv, ManifestInv
<1>5. \A g \in Handlers : job[g].op = "create" => pc[g] = "report" /\ job[g].id = newest
  BY <1>2, <1>3, OnlyCreator DEF Creating
<1> QED
  BY <1>2, <1>3, <1>4, <1>5

\* A step of a request that takes a snapshot leaves them alone: it has reported
\* its manifest before any of them works through it.
LEMMA CreateUse ==
    ASSUME IInv, NEW h \in Handlers, Create(h)
    PROVE  UseInv'
<1> USE DEF folder, bounds, history, Go
<1>1. /\ job \in [Handlers -> Job] /\ pc \in [Handlers -> Points]
      /\ Fits(pc[h], job[h], calls) /\ job[h] \in Job
      /\ job[h].op = "create" => job[h].left \in Seq(Files)
  BY RestTyped, OwnTyped DEF IInv
<1>2. job[h].op = "create" /\ UNCHANGED <<after, refused, newest>>
  BY DEF Create, CreateBlocked, ReadTarget, OpenCopy, FillCopy, CopyFails, OpenManifest,
         FillManifest, CreateReport, Visiting, Visited, At
<1>3. /\ job'[h].op \in {"create", "none"}
      /\ \A g \in Handlers \ {h} : job'[g] = job[g] /\ pc'[g] = pc[g]
  <2>1. CASE End(h)
    <3>1. NoJob.op = "none" /\ job' = [job EXCEPT ![h] = NoJob] /\ pc' = [pc EXCEPT ![h] = "idle"]
      BY <2>1 DEF End, NoJob
    <3> QED
      BY <1>1, <3>1
  <2>2. ASSUME NEW e \in BOOLEAN, NEW p, job[h].left # <<>>,
               job' = [job EXCEPT ![h] = Listed(job[h], e)], pc' = [pc EXCEPT ![h] = p]
        PROVE  /\ job'[h].op \in {"create", "none"}
               /\ \A g \in Handlers \ {h} : job'[g] = job[g] /\ pc'[g] = pc[g]
    <3>1. Listed(job[h], e).op = "create"
      BY <1>1, <1>2, <2>2, ListedJob
    <3> QED
      BY <1>1, <2>2, <3>1
  <2>3. CASE ReadTarget(h)
    <3>1. job[h].left # <<>> /\ pc[h] = "visit"
      BY <2>3 DEF ReadTarget, Visiting, At
    <3>2. CASE job' = [job EXCEPT ![h].held = disk[Now(h)]] /\ pc' = [pc EXCEPT ![h] = "copy"]
      BY <1>1, <1>2, <3>2 DEF Job
    <3>3. CASE job' = [job EXCEPT ![h] = Listed(@, FALSE)] /\ pc' = pc
      <4>1. job' = [job EXCEPT ![h] = Listed(job[h], FALSE)] /\ pc' = [pc EXCEPT ![h] = "visit"]
        BY <1>1, <3>1, <3>3
      <4> QED
        BY <2>2, <3>1, <4>1
    <3> QED
      BY <2>3, <3>2, <3>3 DEF ReadTarget
  <2>4. CASE FillCopy(h)
    BY <1>1, <2>2, <2>4 DEF FillCopy, At, Fits
  <2>5. CASE CopyFails(h)
    BY <1>1, <2>2, <2>5 DEF CopyFails, At, Fits
  <2>6. CASE OpenCopy(h)
    BY <1>1, <1>2, <2>6 DEF OpenCopy
  <2>7. CASE OpenManifest(h)
    BY <1>1, <1>2, <2>7 DEF OpenManifest
  <2>8. CASE FillManifest(h)
    BY <1>1, <1>2, <2>8 DEF FillManifest
  <2>9. CreateBlocked(h) \/ CreateReport(h) => End(h)
    BY DEF CreateBlocked, CreateReport
  <2> QED
    BY <2>1, <2>3, <2>4, <2>5, <2>6, <2>7, <2>8, <2>9 DEF Create
<1>5. \A g \in Handlers : job'[g].op \in {"capture", "restore"} =>
          job'[g] = job[g] /\ pc'[g] = pc[g]
  BY <1>3
<1>6. ASSUME NEW g \in Handlers, NEW op \in {"capture", "restore"}, Through(g, op)'
      PROVE  UNCHANGED <<manifest, newest, captured>>
  <2>1. Through(g, op)
    BY <1>2, <1>5, <1>6 DEF Through
  <2>2. pc[h] = "report"
    BY <1>2, <2>1, ThroughWhole
  <2>3. CreateReport(h)
    BY <2>2 DEF Create, CreateBlocked, ReadTarget, OpenCopy, FillCopy, CopyFails, OpenManifest,
                FillManifest, Visiting, Visited, At
  <2> QED
    BY <2>3 DEF CreateReport
<1> QED
  BY <1>2, <1>5, <1>6, UseKept

\* A request that begins does not make another snapshot the one they work on.
LEMMA BeginCreateUse ==
    ASSUME IInv, NEW h \in Handlers, NEW files \in Requests, BeginCreate(h, files)
    PROVE  UseInv'
<1> DEFINE j == [NoJob EXCEPT !.op = "create", !.id = calls + 1, !.left = files]
<1>1. /\ job' = [job EXCEPT ![h] = j] /\ pc' = [pc EXCEPT ![h] = "visit"]
      /\ newest' \in {calls + 1, 0} /\ UNCHANGED <<after, refused>>
  BY DEF BeginCreate, Go, folder
<1>2. j.op = "create"
  BY DEF NoJob
<1> HIDE DEF j
<1>3. pc \in [Handlers -> Points] /\ job \in [Handlers -> Job] /\ calls \in Nat
  BY RestTyped DEF IInv
<1>4. \A g \in Handlers : job'[g].op \in {"capture", "restore"} =>
          job'[g] = job[g] /\ pc'[g] = pc[g]
  BY <1>1, <1>2, <1>3
<1>5. ASSUME NEW g \in Handlers, NEW op \in {"capture", "restore"} PROVE ~Through(g, op)'
  <2> SUFFICES ASSUME Through(g, op)' PROVE FALSE
    OBVIOUS
  <2>1. job'[g] = job[g] /\ pc'[g] = pc[g] /\ job[g].op = op /\ pc[g] # "load" /\ job[g].id = newest'
    BY <1>4 DEF Through
  <2>2. Fits(pc[g], job[g], calls)
    BY DEF IInv, TypeOK
  <2>3. job[g].id \in 1..calls
    BY <2>1, <2>2 DEF Fits
  <2> QED
    BY <1>1, <1>3, <2>1, <2>3
<1> QED
  BY <1>1, <1>4, <1>5, UseKept

\* Nor does one that works through a snapshot; it is not alone beside others.
LEMMA BeginOnUse ==
    ASSUME IInv, NEW h \in Handlers, NEW op \in {"capture", "restore"}, BeginOn(h, op)
    PROVE  UseInv' /\ NewestInv' /\ CreateInv' /\ ManifestInv'
<1> DEFINE alone == Working(op) = {}
           j == [NoJob EXCEPT !.op = op, !.alone = alone]
<1>1. /\ pc[h] = "idle" /\ UNCHANGED <<refused, before, after, manifest, newest, captured, acknowledged>>
      /\ pc' = [pc EXCEPT ![h] = "load"]
      /\ job' = [g \in Handlers |-> IF g = h THEN j
                                   ELSE IF job[g].op = op THEN [job[g] EXCEPT !.alone = FALSE]
                                   ELSE job[g]]
  BY DEF BeginOn, Go, folder, history
<1>2. alone \in BOOLEAN
  OBVIOUS
<1>3. alone => \A g \in Handlers : job[g].op # op
  BY DEF Working
<1> HIDE DEF alone
<1>4. j.op = op /\ j.alone = alone /\ j.missing = {}
  BY DEF NoJob
<1> HIDE DEF j
<1>5. pc \in [Handlers -> Points] /\ job \in [Handlers -> Job]
  BY RestTyped DEF IInv
<1>6. job'[h] = j /\ pc'[h] = "load"
  BY <1>1, <1>5
<1>7. ASSUME NEW g \in Handlers \ {h}
      PROVE  /\ pc'[g] = pc[g] /\ job'[g].op = job[g].op /\ job'[g].id = job[g].id
             /\ job'[g].left = job[g].left /\ job'[g].lines = job[g].lines
             /\ job'[g].held = job[g].held /\ job'[g].seen = job[g].seen
             /\ job'[g].changed = job[g].changed /\ job'[g].missing = job[g].missing
             /\ job[g].op = op => ~job'[g].alone
             /\ job[g].op # op => job'[g] = job[g]
  <2>1. job[g] \in Job /\ pc'[g] = pc[g]
    BY <1>1, <1>5
  <2>2. CASE job[g].op = op
    <3>1. job'[g] = [job[g] EXCEPT !.alone = FALSE]
      BY <1>1, <2>2
    <3> QED
      BY <2>1, <2>2, <3>1 DEF Job
  <2>3. CASE job[g].op # op
    BY <1>1, <2>1, <2>3
  <2> QED
    BY <2>2, <2>3
<1>8. UseInv'
  <2> SUFFICES ASSUME NEW g \in Handlers PROVE OnLines(g)' /\ Restored(g)' /\ Compared(g)'
    BY DEF UseInv
  <2>1. OnLines(g) /\ Restored(g) /\ Compared(g)
    BY DEF IInv, UseInv
  <2>2. CASE g = h
    <3>1. OnLines(g)' /\ Restored(g)'
      BY <1>4, <1>6, <2>2 DEF OnLines, Restored, Through, At
    <3>2. Compared(g)'
      BY <1>3, <1>4, <1>6, <1>7, <2>2 DEF Compared, Alone, Through
    <3> QED
      BY <3>1, <3>2
  <2>3. CASE g # h
    <3>1. \A o \in {"capture", "restore"} : Through(g, o)' <=> Through(g, o)
      BY <1>1, <1>7, <2>3 DEF Through
    <3>2. Done(g)' = Done(g) /\ Target(g)' = Target(g)
      BY <1>7, <2>3 DEF Done, Target, Now
    <3>3. OnLines(g)' /\ Restored(g)'
      BY <1>1, <1>7, <2>1, <2>3, <3>1, <3>2 DEF OnLines, Restored, At
    <3>4. Compared(g)'
      <4>1. Alone(g)' => Alone(g) /\ op # "capture"
        BY <1>7, <2>3 DEF Alone
      <4>2. op # "capture" => job'[h].op # "capture"
        BY <1>4, <1>6
      <4> QED
        BY <1>1, <1>7, <2>1, <2>3, <3>1, <3>2, <4>1, <4>2 DEF Compared
    <3> QED
      BY <3>3, <3>4
  <2> QED
    BY <2>2, <2>3
<1>9. \A g \in Handlers : job'[g].op = "create" => job'[g] = job[g] /\ pc'[g] = pc[g]
  BY <1>4, <1>6, <1>7
<1>10. NewestInv' /\ CreateInv' /\ ManifestInv'
  BY <1>1, <1>9, FolderKept
<1> QED
  BY <1>8, <1>10

\* A step of one of them keeps the others: one that is alone does not see the
\* copies under after/ change.
LEMMA UseStep ==
    ASSUME IInv, NEW h \in Handlers,
           job[h].op \in {"capture", "restore"}, job'[h].op = job[h].op,
           \A g \in Handlers \ {h} : job'[g] = job[g] /\ pc'[g] = pc[g],
           UNCHANGED <<refused, before, manifest, newest, captured, acknowledged>>,
           after' = after \/ job[h].op = "capture",
           OnLines(h)' /\ Restored(h)' /\ Compared(h)'
    PROVE  NewestInv' /\ CreateInv' /\ ManifestInv' /\ UseInv'
<1>1. \A g \in Handlers : job'[g].op = job[g].op
  OBVIOUS
<1>2. NewestInv' /\ CreateInv' /\ ManifestInv'
  BY <1>1, FolderKept
<1>3. ASSUME NEW g \in Handlers \ {h} PROVE OnLines(g)' /\ Restored(g)' /\ Compared(g)'
  <2>1. OnLines(g) /\ Restored(g) /\ Compared(g) /\ job'[g] = job[g] /\ pc'[g] = pc[g]
    BY DEF IInv, UseInv
  <2>2. /\ \A op : Through(g, op)' <=> Through(g, op)
        /\ Done(g)' = Done(g) /\ Target(g)' = Target(g)
    BY <2>1 DEF Through, Done, Target, Now
  <2>3. OnLines(g)' /\ Restored(g)'
    BY <2>1, <2>2 DEF OnLines, Restored, At
  <2>4. Alone(g)' => Alone(g) /\ job[h].op # "capture" /\ after' = after
    BY <2>1 DEF Compared, Alone
  <2>5. Compared(g)'
    BY <1>1, <2>1, <2>2, <2>4 DEF Compared
  <2> QED
    BY <2>3, <2>5
<1> QED
  BY <1>2, <1>3 DEF UseInv

\* The file one of them is at: its line says what the snapshot holds, and no
\* line before it is about the same file.
LEMMA AtLine ==
    ASSUME IInv, NEW h \in Handlers, NEW op \in {"capture", "restore"}, Through(h, op),
           job[h].left # <<>>
    PROVE  /\ Done(h) \in Nat /\ Done(h) + 1 \in DOMAIN job[h].lines
           /\ Now(h) = job[h].lines[Done(h) + 1] /\ Target(h) = Now(h).file
           /\ \A k \in 1..Done(h) : job[h].lines[k].file \in Files \ {Target(h)}
           /\ \A i \in DOMAIN Tail(job[h].left) :
                Tail(job[h].left)[i] = job[h].lines[Done(h) + 1 + i]
           /\ Len(Tail(job[h].left)) = Len(job[h].left) - 1
           /\ Target(h) \notin Faulty =>
                /\ Now(h).existed <=> captured[Target(h)] # Absent
                /\ Now(h).existed => before[Target(h)] = captured[Target(h)]
<1> DEFINE left == job[h].left
           lines == job[h].lines
<1>1. job[h].op = op /\ left \in Seq(Line) /\ lines \in Seq(Line) /\ left # <<>>
  BY OwnTyped DEF IInv, Through
<1>2. /\ Done(h) >= 0 /\ \A i \in DOMAIN left : left[i] = lines[Done(h) + i]
  BY DEF IInv, UseInv, OnLines
<1>3. Done(h) = Len(lines) - Len(left)
  BY DEF Done
<1>4. Describes(lines) /\ FilesDiffer(lines)
  BY ThroughWhole
<1>5. Now(h) = left[1] /\ Target(h) = Now(h).file
  BY <1>1 DEF Now, Target
<1> HIDE DEF left, lines
<1>6. /\ Done(h) \in Nat /\ Done(h) + 1 \in DOMAIN lines
      /\ \A k \in 1..Done(h) : k \in DOMAIN lines /\ k # Done(h) + 1
  BY <1>1, <1>2, <1>3
<1>7. left[1] = lines[Done(h) + 1]
  BY <1>1, <1>2
<1>8. \A k \in 1..Done(h) : lines[k].file \in Files \ {Target(h)}
  <2> TAKE k \in 1..Done(h)
  <2>1. k \in DOMAIN lines /\ k # Done(h) + 1
    BY <1>6
  <2>2. lines[k].file # lines[Done(h) + 1].file
    BY <1>4, <1>6, <2>1 DEF FilesDiffer
  <2>3. lines[k].file \in Files
    BY <1>1, <2>1, LinesTyped
  <2> QED
    BY <1>5, <1>7, <2>2, <2>3
<1>9. ASSUME NEW i \in DOMAIN Tail(left) PROVE Tail(left)[i] = lines[Done(h) + 1 + i]
  <2>1. i \in Nat /\ i + 1 \in DOMAIN left /\ Tail(left)[i] = left[i + 1]
    BY <1>1
  <2>2. left[i + 1] = lines[Done(h) + (i + 1)]
    BY <1>2, <2>1
  <2>3. Done(h) + (i + 1) = Done(h) + 1 + i
    BY <1>6, <2>1
  <2> QED
    BY <2>1, <2>2, <2>3
<1>10. Len(Tail(left)) = Len(left) - 1
  BY <1>1
<1>11. Target(h) \notin Faulty =>
                /\ Now(h).existed <=> captured[Target(h)] # Absent
                /\ Now(h).existed => before[Target(h)] = captured[Target(h)]
  BY <1>4, <1>5, <1>6, <1>7 DEF Describes
<1> QED
  BY <1>5, <1>6, <1>7, <1>8, <1>9, <1>10, <1>11 DEF left, lines

\* Its step with the same files before it, and its step past the present one.
LEMMA SameLine ==
    ASSUME IInv, NEW h \in Handlers, UNCHANGED <<manifest, newest>>,
           job'[h].op = job[h].op, job'[h].id = job[h].id, job'[h].left = job[h].left,
           job'[h].lines = job[h].lines, pc[h] # "load"
    PROVE  /\ OnLines(h)' /\ Done(h)' = Done(h) /\ Now(h)' = Now(h) /\ Target(h)' = Target(h)
           /\ \A op : Through(h, op)' => Through(h, op)
<1>1. OnLines(h)
  BY DEF IInv, UseInv
<1>2. Done(h)' = Done(h) /\ Now(h)' = Now(h) /\ \A op : Through(h, op)' => Through(h, op)
  BY DEF Done, Now, Through
<1>3. Target(h)' = Target(h)
  BY DEF Target, Now
<1>4. OnLines(h)'
  BY <1>1, <1>2 DEF OnLines
<1> QED
  BY <1>2, <1>3, <1>4

LEMMA NextLine ==
    ASSUME IInv, NEW h \in Handlers, UNCHANGED <<manifest, newest>>,
           job[h].op \in {"capture", "restore"}, job[h].left # <<>>, pc[h] # "load",
           job'[h].op = job[h].op, job'[h].id = job[h].id, job'[h].left = Tail(job[h].left),
           job'[h].lines = job[h].lines
    PROVE  /\ OnLines(h)'
           /\ \A op \in {"capture", "restore"} : Through(h, op)' =>
                Through(h, op) /\ \A k \in 1..Done(h)' : k \in 1..Done(h) \/ k = Done(h) + 1
<1>1. \A op : Through(h, op)' => Through(h, op) /\ job[h].op = op
  BY DEF Through
<1>2. ASSUME NEW op \in {"capture", "restore"}, Through(h, op)
      PROVE  /\ Done(h)' = Done(h) + 1 /\ Done(h) \in Nat
             /\ \A i \in DOMAIN Tail(job[h].left) :
                    Tail(job[h].left)[i] = job[h].lines[Done(h) + 1 + i]
             /\ manifest.id = newest /\ job[h].lines = manifest.lines
  <2>1. Len(job[h].lines) \in Nat /\ Len(job[h].left) \in Nat
    BY <1>2, OwnTyped DEF IInv, Through
  <2>2. Done(h)' = Done(h) + 1
    <3>1. Len(job'[h].left) = Len(job[h].left) - 1 /\ Len(job'[h].lines) = Len(job[h].lines)
      BY <1>2, AtLine
    <3>2. Done(h)' = Len(job'[h].lines) - Len(job'[h].left)
          /\ Done(h) = Len(job[h].lines) - Len(job[h].left)
      BY DEF Done
    <3>3. \A m, n \in Nat : m - (n - 1) = (m - n) + 1
      OBVIOUS
    <3> QED
      BY <2>1, <3>1, <3>2, <3>3
  <2> QED
    BY <1>2, <2>2, AtLine DEF IInv, UseInv, OnLines
<1>3. OnLines(h)'
  BY <1>1, <1>2 DEF OnLines
<1> QED
  BY <1>1, <1>2, <1>3

\* A capture or a restore takes up the manifest.
LEMMA LoadUse ==
    ASSUME IInv, NEW h \in Handlers, Load(h)
    PROVE  NewestInv' /\ CreateInv' /\ ManifestInv' /\ UseInv'
<1> DEFINE j == [job[h] EXCEPT !.id = manifest.id, !.left = manifest.lines, !.lines = manifest.lines]
<1>1. /\ job[h] \in Job /\ Fits(pc[h], job[h], calls)
      /\ pc \in [Handlers -> Points] /\ job \in [Handlers -> Job] /\ manifest \in Manifest
  BY OwnTyped, RestTyped DEF IInv
<1>2. pc[h] = "load" /\ job[h].op \in {"capture", "restore"}
  BY <1>1 DEF Load, Fits, Job
<1>3. /\ job' = [job EXCEPT ![h] = j] /\ pc' = [pc EXCEPT ![h] = "visit"]
      /\ UNCHANGED <<refused, before, after, manifest, newest, captured, acknowledged>>
  BY <1>1 DEF Load, Go, folder, history
<1>4. /\ j.op = job[h].op /\ j.id = manifest.id /\ j.left = manifest.lines
      /\ j.lines = manifest.lines /\ j.missing = job[h].missing /\ j.alone = job[h].alone
  BY <1>1 DEF Job
<1> HIDE DEF j
<1>5. /\ job'[h] = j /\ pc'[h] = "visit"
      /\ \A g \in Handlers \ {h} : job'[g] = job[g] /\ pc'[g] = pc[g]
  BY <1>1, <1>3
<1>6. manifest.lines \in Seq(Line)
  BY <1>1 DEF Manifest, Whole, Load
<1>7. Len(manifest.lines) \in Nat
  BY <1>6
<1>8. Done(h)' = 0
  BY <1>4, <1>5, <1>7 DEF Done
<1>9. OnLines(h)'
  <2>1. \A i \in DOMAIN manifest.lines : i = 0 + i
    BY <1>6
  <2> QED
    BY <1>3, <1>4, <1>5, <1>8, <2>1 DEF OnLines, Through
<1>10. Restored(h)'
  <2>1. job[h].op = "restore" => job[h].missing = {}
    BY <1>2 DEF IInv, UseInv, Restored, At
  <2> QED
    BY <1>4, <1>5, <1>8, <2>1 DEF Restored, Through, At
<1>11. Compared(h)'
  <2>1. Compared(h)
    BY DEF IInv, UseInv
  <2> QED
    BY <1>4, <1>5, <1>8, <2>1 DEF Compared, Alone
<1> QED
  BY <1>2, <1>3, <1>4, <1>5, <1>9, <1>10, <1>11, UseStep

\* A capture compares, file by file.
LEMMA CaptureUse ==
    ASSUME IInv, NEW h \in Handlers, Capture(h)
    PROVE  NewestInv' /\ CreateInv' /\ ManifestInv' /\ UseInv'
<1> USE DEF folder, bounds, history, Go
<1> DEFINE T == Target(h)
<1>1. /\ job[h] \in Job /\ Fits(pc[h], job[h], calls)
      /\ job[h].seen \in [Files -> Held] /\ job[h].missing \subseteq Files
      /\ job[h].changed \subseteq Files
      /\ job[h].left # <<>> => T \in Files
  BY OwnTyped DEF IInv, Job
<1>2. /\ disk \in [Files -> Held] /\ after \in [Files -> Held]
      /\ pc \in [Handlers -> Points] /\ job \in [Handlers -> Job]
  BY RestTyped DEF IInv
<1>3. job[h].op = "capture" /\ pc[h] # "load" /\ job[h].left # <<>> /\ T \in Files
  <2>1. Visiting(h, "capture") \/ \E p \in {"copy", "fill", "compare"} : At(h, "capture", p)
    BY DEF Capture, ReadCurrent, OpenAfter, FillAfter, AfterFails, Compare
  <2>2. job[h].op = "capture" /\ pc[h] # "load" /\ job[h].left # <<>>
    BY <1>1, <2>1 DEF Visiting, At, Fits
  <2> QED
    BY <1>1, <2>2
<1>4. OnLines(h) /\ Restored(h) /\ Compared(h)
  BY DEF IInv, UseInv
<1>5. Through(h, "capture") =>
          \A k \in 1..Done(h) : job[h].lines[k].file \in Files \ {T}
  BY <1>3, AtLine
<1>6. UNCHANGED <<refused, before, manifest, newest, captured, acknowledged>>
  BY DEF Capture, ReadCurrent, OpenAfter, FillAfter, AfterFails, Compare
\* a step at the same file
<1>7. ASSUME NEW p \in {"copy", "fill", "compare"}, NEW j, pc' = [pc EXCEPT ![h] = p],
             job' = [job EXCEPT ![h] = j], j.op = "capture", j.id = job[h].id,
             j.left = job[h].left, j.lines = job[h].lines, j.alone = job[h].alone,
             j.changed = job[h].changed, job[h].missing \subseteq j.missing,
             \A f \in Files \ {T} : j.seen[f] = job[h].seen[f],
             Alone(h) =>
                 /\ p \in {"copy", "fill"} => j.held = j.seen[T]
                 /\ p = "fill" => after'[T] = Torn
                 /\ p = "compare" /\ T \notin j.missing => after'[T] = j.seen[T]
      PROVE  NewestInv' /\ CreateInv' /\ ManifestInv' /\ UseInv'
  <2>1. /\ job'[h] = j /\ pc'[h] = p
        /\ \A g \in Handlers \ {h} : job'[g] = job[g] /\ pc'[g] = pc[g]
    BY <1>2, <1>7
  <2>2. /\ OnLines(h)' /\ Done(h)' = Done(h) /\ Target(h)' = T
        /\ Through(h, "capture")' => Through(h, "capture")
    BY <1>3, <1>6, <1>7, <2>1, SameLine
  <2>3. Restored(h)'
    BY <1>7, <2>1 DEF Restored, Through, At
  <2>4. Compared(h)'
    <3>1. SUFFICES ASSUME Alone(h)' PROVE Compared(h)'
      BY DEF Compared
    <3>2. Alone(h)
      BY <1>3, <1>7, <2>1, <3>1 DEF Alone
    <3>3. ASSUME Through(h, "capture")', NEW k \in 1..Done(h),
                 job[h].lines[k].file \notin Faulty \cup j.changed \cup j.missing
          PROVE  j.seen[job[h].lines[k].file] = captured[job[h].lines[k].file]
      BY <1>4, <1>5, <1>7, <2>2, <3>2, <3>3 DEF Compared
    <3> HIDE DEF T
    <3> QED
      BY <1>4, <1>6, <1>7, <2>1, <2>2, <3>2, <3>3 DEF Compared
  <2> QED
    BY <1>3, <1>6, <1>7, <2>1, <2>2, <2>3, <2>4, UseStep
<1>8. CASE ReadCurrent(h)
  <2>1. CASE /\ job' = [job EXCEPT ![h].held = disk[T], ![h].seen[T] = disk[T]]
             /\ pc' = [pc EXCEPT ![h] = "copy"]
    <3> DEFINE j == [job[h] EXCEPT !.held = disk[T], !.seen = [job[h].seen EXCEPT ![T] = disk[T]]]
    <3>1. job' = [job EXCEPT ![h] = j]
      BY <1>1, <1>2, <2>1 DEF Job
    <3>2. /\ j.op = "capture" /\ j.id = job[h].id /\ j.left = job[h].left
          /\ j.lines = job[h].lines /\ j.alone = job[h].alone /\ j.changed = job[h].changed
          /\ j.missing = job[h].missing /\ j.held = disk[T]
          /\ j.seen = [job[h].seen EXCEPT ![T] = disk[T]]
      BY <1>1, <1>3 DEF Job
    <3> HIDE DEF j
    <3>3. j.seen[T] = disk[T] /\ \A f \in Files \ {T} : j.seen[f] = job[h].seen[f]
      BY <1>1, <1>3, <3>2
    <3>4. j.held = j.seen[T]
      BY <3>2, <3>3
    <3> HIDE DEF T
    <3> QED
      BY <1>7, <2>1, <3>1, <3>2, <3>3, <3>4
  <2>2. CASE /\ job' = [job EXCEPT ![h].missing = @ \cup {T}]
             /\ pc' = [pc EXCEPT ![h] = "compare"]
    <3> DEFINE j == [job[h] EXCEPT !.missing = job[h].missing \cup {T}]
    <3>1. job' = [job EXCEPT ![h] = j]
      BY <1>1, <1>2, <2>2
    <3>2. /\ j.op = "capture" /\ j.id = job[h].id /\ j.left = job[h].left
          /\ j.lines = job[h].lines /\ j.alone = job[h].alone /\ j.changed = job[h].changed
          /\ j.missing = job[h].missing \cup {T} /\ j.seen = job[h].seen
      BY <1>1, <1>3 DEF Job
    <3> HIDE DEF j, T
    <3> QED
      BY <1>7, <2>2, <3>1, <3>2
  <2> QED
    BY <1>8, <2>1, <2>2 DEF ReadCurrent
<1>9. CASE OpenAfter(h)
  <2>1. /\ pc[h] = "copy" /\ pc' = [pc EXCEPT ![h] = "fill"] /\ job' = [job EXCEPT ![h] = job[h]]
        /\ after' = [after EXCEPT ![T] = Torn]
    BY <1>2, <1>9 DEF OpenAfter, At
  <2>2. after'[T] = Torn
    BY <1>2, <1>3, <2>1
  <2>3. Alone(h) => job[h].held = job[h].seen[T]
    BY <1>4, <2>1 DEF Compared
  <2> HIDE DEF T
  <2> QED
    BY <1>3, <1>7, <2>1, <2>2, <2>3
<1>10. CASE FillAfter(h)
  <2>1. PICK c \in Filled(after[T], job[h].held) : after' = [after EXCEPT ![T] = c]
    BY <1>10 DEF FillAfter
  <2>2. /\ pc[h] = "fill" /\ pc' = [pc EXCEPT ![h] = "compare"] /\ job' = [job EXCEPT ![h] = job[h]]
    BY <1>2, <1>10 DEF FillAfter, At
  <2>3. Alone(h) => after'[T] = job[h].seen[T]
    BY <1>2, <1>3, <1>4, <2>1, <2>2 DEF Compared, Filled
  <2> HIDE DEF T
  <2> QED
    BY <1>3, <1>7, <2>2, <2>3
<1>11. CASE AfterFails(h)
  <2> DEFINE j == [job[h] EXCEPT !.missing = job[h].missing \cup {T}]
  <2>1. job' = [job EXCEPT ![h] = j] /\ pc' = [pc EXCEPT ![h] = "compare"]
    BY <1>1, <1>2, <1>11 DEF AfterFails
  <2>2. /\ j.op = "capture" /\ j.id = job[h].id /\ j.left = job[h].left
        /\ j.lines = job[h].lines /\ j.alone = job[h].alone /\ j.changed = job[h].changed
        /\ j.missing = job[h].missing \cup {T} /\ j.seen = job[h].seen
    BY <1>1, <1>3 DEF Job
  <2> HIDE DEF j, T
  <2> QED
    BY <1>7, <2>1, <2>2
<1>12. CASE Compare(h)
  <2> DEFINE changed == IF FileChanged(Now(h)) THEN job[h].changed \cup {T} ELSE job[h].changed
             j == [Past(job[h]) EXCEPT !.changed = changed]
  <2>1. /\ pc[h] = "compare" /\ pc' = [pc EXCEPT ![h] = "visit"] /\ after' = after
    BY <1>12 DEF Compare, At
  <2>2. job[h].left \in Seq(Line)
    BY <1>1, <1>3 DEF Fits
  <2>3. /\ Past(job[h]) \in Job /\ Past(job[h]).left = Tail(job[h].left) /\ Past(job[h]).op = "capture"
        /\ Past(job[h]).id = job[h].id /\ Past(job[h]).lines = job[h].lines
        /\ Past(job[h]).alone = job[h].alone /\ Past(job[h]).seen = job[h].seen
        /\ Past(job[h]).changed = job[h].changed /\ Past(job[h]).missing = job[h].missing
    BY <1>1, <1>3, <2>2, PastJob
  <2>4. job' = [job EXCEPT ![h] = j]
    BY <1>12, <2>3 DEF Compare
  <2> HIDE DEF changed
  <2>5. /\ j.op = "capture" /\ j.left = Tail(job[h].left) /\ j.id = job[h].id
        /\ j.lines = job[h].lines /\ j.alone = job[h].alone /\ j.seen = job[h].seen
        /\ j.changed = changed /\ j.missing = job[h].missing
    BY <2>3 DEF Job
  <2> HIDE DEF j
  <2>6. job[h].changed \subseteq changed /\ (T \notin changed => ~FileChanged(Now(h)))
    BY DEF changed
  <2>7. /\ job'[h] = j /\ pc'[h] = "visit"
        /\ \A g \in Handlers \ {h} : job'[g] = job[g] /\ pc'[g] = pc[g]
    BY <1>2, <2>1, <2>4
  <2>8. /\ OnLines(h)'
        /\ Through(h, "capture")' =>
             Through(h, "capture") /\ \A k \in 1..Done(h)' : k \in 1..Done(h) \/ k = Done(h) + 1
    BY <1>3, <1>6, <2>5, <2>7, NextLine
  <2>9. Restored(h)'
    BY <2>5, <2>7 DEF Restored, Through, At
  <2>10. ASSUME Alone(h), Through(h, "capture"), T \notin Faulty \cup changed \cup job[h].missing
         PROVE  job[h].seen[T] = captured[T] /\ job[h].lines[Done(h) + 1].file = T
    <3>1. after[T] = job[h].seen[T]
      BY <1>4, <2>1, <2>10 DEF Compared
    <3>2. /\ Now(h) = job[h].lines[Done(h) + 1] /\ T = Now(h).file
          /\ Now(h).existed <=> captured[T] # Absent
          /\ Now(h).existed => before[T] = captured[T]
      BY <1>3, <2>10, AtLine
    <3>3. ~FileChanged(Now(h))
      BY <2>6, <2>10
    <3> QED
      BY <3>1, <3>2, <3>3 DEF FileChanged
  <2>11. Compared(h)'
    <3>1. SUFFICES ASSUME Alone(h)' PROVE Compared(h)'
      BY DEF Compared
    <3>2. Alone(h)
      BY <2>5, <2>7, <3>1, <1>3 DEF Alone
    <3>3. ASSUME Through(h, "capture")', NEW k \in 1..Done(h)',
                 job[h].lines[k].file \notin Faulty \cup j.changed \cup j.missing
          PROVE  j.seen[job[h].lines[k].file] = captured[job[h].lines[k].file]
      <4>1. CASE k \in 1..Done(h)
        BY <1>4, <2>5, <2>6, <2>8, <3>2, <3>3, <4>1 DEF Compared
      <4>2. CASE k = Done(h) + 1
        <5>1. Through(h, "capture") /\ job[h].lines[k].file = T
          BY <1>3, <2>8, <3>3, <4>2, AtLine
        <5> QED
          BY <2>5, <2>10, <3>2, <3>3, <4>2, <5>1
      <4> QED
        BY <2>8, <3>3, <4>1, <4>2
    <3> HIDE DEF T
    <3> QED
      BY <1>4, <1>6, <2>5, <2>7, <3>2, <3>3 DEF Compared
  <2> HIDE DEF T
  <2> QED
    BY <1>3, <1>6, <2>1, <2>5, <2>7, <2>8, <2>9, <2>11, UseStep
<1> QED
  BY <1>8, <1>9, <1>10, <1>11, <1>12 DEF Capture

\* A restore puts back, file by file.
LEMMA RestoreUse ==
    ASSUME IInv, NEW h \in Handlers, Restore(h)
    PROVE  NewestInv' /\ CreateInv' /\ ManifestInv' /\ UseInv'
<1> USE DEF folder, bounds, history, Go
<1> DEFINE T == Target(h)
<1>1. /\ job[h] \in Job /\ Fits(pc[h], job[h], calls)
      /\ job[h].seen \in [Files -> Held] /\ job[h].missing \subseteq Files
      /\ job[h].left # <<>> => T \in Files
  BY OwnTyped DEF IInv, Job
<1>2. /\ disk \in [Files -> Held] /\ before \in [Files -> Held]
      /\ pc \in [Handlers -> Points] /\ job \in [Handlers -> Job]
  BY RestTyped DEF IInv
<1>3. job[h].op = "restore" /\ pc[h] # "load" /\ job[h].left # <<>> /\ T \in Files
  <2>1. Visiting(h, "restore") \/ \E p \in {"copy", "fill"} : At(h, "restore", p)
    BY DEF Restore, Delete, ReadCopy, OpenTarget, FillTarget, RestoreFails, Restores
  <2>2. job[h].op = "restore" /\ pc[h] # "load" /\ job[h].left # <<>>
    BY <1>1, <2>1 DEF Visiting, At, Fits
  <2> QED
    BY <1>1, <2>2
<1>4. OnLines(h) /\ Restored(h) /\ Compared(h)
  BY DEF IInv, UseInv
<1>5. Through(h, "restore") =>
          /\ \A k \in 1..Done(h) : job[h].lines[k].file \in Files \ {T}
          /\ job[h].lines[Done(h) + 1].file = T
          /\ T \notin Faulty =>
                /\ Now(h).existed <=> captured[T] # Absent
                /\ Now(h).existed => before[T] = captured[T]
  BY <1>3, AtLine
<1>6. UNCHANGED <<refused, before, after, manifest, newest, captured, acknowledged>>
  BY DEF Restore, Delete, ReadCopy, OpenTarget, FillTarget, RestoreFails
\* a step at the same file, which holds what is to be put back
<1>7. ASSUME NEW p \in {"copy", "fill"}, NEW j, pc' = [pc EXCEPT ![h] = p],
             job' = [job EXCEPT ![h] = j], j.op = "restore", j.id = job[h].id,
             j.left = job[h].left, j.lines = job[h].lines,
             j.seen = job[h].seen, j.missing = job[h].missing,
             Through(h, "restore") /\ T \notin Faulty => j.held = captured[T]
      PROVE  NewestInv' /\ CreateInv' /\ ManifestInv' /\ UseInv'
  <2>1. /\ job'[h] = j /\ pc'[h] = p
        /\ \A g \in Handlers \ {h} : job'[g] = job[g] /\ pc'[g] = pc[g]
    BY <1>2, <1>7
  <2>2. /\ OnLines(h)' /\ Done(h)' = Done(h) /\ Target(h)' = T
        /\ Through(h, "restore")' => Through(h, "restore")
    BY <1>3, <1>6, <1>7, <2>1, SameLine
  <2>3. Compared(h)'
    BY <1>7, <2>1 DEF Compared, Alone
  <2> HIDE DEF T
  <2>4. Restored(h)'
    BY <1>4, <1>6, <1>7, <2>1, <2>2 DEF Restored, At
  <2> QED
    BY <1>3, <1>6, <1>7, <2>1, <2>2, <2>3, <2>4, UseStep
\* a step past it, with the file put back or called missing
<1>8. ASSUME NEW j,
             pc'[h] = "visit", job' = [job EXCEPT ![h] = j], \A g \in Handlers \ {h} : pc'[g] = pc[g],
             j.op = "restore", j.id = job[h].id, j.left = Tail(job[h].left), j.lines = job[h].lines,
             \A f \in Files \ {T} : j.seen[f] = job[h].seen[f],
             j.missing \subseteq job[h].missing \cup {T},
             Through(h, "restore") /\ T \notin Faulty \cup refused =>
                 j.seen[T] = captured[T] /\ j.missing = job[h].missing
      PROVE  NewestInv' /\ CreateInv' /\ ManifestInv' /\ UseInv'
  <2>1. /\ job'[h] = j /\ \A g \in Handlers \ {h} : job'[g] = job[g]
    BY <1>2, <1>8
  <2>2. /\ OnLines(h)'
        /\ Through(h, "restore")' =>
             Through(h, "restore") /\ \A k \in 1..Done(h)' : k \in 1..Done(h) \/ k = Done(h) + 1
    BY <1>3, <1>6, <1>8, <2>1, NextLine
  <2>3. Compared(h)'
    BY <1>8, <2>1 DEF Compared, Alone
  <2> HIDE DEF T
  <2>4. ASSUME Through(h, "restore")', NEW k \in 1..Done(h)',
               job[h].lines[k].file \notin Faulty \cup refused
        PROVE  j.seen[job[h].lines[k].file] = captured[job[h].lines[k].file]
    <3>1. CASE k \in 1..Done(h)
      BY <1>4, <1>5, <1>8, <2>2, <2>4, <3>1 DEF Restored
    <3>2. CASE k = Done(h) + 1
      BY <1>5, <1>8, <2>2, <2>4, <3>2
    <3> QED
      BY <2>2, <2>4, <3>1, <3>2
  <2>5. Through(h, "restore")' => j.missing \subseteq Faulty \cup refused
    BY <1>4, <1>8, <2>2 DEF Restored
  <2>6. Restored(h)'
    BY <1>6, <1>8, <2>1, <2>4, <2>5 DEF Restored, At
  <2> QED
    BY <1>3, <1>6, <1>8, <2>1, <2>2, <2>3, <2>6, UseStep
<1>9. job[h].left \in Seq(Line)
  BY <1>1, <1>3 DEF Fits
<1>10. /\ Past(job[h]) \in Job /\ Past(job[h]).left = Tail(job[h].left) /\ Past(job[h]).op = "restore"
       /\ Past(job[h]).id = job[h].id /\ Past(job[h]).lines = job[h].lines
       /\ Past(job[h]).seen = job[h].seen /\ Past(job[h]).missing = job[h].missing
  BY <1>1, <1>3, <1>9, PastJob
<1>11. CASE Delete(h)
  <2> DEFINE seen == [job[h].seen EXCEPT ![T] = Absent]
             j == [Past(job[h]) EXCEPT !.seen = seen]
  <2>1. /\ pc[h] = "visit" /\ pc' = pc /\ ~Now(h).existed
        /\ job' = [job EXCEPT ![h] = j]
    BY <1>10, <1>11 DEF Delete, Restores, Visiting, At
  <2>2. seen[T] = Absent /\ \A f \in Files \ {T} : seen[f] = job[h].seen[f]
    BY <1>1, <1>3
  <2> HIDE DEF seen
  <2>3. /\ j.op = "restore" /\ j.left = Tail(job[h].left) /\ j.id = job[h].id
        /\ j.lines = job[h].lines /\ j.seen = seen /\ j.missing = job[h].missing
    BY <1>10 DEF Job
  <2> HIDE DEF j
  <2>4. Through(h, "restore") /\ T \notin Faulty => seen[T] = captured[T]
    BY <1>5, <2>1, <2>2
  <2> HIDE DEF T
  <2> QED
    BY <1>8, <2>1, <2>2, <2>3, <2>4
<1>12. CASE ReadCopy(h)
  <2> DEFINE j == [job[h] EXCEPT !.held = before[T]]
  <2>1. /\ pc' = [pc EXCEPT ![h] = "copy"] /\ Now(h).existed /\ job' = [job EXCEPT ![h] = j]
    BY <1>12 DEF ReadCopy
  <2>2. /\ j.op = "restore" /\ j.left = job[h].left /\ j.id = job[h].id /\ j.held = before[T]
        /\ j.lines = job[h].lines /\ j.seen = job[h].seen /\ j.missing = job[h].missing
    BY <1>1, <1>3 DEF Job
  <2> HIDE DEF j
  <2>3. Through(h, "restore") /\ T \notin Faulty => j.held = captured[T]
    BY <1>5, <2>1, <2>2
  <2> HIDE DEF T
  <2> QED
    BY <1>7, <2>1, <2>2, <2>3
<1>13. CASE OpenTarget(h)
  <2>1. pc[h] = "copy" /\ pc' = [pc EXCEPT ![h] = "fill"] /\ job' = [job EXCEPT ![h] = job[h]]
    BY <1>2, <1>13 DEF OpenTarget, At
  <2>2. Through(h, "restore") /\ T \notin Faulty => job[h].held = captured[T]
    BY <1>4, <2>1 DEF Restored
  <2> HIDE DEF T
  <2> QED
    BY <1>3, <1>7, <2>1, <2>2
<1>14. CASE FillTarget(h)
  <2> DEFINE seen == [job[h].seen EXCEPT ![T] = job[h].held]
             j == [Past(job[h]) EXCEPT !.seen = seen]
  <2>1. /\ pc[h] = "fill" /\ pc' = [pc EXCEPT ![h] = "visit"]
        /\ job' = [job EXCEPT ![h] = j]
    BY <1>10, <1>14 DEF FillTarget, At
  <2>2. seen[T] = job[h].held /\ \A f \in Files \ {T} : seen[f] = job[h].seen[f]
    BY <1>1, <1>3
  <2>6. job' = [job EXCEPT ![h] = j]
    BY <2>1
  <2> HIDE DEF seen
  <2>3. /\ j.op = "restore" /\ j.left = Tail(job[h].left) /\ j.id = job[h].id
        /\ j.lines = job[h].lines /\ j.seen = seen /\ j.missing = job[h].missing
    BY <1>10 DEF Job
  <2> HIDE DEF j
  <2>4. Through(h, "restore") /\ T \notin Faulty => seen[T] = captured[T]
    BY <1>4, <2>1, <2>2 DEF Restored
  <2>5. pc'[h] = "visit" /\ \A g \in Handlers \ {h} : pc'[g] = pc[g]
    BY <1>2, <2>1
  <2> HIDE DEF T
  <2> QED
    BY <1>8, <2>2, <2>3, <2>4, <2>5, <2>6
<1>15. CASE RestoreFails(h)
  <2> DEFINE missing == job[h].missing \cup {T}
             j == [Past(job[h]) EXCEPT !.missing = missing]
  <2>1. /\ pc' = [pc EXCEPT ![h] = "visit"] /\ job' = [job EXCEPT ![h] = j]
    BY <1>10, <1>15 DEF RestoreFails
  <2> HIDE DEF missing
  <2>2. /\ j.op = "restore" /\ j.left = Tail(job[h].left) /\ j.id = job[h].id
        /\ j.lines = job[h].lines /\ j.seen = job[h].seen /\ j.missing = missing
    BY <1>10 DEF Job
  <2>3. T \in refused \cup Faulty \/ (Now(h).existed /\ before[T] = Absent)
    BY <1>15 DEF RestoreFails
  <2>4. Through(h, "restore") => T \in Faulty \cup refused
    BY <1>5, <2>3
  <2>5. missing \subseteq job[h].missing \cup {T}
    BY DEF missing
  <2>6. pc'[h] = "visit" /\ \A g \in Handlers \ {h} : pc'[g] = pc[g]
    BY <1>2, <2>1
  <2> HIDE DEF T, j
  <2> QED
    BY <1>8, <2>1, <2>2, <2>4, <2>5, <2>6
<1> QED
  BY <1>11, <1>12, <1>13, <1>14, <1>15 DEF Restore

-----------------------------------------------------------------------------
(* The inductive invariant, and what it is for.                             *)

\* Requests that end, the rest of the world and the end of the server.
LEMMA EndsKept ==
    ASSUME IInv,
           \/ \E h \in Handlers : LoadFails(h) \/ Report(h) \/ IOFails(h)
           \/ \E f \in Files, c \in Contents \cup {Absent} : Edit(f, c)
           \/ \E f \in Files : PathBecomesLink(f)
           \/ Crash \/ UNCHANGED vars
    PROVE  NewestInv' /\ CreateInv' /\ ManifestInv' /\ UseInv'
<1> USE DEF folder, history, vars
<1>1. pc \in [Handlers -> Points] /\ job \in [Handlers -> Job] /\ NoJob.op = "none"
  BY RestTyped DEF IInv, NoJob
<1>2. /\ UNCHANGED <<before, after, manifest, newest, captured, acknowledged>>
      /\ refused \subseteq refused'
  BY DEF LoadFails, Report, IOFails, Edit, PathBecomesLink, Crash
<1>3. \A g \in Handlers : job'[g].op # "none" => job'[g] = job[g] /\ pc'[g] = pc[g]
  <2>1. CASE \E h \in Handlers : LoadFails(h) \/ Report(h) \/ IOFails(h)
    <3>1. PICK h \in Handlers : End(h)
      BY <2>1 DEF LoadFails, Report, IOFails
    <3>2. job' = [job EXCEPT ![h] = NoJob] /\ pc' = [pc EXCEPT ![h] = "idle"]
      BY <3>1 DEF End, Go
    <3> QED
      BY <1>1, <3>2
  <2>2. CASE Crash
    BY <1>1, <2>2 DEF Crash
  <2>3. CASE job' = job /\ pc' = pc
    BY <2>3
  <2> QED
    BY <2>1, <2>2, <2>3 DEF Edit, PathBecomesLink
<1> QED
  BY <1>2, <1>3, FolderKept, UseKept

\* Every step keeps the inductive invariant.
LEMMA NextKeepsIInv == IInv /\ [Next]_vars => IInv'
<1> SUFFICES ASSUME IInv, [Next]_vars PROVE IInv'
  OBVIOUS
<1>1. TypeOK'
  BY NextTypes DEF IInv
<1>2. NewestInv' /\ CreateInv' /\ ManifestInv' /\ UseInv'
  <2>1. ASSUME NEW h \in Handlers, NEW files \in Requests, BeginCreate(h, files)
        PROVE  NewestInv' /\ CreateInv' /\ ManifestInv' /\ UseInv'
    BY <2>1, BeginCreateFolder, BeginCreateUse
  <2>2. ASSUME NEW h \in Handlers, NEW op \in {"capture", "restore"}, BeginOn(h, op)
        PROVE  NewestInv' /\ CreateInv' /\ ManifestInv' /\ UseInv'
    BY <2>2, BeginOnUse
  <2>3. ASSUME NEW h \in Handlers, Proceed(h)
        PROVE  NewestInv' /\ CreateInv' /\ ManifestInv' /\ UseInv'
    <3>1. CASE Create(h)
      BY <3>1, CreateFolder, CreateUse
    <3>2. CASE LoadFails(h) \/ Report(h)
      BY <3>2, EndsKept
    <3> QED
      BY <2>3, <3>1, <3>2, LoadUse, CaptureUse, RestoreUse DEF Proceed
  <2>4. ASSUME NEW h \in Handlers, IOFails(h)
        PROVE  NewestInv' /\ CreateInv' /\ ManifestInv' /\ UseInv'
    BY <2>4, EndsKept
  <2> QED
    BY <2>1, <2>2, <2>3, <2>4, EndsKept DEF Next
<1> QED
  BY <1>1, <1>2 DEF IInv

\* What the folder and the requests that work on it hold of the newest
\* snapshot, in every state.
THEOREM IInvHolds == Spec => []IInv
<1>1. Init => IInv
  <2> SUFFICES ASSUME Init PROVE IInv
    OBVIOUS
  <2>1. TypeOK
    BY InitTypes
  <2>2. \A h \in Handlers : job[h] = NoJob /\ job[h].op = "none" /\ pc[h] = "idle"
    BY DEF Init, NoJob
  <2>3. newest = 0 /\ ~acknowledged
    BY DEF Init
  <2>4. NewestInv /\ CreateInv /\ ManifestInv
    BY <2>3 DEF NewestInv, CreateInv, ManifestInv
  <2>5. UseInv
    BY <2>2 DEF UseInv, OnLines, Restored, Compared, Through, Alone, At
  <2> QED
    BY <2>1, <2>4, <2>5 DEF IInv
<1> QED
  BY <1>1, NextKeepsIInv, PTL DEF Spec

\* A snapshot the user was told of can be restored, exactly as it was read,
\* until another one of the session is asked for: no capture, restore, failed
\* request or crash takes its manifest or a copy away.
THEOREM AcknowledgedRestorable == Spec => []AcknowledgedIsRestorable
<1>1. ASSUME IInv PROVE AcknowledgedIsRestorable
  <2> SUFFICES ASSUME acknowledged PROVE AcknowledgedIsRestorable
    BY DEF AcknowledgedIsRestorable
  <2>1. newest # 0 /\ manifest.id = newest
    BY <1>1 DEF IInv, NewestInv
  <2>2. Describes(manifest.lines)
    BY <1>1, <2>1 DEF IInv, ManifestInv
  <2>3. manifest.lines \in Seq(Line)
    <3>1. manifest \in Manifest
      BY <1>1, RestTyped DEF IInv
    <3>2. manifest # NoManifest /\ manifest # TornManifest
      BY <2>1 DEF NoManifest, TornManifest
    <3> QED
      BY <3>1, <3>2 DEF Manifest
  <2>4. DOMAIN manifest.lines = 1..Len(manifest.lines)
    BY <2>3
  <2> QED
    BY <2>1, <2>2, <2>4 DEF AcknowledgedIsRestorable, Describes
<1> QED
  BY <1>1, IInvHolds, PTL

\* A request that is done with every file of its snapshot has none left.
LEMMA WholeWay ==
    ASSUME IInv, NEW h \in Handlers, NEW op \in {"capture", "restore"}, Visited(h, op),
           job[h].id = newest
    PROVE  Through(h, op) /\ Done(h) = Len(job[h].lines)
<1>1. job[h].op = op /\ pc[h] = "visit" /\ job[h].left = <<>>
  BY DEF Visited, At
<1>2. job[h].lines \in Seq(Line)
  BY OwnTyped DEF IInv
<1>3. Len(job[h].lines) \in Nat /\ Len(job[h].left) = 0
  BY <1>1, <1>2
<1> QED
  BY <1>1, <1>3 DEF Through, Done

\* A restore that went through the newest snapshot put back every file of it
\* that is neither faulty nor refused.
THEOREM RestoreIsComplete == Spec => []RestoreBringsBack
<1>1. ASSUME IInv PROVE RestoreBringsBack
  <2> SUFFICES ASSUME NEW h \in Handlers, Visited(h, "restore"), job[h].id = newest,
                      NEW k \in 1..Len(job[h].lines),
                      job[h].lines[k].file \notin Faulty \cup refused
               PROVE  /\ job[h].lines[k].file \notin job[h].missing
                      /\ job[h].seen[job[h].lines[k].file] = captured[job[h].lines[k].file]
    BY DEF RestoreBringsBack
  <2>1. Through(h, "restore") /\ Done(h) = Len(job[h].lines)
    BY <1>1, WholeWay
  <2> QED
    BY <1>1, <2>1 DEF IInv, UseInv, Restored
<1> QED
  BY <1>1, IInvHolds, PTL

\* A capture beside no other hides no change: a file it calls neither changed
\* nor missing held, when it was read, what the snapshot holds.
THEOREM CaptureHidesNothing == Spec => []UnreportedIsUnchanged
<1>1. ASSUME IInv PROVE UnreportedIsUnchanged
  <2> SUFFICES ASSUME NEW h \in Handlers, Visited(h, "capture"), job[h].id = newest, job[h].alone,
                      NEW k \in 1..Len(job[h].lines),
                      job[h].lines[k].file \notin Faulty \cup job[h].changed \cup job[h].missing
               PROVE  job[h].seen[job[h].lines[k].file] = captured[job[h].lines[k].file]
    BY DEF UnreportedIsUnchanged
  <2>1. Through(h, "capture") /\ Done(h) = Len(job[h].lines)
    BY <1>1, WholeWay
  <2>2. Alone(h)
    BY DEF Alone, Visited, At
  <2> QED
    BY <1>1, <2>1, <2>2 DEF IInv, UseInv, Compared
<1> QED
  BY <1>1, IInvHolds, PTL
=============================================================================
