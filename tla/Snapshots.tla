------------------------------ MODULE Snapshots ------------------------------
(* The local snapshots of one session: the copies of files a user has made *)
(* before a patch, what a later capture finds changed, and the way back.   *)
(*                                                                         *)
(* A session has one folder: copies under before/ and after/ and one       *)
(* manifest, which every snapshot of the session writes over. Requests     *)
(* interleave at every await, a writeFile truncates before it fills, the   *)
(* user and patches write the project meanwhile, and the server may be     *)
(* killed anywhere.                                                        *)
(*                                                                         *)
(* Abstracted: the identifier of a snapshot, a millisecond nothing reads   *)
(* again, is the number of its request; the rollback.patch, which nothing  *)
(* reads either, is a write that may fail. A request names no file twice.  *)
EXTENDS Naturals, Sequences, SequencesExt

CONSTANTS
    Handlers,       \* requests the server may be working on at a time
    Files,          \* files of the project
    Contents,       \* what they may hold
    Faulty,         \* files whose copies may fail to be read or written
    Requests,       \* the sequences of files users ask snapshots of
    MaxCalls,       \* bound on the requests made
    MaxEdits,       \* bound on the writes of others to the project
    MaxCrashes      \* bound on the times the server is killed

CONSTANTS Absent, Torn      \* no file; a file truncated and not filled yet

ASSUME BoundsAssumption == MaxCalls \in Nat /\ MaxEdits \in Nat /\ MaxCrashes \in Nat
ASSUME FilesAssumption ==
    /\ Faulty \subseteq Files
    /\ Requests \subseteq {s \in Seq(Files) : IsInjective(s)}
    /\ Absent \notin Contents /\ Torn \notin Contents /\ Absent # Torn

Held == Contents \cup {Absent, Torn}
Line == [file : Files, existed : BOOLEAN]
NoManifest == [id |-> 0, lines |-> <<>>]
TornManifest == [id |-> 0, lines |-> <<[file |-> Torn, existed |-> FALSE]>>]

VARIABLES
    disk,           \* the project
    refused,        \* files ProtectedPathPolicy refuses: a link has taken their place
    before, after,  \* the copies in the session's folder
    manifest,       \* manifest.json: missing, torn, or of a snapshot
    pc, job,        \* where each request is, and what it holds
    calls, edits, crashes,
    newest,         \* history: the newest snapshot, 0 if it was begun beside another
    captured,       \* history: what it read of each file
    acknowledged    \* history: whether its request was answered

folder == <<before, after, manifest>>
history == <<newest, captured, acknowledged>>
bounds == <<calls, edits, crashes>>
vars == <<disk, refused, folder, pc, job, bounds, history>>

Points == {"idle", "load", "visit", "copy", "fill", "compare", "manifest", "report"}
NoJob ==
    [op |-> "none", id |-> 0, left |-> <<>>, lines |-> <<>>, held |-> Absent, alone |-> TRUE,
     seen |-> [f \in Files |-> Absent], changed |-> {}, missing |-> {}]

Init ==
    /\ disk \in [Files -> Contents \cup {Absent}] /\ refused = {}
    /\ before = [f \in Files |-> Absent] /\ after = [f \in Files |-> Absent]
    /\ manifest = NoManifest
    /\ pc = [h \in Handlers |-> "idle"] /\ job = [h \in Handlers |-> NoJob]
    /\ calls = 0 /\ edits = 0 /\ crashes = 0
    /\ newest = 0 /\ captured = [f \in Files |-> Absent] /\ acknowledged = FALSE

Whole(m) == m # NoManifest /\ m # TornManifest
Working(op) == {h \in Handlers : job[h].op = op}
Now(h) == Head(job[h].left)
Target(h) == IF job[h].op = "create" THEN Now(h) ELSE Now(h).file
At(h, op, point) == job[h].op = op /\ pc[h] = point
Visiting(h, op) == At(h, op, "visit") /\ job[h].left # <<>>
Visited(h, op) == At(h, op, "visit") /\ job[h].left = <<>>

Go(h, point) == pc' = [pc EXCEPT ![h] = point]
End(h) == Go(h, "idle") /\ job' = [job EXCEPT ![h] = NoJob]

\* What a writeFile leaves where `old` is by the time it fills: over the text
\* of another it may leave the end of that.
Filled(old, new) == IF old = Torn THEN {new} ELSE {new, Torn}

\* The job `j` done with its present file
Past(j) == [j EXCEPT !.left = Tail(@)]
Listed(j, existed) ==
    [Past(j) EXCEPT !.lines = Append(@, [file |-> Head(j.left), existed |-> existed])]

-----------------------------------------------------------------------------
(* LocalSnapshotManager.create                                             *)

\* The copies are written over those of the snapshot before.
BeginCreate(h, files) ==
    /\ pc[h] = "idle" /\ calls < MaxCalls
    /\ calls' = calls + 1
    /\ job' = [job EXCEPT ![h] = [NoJob EXCEPT !.op = "create", !.id = calls + 1, !.left = files]]
    /\ Go(h, "visit")
    /\ newest' = IF Working("create") = {} THEN calls + 1 ELSE 0
    /\ captured' = [f \in Files |-> Absent] /\ acknowledged' = FALSE
    /\ UNCHANGED <<disk, refused, folder, edits, crashes>>

\* The policy refuses the file: the request throws with the copies made so far.
CreateBlocked(h) ==
    /\ Visiting(h, "create") /\ Now(h) \in refused
    /\ End(h)
    /\ UNCHANGED <<disk, refused, folder, bounds, history>>

\* Mutant: a file that is not there is listed and then copied as well.
ReadTargetOnward(h) ==
    /\ Visiting(h, "create") /\ Now(h) \notin refused
    /\ job' = [job EXCEPT ![h] = IF disk[Now(h)] = Absent THEN Listed(@, FALSE) ELSE @]
    /\ Go(h, "copy")
    /\ UNCHANGED <<disk, refused, folder, bounds, history>>

ReadTarget(h) ==
    /\ Visiting(h, "create") /\ Now(h) \notin refused
    /\ captured' = IF job[h].id = newest
                    THEN [captured EXCEPT ![Now(h)] = disk[Now(h)]] ELSE captured
    /\ \/ /\ disk[Now(h)] # Absent
          /\ job' = [job EXCEPT ![h].held = disk[Now(h)]]
          /\ Go(h, "copy")
       \/ /\ disk[Now(h)] = Absent \/ Now(h) \in Faulty
          /\ job' = [job EXCEPT ![h] = Listed(@, FALSE)]
          /\ UNCHANGED pc
    /\ UNCHANGED <<disk, refused, folder, bounds, newest, acknowledged>>

OpenCopy(h) ==
    /\ At(h, "create", "copy")
    /\ before' = [before EXCEPT ![Now(h)] = Torn]
    /\ Go(h, "fill")
    /\ UNCHANGED <<disk, refused, after, manifest, job, bounds, history>>

FillCopy(h) ==
    /\ At(h, "create", "fill")
    /\ \E c \in Filled(before[Now(h)], job[h].held) : before' = [before EXCEPT ![Now(h)] = c]
    /\ job' = [job EXCEPT ![h] = Listed(@, TRUE)]
    /\ Go(h, "visit")
    /\ UNCHANGED <<disk, refused, after, manifest, bounds, history>>

\* A copy that cannot be written is listed like a file that was not there.
CopyFails(h) ==
    /\ At(h, "create", "copy") \/ At(h, "create", "fill")
    /\ Now(h) \in Faulty
    /\ job' = [job EXCEPT ![h] = Listed(@, FALSE)]
    /\ Go(h, "visit")
    /\ UNCHANGED <<disk, refused, folder, bounds, history>>

OpenManifest(h) ==
    /\ Visited(h, "create")
    /\ manifest' = TornManifest
    /\ Go(h, "manifest")
    /\ UNCHANGED <<disk, refused, before, after, job, bounds, history>>

FillManifest(h) ==
    /\ At(h, "create", "manifest")
    /\ \/ manifest' = [id |-> job[h].id, lines |-> job[h].lines]
       \/ Whole(manifest) /\ manifest' = TornManifest
    /\ Go(h, "report")
    /\ UNCHANGED <<disk, refused, before, after, job, bounds, history>>

\* The rollback.patch is written, the event published and the request answered.
CreateReport(h) ==
    /\ At(h, "create", "report")
    /\ acknowledged' = (acknowledged \/ job[h].id = newest)
    /\ End(h)
    /\ UNCHANGED <<disk, refused, folder, bounds, newest, captured>>

-----------------------------------------------------------------------------
(* captureSnapshotAfter and restoreSnapshot start from the manifest.       *)

BeginOn(h, op) ==
    /\ pc[h] = "idle" /\ calls < MaxCalls
    /\ calls' = calls + 1
    /\ job' = [g \in Handlers |->
                IF g = h THEN [NoJob EXCEPT !.op = op, !.alone = Working(op) = {}]
                ELSE IF job[g].op = op THEN [job[g] EXCEPT !.alone = FALSE] ELSE job[g]]
    /\ Go(h, "load")
    /\ UNCHANGED <<disk, refused, folder, edits, crashes, history>>

Load(h) ==
    /\ pc[h] = "load" /\ Whole(manifest)
    /\ job' = [job EXCEPT ![h].id = manifest.id, ![h].left = manifest.lines,
                          ![h].lines = manifest.lines]
    /\ Go(h, "visit")
    /\ UNCHANGED <<disk, refused, folder, bounds, history>>

\* No manifest, or one JSON.parse does not take
LoadFails(h) ==
    /\ pc[h] = "load" /\ ~Whole(manifest)
    /\ End(h)
    /\ UNCHANGED <<disk, refused, folder, bounds, history>>

\* SnapshotDiffService.captureAfter
ReadCurrent(h) ==
    LET f == Target(h) IN
    /\ Visiting(h, "capture")
    /\ \/ /\ disk[f] # Absent
          /\ job' = [job EXCEPT ![h].held = disk[f], ![h].seen[f] = disk[f]]
          /\ Go(h, "copy")
       \/ /\ disk[f] = Absent \/ f \in Faulty
          /\ job' = [job EXCEPT ![h].missing = @ \cup {f}]
          /\ Go(h, "compare")
    /\ UNCHANGED <<disk, refused, folder, bounds, history>>

OpenAfter(h) ==
    /\ At(h, "capture", "copy")
    /\ after' = [after EXCEPT ![Target(h)] = Torn]
    /\ Go(h, "fill")
    /\ UNCHANGED <<disk, refused, before, manifest, job, bounds, history>>

\* Mutant: the copy goes to before/.
FillAfterBefore(h) ==
    /\ At(h, "capture", "fill")
    /\ before' = [before EXCEPT ![Target(h)] = job[h].held]
    /\ Go(h, "compare")
    /\ UNCHANGED <<disk, refused, after, manifest, job, bounds, history>>

FillAfter(h) ==
    /\ At(h, "capture", "fill")
    /\ \E c \in Filled(after[Target(h)], job[h].held) : after' = [after EXCEPT ![Target(h)] = c]
    /\ Go(h, "compare")
    /\ UNCHANGED <<disk, refused, before, manifest, job, bounds, history>>

AfterFails(h) ==
    /\ At(h, "capture", "copy") \/ At(h, "capture", "fill")
    /\ Target(h) \in Faulty
    /\ job' = [job EXCEPT ![h].missing = @ \cup {Target(h)}]
    /\ Go(h, "compare")
    /\ UNCHANGED <<disk, refused, folder, bounds, history>>

\* Mutant: only whether there is a copy is compared.
FileChangedByPresence(line) == line.existed # (after[line.file] # Absent)

\* fileChanged: a copy that is not there, of a file that existed, is a change.
\* The copy under after/ may be one an earlier capture left.
FileChanged(line) ==
    IF line.existed
    THEN before[line.file] = Absent \/ before[line.file] # after[line.file]
    ELSE after[line.file] # Absent

Compare(h) ==
    /\ At(h, "capture", "compare")
    /\ job' = [job EXCEPT ![h] =
                [Past(job[h]) EXCEPT !.changed =
                    IF FileChanged(Now(h)) THEN @ \cup {Target(h)} ELSE @]]
    /\ Go(h, "visit")
    /\ UNCHANGED <<disk, refused, folder, bounds, history>>

\* SnapshotRestoreService.restoreFile: what it cannot restore it leaves and
\* goes on with the next.
Restores(h, f) == Visiting(h, "restore") /\ f \notin refused
Delete(h) ==
    LET f == Target(h) IN
    /\ Restores(h, f) /\ ~Now(h).existed
    /\ disk' = [disk EXCEPT ![f] = Absent]
    /\ job' = [job EXCEPT ![h] = [Past(job[h]) EXCEPT !.seen[f] = Absent]]
    /\ UNCHANGED <<refused, folder, pc, bounds, history>>

\* Mutant: the copy of the last capture is restored.
ReadCopyAfter(h) ==
    LET f == Target(h) IN
    /\ Restores(h, f) /\ Now(h).existed /\ after[f] # Absent
    /\ job' = [job EXCEPT ![h].held = after[f]]
    /\ Go(h, "copy")
    /\ UNCHANGED <<disk, refused, folder, bounds, history>>

ReadCopy(h) ==
    LET f == Target(h) IN
    /\ Restores(h, f) /\ Now(h).existed /\ before[f] # Absent
    /\ job' = [job EXCEPT ![h].held = before[f]]
    /\ Go(h, "copy")
    /\ UNCHANGED <<disk, refused, folder, bounds, history>>

OpenTarget(h) ==
    /\ At(h, "restore", "copy")
    /\ disk' = [disk EXCEPT ![Target(h)] = Torn]
    /\ Go(h, "fill")
    /\ UNCHANGED <<refused, folder, job, bounds, history>>

FillTarget(h) ==
    LET f == Target(h) IN
    /\ At(h, "restore", "fill")
    /\ \E c \in Filled(disk[f], job[h].held) : disk' = [disk EXCEPT ![f] = c]
    /\ job' = [job EXCEPT ![h] = [Past(job[h]) EXCEPT !.seen[f] = job[h].held]]
    /\ Go(h, "visit")
    /\ UNCHANGED <<refused, folder, bounds, history>>

RestoreFails(h) ==
    LET f == Target(h) IN
    /\ \/ Visiting(h, "restore") /\ (f \in refused \cup Faulty
                                      \/ (Now(h).existed /\ before[f] = Absent))
       \/ (At(h, "restore", "copy") \/ At(h, "restore", "fill")) /\ f \in Faulty
    /\ job' = [job EXCEPT ![h] = [Past(job[h]) EXCEPT !.missing = @ \cup {f}]]
    /\ Go(h, "visit")
    /\ UNCHANGED <<disk, refused, folder, bounds, history>>

Report(h) ==
    /\ Visited(h, "capture") \/ Visited(h, "restore")
    /\ End(h)
    /\ UNCHANGED <<disk, refused, folder, bounds, history>>

-----------------------------------------------------------------------------
\* Outside the two try blocks an exception ends the request. A restore has
\* none outside; a capture has the marker of a missing file and the report.
IOFails(h) ==
    /\ \/ job[h].op = "create" /\ pc[h] \in {"visit", "manifest", "report"}
       \/ pc[h] = "load"
       \/ Visiting(h, "capture") \/ Visited(h, "capture")
    /\ End(h)
    /\ UNCHANGED <<disk, refused, folder, bounds, history>>

\* The user, git, or a patch writes or removes a file.
Edit(f, c) ==
    /\ edits < MaxEdits /\ edits' = edits + 1
    /\ disk[f] # c
    /\ disk' = [disk EXCEPT ![f] = c]
    /\ UNCHANGED <<refused, folder, pc, job, calls, crashes, history>>

\* A symbolic link takes the place of a file.
PathBecomesLink(f) ==
    /\ edits < MaxEdits /\ edits' = edits + 1
    /\ f \notin refused /\ refused' = refused \cup {f}
    /\ UNCHANGED <<disk, folder, pc, job, calls, crashes, history>>

Crash ==
    /\ crashes < MaxCrashes /\ crashes' = crashes + 1
    /\ \E h \in Handlers : pc[h] # "idle"
    /\ pc' = [h \in Handlers |-> "idle"] /\ job' = [h \in Handlers |-> NoJob]
    /\ UNCHANGED <<disk, refused, folder, calls, edits, history>>

Create(h) ==
    \/ CreateBlocked(h) \/ ReadTarget(h) \/ OpenCopy(h) \/ FillCopy(h) \/ CopyFails(h)
    \/ OpenManifest(h) \/ FillManifest(h) \/ CreateReport(h)
Capture(h) ==
    ReadCurrent(h) \/ OpenAfter(h) \/ FillAfter(h) \/ AfterFails(h) \/ Compare(h)
Restore(h) ==
    Delete(h) \/ ReadCopy(h) \/ OpenTarget(h) \/ FillTarget(h) \/ RestoreFails(h)
Proceed(h) == Load(h) \/ LoadFails(h) \/ Create(h) \/ Capture(h) \/ Restore(h) \/ Report(h)

Next ==
    \/ \E h \in Handlers :
        \/ \E files \in Requests : BeginCreate(h, files)
        \/ \E op \in {"capture", "restore"} : BeginOn(h, op)
        \/ Proceed(h)
        \/ IOFails(h)
    \/ \E f \in Files, c \in Contents \cup {Absent} : Edit(f, c)
    \/ \E f \in Files : PathBecomesLink(f)
    \/ Crash

Spec == Init /\ [][Next]_vars

-----------------------------------------------------------------------------
Manifest == [id : 1..MaxCalls, lines : Seq(Line)] \cup {NoManifest, TornManifest}
Job ==
    [op : {"none", "create", "capture", "restore"}, id : 0..MaxCalls,
     left : Seq(Files) \cup Seq(Line), lines : Seq(Line), held : Held, alone : BOOLEAN,
     seen : [Files -> Held], changed : SUBSET Files, missing : SUBSET Files]

\* A request with record `j` may stand at point `p` when n requests were made:
\* between the steps of a file it still has that file before it, and it knows
\* its snapshot once it has begun to work on one.
Fits(p, j, n) ==
    /\ p \in Points /\ j \in Job
    /\ j.op = "none" <=> p = "idle"
    /\ j.op = "create" => j.left \in Seq(Files) /\ p # "load"
    /\ j.op # "create" => j.left \in Seq(Line)
    /\ p \in {"copy", "fill", "compare"} => j.left # <<>>
    /\ p \in {"manifest", "report"} => j.op = "create"
    /\ p = "compare" => j.op = "capture"
    /\ p \notin {"idle", "load"} => j.id \in 1..n

\* The variables hold what the code can put there, no request stands where the
\* code it runs does not go, and no snapshot is named that was not asked for.
SharedTyped ==
    /\ disk \in [Files -> Held] /\ refused \subseteq Files
    /\ before \in [Files -> Held] /\ after \in [Files -> Held]
    /\ manifest \in Manifest /\ manifest.id <= calls
    /\ calls \in 0..MaxCalls /\ edits \in 0..MaxEdits /\ crashes \in 0..MaxCrashes
    /\ newest \in 0..calls /\ captured \in [Files -> Held] /\ acknowledged \in BOOLEAN
TypeOK ==
    /\ SharedTyped
    /\ pc \in [Handlers -> Points] /\ job \in [Handlers -> Job]
    /\ \A h \in Handlers : Fits(pc[h], job[h], calls)

\* A snapshot the user was told of can be restored, exactly as it was read,
\* until another one of the session is asked for: no capture, restore, failed
\* request or crash takes it away. (A file whose copy fails is listed as one
\* that was not there: it is excepted, and README says so.)
AcknowledgedIsRestorable ==
    acknowledged =>
        /\ manifest.id = newest
        /\ \A k \in 1..Len(manifest.lines) :
            LET line == manifest.lines[k] IN
            line.file \notin Faulty =>
                /\ line.existed <=> captured[line.file] # Absent
                /\ line.existed => before[line.file] = captured[line.file]

\* A restore that went through such a snapshot put back every file of it,
\* whatever was written to the project meanwhile, or deleted it where there
\* was none; only files that fail or are refused are left out.
RestoreBringsBack ==
    \A h \in Handlers :
        Visited(h, "restore") /\ job[h].id = newest =>
            \A k \in 1..Len(job[h].lines) :
                LET f == job[h].lines[k].file IN
                f \notin Faulty \cup refused =>
                    f \notin job[h].missing /\ job[h].seen[f] = captured[f]

\* A file that a capture calls neither changed nor missing held, when it was
\* read, what the snapshot holds; copies an earlier capture left under after/
\* do not hide a change. Two captures at a time share those copies.
UnreportedIsUnchanged ==
    \A h \in Handlers :
        Visited(h, "capture") /\ job[h].id = newest /\ job[h].alone =>
            \A k \in 1..Len(job[h].lines) :
                LET f == job[h].lines[k].file IN
                f \notin Faulty \cup job[h].changed \cup job[h].missing =>
                    job[h].seen[f] = captured[f]

-----------------------------------------------------------------------------
(* The inductive invariant behind these; SnapshotsProofs proves it.        *)

\* The newest snapshot is begun beside no other: the only request that writes
\* the session's folder is the one that takes it
NewestInv ==
    /\ newest # 0 => \A h, g \in Working("create") : h = g /\ job[h].id = newest
    /\ acknowledged => newest # 0 /\ Working("create") = {} /\ manifest.id = newest

\* The lines say what was read of each file, and the copies hold it
Describes(lines) ==
    \A k \in DOMAIN lines :
        LET line == lines[k] IN
        line.file \notin Faulty =>
            /\ line.existed <=> captured[line.file] # Absent
            /\ line.existed => before[line.file] = captured[line.file]
FilesDiffer(lines) ==
    \A i, k \in DOMAIN lines : lines[i].file = lines[k].file => i = k

\* The request that takes the newest snapshot: what it has listed is copied,
\* what is left is not listed, and the manifest is its own once it is filled
Creating(h) ==
    /\ Describes(job[h].lines) /\ FilesDiffer(job[h].lines)
    /\ IsInjective(job[h].left)
    /\ \A i \in DOMAIN job[h].left, k \in DOMAIN job[h].lines :
            job[h].lines[k].file # job[h].left[i]
    /\ pc[h] \in {"copy", "fill"} => job[h].held = captured[Now(h)] /\ job[h].held # Absent
    /\ pc[h] = "fill" => before[Now(h)] = Torn
    /\ pc[h] = "manifest" => manifest = TornManifest
    /\ IF pc[h] = "report" THEN manifest = [id |-> newest, lines |-> job[h].lines]
                           ELSE manifest.id # newest
CreateInv == newest # 0 => \A h \in Working("create") : Creating(h)

\* A manifest of the newest snapshot describes it
ManifestInv ==
    newest # 0 /\ manifest.id = newest =>
        Describes(manifest.lines) /\ FilesDiffer(manifest.lines)

\* The requests that work through the newest snapshot, and how far they are
Through(h, op) == job[h].op = op /\ pc[h] # "load" /\ job[h].id = newest
Done(h) == Len(job[h].lines) - Len(job[h].left)

\* They go through the lines of the manifest that is still in place
OnLines(h) ==
    Through(h, "capture") \/ Through(h, "restore") =>
        /\ manifest.id = newest /\ job[h].lines = manifest.lines
        /\ Done(h) >= 0
        /\ \A i \in DOMAIN job[h].left : job[h].left[i] = job[h].lines[Done(h) + i]

\* A restore has put back what it has passed, and holds what it is to put back
Restored(h) ==
    /\ At(h, "restore", "load") => job[h].missing = {}
    /\ Through(h, "restore") =>
        /\ job[h].missing \subseteq Faulty \cup refused
        /\ \A k \in 1..Done(h) :
                LET f == job[h].lines[k].file IN
                f \notin Faulty \cup refused => job[h].seen[f] = captured[f]
        /\ pc[h] \in {"copy", "fill"} /\ Target(h) \notin Faulty =>
                job[h].held = captured[Target(h)]

\* A capture beside no other: the copy it compares is the one it has made, and
\* what it has passed without a word is what the snapshot holds
Alone(h) == job[h].op = "capture" /\ job[h].alone
Compared(h) ==
    Alone(h) =>
        /\ \A g \in Handlers \ {h} : job[g].op # "capture"
        /\ pc[h] \in {"copy", "fill"} => job[h].held = job[h].seen[Target(h)]
        /\ pc[h] = "fill" => after[Target(h)] = Torn
        /\ pc[h] = "compare" /\ Target(h) \notin job[h].missing =>
                after[Target(h)] = job[h].seen[Target(h)]
        /\ Through(h, "capture") =>
                \A k \in 1..Done(h) :
                    LET f == job[h].lines[k].file IN
                    f \notin Faulty \cup job[h].changed \cup job[h].missing =>
                        job[h].seen[f] = captured[f]

UseInv == \A h \in Handlers : OnLines(h) /\ Restored(h) /\ Compared(h)

IInv ==
    /\ TypeOK
    /\ NewestInv
    /\ CreateInv
    /\ ManifestInv
    /\ UseInv
=============================================================================
