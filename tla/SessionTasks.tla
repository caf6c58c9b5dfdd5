----------------------------- MODULE SessionTasks -----------------------------
(* The task queue of a session: SessionTaskQueue keeps it in one JSON file *)
(* that every operation reads, changes in memory, truncates and writes;    *)
(* the API handlers list, add and move tasks, and preparing a workflow     *)
(* adds the default tasks one by one.                                      *)
(*                                                                         *)
(* The server has no lock: requests interleave at every await. `overlap`   *)
(* says whether a behaviour lets them. Reads and writes of the file may    *)
(* fail, and the process may be killed and started again.                  *)
(*                                                                         *)
(* Abstracted: of a task, its identifier (the title and the millisecond it *)
(* was added in), its dependencies and its status; of a title, which       *)
(* default task it is of, if any.                                          *)
EXTENDS Naturals, FiniteSets, Sequences

CONSTANTS
    Handlers,       \* requests the server may be working on at a time
    NDefaults,      \* the default tasks of a workflow
    Dependencies,   \* the dependencies callers give a task
    Asked,          \* what callers ask
    MaxTime,        \* bound on the milliseconds in which tasks are added
    MaxCalls,       \* bound on the requests made one after another
    MaxOverlaps,    \* bound on the requests where they may overlap
    MaxCrashes      \* bound on the times the server is killed

Titles == 0..NDefaults
Ids == [title : Titles, at : 1..MaxTime]

VARIABLES
    file,       \* tasks.json of the session
    local,      \* each request: where it is, what it asks, the list it is about
                \* to save, and the default tasks it has still to add
    clock,      \* the millisecond
    overlap,    \* whether requests may overlap
    calls,      \* the requests begun
    crashes     \* the times the server was killed

vars == <<file, local, clock, overlap, calls, crashes>>

\* The list the file stands for: the one being written, or the one it holds.
Writing(h) == local[h].pc \in {"creating", "saving"}
Written == {local[h].list : h \in {g \in Handlers : Writing(g)}}
Stored == IF Written = {} THEN file.list ELSE CHOOSE l \in Written : TRUE
Readable == Written # {} \/ file.kind \in {"absent", "whole"}

Board == INSTANCE TaskBoard WITH tasks <- Stored, readable <- Readable

Status == Board!Status
Task == Board!Task
Lists == Seq(Task)

ASSUME BoundsAssumption ==
    /\ NDefaults \in Nat \ {0} /\ MaxTime \in Nat /\ MaxCrashes \in Nat
    /\ MaxCalls \in Nat /\ MaxOverlaps \in Nat
ASSUME CallersAssumption == {} \in Dependencies /\ Dependencies \subseteq SUBSET Ids

\* A file that was truncated is empty until it is written; one two requests
\* wrote over each other may hold the end of a longer text.
File == {f \in [kind : {"absent", "empty", "torn", "whole"}, list : Lists] :
            f.kind # "whole" => f.list = <<>>}
NoFile     == [kind |-> "absent", list |-> <<>>]
EmptyFile  == [kind |-> "empty", list |-> <<>>]
TornFile   == [kind |-> "torn", list |-> <<>>]
Holding(l) == [kind |-> "whole", list |-> l]

\* A caller may give a task any title: the page's button for default tasks adds
\* those of a prepared workflow over again.
Asks ==
    [op : {"list", "prepare"}]
    \cup [op : {"add"}, title : Titles, deps : Dependencies]
    \cup [op : {"move"}, id : Ids, to : Status]

ASSUME AskedAssumption == Asked \subseteq Asks

Locations == {"idle", "load", "create", "creating", "save", "saving", "progress"}
\* ensureDefaultTasks and addTasks each load the queue before a task is added.
Stages == {"ensure", "addAll", "add"}

Request == [pc : Locations, ask : Asks, list : Lists, stage : Stages, left : 0..NDefaults]
Idle == [pc |-> "idle", ask |-> [op |-> "list"], list |-> <<>>, stage |-> "add", left |-> 0]

Init ==
    /\ file = NoFile
    /\ local = [h \in Handlers |-> Idle]
    /\ clock = 1
    /\ overlap \in BOOLEAN
    /\ calls = 0 /\ crashes = 0

At(h, l) == local[h].pc = l
Become(h, r) == local' = [local EXCEPT ![h] = r]

(* ------------------------- what an operation does ---------------------- *)

\* `find`: the first task of an identifier
IsFirst(l, i) == \A j \in DOMAIN l : j < i => l[j].id # l[i].id

\* TaskDependencyResolver.resolve
Ready(l, i) ==
    \A d \in l[i].deps :
        \E j \in DOMAIN l : l[j].id = d /\ IsFirst(l, j) /\ l[j].status = "completed"

\* TaskDependencyResolver.assertNoCircularDependencies: of tasks that share an
\* identifier the graph has the last, and identifiers of no task are passed over.
IsLast(l, i) == \A j \in DOMAIN l : j > i => l[j].id # l[i].id
\* Mutant: only a task that depends on itself is found.
CircularAlone(l) == \E i \in DOMAIN l : IsLast(l, i) /\ l[i].id \in l[i].deps

Circular(l) ==
    \E S \in SUBSET {i \in DOMAIN l : IsLast(l, i)} :
        S # {} /\ \A i \in S : \E j \in S : l[j].id \in l[i].deps

NewTask(title, at, deps) == [id |-> [title |-> title, at |-> at], deps |-> deps, status |-> "pending"]

\* transitionTask, on every task of the identifier
Moved(l, id, to) ==
    [k \in DOMAIN l |-> IF l[k].id = id THEN [l[k] EXCEPT !.status = to] ELSE l[k]]

\* Mutant: a start does not wait for dependencies.
MayMoveAnyway(l, i, to) == Board!CanTransition(l[i].status, to)

MayMove(l, i, to) ==
    /\ Board!CanTransition(l[i].status, to)
    /\ to = "in_progress" => Ready(l, i)

(* ------------------------------ the requests --------------------------- *)

Begin(h) ==
    /\ At(h, "idle") /\ calls < (IF overlap THEN MaxOverlaps ELSE MaxCalls)
    /\ overlap \/ \A g \in Handlers : At(g, "idle")
    /\ calls' = calls + 1
    /\ \E k \in Asked :
        Become(h, [Idle EXCEPT !.pc = "load", !.ask = k,
                    !.stage = IF k.op = "prepare" THEN "ensure" ELSE "add",
                    !.left = IF k.op = "prepare" THEN NDefaults ELSE 0])
    /\ UNCHANGED <<file, clock, overlap, crashes>>

\* The request rejects.
Reject(h) == Become(h, Idle) /\ UNCHANGED clock

\* addTask, with the list that was loaded
AddTask(h, l, title, deps) ==
    \E at \in clock..MaxTime :
        LET new == Append(l, NewTask(title, at, deps))
        IN  /\ clock' = at
            /\ IF Circular(new)
               THEN Become(h, Idle)
               ELSE Become(h, [local[h] EXCEPT !.pc = "save", !.list = new])

\* transitionTask, with the list that was loaded
MoveTask(h, l, id, to) ==
    /\ UNCHANGED clock
    /\ \/ \E i \in DOMAIN l :
            /\ l[i].id = id /\ IsFirst(l, i) /\ MayMove(l, i, to)
            /\ Become(h, [local[h] EXCEPT !.pc = "save", !.list = Moved(l, id, to)])
       \/ /\ \A i \in DOMAIN l : l[i].id = id /\ IsFirst(l, i) => ~MayMove(l, i, to)
          /\ Become(h, Idle)

Goto(h, l) == Become(h, [local[h] EXCEPT !.pc = l]) /\ UNCHANGED clock
LoadAgain(h, stage) == Become(h, [local[h] EXCEPT !.pc = "load", !.stage = stage]) /\ UNCHANGED clock

\* Mutant: the default tasks are added whether or not there are tasks.
PrepareAgain(h, l) ==
    \/ local[h].stage = "ensure" /\ LoadAgain(h, "addAll")
    \/ local[h].stage = "addAll" /\ LoadAgain(h, "add")
    \/ local[h].stage = "add" /\ AddTask(h, l, NDefaults + 1 - local[h].left, {})

\* RuntimeWorkflowOrchestrator.ensureDefaultTasks, then addTasks, then addTask
Prepare(h, l) ==
    \/ local[h].stage = "ensure" /\ l = <<>> /\ LoadAgain(h, "addAll")
    \/ local[h].stage = "ensure" /\ l # <<>> /\ Goto(h, "progress")
    \/ local[h].stage = "addAll" /\ LoadAgain(h, "add")
    \/ local[h].stage = "add" /\ AddTask(h, l, NDefaults + 1 - local[h].left, {})

\* What follows a load that found, or created, the list l
Proceed(h, l) ==
    LET k == local[h].ask
    IN  \/ k.op = "list" /\ Goto(h, "progress")
        \/ k.op = "add" /\ AddTask(h, l, k.title, k.deps)
        \/ k.op = "move" /\ MoveTask(h, l, k.id, k.to)
        \/ k.op = "prepare" /\ Prepare(h, l)

\* The queue that a request but a move finds missing is created, empty.
Create(h) == Become(h, [local[h] EXCEPT !.pc = "create", !.list = <<>>]) /\ UNCHANGED clock

\* Mutant: a file that does not parse is taken for no file.
LoadForgives(h) ==
    /\ At(h, "load")
    /\ \/ file.kind = "whole" /\ Proceed(h, file.list)
       \/ file.kind # "whole" /\ local[h].ask.op # "move" /\ Create(h)
       \/ file.kind # "whole" /\ local[h].ask.op = "move" /\ Reject(h)
    /\ UNCHANGED <<file, overlap, calls, crashes>>

\* load; loadOrCreate creates the file only when there is none
Load(h) ==
    /\ At(h, "load")
    /\ \/ file.kind = "whole" /\ Proceed(h, file.list)
       \/ file.kind = "absent" /\ local[h].ask.op # "move" /\ Create(h)
       \/ file.kind = "absent" /\ local[h].ask.op = "move" /\ Reject(h)
       \/ file.kind \in {"empty", "torn"} /\ Reject(h)
    /\ UNCHANGED <<file, overlap, calls, crashes>>

\* writeFile truncates the file,
Truncate(h) ==
    /\ \/ At(h, "create") /\ Become(h, [local[h] EXCEPT !.pc = "creating"])
       \/ At(h, "save") /\ Become(h, [local[h] EXCEPT !.pc = "saving"])
    /\ file' = EmptyFile
    /\ UNCHANGED <<clock, overlap, calls, crashes>>

\* and writes the text from its beginning, over what another request has
\* written there since.
WriteText(h) ==
    file' \in IF file.kind = "empty" THEN {Holding(local[h].list)}
              ELSE {Holding(local[h].list), TornFile}

Created(h) ==
    /\ At(h, "creating")
    /\ WriteText(h)
    /\ Proceed(h, <<>>)
    /\ UNCHANGED <<overlap, calls, crashes>>

Saved(h) ==
    /\ At(h, "saving")
    /\ WriteText(h)
    /\ Become(h, IF local[h].left > 1
                 THEN [local[h] EXCEPT !.pc = "load", !.left = @ - 1]
                 ELSE [local[h] EXCEPT !.pc = "progress", !.left = 0])
    /\ UNCHANGED <<clock, overlap, calls, crashes>>

\* Every answer reads the file once more, for the progress.
Answer(h) ==
    /\ At(h, "progress")
    /\ Become(h, Idle)
    /\ UNCHANGED <<file, clock, overlap, calls, crashes>>

\* A read or a write fails; a failed write leaves the file empty or torn.
Fails(h) ==
    /\ ~At(h, "idle")
    /\ file' \in IF Writing(h) THEN {file, TornFile} ELSE {file}
    /\ Reject(h)
    /\ UNCHANGED <<overlap, calls, crashes>>

Crash ==
    /\ crashes < MaxCrashes
    /\ crashes' = crashes + 1
    /\ file' \in IF Written # {} THEN {file, TornFile} ELSE {file}
    /\ local' = [h \in Handlers |-> Idle]
    /\ UNCHANGED <<clock, overlap, calls>>

Step(h) ==
    Begin(h) \/ Load(h) \/ Truncate(h) \/ Created(h) \/ Saved(h) \/ Answer(h) \/ Fails(h)

Next == Crash \/ \E h \in Handlers : Step(h)

Spec == Init /\ [][Next]_vars

(* -------------------------------- properties --------------------------- *)

\* Every variable keeps its type.
TypeOK ==
    /\ file \in File
    /\ local \in [Handlers -> Request]
    /\ clock \in Nat \ {0}
    /\ overlap \in BOOLEAN
    /\ calls \in Nat /\ crashes \in 0..MaxCrashes

\* A task that is being worked on or completed has its dependencies in the
\* list, and completed.
InOrder(l) ==
    \A i \in DOMAIN l :
        IsFirst(l, i) /\ l[i].status \in {"in_progress", "completed"} => Ready(l, i)

\* However requests overlap, fail or are cut short, a list that can be read is
\* in order.
StartedAfterDependencies == InOrder(file.list)

\* However requests overlap: in a list that can be read, whose tasks differ in
\* identifier and depend on tasks of the list that did not end without being
\* completed, there is a task to go on with until all are completed.
AlwaysATaskToDo ==
    LET l == file.list
        Open == {i \in DOMAIN l : l[i].status \notin Board!Terminal}
    IN  (/\ \A i \in DOMAIN l : IsFirst(l, i)
         /\ \A i \in DOMAIN l : \A d \in l[i].deps :
                \E j \in DOMAIN l : l[j].id = d /\ l[j].status \notin {"blocked", "cancelled"})
        => Open = {} \/ \E i \in Open : Ready(l, i)

\* While requests do not overlap, whatever fails and whatever titles callers use:
\* a preparation adds its default tasks to an empty list only, each once and in
\* their order, and when it has added one it ends with all of them in the file.
DefaultsComeOnce ==
    ~overlap => \A h \in Handlers : local[h].ask.op = "prepare" =>
        LET l == local[h].list
        IN  /\ \A i \in DOMAIN l : l[i].id.title = i
            /\ At(h, "progress") /\ l # <<>> => Len(l) = NDefaults /\ file = Holding(l)

\* While requests do not overlap, whatever fails: the file is a task board, one
\* step of it at a time, and once it is damaged it stays so.
SerialFileIsABoard == [][~overlap => Board!Next]_<<Stored, Readable>>
=============================================================================
