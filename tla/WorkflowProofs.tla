---------------------------- MODULE WorkflowProofs ----------------------------
(* Theorems about the workflow of a session: the queue of tasks the server   *)
(* keeps of it (SessionTasks) and the page that guides the user through it   *)
(* (SessionPage), for any sessions, handlers, proposals, dependencies and    *)
(* bounds.                                                                   *)
(*                                                                           *)
(* Tasks. However requests overlap, a readable list is one some operation    *)
(* derived from a list in order, and operations keep that order. No such     *)
(* list has a circle of dependencies either, so work goes on. While requests *)
(* do not overlap, the one request that saves derived its list from the list *)
(* in the file: the file is a board, and the default tasks come once.        *)
(*                                                                           *)
(* Page. A handler sets its result in whatever the page shows by then. Since *)
(* the user waits for it, what may have changed meanwhile is only what the   *)
(* server asks, so what the result is of is still shown; and every change    *)
(* restarts the timer that asks for a guide, so the newest guide asked for   *)
(* since is the guide of the page.                                           *)
EXTENDS SessionTasks, SessionPage, SequenceTheorems, WellFoundedInduction, TLAPS

(* --------------------------- lists of tasks ---------------------------- *)

\* The names used in the proofs.
LEMMA Names ==
    /\ Board!Status = {"pending", "in_progress", "waiting_user", "blocked", "completed", "cancelled"}
    /\ Task = [id : Ids, deps : Dependencies, status : Status]
    /\ Status = Board!Status
BY DEF Board!Status, Board!Task, Task, Status

\* A task of a list.
LEMMA Entries ==
    ASSUME NEW l \in Lists, NEW i \in DOMAIN l
    PROVE  /\ l[i] \in Task /\ l[i].id \in Ids /\ l[i].deps \in Dependencies /\ l[i].status \in Status
           /\ l[i] = [id |-> l[i].id, deps |-> l[i].deps, status |-> l[i].status]
<1>1. l[i] \in Task
  BY DEF Lists
<1> QED BY <1>1, Names

\* A list whose started tasks have their dependencies, which go round in no circle.
Good(l) == InOrder(l) /\ ~Circular(l)

\* What an operation makes of a list.
Grown(l, m) == (\E t \in Task : t.status = "pending" /\ m = Append(l, t)) /\ ~Circular(m)
Changed(l, m) ==
    \E i \in DOMAIN l, to \in Status :
        IsFirst(l, i) /\ MayMove(l, i, to) /\ m = Moved(l, l[i].id, to)

\* A list with a pending task at its end is in order if the list is.
LEMMA GrownGood ==
    ASSUME NEW l \in Lists, NEW m, Good(l), Grown(l, m)
    PROVE  m \in Lists /\ Good(m)
<1>1. PICK t \in Task : t.status = "pending" /\ m = Append(l, t)
  BY DEF Grown
<1>2. /\ m \in Lists
      /\ DOMAIN l = 1..Len(l) /\ Len(l) \in Nat
      /\ DOMAIN m = 1..(Len(l) + 1)
      /\ \A i \in 1..Len(l) : m[i] = l[i]
      /\ m[Len(l) + 1] = t
  BY <1>1 DEF Lists
<1>3. ASSUME NEW i \in DOMAIN m, IsFirst(m, i), m[i].status \in {"in_progress", "completed"}
      PROVE  Ready(m, i)
  <2>1. i \in DOMAIN l /\ m[i] = l[i]
    BY <1>1, <1>2, <1>3
  <2>2. IsFirst(l, i)
    BY <1>2, <1>3, <2>1 DEF IsFirst
  <2>3. Ready(l, i)
    BY <1>3, <2>1, <2>2 DEF Good, InOrder
  <2>4. ASSUME NEW d \in m[i].deps
        PROVE  \E j \in DOMAIN m : m[j].id = d /\ IsFirst(m, j) /\ m[j].status = "completed"
    <3>1. PICK j \in DOMAIN l : l[j].id = d /\ IsFirst(l, j) /\ l[j].status = "completed"
      BY <2>1, <2>3, <2>4 DEF Ready
    <3>2. j \in DOMAIN m /\ m[j] = l[j]
      BY <1>2
    <3>3. IsFirst(m, j)
      BY <1>2, <3>1, <3>2 DEF IsFirst
    <3> QED BY <3>1, <3>2, <3>3
  <2> QED BY <2>4 DEF Ready
<1> QED BY <1>2, <1>3 DEF Good, Grown, InOrder

\* Moves leave the identifiers and dependencies of a list alone.
LEMMA ChangedKeeps ==
    ASSUME NEW l \in Lists, NEW m, Changed(l, m)
    PROVE  /\ m \in Lists /\ DOMAIN m = DOMAIN l
           /\ \A k \in DOMAIN l : m[k].id = l[k].id /\ m[k].deps = l[k].deps
<1>1. PICK i \in DOMAIN l, to \in Status :
        IsFirst(l, i) /\ MayMove(l, i, to) /\ m = Moved(l, l[i].id, to)
  BY DEF Changed
<1>2. /\ DOMAIN m = DOMAIN l /\ DOMAIN l = 1..Len(l) /\ Len(l) \in Nat
      /\ \A k \in DOMAIN l : m[k] = IF l[k].id = l[i].id THEN [l[k] EXCEPT !.status = to] ELSE l[k]
  BY <1>1 DEF Moved, Lists
<1>3. \A k \in DOMAIN l :
        /\ m[k].id = l[k].id /\ m[k].deps = l[k].deps /\ m[k] \in Task
        /\ m[k].status = IF l[k].id = l[i].id THEN to ELSE l[k].status
  <2> SUFFICES ASSUME NEW k \in DOMAIN l
               PROVE  /\ m[k].id = l[k].id /\ m[k].deps = l[k].deps /\ m[k] \in Task
                      /\ m[k].status = IF l[k].id = l[i].id THEN to ELSE l[k].status
    OBVIOUS
  <2>1. l[k] \in [id : Ids, deps : Dependencies, status : Status]
    BY Entries, Names
  <2> QED BY <1>2, <2>1, Names
<1>4. m \in Lists
  BY <1>1, <1>2, <1>3 DEF Lists, Moved
<1> QED BY <1>2, <1>3, <1>4

\* So is one in which the tasks of an identifier moved as its first may.
LEMMA ChangedGood ==
    ASSUME NEW l \in Lists, NEW m, Good(l), Changed(l, m)
    PROVE  m \in Lists /\ Good(m)
<1>1. PICK i \in DOMAIN l, to \in Status :
        IsFirst(l, i) /\ MayMove(l, i, to) /\ m = Moved(l, l[i].id, to)
  BY DEF Changed
<1>2. /\ DOMAIN m = DOMAIN l /\ DOMAIN l = 1..Len(l) /\ Len(l) \in Nat
      /\ \A k \in DOMAIN l : m[k] = IF l[k].id = l[i].id THEN [l[k] EXCEPT !.status = to] ELSE l[k]
  BY <1>1 DEF Moved, Lists
<1>3. \A k \in DOMAIN l :
        /\ m[k].id = l[k].id /\ m[k].deps = l[k].deps /\ m[k] \in Task
        /\ m[k].status = IF l[k].id = l[i].id THEN to ELSE l[k].status
  <2> SUFFICES ASSUME NEW k \in DOMAIN l
               PROVE  /\ m[k].id = l[k].id /\ m[k].deps = l[k].deps /\ m[k] \in Task
                      /\ m[k].status = IF l[k].id = l[i].id THEN to ELSE l[k].status
    OBVIOUS
  <2>1. l[k] \in [id : Ids, deps : Dependencies, status : Status]
    BY Entries, Names
  <2> QED BY <1>2, <2>1, Names
<1>4. m \in Lists
  BY <1>1, <1>2, <1>3 DEF Lists, Moved
<1>5. \A k \in DOMAIN l : IsFirst(m, k) <=> IsFirst(l, k)
  BY <1>2, <1>3 DEF IsFirst
<1>6. \A k \in DOMAIN l : IsFirst(l, k) /\ l[k].id = l[i].id => k = i
  BY <1>1, <1>2 DEF IsFirst
<1>7. ASSUME NEW j \in DOMAIN l, IsFirst(l, j), l[j].status = "completed"
      PROVE  m[j].status = "completed"
  <2>1. l[j].id = l[i].id => to = "completed"
    BY <1>1, <1>6, <1>7, Names DEF MayMove, Board!CanTransition
  <2> QED BY <1>3, <1>7, <2>1
<1>8. ASSUME NEW k \in DOMAIN l, IsFirst(l, k), m[k].status \in {"in_progress", "completed"}
      PROVE  Ready(l, k)
  <2>1. CASE l[k].id = l[i].id
    <3>1. k = i /\ m[k].status = to
      BY <1>3, <1>6, <1>8, <2>1
    <3>2. to = "completed" => l[i].status \in {"in_progress", "completed"}
      BY <1>1, Names DEF MayMove, Board!CanTransition
    <3> QED BY <1>1, <1>8, <3>1, <3>2 DEF MayMove, Good, InOrder
  <2>2. CASE l[k].id # l[i].id
    BY <1>3, <1>8, <2>2 DEF Good, InOrder
  <2> QED BY <2>1, <2>2
<1>9. ASSUME NEW k \in DOMAIN m, IsFirst(m, k), m[k].status \in {"in_progress", "completed"}
      PROVE  Ready(m, k)
  <2>1. k \in DOMAIN l /\ Ready(l, k) /\ m[k].deps = l[k].deps
    BY <1>2, <1>3, <1>5, <1>8, <1>9
  <2> QED BY <1>2, <1>3, <1>5, <1>7, <2>1 DEF Ready
<1>10. ~Circular(m)
  <2>1. \A k \in DOMAIN l : IsLast(m, k) <=> IsLast(l, k)
    BY <1>2, <1>3 DEF IsLast
  <2>2. {k \in DOMAIN m : IsLast(m, k)} = {k \in DOMAIN l : IsLast(l, k)}
    BY <1>2, <2>1
  <2> SUFFICES ASSUME NEW S \in SUBSET {k \in DOMAIN l : IsLast(l, k)}, S # {},
                      \A k \in S : \E j \in S : m[j].id \in m[k].deps
               PROVE  FALSE
    BY <2>2 DEF Circular
  <2>3. \A k \in S : k \in DOMAIN l
    OBVIOUS
  <2>4. \A k \in S : \E j \in S : l[j].id \in l[k].deps
    BY <1>3, <2>3
  <2> QED BY <2>4 DEF Good, Circular
<1> QED BY <1>4, <1>9, <1>10 DEF Good, InOrder

(* ------------------------------ requests ------------------------------- *)

\* Where a request still has default tasks to add.
AtWork(r) == r.pc \in {"load", "create", "creating", "save", "saving"}
Counted(r) == r.ask.op = "prepare" /\ AtWork(r) => r.left > 0

\* A request's list is good and, as long as it prepares, it has tasks to add.
Sound(r) == r \in Request /\ Good(r.list) /\ Counted(r)

LEMMA EmptyGood == <<>> \in Lists /\ Good(<<>>)
BY DEF Good, InOrder, Circular, Lists

LEMMA IdleSound == Sound(Idle)
<1>1. Idle \in Request
  BY EmptyGood, BoundsAssumption DEF Idle, Request, Asks, Locations, Stages
<1> QED BY <1>1, EmptyGood DEF Idle, Sound, Counted, AtWork

\* What may become of a request that goes on with the list l.
GoesOn(h, l) ==
    \E r \in Request :
        /\ Sound(r) /\ local' = [local EXCEPT ![h] = r]
        /\ r.pc \in {"idle", "load", "progress", "save"}
        /\ r.pc = "save" => Grown(l, r.list) \/ Changed(l, r.list)

\* The operations on a list that was loaded.
LEMMA AddTaskShape ==
    ASSUME NEW h \in Handlers, NEW l \in Lists, NEW title \in Titles, NEW deps \in Dependencies,
           Good(l), TypeOK, Sound(local[h]), AtWork(local[h]), AddTask(h, l, title, deps)
    PROVE  GoesOn(h, l) /\ clock' \in Nat \ {0}
<1>1. PICK at \in clock..MaxTime :
        LET new == Append(l, NewTask(title, at, deps))
        IN  /\ clock' = at
            /\ IF Circular(new)
               THEN Become(h, Idle)
               ELSE Become(h, [local[h] EXCEPT !.pc = "save", !.list = new])
  BY DEF AddTask
<1> DEFINE t == NewTask(title, at, deps)
           new == Append(l, t)
<1>2. clock' = at /\ at \in Nat \ {0} /\ at \in 1..MaxTime
  BY <1>1, BoundsAssumption DEF TypeOK
<1>3. t \in Task /\ t.status = "pending"
  BY <1>2, Names DEF NewTask, Ids
<1>4. ~Circular(new) => Grown(l, new)
  BY <1>3 DEF Grown
<1>5. ~Circular(new) => new \in Lists /\ Good(new)
  BY <1>4, GrownGood
<1>6. CASE Become(h, Idle)
  BY <1>6, IdleSound, <1>2 DEF GoesOn, Sound, Become, Idle
<1>7. CASE ~Circular(new) /\ Become(h, [local[h] EXCEPT !.pc = "save", !.list = new])
  <2> DEFINE r == [local[h] EXCEPT !.pc = "save", !.list = new]
  <2>0. /\ Grown(l, new) /\ new \in Lists /\ Good(new)
        /\ Become(h, [local[h] EXCEPT !.pc = "save", !.list = new])
    BY <1>4, <1>5, <1>7
  <2> HIDE DEF new
  <2>1. "save" \in Locations
    BY DEF Locations
  <2>2. local[h] \in Request
    BY DEF Sound
  <2>3. r \in Request /\ r.pc = "save" /\ r.list = new /\ r.ask = local[h].ask /\ r.left = local[h].left
    BY <2>0, <2>1, <2>2 DEF Request
  <2>4. Sound(r)
    BY <2>0, <2>3 DEF Sound, Counted, AtWork
  <2> HIDE DEF r
  <2> QED BY <1>2, <2>0, <2>3, <2>4 DEF GoesOn, Become, r
<1> QED BY <1>1, <1>6, <1>7

LEMMA MoveTaskShape ==
    ASSUME NEW h \in Handlers, NEW l \in Lists, NEW id \in Ids, NEW to \in Status,
           Good(l), TypeOK, Sound(local[h]), AtWork(local[h]), MoveTask(h, l, id, to)
    PROVE  GoesOn(h, l) /\ clock' \in Nat \ {0}
<1>1. clock' \in Nat \ {0}
  BY DEF MoveTask, TypeOK
<1>2. CASE Become(h, Idle)
  BY <1>1, <1>2, IdleSound DEF GoesOn, Sound, Become, Idle
<1>3. ASSUME NEW i \in DOMAIN l, l[i].id = id, IsFirst(l, i), MayMove(l, i, to),
             Become(h, [local[h] EXCEPT !.pc = "save", !.list = Moved(l, id, to)])
      PROVE  GoesOn(h, l)
  <2> DEFINE new == Moved(l, id, to)
             r == [local[h] EXCEPT !.pc = "save", !.list = new]
  <2>1. Changed(l, new)
    BY <1>3 DEF Changed
  <2>2. new \in Lists /\ Good(new)
    BY <2>1, ChangedGood
  <2>3. Become(h, r)
    BY <1>3
  <2> HIDE DEF new
  <2>4. r \in Request /\ r.pc = "save" /\ r.list = new /\ r.ask = local[h].ask /\ r.left = local[h].left
    BY <2>2 DEF Request, Locations, Sound
  <2>5. Sound(r)
    BY <2>2, <2>4 DEF Sound, Counted, AtWork
  <2> HIDE DEF r
  <2> QED BY <2>1, <2>3, <2>4, <2>5 DEF GoesOn, Become
<1> QED BY <1>1, <1>2, <1>3 DEF MoveTask

\* A request that only goes elsewhere.
LEMMA GotoShape ==
    ASSUME NEW h \in Handlers, NEW l, TypeOK, Sound(local[h]),
           \/ Goto(h, "progress")
           \/ AtWork(local[h]) /\ \E s \in Stages : LoadAgain(h, s)
    PROVE  GoesOn(h, l) /\ clock' \in Nat \ {0}
<1>1. clock' \in Nat \ {0}
  BY DEF Goto, LoadAgain, TypeOK
<1>2. CASE Goto(h, "progress")
  <2> DEFINE r == [local[h] EXCEPT !.pc = "progress"]
  <2>1. r \in Request /\ r.pc = "progress" /\ r.list = local[h].list
    BY DEF Request, Locations, Sound
  <2>2. Sound(r)
    BY <2>1 DEF Sound, Counted, AtWork
  <2> HIDE DEF r
  <2> QED BY <1>1, <1>2, <2>1, <2>2 DEF GoesOn, Goto, Become, r
<1>3. ASSUME AtWork(local[h]), NEW s \in Stages, LoadAgain(h, s)
      PROVE  GoesOn(h, l)
  <2> DEFINE r == [local[h] EXCEPT !.pc = "load", !.stage = s]
  <2>1. r \in Request /\ r.pc = "load" /\ r.list = local[h].list /\ r.ask = local[h].ask /\ r.left = local[h].left
    BY DEF Request, Locations, Sound
  <2>2. Sound(r)
    BY <1>3, <2>1 DEF Sound, Counted, AtWork
  <2> HIDE DEF r
  <2> QED BY <1>3, <2>1, <2>2 DEF GoesOn, LoadAgain, Become, r
<1> QED BY <1>1, <1>2, <1>3

LEMMA ProceedShape ==
    ASSUME NEW h \in Handlers, NEW l \in Lists, Good(l), TypeOK, Sound(local[h]), AtWork(local[h]),
           Proceed(h, l)
    PROVE  GoesOn(h, l) /\ clock' \in Nat \ {0}
<1> DEFINE k == local[h].ask
<1>1. k \in Asks /\ local[h].left \in 0..NDefaults
  BY DEF Sound, Request
<1>2. CASE Goto(h, "progress")
  BY <1>2, GotoShape
<1>3. CASE k.op = "add" /\ AddTask(h, l, k.title, k.deps)
  <2>1. k.title \in Titles /\ k.deps \in Dependencies
    BY <1>1, <1>3 DEF Asks
  <2> QED BY <1>3, <2>1, AddTaskShape
<1>4. CASE k.op = "move" /\ MoveTask(h, l, k.id, k.to)
  <2>1. k.id \in Ids /\ k.to \in Status
    BY <1>1, <1>4 DEF Asks
  <2> QED BY <1>4, <2>1, MoveTaskShape
<1>5. CASE k.op = "prepare" /\ Prepare(h, l)
  <2>1. CASE \E s \in Stages : LoadAgain(h, s)
    BY <2>1, GotoShape
  <2>2. CASE AddTask(h, l, NDefaults + 1 - local[h].left, {})
    <3>1. local[h].left > 0
      BY <1>5 DEF Sound, Counted
    <3>2. NDefaults + 1 - local[h].left \in Titles
      BY <1>1, <3>1, BoundsAssumption DEF Titles
    <3> QED BY <2>2, <3>2, CallersAssumption, AddTaskShape
  <2> QED BY <1>2, <1>5, <2>1, <2>2 DEF Prepare, Stages
<1> QED BY <1>2, <1>3, <1>4, <1>5 DEF Proceed

(* ------------------------------ invariant ------------------------------ *)

Derived(l, m) == Grown(l, m) \/ Changed(l, m)

\* Where one request is, when there is no other, and what the file then holds.
Place(r, f) ==
    /\ r.pc = "create" => f.kind = "absent" /\ r.list = <<>>
    /\ r.pc = "creating" => f.kind = "empty" /\ r.list = <<>>
    /\ r.pc = "save" => f.kind = "whole" /\ Derived(f.list, r.list)
    /\ r.pc = "saving" => f.kind = "empty"

Serial ==
    ~overlap =>
        /\ \A g, h \in Handlers : local[g].pc # "idle" /\ local[h].pc # "idle" => g = h
        /\ \A h \in Handlers : Place(local[h], file)

\* The inductive invariant.
IInv ==
    /\ TypeOK
    /\ Good(file.list)
    /\ \A h \in Handlers : Sound(local[h])
    /\ Serial

LEMMA InitInv == Init => IInv
<1> SUFFICES ASSUME Init PROVE IInv
    OBVIOUS
<1>1. NoFile \in File
  BY EmptyGood DEF NoFile, File
<1>2. local \in [Handlers -> Request] /\ \A h \in Handlers : local[h] = Idle
  BY IdleSound DEF Init, Sound
<1>3. TypeOK
  BY <1>1, <1>2, BoundsAssumption DEF Init, TypeOK
<1>4. Serial
  BY <1>2 DEF Serial, Place, Idle
<1> QED BY <1>2, <1>3, <1>4, IdleSound, EmptyGood DEF IInv, Init, NoFile

\* What a step of h makes of its own request, the file and the clock.
Moves(h, r) ==
    /\ r \in Request /\ Sound(r)
    /\ local' = [local EXCEPT ![h] = r]
    /\ local[h].pc = "idle" => overlap \/ \A g \in Handlers : local[g].pc = "idle"
    /\ ~overlap => Place(r, file')
    /\ file' \in File /\ Good(file'.list)
    /\ clock' \in Nat \ {0} /\ calls' \in Nat
    /\ overlap' = overlap /\ crashes' = crashes

\* Such a step keeps the invariant.
LEMMA MovesInv ==
    ASSUME IInv, NEW h \in Handlers, NEW r, Moves(h, r)
    PROVE  IInv'
<1>1. local \in [Handlers -> Request]
  BY DEF IInv, TypeOK
<1>2. /\ local' \in [Handlers -> Request] /\ local'[h] = r
      /\ \A g \in Handlers : g # h => local'[g] = local[g]
  BY <1>1 DEF Moves
<1>3. TypeOK'
  BY <1>2 DEF TypeOK, IInv, Moves
<1>4. \A g \in Handlers : Sound(local'[g])
  BY <1>2 DEF IInv, Moves
<1>5. Serial'
  <2> SUFFICES ASSUME ~overlap
               PROVE  /\ \A f, g \in Handlers : local'[f].pc # "idle" /\ local'[g].pc # "idle" => f = g
                      /\ \A g \in Handlers : Place(local'[g], file')
    BY DEF Serial, Moves
  <2>1. \A g \in Handlers : g # h => local[g].pc = "idle"
    BY DEF IInv, Serial, Moves
  <2>2. \A g \in Handlers : g # h => local'[g].pc = "idle"
    BY <1>2, <2>1
  <2>3. \A g \in Handlers : g # h => Place(local'[g], file')
    BY <2>2 DEF Place
  <2> QED BY <1>2, <2>2, <2>3 DEF Moves
<1> QED BY <1>3, <1>4, <1>5 DEF IInv, Moves

(* --------------------------- the stored list --------------------------- *)

\* The list the file stands for while only h may be busy, before a step
LEMMA StoredNow ==
    ASSUME NEW h \in Handlers, \A g \in Handlers : g # h => local[g].pc = "idle"
    PROVE  /\ Writing(h) => Written # {} /\ Stored = local[h].list /\ Readable
           /\ ~Writing(h) => /\ Written = {} /\ Stored = file.list
                             /\ Readable <=> file.kind \in {"absent", "whole"}
<1>1. \A g \in Handlers : Writing(g) => g = h
  BY DEF Writing
<1>2. CASE Writing(h)
  <2>1. Written = {local[h].list}
    BY <1>1, <1>2 DEF Written
  <2> QED BY <1>2, <2>1 DEF Stored, Readable
<1>3. CASE ~Writing(h)
  <2>1. Written = {}
    BY <1>1, <1>3 DEF Written
  <2> QED BY <1>3, <2>1 DEF Stored, Readable
<1> QED BY <1>2, <1>3

\* and after it.
LEMMA StoredNext ==
    ASSUME NEW h \in Handlers, \A g \in Handlers : g # h => local'[g].pc = "idle"
    PROVE  /\ Writing(h)' => Stored' = local'[h].list /\ Readable'
           /\ ~Writing(h)' => /\ Stored' = file'.list
                              /\ Readable' <=> file'.kind \in {"absent", "whole"}
<1>1. \A g \in Handlers : Writing(g)' => g = h
  BY DEF Writing
<1>2. CASE Writing(h)'
  <2>1. Written' = {local'[h].list}
    BY <1>1, <1>2 DEF Written
  <2> QED BY <1>2, <2>1 DEF Stored, Readable
<1>3. CASE ~Writing(h)'
  <2>1. Written' = {}
    BY <1>1, <1>3 DEF Written
  <2> QED BY <1>3, <2>1 DEF Stored, Readable
<1> QED BY <1>2, <1>3

\* A derived list is a step of the board.
LEMMA DerivedIsABoardStep ==
    ASSUME Stored \in Lists, Readable, Readable', Derived(Stored, Stored')
    PROVE  Board!Next
<1>1. CASE Grown(Stored, Stored')
  BY <1>1 DEF Grown, Board!Next, Board!Add, Task
<1>2. CASE Changed(Stored, Stored')
  <2>1. PICK i \in DOMAIN Stored, to \in Status :
            IsFirst(Stored, i) /\ MayMove(Stored, i, to) /\ Stored' = Moved(Stored, Stored[i].id, to)
    BY <1>2 DEF Changed
  <2>2. /\ Board!CanTransition(Stored[i].status, to)
        /\ to = "in_progress" => \A d \in Stored[i].deps :
                \E j \in DOMAIN Stored : Stored[j].id = d /\ Stored[j].status = "completed"
    BY <2>1 DEF MayMove, Ready
  <2>3. Stored' = [k \in DOMAIN Stored |->
            IF Stored[k].id = Stored[i].id THEN [Stored[k] EXCEPT !.status = to] ELSE Stored[k]]
    BY <2>1 DEF Moved
  <2>4. Board!Move
    BY <2>1, <2>2, <2>3, Names DEF Board!Move
  <2> QED BY <2>4 DEF Board!Next
<1> QED BY <1>1, <1>2 DEF Derived

(* -------------------------------- steps -------------------------------- *)

Kept == UNCHANGED <<Stored, Readable>>

\* While requests do not overlap, those that do not step are idle.
LEMMA OthersIdle ==
    ASSUME IInv, ~overlap, NEW h \in Handlers, NEW r, Moves(h, r)
    PROVE  /\ \A g \in Handlers : g # h => local[g].pc = "idle" /\ local'[g].pc = "idle"
           /\ local'[h] = r /\ Place(local[h], file) /\ Place(r, file')
<1>1. \A g \in Handlers : g # h => local[g].pc = "idle"
  BY DEF IInv, Serial, Moves
<1>2. local \in [Handlers -> Request]
  BY DEF IInv, TypeOK
<1> QED BY <1>1, <1>2 DEF IInv, Serial, Moves

\* The list stays when a step neither writes nor touches the file.
LEMMA QuietKeeps ==
    ASSUME IInv, ~overlap, NEW h \in Handlers, NEW r, Moves(h, r), ~Writing(h),
           r.pc \notin {"creating", "saving"}, file' = file
    PROVE  Kept
<1>1. \A g \in Handlers : g # h => local[g].pc = "idle" /\ local'[g].pc = "idle"
  BY OthersIdle
<1>2. ~Writing(h)'
  BY OthersIdle DEF Writing
<1>3. Stored = file.list /\ (Readable <=> file.kind \in {"absent", "whole"})
  BY <1>1, StoredNow
<1>4. Stored' = file'.list /\ (Readable' <=> file'.kind \in {"absent", "whole"})
  BY <1>1, <1>2, StoredNext
<1> QED BY <1>3, <1>4 DEF Kept

\* One step of a handler.
LEMMA StepInv ==
    ASSUME IInv, NEW h \in Handlers, Step(h)
    PROVE  IInv' /\ (~overlap => Board!Next \/ Kept)
<1>0. /\ TypeOK /\ local[h] \in Request /\ Sound(local[h]) /\ Good(file.list)
      /\ file \in File /\ file.list \in Lists /\ clock \in Nat \ {0} /\ calls \in Nat
      /\ local \in [Handlers -> Request]
      /\ ~overlap => Place(local[h], file)
  BY DEF IInv, TypeOK, File, Serial
<1>1. SUFFICES \E r : Moves(h, r) /\ (~overlap => Board!Next \/ Kept)
  BY MovesInv
<1>2. CASE Begin(h)
  <2>1. PICK k \in Asks, s \in Stages, n \in 0..NDefaults :
            /\ Become(h, [Idle EXCEPT !.pc = "load", !.ask = k, !.stage = s, !.left = n])
            /\ k.op = "prepare" => n > 0
    <3>1. PICK k \in Asks :
            Become(h, [Idle EXCEPT !.pc = "load", !.ask = k,
                        !.stage = IF k.op = "prepare" THEN "ensure" ELSE "add",
                        !.left = IF k.op = "prepare" THEN NDefaults ELSE 0])
      BY <1>2, AskedAssumption DEF Begin
    <3>2. /\ (IF k.op = "prepare" THEN "ensure" ELSE "add") \in Stages
          /\ (IF k.op = "prepare" THEN NDefaults ELSE 0) \in 0..NDefaults
          /\ k.op = "prepare" => (IF k.op = "prepare" THEN NDefaults ELSE 0) > 0
      BY BoundsAssumption DEF Stages
    <3> QED BY <3>1, <3>2
  <2> DEFINE r == [Idle EXCEPT !.pc = "load", !.ask = k, !.stage = s, !.left = n]
  <2>2. Idle \in Request /\ Idle.list = <<>>
    BY IdleSound DEF Sound, Idle
  <2>3. r \in Request /\ r.pc = "load" /\ r.ask = k /\ r.left = n /\ r.list = <<>>
    BY <2>2 DEF Request, Locations
  <2>4. Become(h, r)
    BY <2>1
  <2> HIDE DEF r
  <2>5. Moves(h, r)
    <3>1. Sound(r)
      BY <2>1, <2>3, EmptyGood DEF Sound, Counted
    <3>2. /\ local' = [local EXCEPT ![h] = r] /\ file' = file /\ clock' = clock
          /\ overlap' = overlap /\ crashes' = crashes /\ calls' = calls + 1
          /\ overlap \/ \A g \in Handlers : local[g].pc = "idle"
      BY <1>2, <2>4 DEF Begin, Become, At
    <3>3. calls' \in Nat
      BY <1>0, <3>2
    <3>4. Place(r, file')
      BY <2>3 DEF Place
    <3> QED BY <1>0, <2>3, <3>1, <3>2, <3>3, <3>4 DEF Moves
  <2>6. ~Writing(h)
    BY <1>2 DEF Begin, At, Writing
  <2> QED BY <1>2, <2>3, <2>5, <2>6, QuietKeeps DEF Begin
<1>3. CASE Load(h)
  <2>0. AtWork(local[h]) /\ ~Writing(h) /\ local[h].pc = "load"
    BY <1>3 DEF Load, At, AtWork, Writing
  <2>1. CASE file.kind = "whole" /\ Proceed(h, file.list)
    <3>1. GoesOn(h, file.list) /\ clock' \in Nat \ {0}
      BY <1>0, <2>0, <2>1, ProceedShape
    <3>2. PICK r \in Request :
            /\ Sound(r) /\ local' = [local EXCEPT ![h] = r]
            /\ r.pc \in {"idle", "load", "progress", "save"}
            /\ r.pc = "save" => Grown(file.list, r.list) \/ Changed(file.list, r.list)
      BY <3>1 DEF GoesOn
    <3>3. Moves(h, r)
      BY <1>0, <1>3, <2>0, <2>1, <3>1, <3>2 DEF Moves, Load, Place, Derived
    <3> QED BY <1>3, <2>0, <3>2, <3>3, QuietKeeps DEF Load
  <2>2. CASE file.kind = "absent" /\ local[h].ask.op # "move" /\ Create(h)
    <3> DEFINE r == [local[h] EXCEPT !.pc = "create", !.list = <<>>]
    <3>1. /\ r \in Request /\ r.pc = "create" /\ r.list = <<>>
          /\ r.ask = local[h].ask /\ r.left = local[h].left
      BY <1>0, EmptyGood DEF Request, Locations
    <3>2. local' = [local EXCEPT ![h] = r] /\ clock' = clock
      BY <2>2 DEF Create, Become
    <3> HIDE DEF r
    <3>3. Sound(r)
      BY <1>0, <2>0, <3>1, EmptyGood DEF Sound, Counted, AtWork
    <3>4. Moves(h, r)
      BY <1>0, <1>3, <2>0, <2>2, <3>1, <3>2, <3>3 DEF Moves, Load, Place
    <3> QED BY <1>3, <2>0, <3>1, <3>4, QuietKeeps DEF Load
  <2>3. CASE Reject(h)
    <3>1. Moves(h, Idle)
      BY <1>0, <1>3, <2>0, <2>3, IdleSound DEF Moves, Load, Reject, Become, Place, Idle, Sound
    <3> QED BY <1>3, <2>0, <3>1, QuietKeeps DEF Load, Idle
  <2> QED BY <1>3, <2>1, <2>2, <2>3 DEF Load
<1>4. CASE Truncate(h)
  <2>0. EmptyFile \in File /\ EmptyFile.kind = "empty" /\ EmptyFile.list = <<>>
    BY EmptyGood DEF EmptyFile, File
  <2>1. PICK p \in {"creating", "saving"} :
            /\ local[h].pc = IF p = "creating" THEN "create" ELSE "save"
            /\ Become(h, [local[h] EXCEPT !.pc = p])
    BY <1>4 DEF Truncate, At
  <2> DEFINE r == [local[h] EXCEPT !.pc = p]
  <2>2. /\ r \in Request /\ r.pc = p /\ r.list = local[h].list
        /\ r.ask = local[h].ask /\ r.left = local[h].left
    BY <1>0 DEF Request, Locations
  <2>3. local' = [local EXCEPT ![h] = r] /\ file' = EmptyFile
    BY <1>4, <2>1 DEF Become, Truncate
  <2> HIDE DEF r
  <2>4. Sound(r)
    BY <1>0, <2>1, <2>2 DEF Sound, Counted, AtWork
  <2>5. Moves(h, r)
    BY <1>0, <1>4, <2>0, <2>1, <2>2, <2>3, <2>4, EmptyGood DEF Moves, Truncate, Place
  <2>6. ASSUME ~overlap PROVE Board!Next \/ Kept
    <3>1. /\ ~Writing(h) /\ Writing(h)'
          /\ Place(local[h], file) /\ local'[h] = r
      BY <2>1, <2>2, <2>5, <2>6, OthersIdle DEF Writing
    <3>2. /\ Stored = file.list /\ (Readable <=> file.kind \in {"absent", "whole"})
          /\ Stored' = r.list /\ Readable'
      BY <2>5, <2>6, <3>1, OthersIdle, StoredNow, StoredNext
    <3>3. CASE p = "creating"
      <4>1. file.list = <<>> /\ r.list = <<>> /\ Readable
        BY <1>0, <2>1, <2>2, <3>1, <3>2, <3>3 DEF Place, File
      <4> QED BY <3>2, <4>1 DEF Kept
    <3>4. CASE p = "saving"
      <4>1. Readable /\ Derived(Stored, Stored')
        BY <2>1, <2>2, <3>1, <3>2, <3>4 DEF Place
      <4> QED BY <1>0, <3>2, <4>1, DerivedIsABoardStep
    <3> QED BY <3>3, <3>4
  <2> QED BY <2>5, <2>6
<1>5. CASE Created(h)
  <2>0. AtWork(local[h]) /\ Writing(h) /\ local[h].pc = "creating"
    BY <1>5 DEF Created, At, AtWork, Writing
  <2>1. GoesOn(h, <<>>) /\ clock' \in Nat \ {0}
    BY <1>0, <1>5, <2>0, EmptyGood, ProceedShape DEF Created
  <2>2. PICK r \in Request :
            /\ Sound(r) /\ local' = [local EXCEPT ![h] = r]
            /\ r.pc \in {"idle", "load", "progress", "save"}
            /\ r.pc = "save" => Grown(<<>>, r.list) \/ Changed(<<>>, r.list)
    BY <2>1 DEF GoesOn
  <2>3. file' \in File /\ Good(file'.list)
    <3>1. local[h].list \in Lists /\ Good(local[h].list)
      BY <1>0 DEF Request, Sound
    <3>2. file' \in {Holding(local[h].list), TornFile}
      BY <1>5 DEF Created, WriteText
    <3> QED BY <3>1, <3>2, EmptyGood DEF Holding, TornFile, File
  <2>4. ~overlap => file' = Holding(<<>>)
    BY <1>0, <1>5, <2>0 DEF Created, WriteText, Place
  <2>5. Moves(h, r)
    BY <1>0, <1>5, <2>0, <2>1, <2>2, <2>3, <2>4 DEF Moves, Created, Place, Derived, Holding
  <2>6. ASSUME ~overlap PROVE Kept
    <3>1. ~Writing(h)' /\ Place(local[h], file) /\ local'[h] = r
      BY <2>2, <2>5, <2>6, OthersIdle DEF Writing
    <3>2. Stored = local[h].list /\ Readable /\ Stored' = <<>> /\ Readable'
      BY <2>0, <2>4, <2>5, <2>6, <3>1, OthersIdle, StoredNow, StoredNext DEF Holding
    <3> QED BY <2>0, <3>1, <3>2 DEF Kept, Place
  <2> QED BY <2>5, <2>6
<1>6. CASE Saved(h)
  <2>0. AtWork(local[h]) /\ Writing(h) /\ local[h].pc = "saving" /\ local[h].list \in Lists
        /\ Good(local[h].list) /\ local[h].left \in 0..NDefaults
    BY <1>0, <1>6 DEF Saved, At, AtWork, Writing, Request, Sound
  <2>1. PICK p \in {"load", "progress"}, n \in 0..NDefaults :
            /\ Become(h, [local[h] EXCEPT !.pc = p, !.left = n])
            /\ p = "load" => n > 0
    <3>1. CASE local[h].left > 1
      <4>1. local[h].left - 1 \in 0..NDefaults /\ local[h].left - 1 > 0
        BY <2>0, <3>1, BoundsAssumption
      <4> QED BY <1>6, <3>1, <4>1 DEF Saved
    <3>2. CASE ~(local[h].left > 1)
      <4>1. 0 \in 0..NDefaults
        BY BoundsAssumption
      <4> QED BY <1>6, <3>2, <4>1 DEF Saved
    <3> QED BY <3>1, <3>2
  <2> DEFINE r == [local[h] EXCEPT !.pc = p, !.left = n]
  <2>2. r \in Request /\ r.pc = p /\ r.list = local[h].list /\ r.left = n
    BY <1>0 DEF Request, Locations
  <2>3. local' = [local EXCEPT ![h] = r]
    BY <2>1 DEF Become
  <2> HIDE DEF r
  <2>4. Sound(r)
    BY <1>0, <2>1, <2>2 DEF Sound, Counted, AtWork
  <2>5. file' \in File /\ Good(file'.list)
    <3>1. file' \in {Holding(local[h].list), TornFile}
      BY <1>6 DEF Saved, WriteText
    <3> QED BY <2>0, <3>1, EmptyGood DEF Holding, TornFile, File
  <2>6. Moves(h, r)
    BY <1>0, <1>6, <2>0, <2>2, <2>3, <2>4, <2>5 DEF Moves, Saved, Place
  <2>7. ASSUME ~overlap PROVE Kept
    <3>1. ~Writing(h)' /\ file' = Holding(local[h].list)
      BY <1>0, <1>6, <2>0, <2>2, <2>6, <2>7, OthersIdle DEF Writing, Saved, WriteText, Place
    <3>2. Stored = local[h].list /\ Readable /\ Stored' = file'.list /\ (Readable' <=> file'.kind \in {"absent", "whole"})
      BY <2>0, <2>6, <2>7, <3>1, OthersIdle, StoredNow, StoredNext
    <3> QED BY <3>1, <3>2 DEF Kept, Holding
  <2> QED BY <2>6, <2>7
<1>7. CASE Answer(h)
  <2>1. Moves(h, Idle)
    BY <1>0, <1>7, IdleSound DEF Moves, Answer, Become, Place, Idle, Sound, At
  <2>2. ~Writing(h)
    BY <1>7 DEF Answer, At, Writing
  <2> QED BY <1>7, <2>1, <2>2, QuietKeeps DEF Answer, Idle
<1>8. CASE Fails(h)
  <2>0. TornFile \in File /\ TornFile.list = <<>> /\ TornFile.kind = "torn"
    BY EmptyGood DEF TornFile, File
  <2>1. file' \in {file, TornFile} /\ (~Writing(h) => file' = file)
    BY <1>8 DEF Fails
  <2>2. Moves(h, Idle)
    BY <1>0, <1>8, <2>0, <2>1, IdleSound, EmptyGood DEF Moves, Fails, Reject, Become, Place, Idle, Sound, At
  <2>3. CASE ~Writing(h)
    BY <2>1, <2>2, <2>3, QuietKeeps DEF Idle
  <2>4. ASSUME Writing(h), ~overlap PROVE Board!Next
    <3>1. file.kind = "empty" /\ file.list = <<>>
      BY <1>0, <2>4 DEF Place, Writing, File
    <3>2. ~Writing(h)'
      BY <2>2, <2>4, OthersIdle DEF Writing, Idle
    <3>3. Readable /\ Stored' = <<>> /\ ~Readable'
      BY <2>0, <2>1, <2>2, <2>4, <3>1, <3>2, OthersIdle, StoredNow, StoredNext
    <3> QED BY <3>3 DEF Board!Next, Board!Lose
  <2> QED BY <2>2, <2>3, <2>4
<1> QED BY <1>2, <1>3, <1>4, <1>5, <1>6, <1>7, <1>8 DEF Step

\* A crash.
LEMMA CrashInv ==
    ASSUME IInv, Crash
    PROVE  IInv' /\ (~overlap => Board!Next \/ Kept)
<1>0. TornFile \in File /\ TornFile.list = <<>> /\ TornFile.kind = "torn"
  BY EmptyGood DEF TornFile, File
<1>1. file' \in {file, TornFile} /\ (Written = {} => file' = file)
  BY DEF Crash
<1>2. \A h \in Handlers : local'[h] = Idle
  BY DEF Crash
<1>3. IInv'
  <2>1. TypeOK'
    BY <1>0, <1>1, <1>2, IdleSound, BoundsAssumption DEF IInv, TypeOK, Crash, Sound
  <2>2. Serial'
    BY <1>2 DEF Serial, Place, Idle
  <2> QED BY <1>0, <1>1, <1>2, <2>1, <2>2, IdleSound, EmptyGood DEF IInv
<1>4. Written' = {}
  BY <1>2 DEF Written, Writing, Idle
<1>5. Stored' = file'.list /\ (Readable' <=> file'.kind \in {"absent", "whole"})
  BY <1>4 DEF Stored, Readable
<1>6. CASE Written = {}
  BY <1>1, <1>3, <1>5, <1>6 DEF Stored, Readable, Kept
<1>7. CASE ~overlap /\ Written # {}
  <2>1. PICK h \in Handlers : Writing(h)
    BY <1>7 DEF Written
  <2>2. file.kind = "empty" /\ file.list = <<>>
    BY <1>7, <2>1 DEF IInv, Serial, Place, Writing, TypeOK, File
  <2>3. Readable /\ Stored' = <<>> /\ ~Readable'
    BY <1>0, <1>1, <1>5, <1>7, <2>2 DEF Readable
  <2> QED BY <1>3, <2>3 DEF Board!Next, Board!Lose
<1> QED BY <1>3, <1>6, <1>7

LEMMA NextInv == IInv /\ [Next]_vars => IInv' /\ (~overlap => Board!Next \/ Kept)
<1>1. ASSUME IInv, UNCHANGED vars PROVE IInv' /\ Kept
  BY <1>1 DEF vars, IInv, TypeOK, Serial, Kept, Stored, Readable, Written, Writing
<1> QED BY <1>1, StepInv, CrashInv DEF Next

\* The inductive invariant is one.
LEMMA Invariant == Spec => []IInv
<1>1. IInv /\ [Next]_vars => IInv'
  BY NextInv
<1> QED BY <1>1, InitInv, PTL DEF Spec

(* ------------------------------- theorems ------------------------------ *)

\* Every variable keeps its type.
THEOREM TypeCorrect == Spec => []TypeOK
<1>1. IInv => TypeOK
  BY DEF IInv
<1> QED BY <1>1, Invariant, PTL

\* However requests overlap, fail or are cut short: in a list that can be read
\* no task was started before its dependencies were completed.
THEOREM StartsAreInOrder == Spec => []StartedAfterDependencies
<1>1. IInv => StartedAfterDependencies
  BY DEF IInv, StartedAfterDependencies, Good
<1> QED BY <1>1, Invariant, PTL

\* While requests do not overlap, SessionTasks implements TaskBoard.
THEOREM SerialIsABoard == Spec => SerialFileIsABoard
<1>1. IInv /\ [Next]_vars => [~overlap => Board!Next]_<<Stored, Readable>>
  BY NextInv DEF Kept
<1> QED BY <1>1, Invariant, PTL DEF Spec, SerialFileIsABoard

\* However requests overlap: in a list that can be read, whose tasks differ in
\* identifier and depend on tasks of the list that did not end without being
\* completed, there is a task to go on with until all are completed. Were every
\* open task held up, its dependencies would be open too: the open tasks would
\* be the circle that no operation lets in.
THEOREM WorkGoesOn == Spec => []AlwaysATaskToDo
<1>1. ASSUME IInv PROVE AlwaysATaskToDo
  <2> DEFINE l == file.list
             Open == {i \in DOMAIN l : l[i].status \notin Board!Terminal}
  <2> SUFFICES ASSUME \A i \in DOMAIN l : IsFirst(l, i),
                      \A i \in DOMAIN l : \A d \in l[i].deps :
                          \E j \in DOMAIN l : l[j].id = d /\ l[j].status \notin {"blocked", "cancelled"},
                      Open # {}, \A i \in Open : ~Ready(l, i)
               PROVE  FALSE
    BY DEF AlwaysATaskToDo
  <2>1. l \in Lists /\ ~Circular(l)
    BY <1>1 DEF IInv, TypeOK, File, Good
  <2>2. DOMAIN l \subseteq Nat
    BY <2>1 DEF Lists
  <2>3. \A i \in DOMAIN l : IsLast(l, i)
    BY <2>2 DEF IsFirst, IsLast
  <2>4. ASSUME NEW i \in Open PROVE \E j \in Open : l[j].id \in l[i].deps
    <3>1. PICK d \in l[i].deps :
            ~\E j \in DOMAIN l : l[j].id = d /\ IsFirst(l, j) /\ l[j].status = "completed"
      BY DEF Ready
    <3>2. PICK j \in DOMAIN l : l[j].id = d /\ l[j].status \notin {"blocked", "cancelled"}
      OBVIOUS
    <3>3. l[j].status # "completed"
      BY <3>1, <3>2
    <3> QED BY <3>2, <3>3, Names DEF Board!Terminal
  <2>5. Open \in SUBSET {i \in DOMAIN l : IsLast(l, i)}
    BY <2>3
  <2> HIDE DEF Open, l
  <2> QED BY <2>1, <2>4, <2>5 DEF Circular
<1> QED BY <1>1, Invariant, PTL

(* ------------------------------ the defaults --------------------------- *)

\* The list is of the first default tasks, in their order.
Numbered(l) == \A i \in DOMAIN l : l[i].id.title = i

\* What a request that prepares has added so far, to the list of the file or to
\* the list it saves: the defaults before the one whose turn it is, and no task
\* of anybody else's; and when it is done, the file has what it saved.
Preparing(r) == r.ask.op = "prepare" /\ r.stage # "ensure"
Titled(r, f) ==
    r.ask.op = "prepare" =>
        /\ Numbered(r.list)
        /\ r.stage = "ensure" => r.list = <<>>
        /\ r.stage # "add" => r.left = NDefaults
        /\ r.pc \in {"save", "saving"} => r.stage = "add" /\ Len(r.list) = NDefaults + 1 - r.left
        /\ r.pc \in {"load", "create", "creating"} /\ Preparing(r) =>
                Numbered(f.list) /\ Len(f.list) = NDefaults - r.left
        /\ r.pc = "progress" /\ r.list # <<>> => Len(r.list) = NDefaults /\ f = Holding(r.list)

OnceInv == ~overlap => \A h \in Handlers : Titled(local[h], file)

LEMMA EmptyNumbered == Numbered(<<>>) /\ Len(<<>>) = 0 /\ <<>> \in Lists
BY DEF Numbered, Lists

\* A request that is not there has added nothing.
LEMMA IdleTitled == \A f : Titled(Idle, f)
BY DEF Titled, Idle

\* One more task, of the default whose turn it is.
LEMMA GrownNumbered ==
    ASSUME NEW l \in Lists, Numbered(l), NEW title, title = Len(l) + 1, NEW at, NEW deps
    PROVE  /\ Numbered(Append(l, NewTask(title, at, deps)))
           /\ Len(Append(l, NewTask(title, at, deps))) = Len(l) + 1
<1> DEFINE t == NewTask(title, at, deps)
           m == Append(l, t)
<1>1. /\ DOMAIN l = 1..Len(l) /\ Len(l) \in Nat /\ DOMAIN m = 1..(Len(l) + 1)
      /\ \A i \in 1..Len(l) : m[i] = l[i]
      /\ m[Len(l) + 1] = t /\ Len(m) = Len(l) + 1
  BY DEF Lists
<1>2. t.id.title = title
  BY DEF NewTask
<1> HIDE DEF t, m
<1>3. ASSUME NEW i \in DOMAIN m
      PROVE  m[i].id.title = i
  <2>1. CASE i = Len(l) + 1
    BY <1>1, <1>2, <2>1
  <2>2. CASE i # Len(l) + 1
    <3>1. i \in DOMAIN l /\ m[i] = l[i]
      BY <1>1, <2>2
    <3> QED BY <3>1 DEF Numbered
  <2> QED BY <2>1, <2>2
<1> QED BY <1>1, <1>3 DEF Numbered, m, t

\* A request that goes on with the list l of the file f.
LEMMA ProceedTitled ==
    ASSUME NEW h \in Handlers, NEW f, f.list \in Lists, TypeOK, Sound(local[h]), AtWork(local[h]),
           local[h].ask.op = "prepare" =>
                /\ Numbered(local[h].list)
                /\ local[h].stage = "ensure" => local[h].list = <<>>
                /\ local[h].stage # "add" => local[h].left = NDefaults,
           Preparing(local[h]) => Numbered(f.list) /\ Len(f.list) = NDefaults - local[h].left,
           Proceed(h, f.list)
    PROVE  \E r : local' = [local EXCEPT ![h] = r] /\ Titled(r, f)
<1> DEFINE k == local[h].ask
           n == local[h].left
           l == f.list
<1>1. local[h] \in Request /\ k \in Asks /\ n \in 0..NDefaults /\ NDefaults \in Nat
  BY BoundsAssumption DEF Sound, Request
\* what is no preparation
<1>2. ASSUME NEW r \in Request, r.ask = k, k.op # "prepare", Become(h, r)
      PROVE  \E q : local' = [local EXCEPT ![h] = q] /\ Titled(q, f)
  BY <1>2 DEF Titled, Become
<1>3. ASSUME Become(h, Idle)
      PROVE  \E q : local' = [local EXCEPT ![h] = q] /\ Titled(q, f)
  BY <1>3, IdleTitled DEF Become
<1>4. CASE k.op # "prepare"
  <2>1. PICK r : /\ local' = [local EXCEPT ![h] = r]
                 /\ r = Idle \/ r.ask = k
    <3>1. CASE Goto(h, "progress")
      <4> DEFINE r == [local[h] EXCEPT !.pc = "progress"]
      <4>1. r.ask = k /\ local' = [local EXCEPT ![h] = r]
        BY <1>1, <3>1 DEF Goto, Become, Request
      <4> QED BY <4>1
    <3>2. CASE AddTask(h, l, k.title, k.deps)
      <4>1. PICK at \in clock..MaxTime :
                \/ Become(h, Idle)
                \/ Become(h, [local[h] EXCEPT !.pc = "save", !.list = Append(l, NewTask(k.title, at, k.deps))])
        BY <3>2 DEF AddTask
      <4> DEFINE new == Append(l, NewTask(k.title, at, k.deps))
                 r == [local[h] EXCEPT !.pc = "save", !.list = new]
      <4>2. r.ask = k
        <5> HIDE DEF new
        <5> QED BY <1>1 DEF Request
      <4> QED BY <4>1, <4>2 DEF Become
    <3>3. CASE MoveTask(h, l, k.id, k.to)
      <4>1. \/ Become(h, Idle)
            \/ Become(h, [local[h] EXCEPT !.pc = "save", !.list = Moved(l, k.id, k.to)])
        BY <3>3 DEF MoveTask
      <4> DEFINE new == Moved(l, k.id, k.to)
                 r == [local[h] EXCEPT !.pc = "save", !.list = new]
      <4>2. r.ask = k
        <5> HIDE DEF new
        <5> QED BY <1>1 DEF Request
      <4> QED BY <4>1, <4>2 DEF Become
    <3> QED BY <1>4, <3>1, <3>2, <3>3 DEF Proceed
  <2>2. Titled(r, f)
    BY <1>4, <2>1, IdleTitled DEF Titled
  <2> QED BY <2>1, <2>2
<1>5. CASE k.op = "prepare"
  <2>0. Prepare(h, l)
    BY <1>5 DEF Proceed
  <2>1. ASSUME NEW s \in Stages, LoadAgain(h, s), s # "ensure",
               local[h].stage # "ensure" \/ l = <<>>, s = "addAll" => local[h].stage # "add"
        PROVE  \E r : local' = [local EXCEPT ![h] = r] /\ Titled(r, f)
    <3> DEFINE r == [local[h] EXCEPT !.pc = "load", !.stage = s]
    <3>1. r.pc = "load" /\ r.left = n /\ r.stage = s /\ r.list = local[h].list /\ r.ask = k
      BY <1>1 DEF Request
    <3>2. local' = [local EXCEPT ![h] = r]
      BY <2>1 DEF LoadAgain, Become
    <3> HIDE DEF r
    <3>3. Numbered(l) /\ Len(l) = NDefaults - n
      <4>1. CASE local[h].stage # "ensure"
        BY <1>5, <4>1 DEF Preparing
      <4>2. CASE l = <<>> /\ local[h].stage = "ensure"
        BY <1>1, <1>5, <4>2, EmptyNumbered
      <4> QED BY <2>1, <4>1, <4>2
    <3>4. Numbered(local[h].list) /\ (s # "add" => n = NDefaults)
      BY <1>5, <2>1 DEF Stages
    <3>5. Titled(r, f)
      BY <2>1, <3>1, <3>3, <3>4 DEF Titled
    <3> QED BY <3>2, <3>5
  <2>2. CASE local[h].stage = "ensure" /\ Goto(h, "progress")
    <3> DEFINE r == [local[h] EXCEPT !.pc = "progress"]
    <3>1. /\ local' = [local EXCEPT ![h] = r] /\ r.pc = "progress" /\ r.list = local[h].list
          /\ r.stage = local[h].stage /\ r.left = n /\ r.ask = k
      BY <1>1, <2>2 DEF Goto, Become, Request
    <3> HIDE DEF r
    <3>2. local[h].list = <<>> /\ n = NDefaults
      BY <1>5, <2>2
    <3>3. Titled(r, f)
      BY <2>2, <3>1, <3>2, EmptyNumbered DEF Titled
    <3> QED BY <3>1, <3>3
  <2>3. CASE local[h].stage = "add" /\ AddTask(h, l, NDefaults + 1 - n, {})
    <3> DEFINE title == NDefaults + 1 - n
    <3>1. Numbered(l) /\ Len(l) = NDefaults - n /\ title = Len(l) + 1
      BY <1>1, <1>5, <2>3 DEF Preparing
    <3>2. PICK at \in clock..MaxTime :
            \/ Become(h, Idle)
            \/ Become(h, [local[h] EXCEPT !.pc = "save", !.list = Append(l, NewTask(title, at, {}))])
      BY <2>3 DEF AddTask
    <3> DEFINE new == Append(l, NewTask(title, at, {}))
               r == [local[h] EXCEPT !.pc = "save", !.list = new]
    <3> HIDE DEF title
    <3>3. Numbered(new) /\ Len(new) = Len(l) + 1
      BY <3>1, GrownNumbered
    <3> HIDE DEF new
    <3>4. r.pc = "save" /\ r.list = new /\ r.ask = k /\ r.left = n /\ r.stage = "add"
      BY <1>1, <2>3 DEF Request
    <3> HIDE DEF r
    <3>5. Len(new) = NDefaults + 1 - n
      BY <1>1, <3>1, <3>3
    <3>6. Titled(r, f)
      BY <3>3, <3>4, <3>5 DEF Titled
    <3>7. CASE Become(h, r)
      BY <3>6, <3>7 DEF Become
    <3> QED BY <1>3, <3>2, <3>7 DEF r, new
  <2> QED BY <2>0, <2>1, <2>2, <2>3 DEF Prepare, Stages
<1> QED BY <1>4, <1>5

\* A step of a request while there is no other.
LEMMA OnceStep ==
    ASSUME IInv, OnceInv, ~overlap, NEW h \in Handlers, Step(h)
    PROVE  OnceInv'
<1>0. /\ TypeOK /\ local[h] \in Request /\ Sound(local[h])
      /\ file \in File /\ file.list \in Lists /\ local \in [Handlers -> Request]
      /\ Place(local[h], file) /\ Titled(local[h], file)
      /\ local[h].left \in 0..NDefaults /\ NDefaults \in Nat
  BY BoundsAssumption DEF IInv, TypeOK, File, Serial, OnceInv, Request
<1>1. overlap' = overlap
  BY DEF Step, Begin, Load, Truncate, Created, Saved, Answer, Fails
<1>2. ASSUME NEW r, local' = [local EXCEPT ![h] = r], Titled(r, file'),
             At(h, "idle") => \A g \in Handlers : At(g, "idle")
      PROVE  OnceInv'
  <2>1. \A g \in Handlers : g # h => local[g].pc = "idle" /\ local'[g] = local[g]
    BY <1>0, <1>2 DEF IInv, Serial, At
  <2>2. \A g \in Handlers : g # h => Titled(local'[g], file')
    <3> SUFFICES ASSUME NEW g \in Handlers, g # h PROVE Titled(local'[g], file')
        OBVIOUS
    <3>1. Titled(local[g], file) /\ local'[g] = local[g] /\ local[g].pc = "idle"
      BY <2>1 DEF OnceInv
    <3> QED BY <3>1 DEF Titled
  <2>3. local'[h] = r
    BY <1>0, <1>2
  <2> QED BY <1>1, <1>2, <2>2, <2>3 DEF OnceInv
<1>3. CASE Begin(h)
  <2>1. PICK k \in Asked :
            Become(h, [Idle EXCEPT !.pc = "load", !.ask = k,
                        !.stage = IF k.op = "prepare" THEN "ensure" ELSE "add",
                        !.left = IF k.op = "prepare" THEN NDefaults ELSE 0])
    BY <1>3 DEF Begin
  <2> DEFINE s == IF k.op = "prepare" THEN "ensure" ELSE "add"
             n == IF k.op = "prepare" THEN NDefaults ELSE 0
  <2>2. k.op = "prepare" => s = "ensure" /\ n = NDefaults
    OBVIOUS
  <2> HIDE DEF s, n
  <2> DEFINE r == [Idle EXCEPT !.pc = "load", !.ask = k, !.stage = s, !.left = n]
  <2>3. r.pc = "load" /\ r.ask = k /\ r.stage = s /\ r.left = n /\ r.list = <<>>
    BY DEF Idle
  <2>4. local' = [local EXCEPT ![h] = r]
    BY <2>1 DEF Become, s, n
  <2> HIDE DEF r
  <2>5. Titled(r, file)
    BY <2>2, <2>3, EmptyNumbered DEF Titled, Preparing
  <2>6. file' = file /\ \A g \in Handlers : At(g, "idle")
    BY <1>3 DEF Begin
  <2> QED BY <1>0, <1>2, <2>4, <2>5, <2>6
<1>4. CASE Load(h)
  <2>0. AtWork(local[h]) /\ local[h].pc = "load" /\ file' = file /\ ~At(h, "idle")
    BY <1>4 DEF Load, At, AtWork
  <2>1. CASE Proceed(h, file.list)
    <3>1. /\ Preparing(local[h]) => Numbered(file.list) /\ Len(file.list) = NDefaults - local[h].left
          /\ local[h].ask.op = "prepare" =>
                /\ Numbered(local[h].list)
                /\ local[h].stage = "ensure" => local[h].list = <<>>
                /\ local[h].stage # "add" => local[h].left = NDefaults
      BY <1>0, <2>0 DEF Titled, Preparing
    <3>2. PICK r : local' = [local EXCEPT ![h] = r] /\ Titled(r, file)
      BY <1>0, <2>0, <2>1, <3>1, ProceedTitled
    <3> QED BY <1>0, <1>2, <2>0, <3>2
  <2>2. CASE Create(h)
    <3> DEFINE r == [local[h] EXCEPT !.pc = "create", !.list = <<>>]
    <3>1. /\ r.pc = "create" /\ r.ask = local[h].ask /\ r.left = local[h].left
          /\ r.stage = local[h].stage /\ r.list = <<>>
      BY <1>0 DEF Request
    <3>2. local' = [local EXCEPT ![h] = r]
      BY <2>2 DEF Create, Become
    <3> HIDE DEF r
    <3>3. Titled(r, file)
      BY <1>0, <2>0, <3>1, EmptyNumbered DEF Titled, Preparing
    <3> QED BY <1>0, <1>2, <2>0, <3>2, <3>3
  <2>3. CASE Reject(h)
    BY <1>0, <1>2, <2>0, <2>3, IdleTitled DEF Reject, Become
  <2> QED BY <1>4, <2>1, <2>2, <2>3 DEF Load
<1>5. CASE Truncate(h)
  <2>1. PICK p \in {"creating", "saving"} :
            /\ local[h].pc = IF p = "creating" THEN "create" ELSE "save"
            /\ Become(h, [local[h] EXCEPT !.pc = p])
    BY <1>5 DEF Truncate, At
  <2> DEFINE r == [local[h] EXCEPT !.pc = p]
  <2>2. /\ r.pc = p /\ r.list = local[h].list /\ r.ask = local[h].ask /\ r.left = local[h].left
        /\ r.stage = local[h].stage
    BY <1>0 DEF Request
  <2>3. local' = [local EXCEPT ![h] = r] /\ file' = EmptyFile /\ EmptyFile.list = <<>> /\ ~At(h, "idle")
    BY <1>5, <2>1 DEF Become, Truncate, EmptyFile, At
  <2> HIDE DEF r
  <2>4. CASE p = "creating"
    <3>1. file.list = <<>> /\ local[h].pc = "create"
      BY <1>0, <2>1, <2>4 DEF Place, File
    <3>2. Titled(r, EmptyFile)
      BY <1>0, <2>2, <2>3, <2>4, <3>1 DEF Titled, Preparing
    <3> QED BY <1>2, <2>3, <3>2
  <2>5. CASE p = "saving"
    <3>1. Titled(r, EmptyFile)
      BY <1>0, <2>1, <2>2, <2>5 DEF Titled, Preparing
    <3> QED BY <1>2, <2>3, <3>1
  <2> QED BY <2>4, <2>5
<1>6. CASE Created(h)
  <2>0. AtWork(local[h]) /\ local[h].pc = "creating" /\ ~At(h, "idle") /\ Proceed(h, <<>>)
    BY <1>6 DEF Created, At, AtWork
  <2>1. file' = Holding(<<>>) /\ file.list = <<>> /\ Holding(<<>>).list = <<>>
    BY <1>0, <1>6, <2>0 DEF Created, WriteText, Place, File, Holding
  <2>2. /\ Preparing(local[h]) => Numbered(<<>>) /\ Len(<<>>) = NDefaults - local[h].left
        /\ local[h].ask.op = "prepare" =>
              /\ Numbered(local[h].list)
              /\ local[h].stage = "ensure" => local[h].list = <<>>
              /\ local[h].stage # "add" => local[h].left = NDefaults
    BY <1>0, <2>0, <2>1 DEF Titled, Preparing
  <2> DEFINE f == Holding(<<>>)
  <2>3. f.list = <<>> /\ file' = f
    BY <2>1
  <2> HIDE DEF f
  <2>4. PICK r : local' = [local EXCEPT ![h] = r] /\ Titled(r, f)
    BY <1>0, <2>0, <2>2, <2>3, EmptyNumbered, ProceedTitled
  <2> QED BY <1>2, <2>0, <2>3, <2>4
<1>7. CASE Saved(h)
  <2>1. local[h].pc = "saving" /\ ~At(h, "idle") /\ file' = Holding(local[h].list)
    BY <1>0, <1>7 DEF Saved, At, WriteText, Place
  <2>2. file'.list = local[h].list
    BY <2>1 DEF Holding
  <2>3. local[h].ask.op = "prepare" =>
            /\ Numbered(local[h].list) /\ Len(local[h].list) = NDefaults + 1 - local[h].left
            /\ local[h].list # <<>> /\ local[h].stage = "add" /\ local[h].left > 0
    <3> SUFFICES ASSUME local[h].ask.op = "prepare"
                 PROVE  /\ Numbered(local[h].list) /\ Len(local[h].list) = NDefaults + 1 - local[h].left
                        /\ local[h].list # <<>> /\ local[h].stage = "add" /\ local[h].left > 0
        OBVIOUS
    <3>1. /\ Numbered(local[h].list) /\ Len(local[h].list) = NDefaults + 1 - local[h].left
          /\ local[h].stage = "add"
      BY <1>0, <2>1 DEF Titled
    <3>2. local[h].left > 0
      BY <1>0, <2>1 DEF Sound, Counted, AtWork
    <3>3. local[h].list # <<>>
      BY <1>0, <3>1, EmptyNumbered
    <3> QED BY <3>1, <3>2, <3>3
  <2>4. CASE local[h].left > 1
    <3> DEFINE r == [local[h] EXCEPT !.pc = "load", !.left = local[h].left - 1]
    <3>1. local' = [local EXCEPT ![h] = r]
      BY <1>0, <1>7, <2>4 DEF Saved, Become
    <3>2. /\ r.pc = "load" /\ r.ask = local[h].ask /\ r.left = local[h].left - 1
          /\ r.list = local[h].list /\ r.stage = local[h].stage
      BY <1>0 DEF Request
    <3> HIDE DEF r
    <3>3. NDefaults + 1 - local[h].left = NDefaults - (local[h].left - 1)
      BY <1>0
    <3>4. Titled(r, file')
      BY <2>2, <2>3, <3>2, <3>3 DEF Titled, Preparing
    <3> QED BY <1>2, <2>1, <3>1, <3>4
  <2>5. CASE ~(local[h].left > 1)
    <3> DEFINE r == [local[h] EXCEPT !.pc = "progress", !.left = 0]
    <3>1. local' = [local EXCEPT ![h] = r]
      BY <1>0, <1>7, <2>5 DEF Saved, Become
    <3>2. /\ r.pc = "progress" /\ r.ask = local[h].ask /\ r.list = local[h].list
          /\ r.stage = local[h].stage
      BY <1>0 DEF Request
    <3> HIDE DEF r
    <3>3. local[h].ask.op = "prepare" => Len(local[h].list) = NDefaults
      BY <1>0, <2>3, <2>5
    <3>4. Titled(r, file')
      BY <2>1, <2>3, <3>2, <3>3 DEF Titled
    <3> QED BY <1>2, <2>1, <3>1, <3>4
  <2> QED BY <2>4, <2>5
<1>8. CASE Answer(h)
  BY <1>0, <1>2, <1>8, IdleTitled DEF Answer, Become, At
<1>9. CASE Fails(h)
  BY <1>0, <1>2, <1>9, IdleTitled DEF Fails, Reject, Become
<1> QED BY <1>3, <1>4, <1>5, <1>6, <1>7, <1>8, <1>9 DEF Step

\* And every other step.
LEMMA OnceNext == IInv /\ OnceInv /\ [Next]_vars => OnceInv'
<1> SUFFICES ASSUME IInv, OnceInv, [Next]_vars PROVE OnceInv'
    OBVIOUS
<1>1. CASE UNCHANGED vars
  BY <1>1 DEF vars, OnceInv
<1>2. CASE Crash
  <2>1. overlap' = overlap /\ \A h \in Handlers : local'[h] = Idle
    BY <1>2 DEF Crash
  <2> QED BY <2>1, IdleTitled DEF OnceInv
<1>3. ASSUME NEW h \in Handlers, Step(h) PROVE OnceInv'
  <2>1. CASE overlap
    <3>1. overlap' = overlap
      BY <1>3 DEF Step, Begin, Load, Truncate, Created, Saved, Answer, Fails
    <3> QED BY <2>1, <3>1 DEF OnceInv
  <2> QED BY <1>3, <2>1, OnceStep
<1> QED BY <1>1, <1>2, <1>3 DEF Next

\* While requests do not overlap, whatever fails and whatever titles callers use:
\* a preparation adds its default tasks to an empty list only, each once and in
\* their order, and ends with all of them in the file or adds none.
THEOREM DefaultsAreUnique == Spec => []DefaultsComeOnce
<1>1. Init => OnceInv
  BY IdleTitled DEF Init, OnceInv
<1>2. OnceInv => DefaultsComeOnce
  BY DEF OnceInv, Titled, Numbered, DefaultsComeOnce, At
<1>3. IInv /\ OnceInv /\ [Next]_vars => OnceInv'
  BY OnceNext
<1> QED BY <1>1, <1>2, <1>3, Invariant, PTL DEF Spec

(* ------------------------------ the invariants ------------------------- *)

Bare(p) ==
    /\ p.plan = None /\ p.proposal = None /\ p.diff = None /\ p.sandbox = None /\ p.recovery = None
    /\ p.apply = None /\ p.rollback = None /\ p.snapshot = None /\ p.report = None /\ ~p.selected

\* Pages that may differ in what the server asks only.
Alike(p, q) ==
    /\ p.plan = q.plan /\ p.proposal = q.proposal /\ p.selected = q.selected /\ p.diff = q.diff
    /\ p.sandbox = q.sandbox /\ p.recovery = q.recovery /\ p.apply = q.apply
    /\ p.rollback = q.rollback /\ p.snapshot = q.snapshot /\ p.report = q.report

\* A result is of session s, and of one of the proposals
IsOf(result, s, ids) == result = None \/ (result.of \in ids /\ result.session = s)

\* What a page holds belongs to the session shown, and to one proposal.
Belong(s, p) ==
    /\ p.plan # None => p.plan.of = s
    /\ p.snapshot \in {None, s} /\ p.report \in {None, s}
    /\ p.proposal # None =>
        /\ p.proposal.session = s
        /\ IsOf(p.diff, s, {p.proposal.id}) /\ IsOf(p.sandbox, s, {p.proposal.id})
        /\ IsOf(p.apply, s, {p.proposal.id}) /\ IsOf(p.rollback, s, {p.proposal.id})
        /\ IsOf(p.recovery, s, p.proposal.repairs \cup {p.proposal.id})
    /\ p.proposal = None => p.diff = None /\ p.sandbox = None /\ p.apply = None
    /\ s = None => Bare(p)

\* What the steps leave behind: a preview is of a valid proposal, a recovery of
\* one that failed in the sandbox, a rollback of one that was applied; and
\* preview and sandbox are of the whole proposal unless files of it were approved.
Follow(p) ==
    /\ p.diff # None => Valid(p.proposal)
    /\ p.recovery # None =>
        \/ p.proposal = None \/ StatusOf(p.sandbox) = "failed"
        \/ p.recovery.status = "repair_prompt_ready"
    /\ p.rollback # None => p.apply = None \/ p.apply.status = "applied"
    /\ ~p.selected => (p.diff # None => p.diff.whole) /\ (p.sandbox # None => p.sandbox.whole)
    /\ p.diff # None /\ p.sandbox # None /\ ~p.diff.whole => ~p.sandbox.whole

\* What a handler found when it was clicked.
WasReady(op, decision, p) ==
    /\ op \in {"diff", "sandbox"} => Valid(p.proposal)
    /\ op = "recovery" => p.proposal # None /\ StatusOf(p.sandbox) = "failed"
    /\ op = "repair" => p.proposal # None /\ StatusOf(p.recovery) = "repair_prompt_ready"
    /\ op \in {"dry_run", "apply"} => p.proposal # None
    /\ op \in {"dry_rollback", "rollback"} => StatusOf(p.apply) = "applied"
    /\ op \in {"patch", "repair"} => Proposals \ InUse(p) # {}
    /\ op = "decide" =>
        /\ decision = "approve_patch" => Valid(p.proposal)
        /\ decision = "rollback" => StatusOf(p.apply) = "applied"

\* A handler that awaits its result finds the session and the page it was
\* clicked in, but for what the server asks; only a session that is resumed is
\* shown before it.
Fits(s, p, c) ==
    /\ c.at = "result" /\ c.op = "start" => s = None
    /\ c.at = "result" /\ c.op = "resume" => s # None
    /\ c.at = "result" /\ c.op \notin {"start", "resume"} =>
        s # None /\ c.session = s /\ Alike(p, c.seen) /\ WasReady(c.op, c.decision, c.seen)
    /\ c.at = "log" => s # None /\ c.session = s

\* A page as it may be in session s
Whole(s, p) == p \in Page /\ Belong(s, p) /\ Follow(p)

PageInv ==
    /\ session \in Sessions \cup {None} /\ saved \subseteq Sessions
    /\ Whole(session, page)
    /\ call = NoCall \/ (call \in Call /\ Fits(session, page, call))

RestInv ==
    /\ guide \in Actions \cup {None} /\ fresh \in BOOLEAN /\ due \in BOOLEAN
    /\ posts \in Seq(Post) /\ Len(posts) <= MaxPosts
    /\ asking \in BOOLEAN /\ extras \in 0..MaxExtras

\* The newest guide asked for since the page last changed, or the one that has
\* arrived if none is awaited, is the guide of the page.
GuideInv ==
    session # None /\ ~due =>
        /\ \A i \in DOMAIN posts :
            posts[i].newest /\ (\A j \in DOMAIN posts : j > i => ~posts[j].newest) =>
                posts[i].offer = Offer(session, page)
        /\ fresh /\ (\A i \in DOMAIN posts : ~posts[i].newest) => guide = Offer(session, page)

(* ------------------------------- the pages ----------------------------- *)

LEMMA PageIs ==
    ASSUME NEW p \in Page
    PROVE  /\ p.prepared \in BOOLEAN /\ p.questions \in 0..MaxQuestions
           /\ p.plan \in [of : Sessions, plan : Plans] \cup {None}
           /\ p.proposal \in Proposal \cup {None} /\ p.selected \in BOOLEAN
           /\ p.diff \in Result({"ready", "blocked"}) \cup {None}
           /\ p.sandbox \in Result(Sandboxes \ {"none"}) \cup {None}
           /\ p.recovery \in Result(Recoveries \ {"none"}) \cup {None}
           /\ p.apply \in Result(Applies \ {"none"}) \cup {None}
           /\ p.rollback \in Result(Rollbacks \ {"none"}) \cup {None}
           /\ p.snapshot \in Sessions \cup {None} /\ p.verified \in BOOLEAN
           /\ p.report \in Sessions \cup {None}
BY DEF Page

LEMMA EmptyHolds ==
    ASSUME NEW s \in Sessions \cup {None}
    PROVE  Whole(s, EmptyPage)
<1>1. EmptyPage \in Page
  BY PageBoundsAssumption DEF EmptyPage, Page
<1>2. Belong(s, EmptyPage) /\ Follow(EmptyPage)
  BY DEF EmptyPage, Belong, Follow, Bare
<1> QED BY <1>1, <1>2 DEF Whole

\* What the server asks and whether the workflow is prepared touch nothing else.
LEMMA AskedHolds ==
    ASSUME NEW s, NEW p, Whole(s, p), NEW n \in 0..MaxQuestions, NEW b \in BOOLEAN
    PROVE  /\ Whole(s, [p EXCEPT !.prepared = b, !.questions = n])
           /\ Alike([p EXCEPT !.prepared = b, !.questions = n], p)
<1> DEFINE q == [p EXCEPT !.prepared = b, !.questions = n]
<1>1. p \in Page
  BY DEF Whole
<1>2. q \in Page
  BY <1>1 DEF Page
<1>3. Alike(q, p)
  BY <1>1 DEF Page, Alike
<1> HIDE DEF q
<1>4. Belong(s, p) /\ Follow(p)
  BY DEF Whole
<1>5. Belong(s, q)
  BY <1>3, <1>4 DEF Alike, Belong, Bare
<1>6. Follow(q)
  BY <1>3, <1>4 DEF Alike, Follow
<1> QED BY <1>2, <1>3, <1>5, <1>6 DEF Whole, q

LEMMA PlanHolds ==
    ASSUME NEW s \in Sessions, NEW p, Whole(s, p), NEW x \in Plans
    PROVE  Whole(s, [p EXCEPT !.plan = [of |-> s, plan |-> x]])
<1> DEFINE q == [p EXCEPT !.plan = [of |-> s, plan |-> x]]
<1>1. p \in Page /\ Belong(s, p) /\ Follow(p) /\ s # None
  BY NoneAssumption DEF Whole
<1>2. q \in Page
  BY <1>1 DEF Page
<1>3. /\ q.plan.of = s /\ q.proposal = p.proposal /\ q.selected = p.selected /\ q.diff = p.diff
      /\ q.sandbox = p.sandbox /\ q.recovery = p.recovery /\ q.apply = p.apply
      /\ q.rollback = p.rollback /\ q.snapshot = p.snapshot /\ q.report = p.report
  BY <1>1 DEF Page
<1> HIDE DEF q
<1>4. Belong(s, q) /\ Follow(q)
  BY <1>1, <1>3 DEF Belong, Follow
<1> QED BY <1>2, <1>4 DEF Whole, q

\* A result of the proposal that is shown is one.
LEMMA ResultTyped ==
    ASSUME NEW s, NEW p, Whole(s, p), p.proposal # None, NEW w \in BOOLEAN, NEW S, NEW st \in S
    PROVE  [of |-> p.proposal.id, session |-> p.proposal.session, whole |-> w, status |-> st]
                \in Result(S)
<1>1. p.proposal \in Proposal
  BY PageIs DEF Whole
<1> QED BY <1>1 DEF Proposal, Result

\* A new proposal takes away what was of the old one.
LEMMA ProposalHolds ==
    ASSUME NEW s \in Sessions, NEW p, Whole(s, p),
           NEW x \in Proposal, x.session = s
    PROVE  Whole(s, [p EXCEPT !.proposal = x, !.selected = FALSE, !.diff = None,
                    !.sandbox = None, !.recovery = None, !.apply = None, !.rollback = None])
<1> DEFINE q == [p EXCEPT !.proposal = x, !.selected = FALSE, !.diff = None,
                          !.sandbox = None, !.recovery = None, !.apply = None, !.rollback = None]
<1>1. p \in Page /\ Belong(s, p) /\ Follow(p) /\ s # None
  BY NoneAssumption DEF Whole
<1>2. q \in Page
  BY <1>1 DEF Page
<1>3. /\ q.plan = p.plan /\ q.proposal = x /\ q.selected = FALSE /\ q.diff = None
      /\ q.sandbox = None /\ q.recovery = None /\ q.apply = None /\ q.rollback = None
      /\ q.snapshot = p.snapshot /\ q.report = p.report
  BY <1>1 DEF Page
<1> HIDE DEF q
<1>4. Belong(s, q)
  BY <1>1, <1>3 DEF Belong, IsOf, Valid, StatusOf
<1>6. Follow(q)
  BY <1>1, <1>3 DEF Belong, Follow, Valid, StatusOf
<1> QED BY <1>2, <1>4, <1>6 DEF Whole, q

\* So does a repaired one, but for the recovery it was made of.
LEMMA RepairHolds ==
    ASSUME NEW s \in Sessions, NEW p, Whole(s, p),
           NEW x \in Proposal, x.session = s, p.proposal # None,
           StatusOf(p.recovery) = "repair_prompt_ready",
           x.repairs = p.proposal.repairs \cup {p.proposal.id}
    PROVE  Whole(s, [p EXCEPT !.proposal = x, !.selected = FALSE, !.diff = None,
                    !.sandbox = None, !.apply = None, !.rollback = None])
<1> DEFINE q == [p EXCEPT !.proposal = x, !.selected = FALSE, !.diff = None,
                          !.sandbox = None, !.apply = None, !.rollback = None]
<1>1. p \in Page /\ Belong(s, p) /\ Follow(p) /\ s # None
  BY NoneAssumption DEF Whole
<1>2. q \in Page
  BY <1>1 DEF Page
<1>3. /\ q.plan = p.plan /\ q.proposal = x /\ q.selected = FALSE /\ q.diff = None
      /\ q.sandbox = None /\ q.recovery = p.recovery /\ q.apply = None /\ q.rollback = None
      /\ q.snapshot = p.snapshot /\ q.report = p.report
  BY <1>1 DEF Page
<1> HIDE DEF q
<1>4. Belong(s, q)
  BY <1>1, <1>3 DEF Belong, IsOf, Valid, StatusOf
<1>6. Follow(q)
  BY <1>1, <1>3 DEF Belong, Follow, Valid, StatusOf
<1> QED BY <1>2, <1>4, <1>6 DEF Whole, q

\* A preview is of the proposal, and of the files approved if any are.
LEMMA DiffHolds ==
    ASSUME NEW s \in Sessions, NEW p, Whole(s, p),
           Valid(p.proposal),
           NEW r \in Result({"ready", "blocked"}), r.of = p.proposal.id, r.session = s,
           r.whole = ~p.selected
    PROVE  Whole(s, [p EXCEPT !.diff = r, !.sandbox = None, !.recovery = None,
                    !.apply = None, !.rollback = None])
<1> DEFINE q == [p EXCEPT !.diff = r, !.sandbox = None, !.recovery = None,
                          !.apply = None, !.rollback = None]
<1>1. p \in Page /\ Belong(s, p) /\ Follow(p) /\ s # None
  BY NoneAssumption DEF Whole
<1>2. q \in Page
  BY <1>1 DEF Page
<1>3. /\ q.plan = p.plan /\ q.proposal = p.proposal /\ q.selected = p.selected /\ q.diff = r
      /\ q.sandbox = None /\ q.recovery = None /\ q.apply = None /\ q.rollback = None
      /\ q.snapshot = p.snapshot /\ q.report = p.report
  BY <1>1 DEF Page
<1> HIDE DEF q
<1>4. Belong(s, q)
  BY <1>1, <1>3 DEF Belong, IsOf, Valid, StatusOf
<1>6. Follow(q)
  BY <1>1, <1>3 DEF Belong, Follow, Valid, StatusOf
<1> QED BY <1>2, <1>4, <1>6 DEF Whole, q

\* A sandbox result takes away the recovery of the one before.
LEMMA SandboxHolds ==
    ASSUME NEW s \in Sessions, NEW p, Whole(s, p),
           p.proposal # None,
           NEW r \in Result(Sandboxes \ {"none"}), r.of = p.proposal.id, r.session = s,
           r.whole = ~p.selected
    PROVE  Whole(s, [p EXCEPT !.sandbox = r, !.recovery = None])
<1> DEFINE q == [p EXCEPT !.sandbox = r, !.recovery = None]
<1>1. p \in Page /\ Belong(s, p) /\ Follow(p) /\ s # None
  BY NoneAssumption DEF Whole
<1>2. q \in Page
  BY <1>1 DEF Page
<1>3. /\ q.plan = p.plan /\ q.proposal = p.proposal /\ q.selected = p.selected /\ q.diff = p.diff
      /\ q.sandbox = r /\ q.recovery = None /\ q.apply = p.apply /\ q.rollback = p.rollback
      /\ q.snapshot = p.snapshot /\ q.report = p.report
  BY <1>1 DEF Page
<1> HIDE DEF q
<1>4. Belong(s, q)
  BY <1>1, <1>3 DEF Belong, IsOf, Valid, StatusOf
<1>6. Follow(q)
  BY <1>1, <1>3 DEF Belong, Follow, Valid, StatusOf
<1> QED BY <1>2, <1>4, <1>6 DEF Whole, q

\* A recovery is of a proposal that failed in the sandbox.
LEMMA RecoveryHolds ==
    ASSUME NEW s \in Sessions, NEW p, Whole(s, p),
           p.proposal # None, StatusOf(p.sandbox) = "failed",
           NEW r \in Result(Recoveries \ {"none"}), r.of = p.proposal.id, r.session = s
    PROVE  Whole(s, [p EXCEPT !.recovery = r])
<1> DEFINE q == [p EXCEPT !.recovery = r]
<1>1. p \in Page /\ Belong(s, p) /\ Follow(p) /\ s # None
  BY NoneAssumption DEF Whole
<1>2. q \in Page
  BY <1>1 DEF Page
<1>3. /\ q.plan = p.plan /\ q.proposal = p.proposal /\ q.selected = p.selected /\ q.diff = p.diff
      /\ q.sandbox = p.sandbox /\ q.recovery = r /\ q.apply = p.apply /\ q.rollback = p.rollback
      /\ q.snapshot = p.snapshot /\ q.report = p.report
  BY <1>1 DEF Page
<1> HIDE DEF q
<1>4. Belong(s, q)
  BY <1>1, <1>3 DEF Belong, IsOf, Valid, StatusOf
<1>6. Follow(q)
  BY <1>1, <1>3 DEF Belong, Follow, Valid, StatusOf
<1> QED BY <1>2, <1>4, <1>6 DEF Whole, q

\* An apply, dry or not, takes away the rollback of the one before.
LEMMA ApplyHolds ==
    ASSUME NEW s \in Sessions, NEW p, Whole(s, p),
           p.proposal # None,
           NEW r \in Result(Applies \ {"none"}), r.of = p.proposal.id, r.session = s
    PROVE  Whole(s, [p EXCEPT !.apply = r, !.rollback = None])
<1> DEFINE q == [p EXCEPT !.apply = r, !.rollback = None]
<1>1. p \in Page /\ Belong(s, p) /\ Follow(p) /\ s # None
  BY NoneAssumption DEF Whole
<1>2. q \in Page
  BY <1>1 DEF Page
<1>3. /\ q.plan = p.plan /\ q.proposal = p.proposal /\ q.selected = p.selected /\ q.diff = p.diff
      /\ q.sandbox = p.sandbox /\ q.recovery = p.recovery /\ q.apply = r /\ q.rollback = None
      /\ q.snapshot = p.snapshot /\ q.report = p.report
  BY <1>1 DEF Page
<1> HIDE DEF q
<1>4. Belong(s, q)
  BY <1>1, <1>3 DEF Belong, IsOf, Valid, StatusOf
<1>6. Follow(q)
  BY <1>1, <1>3 DEF Belong, Follow, Valid, StatusOf
<1> QED BY <1>2, <1>4, <1>6 DEF Whole, q

\* A rollback is of what was applied.
LEMMA RollbackHolds ==
    ASSUME NEW s \in Sessions, NEW p, Whole(s, p),
           StatusOf(p.apply) = "applied",
           NEW r \in Result(Rollbacks \ {"none"}), r.of = p.apply.of, r.session = p.apply.session
    PROVE  Whole(s, [p EXCEPT !.rollback = r])
<1> DEFINE q == [p EXCEPT !.rollback = r]
<1>1. p \in Page /\ Belong(s, p) /\ Follow(p) /\ s # None
  BY NoneAssumption DEF Whole
<1>2. q \in Page
  BY <1>1 DEF Page
<1>3. /\ q.plan = p.plan /\ q.proposal = p.proposal /\ q.selected = p.selected /\ q.diff = p.diff
      /\ q.sandbox = p.sandbox /\ q.recovery = p.recovery /\ q.apply = p.apply /\ q.rollback = r
      /\ q.snapshot = p.snapshot /\ q.report = p.report
  BY <1>1 DEF Page
<1> HIDE DEF q
<1>4. Belong(s, q)
  BY <1>1, <1>3 DEF Belong, IsOf, Valid, StatusOf
<1>6. Follow(q)
  BY <1>1, <1>3 DEF Belong, Follow, Valid, StatusOf
<1> QED BY <1>2, <1>4, <1>6 DEF Whole, q

\* Snapshot, report and verification stand beside the proposal.
LEMMA SnapshotHolds ==
    ASSUME NEW s \in Sessions, NEW p, Whole(s, p)
    PROVE  Whole(s, [p EXCEPT !.snapshot = s])
<1> DEFINE q == [p EXCEPT !.snapshot = s]
<1>1. p \in Page /\ Belong(s, p) /\ Follow(p) /\ s # None
  BY NoneAssumption DEF Whole
<1>2. q \in Page
  BY <1>1 DEF Page
<1>3. /\ q.plan = p.plan /\ q.proposal = p.proposal /\ q.selected = p.selected /\ q.diff = p.diff
      /\ q.sandbox = p.sandbox /\ q.recovery = p.recovery /\ q.apply = p.apply
      /\ q.rollback = p.rollback /\ q.snapshot = s /\ q.report = p.report
  BY <1>1 DEF Page
<1> HIDE DEF q
<1>4. Belong(s, q)
  BY <1>1, <1>3 DEF Belong, IsOf, Valid, StatusOf
<1>6. Follow(q)
  BY <1>1, <1>3 DEF Belong, Follow, Valid, StatusOf
<1> QED BY <1>2, <1>4, <1>6 DEF Whole, q

LEMMA ReportHolds ==
    ASSUME NEW s \in Sessions, NEW p, Whole(s, p)
    PROVE  Whole(s, [p EXCEPT !.report = s])
<1> DEFINE q == [p EXCEPT !.report = s]
<1>1. p \in Page /\ Belong(s, p) /\ Follow(p) /\ s # None
  BY NoneAssumption DEF Whole
<1>2. q \in Page
  BY <1>1 DEF Page
<1>3. /\ q.plan = p.plan /\ q.proposal = p.proposal /\ q.selected = p.selected /\ q.diff = p.diff
      /\ q.sandbox = p.sandbox /\ q.recovery = p.recovery /\ q.apply = p.apply
      /\ q.rollback = p.rollback /\ q.snapshot = p.snapshot /\ q.report = s
  BY <1>1 DEF Page
<1> HIDE DEF q
<1>4. Belong(s, q)
  BY <1>1, <1>3 DEF Belong, IsOf, Valid, StatusOf
<1>6. Follow(q)
  BY <1>1, <1>3 DEF Belong, Follow, Valid, StatusOf
<1> QED BY <1>2, <1>4, <1>6 DEF Whole, q

LEMMA VerifiedHolds ==
    ASSUME NEW s \in Sessions, NEW p, Whole(s, p),
           NEW b \in BOOLEAN
    PROVE  Whole(s, [p EXCEPT !.verified = b])
<1> DEFINE q == [p EXCEPT !.verified = b]
<1>1. p \in Page /\ Belong(s, p) /\ Follow(p) /\ s # None
  BY NoneAssumption DEF Whole
<1>2. q \in Page
  BY <1>1 DEF Page
<1>3. /\ q.plan = p.plan /\ q.proposal = p.proposal /\ q.selected = p.selected /\ q.diff = p.diff
      /\ q.sandbox = p.sandbox /\ q.recovery = p.recovery /\ q.apply = p.apply
      /\ q.rollback = p.rollback /\ q.snapshot = p.snapshot /\ q.report = p.report
  BY <1>1 DEF Page
<1> HIDE DEF q
<1>4. Belong(s, q)
  BY <1>1, <1>3 DEF Belong, IsOf, Valid, StatusOf
<1>6. Follow(q)
  BY <1>1, <1>3 DEF Belong, Follow, Valid, StatusOf
<1> QED BY <1>2, <1>4, <1>6 DEF Whole, q

\* Files are approved under a preview of the whole proposal, too.
LEMMA SelectedHolds ==
    ASSUME NEW s \in Sessions, NEW p, Whole(s, p)
    PROVE  Whole(s, [p EXCEPT !.selected = TRUE])
<1> DEFINE q == [p EXCEPT !.selected = TRUE]
<1>1. p \in Page /\ Belong(s, p) /\ Follow(p) /\ s # None
  BY NoneAssumption DEF Whole
<1>2. q \in Page
  BY <1>1 DEF Page
<1>3. /\ q.plan = p.plan /\ q.proposal = p.proposal /\ q.selected = TRUE /\ q.diff = p.diff
      /\ q.sandbox = p.sandbox /\ q.recovery = p.recovery /\ q.apply = p.apply
      /\ q.rollback = p.rollback /\ q.snapshot = p.snapshot /\ q.report = p.report
  BY <1>1 DEF Page
<1> HIDE DEF q
<1>4. Belong(s, q)
  BY <1>1, <1>3 DEF Belong, IsOf, Valid, StatusOf
<1>6. Follow(q)
  BY <1>1, <1>3 DEF Belong, Follow, Valid, StatusOf
<1> QED BY <1>2, <1>4, <1>6 DEF Whole, q

\* Without a proposal, its recovery and rollback may stay behind.
LEMMA DroppedHolds ==
    ASSUME NEW s \in Sessions, NEW p, Whole(s, p)
    PROVE  Whole(s, [p EXCEPT !.proposal = None, !.diff = None, !.sandbox = None,
                    !.apply = None])
<1> DEFINE q == [p EXCEPT !.proposal = None, !.diff = None, !.sandbox = None,
                          !.apply = None]
<1>1. p \in Page /\ Belong(s, p) /\ Follow(p) /\ s # None
  BY NoneAssumption DEF Whole
<1>2. q \in Page
  BY <1>1 DEF Page
<1>3. /\ q.plan = p.plan /\ q.proposal = None /\ q.selected = p.selected /\ q.diff = None
      /\ q.sandbox = None /\ q.recovery = p.recovery /\ q.apply = None /\ q.rollback = p.rollback
      /\ q.snapshot = p.snapshot /\ q.report = p.report
  BY <1>1 DEF Page
<1> HIDE DEF q
<1>4. Belong(s, q)
  BY <1>1, <1>3 DEF Belong, IsOf, Valid, StatusOf
<1>6. Follow(q)
  BY <1>1, <1>3 DEF Belong, Follow, Valid, StatusOf
<1> QED BY <1>2, <1>4, <1>6 DEF Whole, q

\* With the plan goes everything but what the server asks and the report.
LEMMA ClearedHolds ==
    ASSUME NEW s \in Sessions, NEW p, Whole(s, p)
    PROVE  Whole(s, Cleared(p))
<1> DEFINE q == Cleared(p)
<1>1. p \in Page /\ Belong(s, p) /\ Follow(p) /\ s # None
  BY NoneAssumption DEF Whole
<1>2. q \in Page
  BY <1>1 DEF Page, Cleared, EmptyPage
<1>3. /\ q.plan = None /\ q.proposal = None /\ q.selected = FALSE /\ q.diff = None
      /\ q.sandbox = None /\ q.recovery = None /\ q.apply = None /\ q.rollback = None
      /\ q.snapshot = None /\ q.report = p.report
  BY <1>1 DEF Page, Cleared, EmptyPage
<1> HIDE DEF q
<1>4. Belong(s, q)
  BY <1>1, <1>3 DEF Belong, IsOf, Valid, StatusOf
<1>6. Follow(q)
  BY <1>1, <1>3 DEF Belong, Follow, Valid, StatusOf
<1> QED BY <1>2, <1>4, <1>6 DEF Whole, q

(* ------------------------------- the calls ----------------------------- *)

LEMMA AlikeHolds ==
    ASSUME NEW s, NEW p, Whole(s, p), NEW q \in Page, Alike(q, p)
    PROVE  Whole(s, q)
<1>1. Belong(s, p) /\ Follow(p)
  BY DEF Whole
<1>2. Belong(s, q)
  BY <1>1 DEF Alike, Belong, Bare
<1>3. Follow(q)
  BY <1>1 DEF Alike, Follow
<1> QED BY <1>2, <1>3 DEF Whole

LEMMA AlikeFits ==
    ASSUME NEW s, NEW p, NEW q, Alike(q, p), NEW c, Fits(s, p, c)
    PROVE  Fits(s, q, c)
<1>1. Alike(p, c.seen) => Alike(q, c.seen)
  BY DEF Alike
<1> QED BY <1>1 DEF Fits

LEMMA CallIs ==
    ASSUME NEW c \in Call
    PROVE  /\ c.op \in Requests /\ c.decision \in Decisions \cup {None}
           /\ c.at \in {"result", "log", "end"} /\ c.session \in Sessions \cup {None}
           /\ c.seen \in Page /\ c.then \in SUBSET {"refresh", "clear", "drop"}
BY DEF Call

\* A handler that awaits its result finds the page as it was clicked on.
LEMMA Awaited ==
    ASSUME PageInv, NEW op \in Requests \ {"start", "resume"}, Awaits(op)
    PROVE  /\ session \in Sessions /\ session # None /\ Whole(session, page)
           /\ call \in Call /\ call.session = session /\ call.seen \in Page
           /\ Alike(page, call.seen) /\ WasReady(op, call.decision, call.seen)
<1>1. call \in Call /\ Fits(session, page, call) /\ call.op = op /\ call.at = "result"
  BY DEF PageInv, Awaits
<1>2. /\ session # None /\ call.session = session
      /\ Alike(page, call.seen) /\ WasReady(op, call.decision, call.seen)
  BY <1>1 DEF Fits
<1> QED BY <1>1, <1>2, CallIs DEF PageInv

LEMMA Returned ==
    ASSUME call \in Call, Return, NEW s, NEW p
    PROVE  call' = NoCall \/ (call' \in Call /\ Fits(s, p, call'))
<1>1. CASE call' = NoCall
  BY <1>1
<1>2. CASE call' = [call EXCEPT !.at = "end"]
  <2>1. call' \in Call /\ call'.at = "end"
    BY <1>2 DEF Call
  <2> QED BY <2>1 DEF Fits
<1> QED BY <1>1, <1>2 DEF Return

LEMMA Logged ==
    ASSUME call \in Call, ThenLog, call.session = session, session # None, NEW p
    PROVE  call' \in Call /\ Fits(session, p, call')
<1>1. call' \in Call /\ call'.at = "log" /\ call'.session = call.session
  BY DEF Call, ThenLog
<1> QED BY <1>1 DEF Fits

(* -------------------------- what a change leaves ----------------------- *)

GuidedInv == PageInv /\ RestInv /\ GuideInv

\* A page that is shown starts the timer: nothing is asked of its guide yet.
LEMMA ShownAnew ==
    ASSUME NEW s, NEW p, Show(s, p)
    PROVE  GuideInv'
BY DEF Show, GuideInv

LEMMA ExtraCounted ==
    ASSUME RestInv, NEW is \in BOOLEAN, Extra(is)
    PROVE  extras' \in 0..MaxExtras
<1>1. extras \in 0..MaxExtras /\ MaxExtras \in Nat
  BY PageBoundsAssumption DEF RestInv
<1>2. CASE is
  BY <1>1, <1>2 DEF Extra
<1>3. CASE ~is
  BY <1>1, <1>3 DEF Extra
<1> QED BY <1>2, <1>3

LEMMA KeptGuide ==
    ASSUME RestInv, NEW s, KeepGuide(s)
    PROVE  guide' \in Actions \cup {None} /\ fresh' \in BOOLEAN
BY DEF RestInv, KeepGuide

\* A result that keeps the page whole is shown and, maybe, logged.
LEMMA ResultShown ==
    ASSUME GuidedInv, NEW op \in Requests \ {"start", "resume"}, Awaits(op),
           NEW q, Whole(session, q), NEW bad \in BOOLEAN, Set(q, bad) \/ SetAndEnd(q, bad)
    PROVE  GuidedInv'
<1> PageInv /\ RestInv
  BY DEF GuidedInv
<1>1. session \in Sessions /\ session # None /\ call \in Call /\ call.session = session
  BY Awaited
<1>2. Extra(bad) /\ Show(session, q) /\ KeepGuide(session) /\ UNCHANGED <<posts, asking, saved>>
  BY DEF Set, SetAndEnd
<1>3. session' = session /\ page' = q
  BY <1>2 DEF Show
<1>4. call' = NoCall \/ (call' \in Call /\ Fits(session, q, call'))
  BY <1>1, Returned, Logged DEF Set, SetAndEnd
<1>5. PageInv'
  BY <1>1, <1>2, <1>3, <1>4 DEF PageInv
<1>6. RestInv'
  <2>1. extras' \in 0..MaxExtras
    BY <1>2, ExtraCounted
  <2>2. guide' \in Actions \cup {None} /\ fresh' \in BOOLEAN
    BY <1>2, KeptGuide
  <2>3. due' \in BOOLEAN
    BY <1>2 DEF Show
  <2> QED BY <1>2, <2>1, <2>2, <2>3 DEF RestInv
<1>7. GuideInv'
  BY <1>2, ShownAnew
<1> QED BY <1>5, <1>6, <1>7 DEF GuidedInv

(* ----------------------------- the results ----------------------------- *)

LEMMA InUseAlike ==
    ASSUME NEW p \in Page, NEW q \in Page, Alike(p, q)
    PROVE  InUse(p) = InUse(q)
<1> DEFINE R == {"diff", "sandbox", "recovery", "apply", "rollback"}
<1>1. p.proposal = q.proposal
  BY DEF Alike
<1>2. \A r \in R : p[r] = q[r]
  BY DEF Alike
<1>3. {IF p[r] = None THEN {} ELSE {p[r].of} : r \in R}
        = {IF q[r] = None THEN {} ELSE {q[r].of} : r \in R}
  BY <1>2
<1> QED BY <1>1, <1>3 DEF InUse

LEMMA NewIdIs ==
    ASSUME GuidedInv, NEW op \in {"patch", "repair"}, Awaits(op)
    PROVE  NewId \in Proposals
<1>1. page \in Page /\ call.seen \in Page /\ Alike(page, call.seen)
  BY Awaited DEF GuidedInv, Whole, Requests
<1>2. Proposals \ InUse(call.seen) # {}
  BY Awaited DEF GuidedInv, WasReady, Requests
<1>3. \E i \in Proposals : i \notin InUse(page) \cup InUse(call.seen)
  BY <1>1, <1>2, InUseAlike
<1> QED BY <1>3 DEF NewId

\* A result about the proposal of the render is one about that of the page.
LEMMA ResultOfPage ==
    ASSUME GuidedInv, NEW op \in Requests \ {"start", "resume"}, Awaits(op), page.proposal # None,
           NEW w \in BOOLEAN, NEW S, NEW st \in S
    PROVE  /\ ResultOf(w, st) \in Result(S) /\ ResultOf(w, st).of = page.proposal.id
           /\ ResultOf(w, st).session = session /\ ResultOf(w, st).whole = w
           /\ ResultOf(w, st).status = st
<1>1. Whole(session, page) /\ Alike(page, call.seen)
  BY Awaited DEF GuidedInv
<1>2. ResultOf(w, st) = [of |-> page.proposal.id, session |-> page.proposal.session,
                         whole |-> w, status |-> st]
  BY <1>1 DEF ResultOf, Alike
<1>3. page.proposal.session = session
  BY <1>1 DEF Whole, Belong
<1> QED BY <1>1, <1>2, <1>3, ResultTyped

LEMMA WorkflowPreparedKeeps ==
    ASSUME GuidedInv, WorkflowPrepared
    PROVE  GuidedInv'
<1>1. Awaits("prepare") /\ session \in Sessions /\ session # None /\ Whole(session, page)
      /\ call.session = session /\ Alike(page, call.seen) /\ call.seen \in Page
      /\ WasReady("prepare", call.decision, call.seen) /\ page \in Page
  BY Awaited DEF GuidedInv, WorkflowPrepared, Requests, Whole
<1>2. PICK n \in 0..MaxQuestions :
        SetAndEnd([page EXCEPT !.prepared = TRUE, !.questions = n], FALSE)
  BY DEF WorkflowPrepared
<1>3. Whole(session, [page EXCEPT !.prepared = TRUE, !.questions = n])
  BY <1>1, AskedHolds
<1> QED BY <1>1, <1>2, <1>3, ResultShown DEF Requests

LEMMA QuestionAnsweredKeeps ==
    ASSUME GuidedInv, QuestionAnswered
    PROVE  GuidedInv'
<1>1. Awaits("answer") /\ session \in Sessions /\ session # None /\ Whole(session, page)
      /\ call.session = session /\ Alike(page, call.seen) /\ call.seen \in Page
      /\ WasReady("answer", call.decision, call.seen) /\ page \in Page
  BY Awaited DEF GuidedInv, QuestionAnswered, Requests, Whole
<1> DEFINE n == IF page.questions = 0 THEN 0 ELSE page.questions - 1
           q == [page EXCEPT !.prepared = page.prepared, !.questions = n]
<1>2. page.questions \in 0..MaxQuestions /\ page.prepared \in BOOLEAN /\ MaxQuestions \in Nat
  BY <1>1, PageIs, PageBoundsAssumption
<1>3. n \in 0..MaxQuestions
  BY <1>2
<1>4. SetAndEnd(q, FALSE)
  <2>1. [page EXCEPT !.questions = IF @ = 0 THEN 0 ELSE @ - 1] = q
    BY <1>1 DEF Page
  <2> QED BY <2>1 DEF QuestionAnswered
<1> HIDE DEF n
<1>5. Whole(session, q)
  BY <1>1, <1>2, <1>3, AskedHolds
<1> HIDE DEF q
<1> QED BY <1>1, <1>4, <1>5, ResultShown DEF Requests

LEMMA PlanArrivesKeeps ==
    ASSUME GuidedInv, PlanArrives
    PROVE  GuidedInv'
<1>1. Awaits("plan") /\ session \in Sessions /\ session # None /\ Whole(session, page)
      /\ call.session = session /\ Alike(page, call.seen) /\ call.seen \in Page
      /\ WasReady("plan", call.decision, call.seen) /\ page \in Page
  BY Awaited DEF GuidedInv, PlanArrives, Requests, Whole
<1>2. PICK p \in Plans :
        Set([page EXCEPT !.plan = [of |-> call.session, plan |-> p]], ~p.valid)
  BY DEF PlanArrives
<1>3. Whole(session, [page EXCEPT !.plan = [of |-> session, plan |-> p]])
  BY <1>1, PlanHolds
<1>4. (~p.valid) \in BOOLEAN
  OBVIOUS
<1> QED BY <1>1, <1>2, <1>3, <1>4, ResultShown DEF Requests

LEMMA ProposalArrivesKeeps ==
    ASSUME GuidedInv, ProposalArrives
    PROVE  GuidedInv'
<1>1. Awaits("patch") /\ session \in Sessions /\ session # None /\ Whole(session, page)
      /\ call.session = session /\ Alike(page, call.seen) /\ call.seen \in Page
      /\ WasReady("patch", call.decision, call.seen) /\ page \in Page
  BY Awaited DEF GuidedInv, ProposalArrives, Requests, Whole
<1> DEFINE x(v) == [id |-> NewId, session |-> session, valid |-> v, repairs |-> {}]
           q(v) == [page EXCEPT !.proposal = x(v), !.selected = FALSE, !.diff = None,
                                !.sandbox = None, !.recovery = None, !.apply = None,
                                !.rollback = None]
<1>2. PICK valid \in BOOLEAN : Set(q(valid), ~valid)
  BY <1>1 DEF ProposalArrives
<1>3. x(valid) \in Proposal /\ x(valid).session = session
  BY <1>1, NewIdIs DEF Proposal
<1> HIDE DEF x
<1>4. Whole(session, q(valid))
  BY <1>1, <1>3, ProposalHolds
<1>5. (~valid) \in BOOLEAN
  OBVIOUS
<1> HIDE DEF q
<1> QED BY <1>1, <1>2, <1>4, <1>5, ResultShown DEF Requests

LEMMA DiffArrivesKeeps ==
    ASSUME GuidedInv, DiffArrives
    PROVE  GuidedInv'
<1>1. Awaits("diff") /\ session \in Sessions /\ session # None /\ Whole(session, page)
      /\ call.session = session /\ Alike(page, call.seen) /\ call.seen \in Page
      /\ WasReady("diff", call.decision, call.seen) /\ page \in Page
  BY Awaited DEF GuidedInv, DiffArrives, Requests, Whole
<1>2. Valid(page.proposal) /\ page.proposal # None
  BY <1>1 DEF WasReady, Alike, Valid, StatusOf
<1> DEFINE r(st) == ResultOf((~call.seen.selected), st)
           q(st) == [page EXCEPT !.diff = r(st), !.sandbox = None, !.recovery = None,
                                 !.apply = None, !.rollback = None]
<1>3. PICK status \in {"ready", "blocked"} : Set(q(status), status = "blocked")
  BY DEF DiffArrives
<1>4. (~call.seen.selected) \in BOOLEAN /\ (~call.seen.selected) = ~page.selected
  BY <1>1, PageIs DEF Alike
<1>5. r(status) \in Result({"ready", "blocked"}) /\ r(status).of = page.proposal.id
      /\ r(status).session = session /\ r(status).whole = ~page.selected
  BY <1>1, <1>2, <1>3, <1>4, ResultOfPage DEF Requests, Valid, Sandboxes, Applies, Recoveries
<1> HIDE DEF r
<1>6. Whole(session, q(status))
  BY <1>1, <1>2, <1>5, DiffHolds
<1>7. (status = "blocked") \in BOOLEAN
  OBVIOUS
<1> HIDE DEF q
<1> QED BY <1>1, <1>3, <1>6, <1>7, ResultShown DEF Requests

LEMMA SandboxArrivesKeeps ==
    ASSUME GuidedInv, SandboxArrives
    PROVE  GuidedInv'
<1>1. Awaits("sandbox") /\ session \in Sessions /\ session # None /\ Whole(session, page)
      /\ call.session = session /\ Alike(page, call.seen) /\ call.seen \in Page
      /\ WasReady("sandbox", call.decision, call.seen) /\ page \in Page
  BY Awaited DEF GuidedInv, SandboxArrives, Requests, Whole
<1>2. Valid(page.proposal) /\ page.proposal # None
  BY <1>1 DEF WasReady, Alike, Valid, StatusOf
<1> DEFINE r(st) == ResultOf((~call.seen.selected), st)
           q(st) == [page EXCEPT !.sandbox = r(st), !.recovery = None]
<1>3. PICK status \in Sandboxes \ {"none"} : Set(q(status), status # "passed")
  BY DEF SandboxArrives
<1>4. (~call.seen.selected) \in BOOLEAN /\ (~call.seen.selected) = ~page.selected
  BY <1>1, PageIs DEF Alike
<1>5. r(status) \in Result(Sandboxes \ {"none"}) /\ r(status).of = page.proposal.id
      /\ r(status).session = session /\ r(status).whole = ~page.selected
  BY <1>1, <1>2, <1>3, <1>4, ResultOfPage DEF Requests, Valid, Sandboxes, Applies, Recoveries
<1> HIDE DEF r
<1>6. Whole(session, q(status))
  BY <1>1, <1>2, <1>5, SandboxHolds
<1>7. (status # "passed") \in BOOLEAN
  OBVIOUS
<1> HIDE DEF q
<1> QED BY <1>1, <1>3, <1>6, <1>7, ResultShown DEF Requests

LEMMA DryRunArrivesKeeps ==
    ASSUME GuidedInv, DryRunArrives
    PROVE  GuidedInv'
<1>1. Awaits("dry_run") /\ session \in Sessions /\ session # None /\ Whole(session, page)
      /\ call.session = session /\ Alike(page, call.seen) /\ call.seen \in Page
      /\ WasReady("dry_run", call.decision, call.seen) /\ page \in Page
  BY Awaited DEF GuidedInv, DryRunArrives, Requests, Whole
<1>2. page.proposal # None
  BY <1>1 DEF WasReady, Alike, Valid, StatusOf
<1> DEFINE r(st) == ResultOf((~call.seen.selected), st)
           q(st) == [page EXCEPT !.apply = r(st), !.rollback = None]
<1>3. PICK status \in {"dry_run", "failed"} : Set(q(status), status # "dry_run")
  BY DEF DryRunArrives
<1>4. (~call.seen.selected) \in BOOLEAN /\ (~call.seen.selected) = ~page.selected
  BY <1>1, PageIs DEF Alike
<1>5. r(status) \in Result(Applies \ {"none"}) /\ r(status).of = page.proposal.id
      /\ r(status).session = session /\ r(status).whole = ~page.selected
  BY <1>1, <1>2, <1>3, <1>4, ResultOfPage DEF Requests, Valid, Sandboxes, Applies, Recoveries
<1> HIDE DEF r
<1>6. Whole(session, q(status))
  BY <1>1, <1>2, <1>5, ApplyHolds
<1>7. (status # "dry_run") \in BOOLEAN
  OBVIOUS
<1> HIDE DEF q
<1> QED BY <1>1, <1>3, <1>6, <1>7, ResultShown DEF Requests

LEMMA ApplyArrivesKeeps ==
    ASSUME GuidedInv, ApplyArrives
    PROVE  GuidedInv'
<1>1. Awaits("apply") /\ session \in Sessions /\ session # None /\ Whole(session, page)
      /\ call.session = session /\ Alike(page, call.seen) /\ call.seen \in Page
      /\ WasReady("apply", call.decision, call.seen) /\ page \in Page
  BY Awaited DEF GuidedInv, ApplyArrives, Requests, Whole
<1>2. page.proposal # None
  BY <1>1 DEF WasReady, Alike, Valid, StatusOf
<1> DEFINE r(st) == ResultOf((~call.seen.selected), st)
           q(st) == [page EXCEPT !.apply = r(st), !.rollback = None]
<1>3. PICK status \in {"applied", "failed"} : Set(q(status), status # "applied")
  BY DEF ApplyArrives
<1>4. (~call.seen.selected) \in BOOLEAN /\ (~call.seen.selected) = ~page.selected
  BY <1>1, PageIs DEF Alike
<1>5. r(status) \in Result(Applies \ {"none"}) /\ r(status).of = page.proposal.id
      /\ r(status).session = session /\ r(status).whole = ~page.selected
  BY <1>1, <1>2, <1>3, <1>4, ResultOfPage DEF Requests, Valid, Sandboxes, Applies, Recoveries
<1> HIDE DEF r
<1>6. Whole(session, q(status))
  BY <1>1, <1>2, <1>5, ApplyHolds
<1>7. (status # "applied") \in BOOLEAN
  OBVIOUS
<1> HIDE DEF q
<1> QED BY <1>1, <1>3, <1>6, <1>7, ResultShown DEF Requests

LEMMA RecoveryArrivesKeeps ==
    ASSUME GuidedInv, RecoveryArrives
    PROVE  GuidedInv'
<1>1. Awaits("recovery") /\ session \in Sessions /\ session # None /\ Whole(session, page)
      /\ call.session = session /\ Alike(page, call.seen) /\ call.seen \in Page
      /\ WasReady("recovery", call.decision, call.seen) /\ page \in Page
  BY Awaited DEF GuidedInv, RecoveryArrives, Requests, Whole
<1>2. page.proposal # None /\ StatusOf(page.sandbox) = "failed"
  BY <1>1 DEF WasReady, Alike, StatusOf
<1> DEFINE S == Recoveries \ {"none"}
           st(n) == PrepareRepair(CurrentAttempt(n), call.seen.proposal, call.seen.sandbox)
           r(n) == ResultOf(TRUE, st(n))
<1>3. PICK sent \in Attempts : Set([page EXCEPT !.recovery = r(sent)], FALSE)
  BY DEF RecoveryArrives
<1>4. st(sent) \in S
  BY DEF PrepareRepair, Recoveries
<1> HIDE DEF st
<1>5. r(sent) \in Result(S) /\ r(sent).of = page.proposal.id /\ r(sent).session = session
  BY <1>1, <1>2, <1>4, ResultOfPage DEF Requests
<1> HIDE DEF r
<1>6. Whole(session, [page EXCEPT !.recovery = r(sent)])
  BY <1>1, <1>2, <1>5, RecoveryHolds
<1> QED BY <1>1, <1>3, <1>6, ResultShown DEF Requests

LEMMA RepairArrivesKeeps ==
    ASSUME GuidedInv, RepairArrives
    PROVE  GuidedInv'
<1>1. Awaits("repair") /\ session \in Sessions /\ session # None /\ Whole(session, page)
      /\ call.session = session /\ Alike(page, call.seen) /\ call.seen \in Page
      /\ WasReady("repair", call.decision, call.seen) /\ page \in Page
  BY Awaited DEF GuidedInv, RepairArrives, Requests, Whole
<1>2. page.proposal # None /\ StatusOf(page.recovery) = "repair_prompt_ready"
      /\ call.seen.proposal = page.proposal /\ page.proposal.session = session
  BY <1>1 DEF WasReady, Alike, StatusOf, Whole, Belong
<1> DEFINE x(v) == [id |-> NewId, session |-> page.proposal.session, valid |-> v,
                    repairs |-> page.proposal.repairs \cup {page.proposal.id}]
           q(v) == [page EXCEPT !.proposal = x(v), !.selected = FALSE, !.diff = None,
                                !.sandbox = None, !.apply = None, !.rollback = None]
<1>3. PICK valid \in BOOLEAN : Set(q(valid), FALSE)
  BY <1>1, <1>2 DEF RepairArrives
<1>4. page.proposal \in Proposal
  BY <1>1, <1>2, PageIs
<1>5. x(valid) \in Proposal /\ x(valid).session = session
      /\ x(valid).repairs = page.proposal.repairs \cup {page.proposal.id}
  BY <1>1, <1>2, <1>4, NewIdIs DEF Proposal
<1> HIDE DEF x
<1>6. Whole(session, q(valid))
  BY <1>1, <1>2, <1>5, RepairHolds
<1> HIDE DEF q
<1> QED BY <1>1, <1>3, <1>6, ResultShown DEF Requests

LEMMA RollbackArrivesKeeps ==
    ASSUME GuidedInv, RollbackArrives
    PROVE  GuidedInv'
<1> DEFINE S == Rollbacks \ {"none"}
           r(st) == [call.seen.apply EXCEPT !.status = st]
<1>0. PICK op \in {"dry_rollback", "rollback"} :
        /\ Awaits(op)
        /\ \E status \in {IF op = "rollback" THEN "rolled_back" ELSE "dry_run", "failed"} :
            Set([page EXCEPT !.rollback = r(status)], status = "failed")
  BY DEF RollbackArrives
<1>1. op \in Requests \ {"start", "resume"}
  BY DEF Requests
<1>2. Awaits(op) /\ session \in Sessions /\ Whole(session, page) /\ page \in Page
      /\ Alike(page, call.seen) /\ WasReady(op, call.decision, call.seen)
  BY <1>0, <1>1, Awaited DEF GuidedInv, Whole
<1>3. StatusOf(page.apply) = "applied" /\ page.apply # None /\ call.seen.apply = page.apply
  BY <1>2 DEF WasReady, Alike, StatusOf
<1>4. PICK status \in S : Set([page EXCEPT !.rollback = r(status)], status = "failed")
  BY <1>0 DEF Rollbacks
<1>5. page.apply \in Result(Applies \ {"none"})
  BY <1>2, <1>3, PageIs
<1>6. r(status) \in Result(S) /\ r(status).of = page.apply.of
      /\ r(status).session = page.apply.session
  BY <1>3, <1>5 DEF Result
<1> HIDE DEF r
<1>7. Whole(session, [page EXCEPT !.rollback = r(status)])
  BY <1>2, <1>3, <1>6, RollbackHolds
<1>8. (status = "failed") \in BOOLEAN
  OBVIOUS
<1> QED BY <1>1, <1>2, <1>4, <1>7, <1>8, ResultShown

LEMMA SnapshotArrivesKeeps ==
    ASSUME GuidedInv, SnapshotArrives
    PROVE  GuidedInv'
<1>1. Awaits("snapshot") /\ session \in Sessions /\ session # None /\ Whole(session, page)
      /\ call.session = session /\ Alike(page, call.seen) /\ call.seen \in Page
      /\ WasReady("snapshot", call.decision, call.seen) /\ page \in Page
  BY Awaited DEF GuidedInv, SnapshotArrives, Requests, Whole
<1>2. SetAndEnd([page EXCEPT !.snapshot = session], FALSE)
  BY <1>1 DEF SnapshotArrives
<1>3. Whole(session, [page EXCEPT !.snapshot = session])
  BY <1>1, SnapshotHolds
<1> QED BY <1>1, <1>2, <1>3, ResultShown DEF Requests

LEMMA ReportArrivesKeeps ==
    ASSUME GuidedInv, ReportArrives
    PROVE  GuidedInv'
<1>1. Awaits("report") /\ session \in Sessions /\ session # None /\ Whole(session, page)
      /\ call.session = session /\ Alike(page, call.seen) /\ call.seen \in Page
      /\ WasReady("report", call.decision, call.seen) /\ page \in Page
  BY Awaited DEF GuidedInv, ReportArrives, Requests, Whole
<1>2. SetAndEnd([page EXCEPT !.report = session], FALSE)
  BY <1>1 DEF ReportArrives
<1>3. Whole(session, [page EXCEPT !.report = session])
  BY <1>1, ReportHolds
<1> QED BY <1>1, <1>2, <1>3, ResultShown DEF Requests

LEMMA VerifyArrivesKeeps ==
    ASSUME GuidedInv, VerifyArrives
    PROVE  GuidedInv'
<1>1. Awaits("verify") /\ session \in Sessions /\ session # None /\ Whole(session, page)
      /\ call.session = session /\ Alike(page, call.seen) /\ call.seen \in Page
      /\ WasReady("verify", call.decision, call.seen) /\ page \in Page
  BY Awaited DEF GuidedInv, VerifyArrives, Requests, Whole
<1>2. PICK passed \in BOOLEAN : SetAndEnd([page EXCEPT !.verified = passed], ~passed)
  BY DEF VerifyArrives
<1>3. Whole(session, [page EXCEPT !.verified = passed])
  BY <1>1, VerifiedHolds
<1>4. (~passed) \in BOOLEAN
  OBVIOUS
<1> QED BY <1>1, <1>2, <1>3, <1>4, ResultShown DEF Requests

(* ------------------------- what the guide offers ----------------------- *)

StepNames == DOMAIN ActionFor

LEMMA StepsAre ==
    ASSUME NEW a
    PROVE  /\ Steps(a) \in Seq(StepNames)
           /\ Len(Steps(a)) = IF a.readOnly THEN 5 ELSE 15
           /\ Steps(a)[Len(Steps(a))] = "report"
<1>1. ReadOnlySteps \in Seq(StepNames) /\ Len(ReadOnlySteps) = 5 /\ ReadOnlySteps[5] = "report"
  BY DEF ReadOnlySteps, StepNames, ActionFor
<1>2. PatchSteps \in Seq(StepNames) /\ Len(PatchSteps) = 15 /\ PatchSteps[15] = "report"
  BY DEF PatchSteps, StepNames, ActionFor
<1>3. Steps(a) = IF a.readOnly THEN ReadOnlySteps ELSE PatchSteps
  BY DEF Steps
<1> QED BY <1>1, <1>2, <1>3

LEMMA LeastIsOne ==
    ASSUME NEW n \in Nat, NEW I \in SUBSET (1..n), I # {}
    PROVE  Min(I) \in I
<1>1. PICK x \in I : \A y \in I : ~(<<y, x>> \in OpToRel(<, Nat))
  <2>1. IsWellFoundedOn(OpToRel(<, Nat), Nat)
    BY NatLessThanWellFounded
  <2> HIDE DEF OpToRel, IsWellFoundedOn
  <2>2. I \subseteq Nat
    OBVIOUS
  <2> QED BY <2>1, <2>2, WFMin
<1>2. \A y \in I : x <= y
  <2> TAKE y \in I
  <2>1. x \in Nat /\ y \in Nat
    OBVIOUS
  <2>2. ASSUME y < x PROVE FALSE
    <3> DEFINE ss == <<y, x>>
    <3>1. ss \in Nat \X Nat /\ ss[1] = y /\ ss[2] = x
      BY <2>1
    <3> HIDE DEF ss
    <3>2. ss \in OpToRel(<, Nat)
      BY <3>1, <2>2 DEF OpToRel
    <3> QED BY <3>2, <1>1 DEF ss
  <2> QED BY <2>1, <2>2
<1> QED BY <1>1, <1>2 DEF Min

\* The current step is one to do, one that is blocked, or the last.
LEMMA CurrentStepIs ==
    ASSUME NEW st, NEW n \in Nat \ {0}, Len(st) = n
    PROVE  /\ CurrentStep(st) \in 1..n
           /\ \/ st[CurrentStep(st)] \in {"active", "available", "blocked"}
              \/ CurrentStep(st) = n
<1> DEFINE I == {i \in 1..n : st[i] \in {"active", "available"}}
           B == {i \in 1..n : st[i] \in {"blocked"}}
           first(J) == IF J # {} THEN Min(J) ELSE 0
<1>1. CurrentStep(st) = CASE first(I) # 0 -> first(I)
                          [] first(I) = 0 /\ first(B) # 0 -> first(B)
                          [] OTHER -> n
  BY DEF CurrentStep, SelectInSeq
<1>2. I # {} => Min(I) \in I
  BY LeastIsOne
<1>3. B # {} => Min(B) \in B
  BY LeastIsOne
<1> QED BY <1>1, <1>2, <1>3

\* What is offered is the action of a step that is to be done, or the report.
LEMMA NextActionIs ==
    ASSUME NEW a
    PROVE  \/ NextAction(a) = "none"
           \/ \E step \in StepNames :
                /\ NextAction(a) = ActionFor[step]
                /\ step = "report" \/ StepStatus(a, step) \in {"active", "available"}
<1> DEFINE st == Statuses(a)
           i == CurrentStep(st)
           offered(statuses) ==
               IF statuses[CurrentStep(statuses)] \in {"blocked", "locked"} THEN "none"
               ELSE ActionFor[Steps(a)[CurrentStep(statuses)]]
<1>1. NextAction(a) = offered(st)
  <2>1. NextAction(a) = CHOOSE action \in {offered(statuses) : statuses \in {st}} : TRUE
    BY DEF NextAction
  <2> HIDE DEF offered, st
  <2> QED BY <2>1
<1>2. /\ Steps(a) \in Seq(StepNames) /\ Len(Steps(a)) \in Nat \ {0}
      /\ Steps(a)[Len(Steps(a))] = "report"
  <2>1. Len(Steps(a)) = IF a.readOnly THEN 5 ELSE 15
    BY StepsAre
  <2>2. Len(Steps(a)) \in Nat \ {0}
    BY <2>1
  <2> QED BY <2>2, StepsAre
<1>3. Len(st) = Len(Steps(a)) /\ \A j \in 1..Len(Steps(a)) : st[j] = StepStatus(a, Steps(a)[j])
  BY <1>2 DEF Statuses
<1> HIDE DEF st
<1>4. i \in 1..Len(Steps(a)) /\ (st[i] \in {"active", "available", "blocked"} \/ i = Len(Steps(a)))
  BY <1>2, <1>3, CurrentStepIs
<1> HIDE DEF i
<1>5. Steps(a)[i] \in StepNames /\ st[i] = StepStatus(a, Steps(a)[i])
  BY <1>2, <1>3, <1>4
<1>6. NextAction(a) = IF st[i] \in {"blocked", "locked"} THEN "none" ELSE ActionFor[Steps(a)[i]]
  BY <1>1 DEF i
<1> QED BY <1>2, <1>4, <1>5, <1>6

LEMMA OfferIs ==
    ASSUME NEW s, NEW p
    PROVE  Offer(s, p) = NextAction(ArtifactState(s, p)) /\ Offer(s, p) \in Actions
<1> DEFINE b == ArtifactState(s, p)
<1>1. Offer(s, p) = CHOOSE offer \in {NextAction(a) : a \in {b}} : TRUE
  BY DEF Offer
<1> HIDE DEF b
<1>2. Offer(s, p) = NextAction(b)
  BY <1>1
<1>3. NextAction(b) \in Actions
  BY NextActionIs DEF Actions, StepNames
<1> QED BY <1>2, <1>3 DEF b

\* The guide does not depend on what is selected.
LEMMA OfferSelected ==
    ASSUME NEW s, NEW p \in Page
    PROVE  Offer(s, [p EXCEPT !.selected = TRUE]) = Offer(s, p)
<1> DEFINE q == [p EXCEPT !.selected = TRUE]
<1>1. /\ q.prepared = p.prepared /\ q.questions = p.questions /\ q.plan = p.plan
      /\ q.proposal = p.proposal /\ q.diff = p.diff /\ q.sandbox = p.sandbox
      /\ q.recovery = p.recovery /\ q.apply = p.apply /\ q.rollback = p.rollback
      /\ q.snapshot = p.snapshot /\ q.verified = p.verified /\ q.report = p.report
  BY DEF Page
<1> HIDE DEF q
<1>2. ArtifactState(s, q) = ArtifactState(s, p)
  BY <1>1 DEF ArtifactState
<1> QED BY <1>2, OfferIs DEF q

(* -------------------------- the guides asked for ----------------------- *)

\* A guide that is asked for by a handler is not the newest.
LEMMA AskedOlder ==
    ASSUME GuidedInv, NEW c, RefreshFrom(c), Len(posts) < MaxPosts, UNCHANGED <<session, page, due>>
    PROVE  /\ guide' \in Actions \cup {None} /\ fresh' \in BOOLEAN
           /\ posts' \in Seq(Post) /\ Len(posts') <= MaxPosts
           /\ GuideInv'
<1>1. RestInv /\ GuideInv
  BY DEF GuidedInv
<1>2. CASE c.session = None
  <2>1. guide' = None /\ fresh' = FALSE /\ posts' = posts
    BY <1>2 DEF RefreshFrom, DropGuide
  <2> QED BY <1>1, <2>1 DEF RestInv, GuideInv
<1>3. CASE c.session # None
  <2> DEFINE x == [offer |-> Offer(c.session, c.seen), newest |-> FALSE]
  <2>1. posts' = Append(posts, x) /\ guide' = guide /\ fresh' = fresh
    BY <1>3 DEF RefreshFrom
  <2>2. x \in Post /\ ~x.newest
    BY OfferIs DEF Post
  <2> HIDE DEF x
  <2>3. posts \in Seq(Post) /\ Len(posts) \in Nat /\ Len(posts) < 2
    BY <1>1 DEF RestInv, MaxPosts
  <2>4. /\ posts' \in Seq(Post) /\ Len(posts') = Len(posts) + 1
        /\ \A i \in 1..Len(posts) : posts'[i] = posts[i]
        /\ posts'[Len(posts) + 1] = x
    BY <2>1, <2>2, <2>3
  <2>5. DOMAIN posts = 1..Len(posts) /\ DOMAIN posts' = 1..(Len(posts) + 1)
    BY <2>3, <2>4
  <2>6. GuideInv'
    <3> SUFFICES ASSUME session' # None, ~due'
                 PROVE  /\ \A i \in DOMAIN posts' :
                            /\ posts'[i].newest
                            /\ (\A j \in DOMAIN posts' : j > i => ~posts'[j].newest)
                            => posts'[i].offer = Offer(session', page')
                        /\ fresh' /\ (\A i \in DOMAIN posts' : ~posts'[i].newest) =>
                                guide' = Offer(session', page')
      BY DEF GuideInv
    <3>1. /\ \A i \in DOMAIN posts :
            posts[i].newest /\ (\A j \in DOMAIN posts : j > i => ~posts[j].newest) =>
                posts[i].offer = Offer(session, page)
          /\ fresh /\ (\A i \in DOMAIN posts : ~posts[i].newest) => guide = Offer(session, page)
      BY <1>1 DEF GuideInv
    <3> QED BY <2>1, <2>2, <2>3, <2>4, <2>5, <3>1
  <2> QED BY <1>1, <2>1, <2>3, <2>4, <2>6 DEF RestInv, MaxPosts
<1> QED BY <1>2, <1>3

LEMMA AskForGuideKeeps ==
    ASSUME GuidedInv, AskForGuide
    PROVE  GuidedInv'
<1> DEFINE x == [offer |-> Offer(session, page), newest |-> TRUE]
<1>1. PageInv /\ RestInv
  BY DEF GuidedInv
<1>2. /\ due' = FALSE /\ posts' = Append(posts, x) /\ Len(posts) < MaxPosts /\ Extra(posts # <<>>)
      /\ UNCHANGED <<session, page, guide, fresh, call, asking, saved>>
  BY DEF AskForGuide, Slow
<1>3. x \in Post /\ x.newest /\ x.offer = Offer(session, page)
  BY OfferIs DEF Post
<1> HIDE DEF x
<1>4. posts \in Seq(Post) /\ Len(posts) \in Nat /\ Len(posts) < 2
  BY <1>1, <1>2 DEF RestInv, MaxPosts
<1>5. /\ posts' \in Seq(Post) /\ Len(posts') = Len(posts) + 1
      /\ \A i \in 1..Len(posts) : posts'[i] = posts[i]
      /\ posts'[Len(posts) + 1] = x
  BY <1>2, <1>3, <1>4
<1>6. DOMAIN posts' = 1..(Len(posts) + 1)
  BY <1>4, <1>5
<1>7. (posts # <<>>) \in BOOLEAN
  OBVIOUS
<1>8. extras' \in 0..MaxExtras
  BY <1>1, <1>2, <1>7, ExtraCounted
<1>9. PageInv'
  BY <1>1, <1>2 DEF PageInv
<1>10. RestInv'
  <2>1. Len(posts') <= MaxPosts
    BY <1>4, <1>5 DEF MaxPosts
  <2> QED BY <1>1, <1>2, <1>5, <1>8, <2>1 DEF RestInv
<1>11. GuideInv'
  <2> SUFFICES ASSUME session' # None, ~due'
               PROVE  /\ \A i \in DOMAIN posts' :
                          /\ posts'[i].newest
                          /\ (\A j \in DOMAIN posts' : j > i => ~posts'[j].newest)
                          => posts'[i].offer = Offer(session', page')
                      /\ fresh' /\ (\A i \in DOMAIN posts' : ~posts'[i].newest) =>
                              guide' = Offer(session', page')
    BY DEF GuideInv
  <2>1. session' = session /\ page' = page
    BY <1>2
  <2> QED BY <1>3, <1>4, <1>5, <1>6, <2>1
<1> QED BY <1>9, <1>10, <1>11 DEF GuidedInv

\* Once a guide is answered, those asked for before it are not the newest.
LEMMA OvertakenIs ==
    ASSUME RestInv, NEW i \in DOMAIN posts, posts' = Overtaken(i)
    PROVE  /\ posts' \in Seq(Post) /\ Len(posts') = Len(posts) - 1 /\ Len(posts) \in 1..MaxPosts
           /\ i \in 1..Len(posts)
           /\ \A j \in 1..(Len(posts) - 1) :
                IF j < i THEN ~posts'[j].newest ELSE posts'[j] = posts[j + 1]
<1>1. posts \in Seq(Post) /\ Len(posts) \in Nat /\ Len(posts) <= 2 /\ i \in 1..Len(posts)
  BY DEF RestInv, MaxPosts
<1> DEFINE n == Len(posts) - 1
<1>2. n \in Nat /\ posts' = [j \in 1..n |->
            IF j < i THEN [posts[j] EXCEPT !.newest = FALSE] ELSE posts[j + 1]]
  BY <1>1 DEF Overtaken
<1>3. \A j \in 1..n : /\ j < i => [posts[j] EXCEPT !.newest = FALSE] \in Post
                                  /\ ~[posts[j] EXCEPT !.newest = FALSE].newest
                      /\ posts[j + 1] \in Post
  <2> TAKE j \in 1..n
  <2>1. posts[j] \in Post /\ posts[j + 1] \in Post
    BY <1>1
  <2> QED BY <2>1 DEF Post
<1> HIDE DEF n
<1>4. posts' \in Seq(Post) /\ Len(posts') = n
  <2>1. posts' \in [1..n -> Post]
    BY <1>2, <1>3
  <2>2. posts' \in Seq(Post)
    <3> HIDE DEF n
    <3>1. \E m \in Nat : posts' \in [1..m -> Post]
      BY <1>2, <2>1
    <3>2. posts' \in UNION {[1..m -> Post] : m \in Nat}
      BY <3>1
    <3> QED BY <3>2, SeqDef
  <2>3. DOMAIN posts' = 1..Len(posts') /\ Len(posts') \in Nat
    BY <2>2
  <2>4. DOMAIN posts' = 1..n
    BY <2>1
  <2> HIDE DEF n
  <2> QED BY <1>2, <2>2, <2>3, <2>4
<1>5. \A j \in 1..n : IF j < i THEN ~posts'[j].newest ELSE posts'[j] = posts[j + 1]
  BY <1>2, <1>3
<1> QED BY <1>1, <1>4, <1>5 DEF n, MaxPosts

LEMMA GuideArrivesKeeps ==
    ASSUME GuidedInv, NEW i \in DOMAIN posts, GuideArrives(i) \/ GuideFails(i)
    PROVE  GuidedInv'
<1>1. PageInv /\ RestInv /\ GuideInv
  BY DEF GuidedInv
<1>2. posts' = Overtaken(i) /\ UNCHANGED <<session, page, due, call, asking, saved>>
  BY DEF GuideArrives, GuideFails
<1>3. /\ posts' \in Seq(Post) /\ Len(posts') = Len(posts) - 1 /\ Len(posts) \in 1..MaxPosts
      /\ i \in 1..Len(posts)
      /\ \A j \in 1..(Len(posts) - 1) :
            IF j < i THEN ~posts'[j].newest ELSE posts'[j] = posts[j + 1]
  BY <1>1, <1>2, OvertakenIs
<1>4. posts \in Seq(Post) /\ posts[i] \in Post /\ DOMAIN posts = 1..Len(posts)
  BY <1>1 DEF RestInv
<1>5. DOMAIN posts' = 1..(Len(posts) - 1)
  BY <1>3
<1>6. extras' \in 0..MaxExtras
  <2>1. CASE GuideArrives(i)
    BY <1>1, <2>1 DEF GuideArrives, RestInv
  <2>2. CASE GuideFails(i)
    BY <1>1, <2>2, ExtraCounted DEF GuideFails
  <2> QED BY <2>1, <2>2
<1>7. guide' \in Actions \cup {None} /\ fresh' \in BOOLEAN
  BY <1>1, <1>4 DEF GuideArrives, GuideFails, RestInv, Post
<1>8. PageInv'
  BY <1>1, <1>2 DEF PageInv
<1>9. RestInv'
  BY <1>1, <1>2, <1>3, <1>6, <1>7 DEF RestInv, MaxPosts
<1>10. GuideInv'
  <2> SUFFICES ASSUME session' # None, ~due'
               PROVE  /\ \A k \in DOMAIN posts' :
                          /\ posts'[k].newest
                          /\ (\A j \in DOMAIN posts' : j > k => ~posts'[j].newest)
                          => posts'[k].offer = Offer(session', page')
                      /\ fresh' /\ (\A k \in DOMAIN posts' : ~posts'[k].newest) =>
                              guide' = Offer(session', page')
    BY DEF GuideInv
  <2>1. session' = session /\ page' = page
    BY <1>2
  <2>2. \A k \in 1..Len(posts) :
            posts[k].newest /\ (\A j \in 1..Len(posts) : j > k => ~posts[j].newest) =>
                posts[k].offer = Offer(session, page)
    BY <1>1, <1>2, <1>4 DEF GuideInv
  <2> DEFINE o == Offer(session, page)
  <2> HIDE DEF o
  <2>3. ASSUME NEW k \in DOMAIN posts', posts'[k].newest,
               \A j \in DOMAIN posts' : j > k => ~posts'[j].newest
        PROVE  posts'[k].offer = Offer(session', page')
    <3>1. /\ k \in 1..(Len(posts) - 1) /\ k + 1 \in 1..Len(posts)
          /\ ~(k < i) /\ posts'[k] = posts[k + 1]
      BY <1>3, <1>5, <2>3 DEF MaxPosts
    <3>2. \A j \in 1..Len(posts) : j > k + 1 => ~posts[j].newest
      <4> TAKE j \in 1..Len(posts)
      <4> HAVE j > k + 1
      <4>1. j - 1 \in 1..(Len(posts) - 1) /\ j - 1 > k /\ ~(j - 1 < i) /\ (j - 1) + 1 = j
        BY <1>3, <3>1 DEF MaxPosts
      <4>2. posts'[j - 1] = posts[j]
        BY <1>3, <4>1
      <4> QED BY <1>5, <2>3, <4>1, <4>2
    <3> QED BY <2>1, <2>2, <2>3, <3>1, <3>2
  <2>4. ASSUME fresh', \A k \in DOMAIN posts' : ~posts'[k].newest
        PROVE  guide' = Offer(session', page')
    <3>1. GuideArrives(i) /\ guide' = posts[i].offer /\ posts[i].newest
      BY <2>4 DEF GuideArrives, GuideFails
    <3>2. \A j \in 1..Len(posts) : j > i => ~posts[j].newest
      <4> TAKE j \in 1..Len(posts)
      <4> HAVE j > i
      <4>1. j - 1 \in 1..(Len(posts) - 1) /\ ~(j - 1 < i) /\ (j - 1) + 1 = j
        BY <1>3 DEF MaxPosts
      <4>2. posts'[j - 1] = posts[j]
        BY <1>3, <4>1
      <4> QED BY <1>5, <2>4, <4>1, <4>2
    <3> QED BY <1>3, <2>1, <2>2, <3>1, <3>2
  <2> QED BY <2>3, <2>4
<1> QED BY <1>8, <1>9, <1>10 DEF GuidedInv

(* ------------------------- sessions and commands ----------------------- *)

LEMMA SessionStartedKeeps ==
    ASSUME GuidedInv, SessionStarted
    PROVE  GuidedInv'
<1>1. PageInv /\ RestInv
  BY DEF GuidedInv
<1>2. PICK s \in Sessions \ saved :
        /\ saved' = saved \cup {s}
        /\ Show(s, page)
        /\ call' = [call EXCEPT !.op = "prepare", !.session = s, !.seen = page]
  BY DEF SessionStarted
<1>3. call \in Call /\ call.at = "result" /\ session = None /\ page \in Page /\ Whole(None, page)
  BY <1>1 DEF SessionStarted, Awaits, PageInv, Fits, Whole
<1>4. session' = s /\ page' = page /\ saved' \subseteq Sessions /\ s # None
  BY <1>1, <1>2, NoneAssumption DEF Show, PageInv
<1>5. call' \in Call /\ call'.at = "result" /\ call'.op = "prepare" /\ call'.session = s
      /\ call'.seen = page
  BY <1>2, <1>3 DEF Call, Requests
<1>6. Fits(s, page, call')
  BY <1>4, <1>5 DEF Fits, Alike, WasReady
<1>7. Whole(s, page)
  BY <1>3 DEF Whole, Belong, Bare
<1>8. PageInv'
  BY <1>4, <1>5, <1>6, <1>7 DEF PageInv
<1>9. RestInv'
  BY <1>1, <1>2 DEF RestInv, SessionStarted, guiding, Show
<1>10. GuideInv'
  BY <1>2, ShownAnew
<1> QED BY <1>8, <1>9, <1>10 DEF GuidedInv

LEMMA ResumeKeeps ==
    ASSUME GuidedInv, NEW s \in Sessions, Resume(s), extras' \in 0..MaxExtras
    PROVE  GuidedInv'
<1>1. PageInv /\ RestInv
  BY DEF GuidedInv
<1>2. Show(s, EmptyPage) /\ guide' = None /\ fresh' = FALSE /\ UNCHANGED <<posts, asking, saved>>
  BY DEF Resume, DropGuide
<1>3. session' = s /\ page' = EmptyPage /\ s # None
  BY <1>2, NoneAssumption DEF Show
<1>4. call' \in Call /\ call'.at = "result" /\ call'.op = "resume"
  BY <1>1 DEF Resume, Call, Requests, PageInv, Whole
<1>5. Fits(s, EmptyPage, call')
  BY <1>3, <1>4 DEF Fits
<1>6. PageInv'
  BY <1>1, <1>2, <1>3, <1>4, <1>5, EmptyHolds DEF PageInv
<1>7. RestInv'
  BY <1>1, <1>2 DEF RestInv, Show
<1>8. GuideInv'
  BY <1>2, ShownAnew
<1> QED BY <1>6, <1>7, <1>8 DEF GuidedInv

LEMMA SavedArrivesKeeps ==
    ASSUME GuidedInv, SavedArrives
    PROVE  GuidedInv'
<1>1. PageInv /\ RestInv
  BY DEF GuidedInv
<1>2. PICK n \in 0..MaxQuestions, found \in BOOLEAN :
        Show(session, [page EXCEPT !.prepared = n > 0 \/ found, !.questions = n])
  BY DEF SavedArrives
<1> DEFINE b == n > 0 \/ found
           q == [page EXCEPT !.prepared = b, !.questions = n]
<1>3. b \in BOOLEAN
  OBVIOUS
<1> HIDE DEF b
<1>4. call \in Call /\ Return /\ KeepGuide(session) /\ UNCHANGED <<posts, asking, saved, extras>>
  BY <1>1 DEF SavedArrives, Awaits, PageInv
<1>5. Whole(session, q)
  BY <1>1, <1>3, AskedHolds DEF PageInv
<1>6. session' = session /\ page' = q /\ due' \in BOOLEAN
  BY <1>2 DEF Show, b
<1> HIDE DEF q
<1>7. call' = NoCall \/ (call' \in Call /\ Fits(session, q, call'))
  BY <1>4, Returned
<1>8. PageInv'
  BY <1>1, <1>4, <1>5, <1>6, <1>7 DEF PageInv
<1>9. RestInv'
  BY <1>1, <1>4, <1>6, KeptGuide DEF RestInv
<1>10. GuideInv'
  BY <1>2, ShownAnew
<1> QED BY <1>8, <1>9, <1>10 DEF GuidedInv

LEMMA NewSessionKeeps ==
    ASSUME GuidedInv, NewSession, extras' \in 0..MaxExtras
    PROVE  GuidedInv'
<1>1. PageInv /\ RestInv
  BY DEF GuidedInv
<1>2. Show(None, EmptyPage) /\ guide' = None /\ fresh' = FALSE /\ call' = NoCall
      /\ UNCHANGED <<posts, asking, saved>>
  BY DEF NewSession, DropGuide
<1>3. session' = None /\ page' = EmptyPage
  BY <1>2 DEF Show
<1>4. PageInv'
  BY <1>1, <1>2, <1>3, EmptyHolds DEF PageInv
<1>5. RestInv'
  BY <1>1, <1>2 DEF RestInv, Show
<1>6. GuideInv'
  BY <1>2, ShownAnew
<1> QED BY <1>4, <1>5, <1>6 DEF GuidedInv

\* What the server asks may arrive while a handler awaits its result.
LEMMA QuestionsArriveKeeps ==
    ASSUME GuidedInv, QuestionsArrive
    PROVE  GuidedInv'
<1>1. PageInv /\ RestInv /\ page \in Page
  BY DEF GuidedInv, PageInv, Whole
<1>2. PICK n \in 0..MaxQuestions :
        Show(session, [page EXCEPT !.questions = n, !.prepared = @ \/ n > 0])
  BY DEF QuestionsArrive
<1> DEFINE b == page.prepared \/ n > 0
           q == [page EXCEPT !.prepared = b, !.questions = n]
<1>3. b \in BOOLEAN
  OBVIOUS
<1>4. [page EXCEPT !.questions = n, !.prepared = @ \/ n > 0] = q
  BY <1>1 DEF Page
<1> HIDE DEF b
<1>5. Whole(session, q) /\ Alike(q, page)
  BY <1>1, <1>3, AskedHolds DEF PageInv
<1>6. session' = session /\ page' = q /\ due' \in BOOLEAN
  BY <1>2, <1>4 DEF Show
<1> HIDE DEF q
<1>7. KeepGuide(session) /\ asking' = FALSE /\ UNCHANGED <<posts, call, saved, extras>>
  BY DEF QuestionsArrive
<1>8. call = NoCall \/ (call \in Call /\ Fits(session, q, call))
  BY <1>1, <1>5, AlikeFits DEF PageInv
<1>9. PageInv'
  BY <1>1, <1>5, <1>6, <1>7, <1>8 DEF PageInv
<1>10. RestInv'
  BY <1>1, <1>6, <1>7, KeptGuide DEF RestInv
<1>11. GuideInv'
  BY <1>2, ShownAnew
<1> QED BY <1>9, <1>10, <1>11 DEF GuidedInv

LEMMA RouteArrivesKeeps ==
    ASSUME GuidedInv, RouteArrives
    PROVE  GuidedInv'
<1>1. PageInv /\ RestInv
  BY DEF GuidedInv
<1>2. /\ session \in Sessions /\ Whole(session, page) /\ call \in Call /\ call.session = session
  BY <1>1, Awaited DEF RouteArrives, Requests
<1> DEFINE dropped == [page EXCEPT !.proposal = None, !.diff = None, !.sandbox = None,
                                   !.apply = None]
           q == CASE "clear" \in call.then -> Cleared(page)
                  [] "drop" \in call.then -> dropped
                  [] OTHER -> page
<1>3. Whole(session, dropped) /\ Whole(session, Cleared(page))
  BY <1>2, DroppedHolds, ClearedHolds
<1>4. Show(session, q) /\ asking' = TRUE /\ Return /\ UNCHANGED <<posts, saved, extras>>
      /\ (DropGuide \/ KeepGuide(session))
  BY <1>2 DEF RouteArrives
<1> HIDE DEF dropped
<1>5. q = Cleared(page) \/ q = dropped \/ q = page
  OBVIOUS
<1> HIDE DEF q
<1>6. Whole(session, q)
  BY <1>2, <1>3, <1>5
<1>7. session' = session /\ page' = q /\ due' \in BOOLEAN
  BY <1>4 DEF Show
<1>8. call' = NoCall \/ (call' \in Call /\ Fits(session, q, call'))
  BY <1>2, <1>4, Returned
<1>9. PageInv'
  BY <1>1, <1>4, <1>6, <1>7, <1>8 DEF PageInv
<1>10. guide' \in Actions \cup {None} /\ fresh' \in BOOLEAN
  BY <1>1, <1>4, KeptGuide DEF DropGuide
<1>11. RestInv'
  BY <1>1, <1>4, <1>7, <1>10 DEF RestInv
<1>12. GuideInv'
  BY <1>4, ShownAnew
<1> QED BY <1>9, <1>11, <1>12 DEF GuidedInv

LEMMA LogArrivesKeeps ==
    ASSUME GuidedInv, LogArrives
    PROVE  GuidedInv'
<1>1. PageInv /\ RestInv
  BY DEF GuidedInv
<1>2. call \in Call /\ call.session = session
  BY <1>1 DEF LogArrives, PageInv, Fits
<1>3. /\ Show(session, page) /\ KeepGuide(session) /\ Return
      /\ UNCHANGED <<posts, asking, saved, extras>>
  BY <1>2 DEF LogArrives
<1>4. session' = session /\ page' = page /\ due' \in BOOLEAN
  BY <1>3 DEF Show
<1>5. call' = NoCall \/ (call' \in Call /\ Fits(session, page, call'))
  BY <1>2, <1>3, Returned
<1>6. PageInv'
  BY <1>1, <1>3, <1>4, <1>5 DEF PageInv
<1>7. RestInv'
  BY <1>1, <1>3, <1>4, KeptGuide DEF RestInv
<1>8. GuideInv'
  BY <1>3, ShownAnew
<1> QED BY <1>6, <1>7, <1>8 DEF GuidedInv

\* What changes neither the page nor what is asked of it keeps what is known of both.
LEMMA CallChanged ==
    ASSUME GuidedInv, UNCHANGED <<session, page, guide, fresh, posts, due, saved>>,
           asking' \in BOOLEAN, extras' \in 0..MaxExtras,
           call' = NoCall \/ (call' \in Call /\ Fits(session, page, call'))
    PROVE  GuidedInv'
<1>1. PageInv /\ RestInv /\ GuideInv
  BY DEF GuidedInv
<1>2. PageInv'
  BY <1>1 DEF PageInv
<1>3. RestInv'
  BY <1>1 DEF RestInv
<1>4. GuideInv'
  BY <1>1 DEF GuideInv
<1> QED BY <1>2, <1>3, <1>4 DEF GuidedInv

\* A decision goes on as what it leads to; approving files only selects them.
LEMMA DecisionArrivesKeeps ==
    ASSUME GuidedInv, DecisionArrives
    PROVE  GuidedInv'
<1>1. PageInv /\ RestInv /\ GuideInv
  BY DEF GuidedInv
<1>2. /\ session \in Sessions /\ session # None /\ Whole(session, page)
      /\ call \in Call /\ call.session = session /\ call.seen \in Page
      /\ Alike(page, call.seen) /\ WasReady("decide", call.decision, call.seen)
      /\ call.at = "result"
  BY <1>1, Awaited DEF DecisionArrives, Requests, Awaits
<1>3. UNCHANGED <<session, guide, fresh, posts, due, asking, saved, extras>>
  BY DEF DecisionArrives, guiding
<1>4. asking' \in BOOLEAN /\ extras' \in 0..MaxExtras
  BY <1>1, <1>3 DEF RestInv
<1>5. CASE call' = NoCall /\ UNCHANGED page
  BY <1>3, <1>4, <1>5, CallChanged
<1>6. ASSUME NEW op \in {"route", "verify", "rollback"}, call' = [call EXCEPT !.op = op],
             UNCHANGED page,
             op = "rollback" => call.decision = "rollback"
      PROVE  GuidedInv'
  <2>1. call' \in Call /\ call'.at = "result" /\ call'.op = op /\ call'.session = session
        /\ call'.seen = call.seen /\ call'.decision = call.decision
    BY <1>2, <1>6 DEF Call, Requests
  <2>2. WasReady(op, call.decision, call.seen)
    BY <1>2, <1>6 DEF WasReady
  <2>3. Fits(session, page, call')
    BY <1>2, <2>1, <2>2 DEF Fits
  <2> QED BY <1>3, <1>4, <1>6, <2>1, <2>3, CallChanged
<1>7. CASE call.decision = "approve_patch" /\ page' = [page EXCEPT !.selected = TRUE]
           /\ call' = [call EXCEPT !.op = "diff", !.seen.selected = TRUE]
  <2> DEFINE q == [page EXCEPT !.selected = TRUE]
             seen == [call.seen EXCEPT !.selected = TRUE]
  <2>1. page \in Page
    BY <1>2 DEF Whole
  <2>2. Whole(session, q)
    BY <1>2, SelectedHolds
  <2>3. seen \in Page /\ Alike(q, seen) /\ seen.proposal = call.seen.proposal
    <3>1. seen \in Page
      BY <1>2 DEF Page
    <3>2. /\ seen.plan = call.seen.plan /\ seen.proposal = call.seen.proposal
          /\ seen.selected = TRUE
          /\ seen.diff = call.seen.diff /\ seen.sandbox = call.seen.sandbox
          /\ seen.recovery = call.seen.recovery /\ seen.apply = call.seen.apply
          /\ seen.rollback = call.seen.rollback /\ seen.snapshot = call.seen.snapshot
          /\ seen.report = call.seen.report
      BY <1>2 DEF Page
    <3>3. /\ q.plan = page.plan /\ q.proposal = page.proposal /\ q.selected = TRUE
          /\ q.diff = page.diff /\ q.sandbox = page.sandbox /\ q.recovery = page.recovery
          /\ q.apply = page.apply /\ q.rollback = page.rollback
          /\ q.snapshot = page.snapshot /\ q.report = page.report
      BY <2>1 DEF Page
    <3> HIDE DEF seen, q
    <3> QED BY <1>2, <3>1, <3>2, <3>3 DEF Alike
  <2>4. call' \in Call /\ call'.at = "result" /\ call'.op = "diff" /\ call'.session = session
        /\ call'.seen = seen /\ call'.decision = call.decision
    BY <1>2, <1>7, <2>3 DEF Call, Requests
  <2>5. Offer(session, q) = Offer(session, page)
    BY <2>1, OfferSelected
  <2>6. page' = q
    BY <1>7
  <2> HIDE DEF q, seen
  <2>7. WasReady("diff", call.decision, seen)
    BY <1>2, <1>7, <2>3 DEF WasReady
  <2>8. Fits(session, q, call')
    BY <1>2, <2>3, <2>4, <2>7 DEF Fits
  <2>9. PageInv'
    BY <1>1, <1>3, <2>2, <2>4, <2>6, <2>8 DEF PageInv
  <2>10. RestInv'
    BY <1>1, <1>3 DEF RestInv
  <2>11. GuideInv'
    <3>1. Offer(session', page') = Offer(session, page)
      BY <1>3, <2>5, <2>6
    <3> QED BY <1>1, <1>3, <3>1 DEF GuideInv
  <2> QED BY <2>9, <2>10, <2>11 DEF GuidedInv
<1> QED BY <1>5, <1>6, <1>7 DEF DecisionArrives

LEMMA HandlerEndsKeeps ==
    ASSUME GuidedInv, HandlerEnds
    PROVE  GuidedInv'
<1>1. PageInv /\ RestInv
  BY DEF GuidedInv
<1>2. RefreshFrom(call) /\ Len(posts) < MaxPosts /\ Extra(posts # <<>>) /\ call' = NoCall
      /\ UNCHANGED <<session, page, due, asking, saved>>
  BY DEF HandlerEnds, Slow
<1>3. /\ guide' \in Actions \cup {None} /\ fresh' \in BOOLEAN
      /\ posts' \in Seq(Post) /\ Len(posts') <= MaxPosts
      /\ GuideInv'
  BY <1>2, AskedOlder
<1>4. (posts # <<>>) \in BOOLEAN
  OBVIOUS
<1>5. extras' \in 0..MaxExtras
  BY <1>1, <1>2, <1>4, ExtraCounted
<1>6. PageInv'
  BY <1>1, <1>2 DEF PageInv
<1>7. RestInv'
  BY <1>1, <1>2, <1>3, <1>5 DEF RestInv
<1> QED BY <1>3, <1>6, <1>7 DEF GuidedInv

LEMMA FailedKeeps ==
    ASSUME GuidedInv, CallFails \/ QuestionsFail
    PROVE  GuidedInv'
<1>1. PageInv /\ RestInv
  BY DEF GuidedInv
<1>2. UNCHANGED <<session, page, guide, fresh, posts, due, saved>>
  BY DEF CallFails, QuestionsFail, guiding
<1>3. asking' \in BOOLEAN
  BY <1>1 DEF CallFails, QuestionsFail, RestInv
<1>4. extras' \in 0..MaxExtras
  <2>1. (~RefusedApply) \in BOOLEAN
    OBVIOUS
  <2> HIDE DEF RefusedApply
  <2> QED BY <1>1, <2>1, ExtraCounted DEF CallFails, QuestionsFail
<1>5. call' = NoCall \/ (call' \in Call /\ Fits(session, page, call'))
  BY <1>1 DEF CallFails, QuestionsFail, PageInv
<1> QED BY <1>2, <1>3, <1>4, <1>5, CallChanged

(* -------------------------------- clicks ------------------------------- *)

\* A handler begins on the page that is shown.
LEMMA Begun ==
    ASSUME GuidedInv, NEW op \in Requests \ {"resume"}, NEW d \in Decisions \cup {None},
           NEW then \in SUBSET {"refresh", "clear", "drop"}, BeginCall(op, d, then),
           op = "start" => session = None,
           op # "start" => session # None /\ WasReady(op, d, page),
           extras' \in 0..MaxExtras
    PROVE  GuidedInv'
<1>1. PageInv /\ RestInv
  BY DEF GuidedInv
<1>2. /\ UNCHANGED <<session, page, guide, fresh, posts, due, asking, saved>>
      /\ call' = [op |-> op, decision |-> d, at |-> "result", session |-> session,
                  seen |-> page, then |-> then]
  BY DEF BeginCall, guiding
<1>3. call' \in Call
  BY <1>1, <1>2 DEF Call, PageInv, Whole
<1>4. Fits(session, page, call')
  BY <1>2 DEF Fits, Alike
<1>5. asking' \in BOOLEAN
  BY <1>1, <1>2 DEF RestInv
<1> QED BY <1>2, <1>3, <1>4, <1>5, CallChanged

LEMMA RunKeeps ==
    ASSUME GuidedInv, NEW op \in PanelOps, Run(op),
           op \in {"dry_rollback", "rollback"} => StatusOf(page.apply) = "applied",
           extras' \in 0..MaxExtras
    PROVE  GuidedInv'
<1>1. session # None /\ HandlerRuns(op, page) /\ page \in Page
  BY DEF Run, GuidedInv, PageInv, Whole
<1>2. op \in Requests \ {"start", "resume", "route", "decide"}
  BY DEF PanelOps
<1>3. page.sandbox \in Result(Sandboxes \ {"none"}) \cup {None}
  BY <1>1, PageIs
<1>4. StatusOf(page.sandbox) \in Sandboxes
  BY <1>3 DEF StatusOf, Result, Sandboxes
<1>5. op \notin {"patch", "repair"} => WasReady(op, None, page)
  BY <1>1, <1>2, <1>4 DEF WasReady, HandlerRuns, Requests, Sandboxes
<1>6. CASE BeginCall("route", None, {"refresh"})
  <2>1. WasReady("route", None, page)
    BY DEF WasReady
  <2> QED BY <1>1, <1>6, <2>1, Begun DEF Requests
<1>7. CASE BeginCall("route", None, {"drop"})
  <2>1. WasReady("route", None, page)
    BY DEF WasReady
  <2> QED BY <1>1, <1>7, <2>1, Begun DEF Requests
<1>8. CASE op \in {"patch", "repair"} /\ Proposals \ InUse(page) # {} /\ BeginCall(op, None, {})
  <2>1. WasReady(op, None, page)
    BY <1>1, <1>8 DEF WasReady, HandlerRuns
  <2> QED BY <1>1, <1>2, <1>8, <2>1, Begun
<1>9. CASE op \notin {"patch", "repair"} /\ BeginCall(op, None, {})
  BY <1>1, <1>2, <1>5, <1>9, Begun
<1> QED BY <1>6, <1>7, <1>8, <1>9 DEF Run

LEMMA DecideKeeps ==
    ASSUME GuidedInv, NEW d \in Decisions, Decide(d), extras' \in 0..MaxExtras
    PROVE  GuidedInv'
<1> DEFINE then == {"refresh"} \cup IF d = "refuse" THEN {"clear"} ELSE {}
<1>1. session # None /\ BeginCall("decide", d, then) /\ WasReady("decide", d, page)
  BY DEF Decide, WasReady
<1>2. then \in SUBSET {"refresh", "clear", "drop"}
  OBVIOUS
<1> HIDE DEF then
<1> QED BY <1>1, <1>2, Begun DEF Requests

LEMMA CommandKeeps ==
    ASSUME GuidedInv, Command, extras' \in 0..MaxExtras
    PROVE  GuidedInv'
<1>1. session # None /\ WasReady("route", None, page) /\ "route" \in Requests \ {"resume"}
  BY DEF Command, WasReady, Requests
<1>2. CASE BeginCall("route", None, {})
  BY <1>1, <1>2, Begun
<1>3. CASE BeginCall("route", None, {"clear"})
  BY <1>1, <1>3, Begun
<1> QED BY <1>2, <1>3 DEF Command

LEMMA ClickKeeps ==
    ASSUME GuidedInv, Click
    PROVE  GuidedInv'
<1>1. extras' \in 0..MaxExtras
  BY ExtraCounted DEF Click, GuidedInv
<1>2. ASSUME NEW op \in PanelOps, PanelAllows(op, page), Run(op) PROVE GuidedInv'
  <2>1. op \in {"dry_rollback", "rollback"} => StatusOf(page.apply) = "applied"
    BY <1>2 DEF PanelAllows
  <2> QED BY <1>1, <1>2, <2>1, RunKeeps
<1>3. ASSUME NEW d \in Decisions, Decide(d) PROVE GuidedInv'
  BY <1>1, <1>3, DecideKeeps
<1>4. CASE Command
  BY <1>1, <1>4, CommandKeeps
<1>5. ASSUME NEW s \in Sessions, Resume(s) PROVE GuidedInv'
  BY <1>1, <1>5, ResumeKeeps
<1>6. CASE NewSession
  BY <1>1, <1>6, NewSessionKeeps
<1> QED BY <1>2, <1>3, <1>4, <1>5, <1>6 DEF Click

LEMMA FollowGuideKeeps ==
    ASSUME GuidedInv, FollowGuide
    PROVE  GuidedInv'
<1>1. extras' \in 0..MaxExtras
  BY DEF FollowGuide, GuidedInv, RestInv
<1>2. CASE guide \in DOMAIN GuideOps /\ Run(GuideOps[guide])
  <2>1. GuideOps[guide] \in PanelOps \ {"dry_rollback", "rollback"}
    BY <1>2 DEF GuideOps, PanelOps, Requests
  <2> QED BY <1>1, <1>2, <2>1, RunKeeps
<1>3. CASE guide \in DOMAIN PanelsDo /\ PanelAllows(PanelsDo[guide], page) /\ Run(PanelsDo[guide])
  <2>1. PanelsDo[guide] \in PanelOps
    BY <1>3 DEF PanelsDo, PanelOps, Requests
  <2>2. PanelsDo[guide] \in {"dry_rollback", "rollback"} => StatusOf(page.apply) = "applied"
    BY <1>3 DEF PanelAllows
  <2> QED BY <1>1, <1>3, <2>1, <2>2, RunKeeps
<1> QED BY <1>2, <1>3 DEF FollowGuide

LEMMA StartSessionKeeps ==
    ASSUME GuidedInv, StartSession
    PROVE  GuidedInv'
<1>1. session = None /\ BeginCall("start", None, {}) /\ extras' \in 0..MaxExtras
  BY DEF StartSession, GuidedInv, RestInv
<1> QED BY <1>1, Begun DEF Requests

(* ----------------------------- the theorems ---------------------------- *)

LEMMA GuidedStarts ==
    ASSUME PageInit
    PROVE  GuidedInv
<1>1. PageInv
  BY EmptyHolds DEF PageInit, PageInv
<1>2. RestInv
  <2>1. posts = <<>> /\ <<>> \in Seq(Post) /\ Len(<<>>) <= MaxPosts
    BY DEF PageInit, MaxPosts
  <2>2. extras \in 0..MaxExtras
    BY PageBoundsAssumption DEF PageInit
  <2> QED BY <2>1, <2>2 DEF PageInit, RestInv
<1>3. GuideInv
  BY DEF PageInit, GuideInv
<1> QED BY <1>1, <1>2, <1>3 DEF GuidedInv

LEMMA GuidedKeeps ==
    ASSUME GuidedInv, [PageNext]_pageVars
    PROVE  GuidedInv'
<1>1. CASE StartSession
  BY <1>1, StartSessionKeeps
<1>2. CASE Click
  BY <1>2, ClickKeeps
<1>3. CASE FollowGuide
  BY <1>3, FollowGuideKeeps
<1>4. CASE Results
  BY <1>4, SessionStartedKeeps, WorkflowPreparedKeeps, SavedArrivesKeeps, QuestionAnsweredKeeps,
     PlanArrivesKeeps, ProposalArrivesKeeps, DiffArrivesKeeps, SandboxArrivesKeeps,
     RecoveryArrivesKeeps, RepairArrivesKeeps, DryRunArrivesKeeps, ApplyArrivesKeeps,
     RollbackArrivesKeeps, SnapshotArrivesKeeps, ReportArrivesKeeps, VerifyArrivesKeeps,
     RouteArrivesKeeps, DecisionArrivesKeeps, LogArrivesKeeps, HandlerEndsKeeps
     DEF Results
<1>5. CASE CallFails \/ QuestionsFail
  BY <1>5, FailedKeeps
<1>6. CASE QuestionsArrive
  BY <1>6, QuestionsArriveKeeps
<1>7. CASE AskForGuide
  BY <1>7, AskForGuideKeeps
<1>8. CASE \E i \in DOMAIN posts : GuideArrives(i) \/ GuideFails(i)
  BY <1>8, GuideArrivesKeeps
<1>9. CASE UNCHANGED pageVars
  <2>1. UNCHANGED <<session, page, guide, fresh, posts, due, saved, asking, extras, call>>
    BY <1>9 DEF pageVars
  <2>2. asking' \in BOOLEAN /\ extras' \in 0..MaxExtras
    BY <2>1 DEF GuidedInv, RestInv
  <2>3. call' = NoCall \/ (call' \in Call /\ Fits(session, page, call'))
    BY <2>1 DEF GuidedInv, PageInv
  <2> QED BY <2>1, <2>2, <2>3, CallChanged
<1> QED BY <1>1, <1>2, <1>3, <1>4, <1>5, <1>6, <1>7, <1>8, <1>9 DEF PageNext

\* However handlers, answers and guides overlap: what a page holds belongs
\* together, follows from what came before it, and newest guides are its own.
THEOREM PageGuided == PageSpec => []GuidedInv
<1>1. PageInit => GuidedInv
  BY GuidedStarts
<1>2. GuidedInv /\ [PageNext]_pageVars => GuidedInv'
  BY GuidedKeeps
<1> QED BY <1>1, <1>2, PTL DEF PageSpec

\* The page holds what its types allow; no count of questions goes below zero.
THEOREM PageTypeCorrect == PageSpec => []PageTypeOK
<1>1. GuidedInv => PageTypeOK
  BY DEF GuidedInv, PageInv, RestInv, Whole, PageTypeOK
<1> QED BY <1>1, PageGuided, PTL

\* Plan, patch and results shown are of the session shown and of one patch
\* (SessionPage.tsx: handlers await in the closure of an older render).
THEOREM PageBelongsTogether == PageSpec => []ShownBelongTogether
<1>1. GuidedInv => ShownBelongTogether
  <2> SUFFICES ASSUME GuidedInv PROVE ShownBelongTogether
    OBVIOUS
  <2>1. Belong(session, page)
    BY DEF GuidedInv, PageInv, Whole
  <2> QED BY <2>1 DEF Belong, IsOf, ShownBelongTogether
<1> QED BY <1>1, PageGuided, PTL

\* Once nothing is in flight, the guide a render asked for last is the guide of
\* what is shown: no change of the page escapes the effect.
THEOREM GuideIsOfRender == PageSpec => []GuideFollowsRender
<1>1. GuidedInv => GuideFollowsRender
  BY DEF GuidedInv, RestInv, GuideInv, GuideFollowsRender, Quiet
<1> QED BY <1>1, PageGuided, PTL

LEMMA StepOf ==
    ASSUME NEW step \in StepNames
    PROVE  /\ ActionFor[step] = "apply_patch" => step = "apply"
           /\ ActionFor[step] = "rollback_patch" => step = "rollback"
<1>1. StepNames =
        {"session", "prepare_workflow", "runtime_questions", "runtime_plan", "patch_proposal",
         "diff_preview", "snapshot", "sandbox", "recovery_prepare", "repaired_patch", "dry_run",
         "apply", "rollback", "verify", "report"}
  BY DEF StepNames, ActionFor
<1>2. ASSUME step \in {"session", "prepare_workflow", "runtime_questions", "runtime_plan",
                       "patch_proposal", "diff_preview", "snapshot"}
      PROVE  ActionFor[step] \notin {"apply_patch", "rollback_patch"}
  BY <1>2 DEF ActionFor
<1>3. ASSUME step \in {"sandbox", "recovery_prepare", "repaired_patch", "dry_run",
                       "verify", "report"}
      PROVE  ActionFor[step] \notin {"apply_patch", "rollback_patch"}
  BY <1>3 DEF ActionFor
<1>4. ActionFor["apply"] # "rollback_patch" /\ ActionFor["rollback"] # "apply_patch"
  BY DEF ActionFor
<1> QED BY <1>1, <1>2, <1>3, <1>4

\* What a page that is whole says of the statuses the server computes from it.
LEMMA ArtifactsOf ==
    ASSUME NEW s \in Sessions, NEW p, Whole(s, p), NEW a, a = ArtifactState(s, p)
    PROVE  /\ a.started /\ a.prepared = p.prepared /\ a.asked = (p.questions > 0)
           /\ a.plan = "valid" <=> p.plan # None /\ p.plan.plan.valid
           /\ a.plan # "valid" /\ a.asked => p.questions > 0
           /\ a.proposal = "valid" => Valid(p.proposal)
           /\ a.repaired => p.recovery # None /\ p.proposal # None /\ p.proposal.id # p.recovery.of
           /\ a.diff # "none" => StatusOf(p.diff) = a.diff /\ p.diff # None
           /\ a.sandbox # "none" => StatusOf(p.sandbox) = a.sandbox
           /\ a.recovery # "none" => StatusOf(p.recovery) = a.recovery /\ p.recovery # None
           /\ a.apply # "none" => StatusOf(p.apply) = a.apply /\ p.apply # None
           /\ a.rollback # "none" => StatusOf(p.rollback) = a.rollback /\ p.rollback # None
<1>1. p \in Page /\ s # None
  BY NoneAssumption DEF Whole
<1> QED BY <1>1 DEF ArtifactState, Verdict, StatusOf, Valid

LEMMA PageOffers ==
    ASSUME NEW s \in Sessions, NEW p, Whole(s, p)
    PROVE  LET offer == Offer(s, p)
           IN /\ offer \in DOMAIN GuideOps =>
                    HandlerRuns(GuideOps[offer], p) \/ RepairRejected(p) \/ RecoveryOutlives(p)
              /\ offer \in DOMAIN PanelsDo =>
                    /\ \/ HandlerRuns(PanelsDo[offer], p) /\ PanelAllows(PanelsDo[offer], p)
                       \/ offer = "rollback_patch" /\ RollbackOutlives(p)
                    /\ offer = "apply_patch" => SandboxPassedForApply(p) \/ SelectionNotPreviewed(p)
<1> DEFINE a == ArtifactState(s, p)
           offer == Offer(s, p)
<1>1. p \in Page /\ Belong(s, p) /\ Follow(p) /\ s # None
  BY NoneAssumption DEF Whole
<1>2. \/ offer = "none"
      \/ \E step \in StepNames :
            /\ offer = ActionFor[step]
            /\ step = "report" \/ StepStatus(a, step) \in {"active", "available"}
  BY OfferIs, NextActionIs
<1>3. /\ a.started /\ a.prepared = p.prepared /\ a.asked = (p.questions > 0)
      /\ a.plan = "valid" <=> p.plan # None /\ p.plan.plan.valid
      /\ a.plan # "valid" /\ a.asked => p.questions > 0
      /\ a.proposal = "valid" => Valid(p.proposal)
      /\ a.repaired => p.recovery # None /\ p.proposal # None /\ p.proposal.id # p.recovery.of
      /\ a.diff # "none" => StatusOf(p.diff) = a.diff /\ p.diff # None
      /\ a.sandbox # "none" => StatusOf(p.sandbox) = a.sandbox
      /\ a.recovery # "none" => StatusOf(p.recovery) = a.recovery /\ p.recovery # None
      /\ a.apply # "none" => StatusOf(p.apply) = a.apply /\ p.apply # None
      /\ a.rollback # "none" => StatusOf(p.rollback) = a.rollback /\ p.rollback # None
  BY ArtifactsOf
<1> HIDE DEF a, offer
<1> DEFINE Runs(op) == HandlerRuns(op, p) \/ RepairRejected(p) \/ RecoveryOutlives(p)
<1>4. ASSUME NEW step \in StepNames, offer = ActionFor[step],
             step = "report" \/ StepStatus(a, step) \in {"active", "available"},
             offer \in DOMAIN GuideOps
      PROVE  Runs(GuideOps[offer])
  <2>1. GuideOps[offer] \in {"prepare", "plan", "snapshot", "report"} => Runs(GuideOps[offer])
    BY DEF HandlerRuns
  <2>2. CASE step = "runtime_questions"
    <3>1. offer = "answer_runtime_questions" /\ GuideOps[offer] = "answer"
      BY <1>4, <2>2 DEF ActionFor, GuideOps
    <3>2. p.questions > 0
      BY <1>3, <1>4, <2>2 DEF StepStatus, QuestionsStatus, StatusAfter, QuestionsResolved
    <3> QED BY <3>1, <3>2 DEF HandlerRuns
  <2>3. CASE step = "patch_proposal"
    <3>1. offer = "generate_patch_proposal" /\ GuideOps[offer] = "patch"
      BY <1>4, <2>3 DEF ActionFor, GuideOps
    <3>2. a.plan = "valid"
      BY <1>4, <2>3 DEF StepStatus, ValidatedOrBlocked, StatusAfter
    <3> QED BY <1>3, <3>1, <3>2 DEF HandlerRuns
  <2>4. CASE step = "diff_preview"
    <3>1. offer = "generate_diff_preview" /\ GuideOps[offer] = "diff"
      BY <1>4, <2>4 DEF ActionFor, GuideOps
    <3>2. a.proposal = "valid" \/ a.repaired
      BY <1>4, <2>4 DEF StepStatus, ValidatedOrBlocked, StatusAfter
    <3>3. a.repaired => Valid(p.proposal) \/ RepairRejected(p)
      BY <1>1, <1>3, PageIs DEF Belong, IsOf, Valid, RepairRejected, Proposal
    <3> QED BY <1>3, <3>1, <3>2, <3>3 DEF HandlerRuns
  <2>5. CASE step = "sandbox"
    <3>1. offer = "verify_sandbox" /\ GuideOps[offer] = "sandbox"
      BY <1>4, <2>5 DEF ActionFor, GuideOps
    <3>2. a.diff = "ready"
      BY <1>4, <2>5 DEF StepStatus, SandboxStatus, ValidatedOrBlocked, StatusAfter
    <3> QED BY <1>1, <1>3, <3>1, <3>2 DEF HandlerRuns, Follow
  <2>6. CASE step = "recovery_prepare"
    <3>1. offer = "prepare_recovery" /\ GuideOps[offer] = "recovery"
      BY <1>4, <2>6 DEF ActionFor, GuideOps
    <3>2. (a.sandbox = "failed" \/ a.recovery # "none") /\ a.recovery # "repair_prompt_ready"
      BY <1>4, <2>6 DEF StepStatus, RecoveryPrepareStatus, RecoveryAvailable, ValidatedOrBlocked,
         StatusAfter
    <3>3. CASE a.sandbox = "failed"
      BY <1>1, <1>3, <3>1, <3>3 DEF HandlerRuns, Belong, StatusOf
    <3>4. CASE a.recovery # "none"
      <4>1. p.recovery # None /\ p.recovery.status # "repair_prompt_ready"
        BY <1>3, <3>2, <3>4 DEF StatusOf
      <4> QED BY <1>1, <3>1, <4>1 DEF HandlerRuns, Follow, RecoveryOutlives
    <3> QED BY <3>2, <3>3, <3>4
  <2>7. CASE step = "repaired_patch"
    <3>1. offer = "generate_repaired_patch" /\ GuideOps[offer] = "repair"
      BY <1>4, <2>7 DEF ActionFor, GuideOps
    <3>2. a.recovery = "repair_prompt_ready"
      BY <1>4, <2>7 DEF StepStatus, RepairedPatchStatus, ValidatedOrBlocked, StatusAfter
    <3> QED BY <1>3, <3>1, <3>2 DEF HandlerRuns, RecoveryOutlives
  <2>8. CASE step = "dry_run"
    <3>1. offer = "dry_run_apply" /\ GuideOps[offer] = "dry_run"
      BY <1>4, <2>8 DEF ActionFor, GuideOps
    <3>2. a.diff = "ready"
      BY <1>4, <2>8 DEF StepStatus, StatusAfter
    <3> QED BY <1>1, <1>3, <3>1, <3>2 DEF HandlerRuns, Follow, Valid
  <2>9. CASE step \in {"session", "prepare_workflow", "runtime_plan", "snapshot", "apply",
                       "rollback", "verify", "report"}
    <3>1. GuideOps[offer] \in {"prepare", "plan", "snapshot", "report"}
      BY <1>4, <2>9 DEF ActionFor, GuideOps
    <3> QED BY <2>1, <3>1
  <2> HIDE DEF Runs
  <2> QED BY <1>4, <2>2, <2>3, <2>4, <2>5, <2>6, <2>7, <2>8, <2>9 DEF StepNames, ActionFor
<1>5. ASSUME NEW step \in StepNames, offer = ActionFor[step],
             step = "report" \/ StepStatus(a, step) \in {"active", "available"},
             offer = "apply_patch"
      PROVE  /\ HandlerRuns("apply", p) /\ PanelAllows("apply", p)
             /\ SandboxPassedForApply(p) \/ SelectionNotPreviewed(p)
  <2>1. step = "apply"
    BY <1>5, StepOf
  <2>2. a.diff = "ready" /\ a.sandbox = "passed"
    BY <1>5, <2>1 DEF StepStatus, ApplyStatus, ValidatedOrBlocked, StatusAfter
  <2>3. /\ p.diff # None /\ Valid(p.proposal)
        /\ StatusOf(p.diff) = "ready" /\ StatusOf(p.sandbox) = "passed"
    BY <1>1, <1>3, <2>2 DEF Follow
  <2>4. p.proposal # None /\ p.sandbox # None /\ p.sandbox.status = "passed"
    BY <2>3 DEF Valid, StatusOf
  <2>5. \A r \in {p.sandbox, p.diff} : r.of = p.proposal.id /\ r.session = p.proposal.session
    BY <1>1, <2>3, <2>4 DEF Belong, IsOf
  <2>6. p.selected \in BOOLEAN /\ p.diff.whole \in BOOLEAN /\ p.sandbox.whole \in BOOLEAN
    BY <1>1, <2>3, <2>4, PageIs DEF Result
  <2>7. \/ p.diff.whole = ~p.selected /\ p.sandbox.whole = ~p.selected
        \/ SelectionNotPreviewed(p)
    BY <1>1, <2>3, <2>4, <2>6 DEF Follow, SelectionNotPreviewed
  <2> QED BY <2>3, <2>4, <2>5, <2>7 DEF HandlerRuns, PanelAllows, SandboxPassedForApply
<1>6. ASSUME NEW step \in StepNames, offer = ActionFor[step],
             step = "report" \/ StepStatus(a, step) \in {"active", "available"},
             offer = "rollback_patch"
      PROVE  \/ HandlerRuns("rollback", p) /\ PanelAllows("rollback", p)
             \/ RollbackOutlives(p)
  <2>1. step = "rollback"
    BY <1>6, StepOf
  <2>2. a.rollback = "dry_run" \/ a.apply = "applied"
    BY <1>6, <2>1 DEF StepStatus, RollbackStatus, ValidatedOrBlocked, StatusAfter
  <2>3. StatusOf(p.apply) = "applied" \/ RollbackOutlives(p)
    BY <1>1, <1>3, <2>2 DEF Follow, StatusOf, RollbackOutlives
  <2> QED BY <2>3 DEF HandlerRuns, PanelAllows, StatusOf
<1>7. /\ "none" \notin DOMAIN GuideOps /\ "none" \notin DOMAIN PanelsDo
      /\ DOMAIN PanelsDo = {"apply_patch", "rollback_patch"}
      /\ PanelsDo["apply_patch"] = "apply" /\ PanelsDo["rollback_patch"] = "rollback"
  BY DEF GuideOps, PanelsDo
<1> QED BY <1>2, <1>4, <1>5, <1>6, <1>7 DEF offer

\* What the server offers the page carries out, but for the exceptions it names
\* (RuntimeWorkflowStateMachine.ts against the early returns of SessionPage.tsx).
THEOREM OfferedIsActedOn == PageSpec => []OfferIsActedOn
<1>1. GuidedInv => OfferIsActedOn
  <2> SUFFICES ASSUME GuidedInv, session # None PROVE OfferIsActedOn
    BY DEF OfferIsActedOn
  <2>1. session \in Sessions /\ Whole(session, page)
    BY DEF GuidedInv, PageInv
  <2> QED BY <2>1, PageOffers DEF OfferIsActedOn
<1> QED BY <1>1, PageGuided, PTL
=============================================================================
