------------------------------ MODULE TaskBoard ------------------------------
(* What a session's task queue promises to one caller at a time: a list of *)
(* tasks that only grows, whose tasks move along the status graph of       *)
(* TaskStatus and start only after what they depend on is completed, until *)
(* its file is damaged and there is no list any more.                      *)
EXTENDS Naturals, Sequences

CONSTANTS
    Ids,            \* the identifiers of tasks
    Dependencies    \* the dependencies a task may be given

VARIABLES
    tasks,      \* the list
    readable    \* whether there is still a list

Status == {"pending", "in_progress", "waiting_user", "blocked", "completed", "cancelled"}
Terminal == {"blocked", "completed", "cancelled"}
Task == [id : Ids, deps : Dependencies, status : Status]

CanTransition(from, to) ==
    \/ from = to
    \/ from = "pending" /\ to \in {"in_progress", "waiting_user", "blocked", "cancelled"}
    \/ from = "in_progress" /\ to \in {"waiting_user", "blocked", "completed", "cancelled"}
    \/ from = "waiting_user" /\ to \in {"in_progress", "blocked", "cancelled"}

Init == tasks = <<>> /\ readable

\* A pending task joins the end of the list.
Add ==
    /\ \E t \in Task : t.status = "pending" /\ tasks' = Append(tasks, t)
    /\ readable'

\* One task of an identifier decides whether they all may move: an identifier
\* is a title and a millisecond, and two tasks may share one.
Move ==
    /\ \E i \in DOMAIN tasks, to \in Status :
        /\ CanTransition(tasks[i].status, to)
        /\ to = "in_progress" => \A d \in tasks[i].deps :
                \E j \in DOMAIN tasks : tasks[j].id = d /\ tasks[j].status = "completed"
        /\ tasks' = [k \in DOMAIN tasks |->
                        IF tasks[k].id = tasks[i].id THEN [tasks[k] EXCEPT !.status = to] ELSE tasks[k]]
    /\ readable'

Lose == tasks' = <<>> /\ ~readable'

Next == readable /\ (Add \/ Move \/ Lose)

Spec == Init /\ [][Next]_<<tasks, readable>>
=============================================================================
