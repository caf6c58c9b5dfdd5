---------------------------- MODULE MCSessionTasks ----------------------------
(* Instances of SessionTasks for TLC.                                      *)
EXTENDS SessionTasks, TLC

\* Tasks that stand alone, and tasks that wait for one of the first two custom
\* tasks, added before them or after.
OneDependency == {{}} \cup {{[title |-> 0, at |-> t]} : t \in 1..MaxTime}

\* Tasks of the caller's own, the first default's once more, and progress on any.
AddsAndMoves ==
    [op : {"list", "prepare"}]
    \cup [op : {"add"}, title : {0}, deps : Dependencies]
    \cup [op : {"add"}, title : {1}, deps : {{}}]
    \cup [op : {"move"}, id : Ids, to : {"in_progress", "completed"}]

Interchangeable == Permutations(Handlers)
=============================================================================
