---------------------------- MODULE MCPlanRuntime ----------------------------
(* Instances of PlanRuntime for TLC.                                       *)
EXTENDS PlanRuntime, TLC

\* Loops of one step, of all steps and one that may not approve, and the
\* calls of the execution tests.
LoopsAndSteps ==
    {[op |-> "loop", max |-> 1, auto |-> TRUE], [op |-> "loop", max |-> NSteps, auto |-> TRUE],
     [op |-> "loop", max |-> NSteps + 1, auto |-> FALSE]}
    \cup [op : {"step", "direct"}, step : {1, NSteps}]
    \cup [op : {"initialize", "accept", "generate", "approve", "ready", "next"}]
    \cup [op : {"sequential"}, max : {NSteps + 1}]

Interchangeable == Permutations(Callers)
=============================================================================
