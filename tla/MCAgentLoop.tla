---------------------------- MODULE MCAgentLoop ----------------------------
(* Instances of AgentLoop.                                                 *)
EXTENDS AgentLoop, TLC

CONSTANTS x, y

\* No read-only step, or the one that stands for them all
NoReadOnly == <<>>
OneReadOnly == <<"inspect_project">>

EveryKind == Kinds \cup {"cancel"}
\* With `agent run`, what leads to an apply and what could change the proposal
ApplyKinds == {"request_repair_proposal", "apply_patch"}

Interchangeable == Permutations(Procs) \cup Permutations(Proposals)
=============================================================================
