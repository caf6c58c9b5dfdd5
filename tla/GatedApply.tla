---------------------------- MODULE GatedApply ----------------------------
(***************************************************************************)
(* What the agent loop promises to its user, without files or processes:   *)
(* one proposal per loop, applied at most once, only while the latest      *)
(* request for approval stands approved, and a loop is completed only      *)
(* after both the apply step and the revalidation step ran.                *)
(***************************************************************************)
CONSTANTS Proposals, NoProposal

VARIABLES
    loop,        \* "none", "open", "completed" or "failed"
    proposal,    \* the proposal of this loop
    decision,    \* what became of the latest request for approval
    applied,     \* whether the apply step ran
    revalidated  \* whether the revalidation step ran

vars == <<loop, proposal, decision, applied, revalidated>>

Blank(l) ==
    /\ loop' = l
    /\ proposal' = NoProposal
    /\ decision' = "none"
    /\ applied' = FALSE
    /\ revalidated' = FALSE

Init ==
    /\ loop = "none"
    /\ proposal = NoProposal
    /\ decision = "none"
    /\ applied = FALSE
    /\ revalidated = FALSE

Start == Blank("open")
Reset == Blank("none")

Propose ==
    /\ loop = "open" /\ proposal = NoProposal
    /\ proposal' \in Proposals
    /\ UNCHANGED <<loop, decision, applied, revalidated>>

Ask ==
    /\ loop = "open" /\ proposal # NoProposal
    /\ decision' = "pending"
    /\ UNCHANGED <<loop, proposal, applied, revalidated>>

\* A user may change a decision, also after the loop has ended
Decide ==
    /\ decision # "none"
    /\ decision' \in {"approved", "rejected"}
    /\ UNCHANGED <<loop, proposal, applied, revalidated>>

Apply ==
    /\ loop = "open" /\ decision = "approved" /\ ~applied
    /\ applied' = TRUE
    /\ UNCHANGED <<loop, proposal, decision, revalidated>>

Revalidate ==
    /\ loop = "open"
    /\ revalidated' = TRUE
    /\ UNCHANGED <<loop, proposal, decision, applied>>

Complete ==
    /\ loop = "open" /\ applied /\ revalidated
    /\ loop' = "completed"
    /\ UNCHANGED <<proposal, decision, applied, revalidated>>

Fail ==
    /\ loop # "none"
    /\ loop' = "failed"
    /\ UNCHANGED <<proposal, decision, applied, revalidated>>

Next ==
    \/ Start \/ Reset \/ Propose \/ Ask \/ Decide
    \/ Apply \/ Revalidate \/ Complete \/ Fail

Spec == Init /\ [][Next]_vars
=============================================================================
