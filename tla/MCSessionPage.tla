---------------------------- MODULE MCSessionPage ----------------------------
EXTENDS SessionPage

CONSTANTS s1, s2, p1, p2, p3, p4

AllSessions == {s1, s2}
FewProposals == {p1, p2, p3, p4}

ThreePlans ==
    {[readOnly |-> TRUE, valid |-> TRUE, risky |-> FALSE],
     [readOnly |-> FALSE, valid |-> TRUE, risky |-> TRUE],
     [readOnly |-> FALSE, valid |-> FALSE, risky |-> FALSE]}

=============================================================================
