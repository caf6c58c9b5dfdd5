--------------------------- MODULE MCSessionMemory ---------------------------
(* Instances of SessionMemory for TLC.                                     *)
EXTENDS SessionMemory, TLC

\* A question about the database, answered one way and then the other
OneQuestion == {[kind |-> "architecture", at |-> 1]}

Answers ==
    [k \in Kinds |-> IF k = "architecture" THEN {"database_readonly", "database_allowed"} ELSE {}]

\* A rule of the user's
OneRule == {Saying("scope", {"backend"}, TRUE, FALSE)}

Interchangeable == Permutations(Handlers)
=============================================================================
