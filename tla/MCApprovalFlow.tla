--------------------------- MODULE MCApprovalFlow ---------------------------
(* Instances of ApprovalFlow: two proposals over two files.                *)
EXTENDS ApprovalFlow, TLC

CONSTANTS x, y, f1, f2

\* x touches both files, y one of them
BothAndOne == (x :> {f1, f2}) @@ (y :> {f1})
OneFile == (x :> {f1})

Whole(p) == [proposal |-> p, selected |-> {}]
Part(p, fs) == [proposal |-> p, selected |-> fs]

WholeAndPart == {Whole(x), Part(x, {f1})}
WholeOnly == {Whole(x)}

Interchangeable == Permutations(Handlers)
=============================================================================
