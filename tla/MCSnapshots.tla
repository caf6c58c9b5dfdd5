---------------------------- MODULE MCSnapshots ----------------------------
(* Instances of Snapshots for TLC.                                         *)
EXTENDS Snapshots, TLC

CONSTANTS f1, f2

\* Both files: the copies of the first may be whole when those of the second fail
BothFiles == {<<f1, f2>>}

Interchangeable == Permutations(Handlers) \cup Permutations(Contents)
=============================================================================
