--------------------------- MODULE MCSnapshotCache --------------------------
(* SnapshotCache for TLC: interchangeable callers. *)
EXTENDS SnapshotCache, TLC

CallerSymmetry == Permutations(Callers)
=============================================================================
