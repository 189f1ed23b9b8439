-------------------------- MODULE MCSnapshotCache --------------------------
(* The model values of SnapshotCache: viewers are alike. *)
EXTENDS SnapshotCache, TLC

Symmetry == Permutations(Viewers)
=============================================================================
