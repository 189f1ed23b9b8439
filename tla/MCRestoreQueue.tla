--------------------------- MODULE MCRestoreQueue ---------------------------
(* The model values of RestoreQueue: repositories are alike. *)
EXTENDS RestoreQueue, TLC

Symmetry == Permutations(Keys)
=============================================================================
