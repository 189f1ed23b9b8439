-------------------------- MODULE MCResticInstall --------------------------
(* The versions of ResticInstall: every one of two or three parts below 2. *)
EXTENDS ResticInstall

MCTrusted  == <<0, 1, 0>>
MCVersions == [1..2 -> 0..1] \union [1..3 -> 0..1]
=============================================================================
