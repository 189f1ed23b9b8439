--------------------------- MODULE MCRuntimeState ---------------------------
(* RuntimeState for TLC: the worlds of the run, and the symmetry of its threads. *)
EXTENDS RuntimeState, TLC

\* Samples alone; kills and crashes beside samples; reloads; failing writes on a
\* server that crashes.
MCWorlds == {{"rcon"}, {"kill", "crash", "rcon"}, {"reload"}, {"writeFails", "crash"}}

\* Backup threads differ only by name.
Interchangeable == Permutations(Backups) \union Permutations(Players)
=============================================================================
