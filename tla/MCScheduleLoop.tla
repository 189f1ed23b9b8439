--------------------------- MODULE MCScheduleLoop ---------------------------
(* ScheduleLoop for TLC: the configurations a command may install. *)
EXTENDS ScheduleLoop

\* Schedules off, on, and on with the player gate.
MCConfigs == {[enabled |-> FALSE, gate |-> TRUE], [enabled |-> TRUE, gate |-> FALSE],
              [enabled |-> TRUE, gate |-> TRUE]}
=============================================================================
