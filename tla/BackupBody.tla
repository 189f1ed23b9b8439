----------------------------- MODULE BackupBody -----------------------------
(***************************************************************************)
(* What the holder of the backup slot does between entry and release: the   *)
(* repository is prepared (and initialized, if it is new), autosave is      *)
(* switched off, the world is flushed, and restic runs while a monitor      *)
(* thread counts the players.  Maintenance has only the restic part.        *)
(*                                                                          *)
(* Three kinds of threads meet here: the body, the console reader, which    *)
(* tells the save-flush watcher of every line the server prints, and the    *)
(* monitors, of which an old one may still be asking RCON for the players   *)
(* when the next task runs.  How a restic call goes is ResticProcess's       *)
(* affair, the slot around the body is BackupSlot's.                        *)
(***************************************************************************)
EXTENDS Naturals

CONSTANT Monitors   \* identities of monitor threads

VARIABLES
  pc,        \* where the body is; "idle" when no task holds the slot
  task,      \* "backup" or "maintenance"
  cancel,    \* backup.cancel
  repo,      \* the local repository: "absent" or "ready"
  armed,     \* save_flush_watcher._patterns is not empty
  event,     \* its event: "clear", or set by a line of this arming ("own") or an earlier one ("old")
  console,   \* the console reader: "idle", or inside notify_output
  line,      \* history: the line it holds was handed to it under this arming or an earlier one
  heldUp,    \* history: the reader was inside notify_output when the watcher was armed
  flush,     \* how the wait for the flush ended: "none", "own", "old", "timeout"
  monitor,   \* monitor[m]: where monitor thread m is
  stop,      \* stop[m]: its _stop_event
  over,      \* over[m]: no over-limit spell, a recent one, or one of overlimit_seconds
  own        \* history: own[m]: no task has entered since the one that started m

watcher  == <<armed, event, console, line, heldUp>>
watchers == <<monitor, stop, over, own>>
vars     == <<pc, task, cancel, repo, watcher, flush, watchers>>

Places == {"idle", "prepare", "init", "saveOff", "settling", "arming", "saveAll", "waiting",
           "disarm", "clear", "gate", "restic", "running", "stopping", "joining"}

Init == /\ pc = "idle" /\ task = "backup" /\ cancel = FALSE /\ repo \in {"absent", "ready"}
        /\ armed = FALSE /\ event = "clear"
        /\ console = "idle" /\ line = "old" /\ heldUp = FALSE /\ flush = "none"
        /\ monitor = [m \in Monitors |-> "off"] /\ stop = [m \in Monitors |-> FALSE]
        /\ over = [m \in Monitors |-> "no"] /\ own = [m \in Monitors |-> FALSE]

Goto(place) == pc' = place /\ UNCHANGED <<task, cancel, repo, flush>>

(* The body is over; the slot is released and the event cleared with it. *)
Release == pc' = "idle" /\ cancel' = FALSE
Leave   == Release /\ UNCHANGED <<task, repo, flush>>
-----------------------------------------------------------------------------
(* The slot is taken. The event is cleared only where it is not set: what an    *)
(* older monitor or a late request has set by then cancels this task (P1-7).    *)
Enter ==
  /\ pc = "idle" /\ pc' = "prepare" /\ task' \in {"backup", "maintenance"}
  /\ flush' = "none" /\ own' = [m \in Monitors |-> FALSE]
  /\ UNCHANGED <<cancel, repo, watcher, monitor, stop, over>>

(* The server, the sources, the executable or the disk may be in the way.  A  *)
(* local repository without a config file is initialized, if that is wanted.   *)
Prepare ==
  /\ pc = "prepare"
  /\ \/ Leave
     \/ repo = "absent" /\ Goto("init")
     \/ Goto(IF task = "backup" THEN "saveOff" ELSE "restic")
  /\ UNCHANGED <<watcher, watchers>>

(* A repository that was initialized just now needs no maintenance. *)
InitRepository ==
  /\ pc = "init"
  /\ \/ Leave
     \/ /\ repo' = "ready" /\ UNCHANGED <<task, flush>>
        /\ IF task = "backup" THEN pc' = "saveOff" /\ UNCHANGED cancel ELSE Release
  /\ UNCHANGED <<watcher, watchers>>

(* A server that does not run takes no command. *)
SaveOff ==
  /\ pc = "saveOff" /\ (Leave \/ (~cancel /\ Goto("settling")))
  /\ UNCHANGED <<watcher, watchers>>

(* sleep_or_cancel looks at the event every 0.2 s, and the body once more. *)
Settle ==
  /\ pc = "settling" /\ (IF cancel THEN Leave ELSE Goto("arming"))
  /\ UNCHANGED <<watcher, watchers>>

(* Without patterns or without a timeout the flush is not waited for. *)
SaveAllUnwatched ==
  /\ pc = "arming" /\ (Leave \/ (~cancel /\ Goto("gate")))
  /\ UNCHANGED <<watcher, watchers>>

(* Mistake: the event keeps what an earlier wait left behind. *)
ArmOnly ==
  /\ pc = "arming" /\ Goto("saveAll") /\ armed' = TRUE
  /\ line' = "old" /\ heldUp' = (console # "idle")
  /\ UNCHANGED <<event, console, watchers>>

Arm ==
  /\ pc = "arming" /\ Goto("saveAll") /\ armed' = TRUE /\ event' = "clear"
  /\ line' = "old" /\ heldUp' = (console # "idle")
  /\ UNCHANGED <<console, watchers>>

SaveAll ==
  /\ pc = "saveAll" /\ (Goto("waiting") \/ Goto("disarm"))
  /\ UNCHANGED <<watcher, watchers>>

(* Mistake: only the line ends the wait. *)
WaitForLine ==
  /\ pc = "waiting" /\ pc' = "disarm" /\ event # "clear" /\ flush' = event
  /\ UNCHANGED <<task, cancel, repo, watcher, watchers>>

(* wait returns the event's state; or it is over, or it sees the cancel event. *)
WaitEnds ==
  /\ pc = "waiting" /\ pc' = "disarm"
  /\ \/ event # "clear" /\ flush' = event
     \/ event = "clear" /\ flush' \in {"timeout", IF cancel THEN "none" ELSE "timeout"}
  /\ UNCHANGED <<task, cancel, repo, watcher, watchers>>

(* disarm drops the patterns under its lock and clears the event after it. *)
Disarm ==
  /\ pc = "disarm" /\ Goto("clear") /\ armed' = FALSE
  /\ UNCHANGED <<event, console, line, heldUp, watchers>>

ClearEvent ==
  /\ pc = "clear" /\ (IF flush = "none" THEN Leave ELSE Goto("gate")) /\ event' = "clear"
  /\ UNCHANGED <<armed, console, line, heldUp, watchers>>

(* The monitor runs if the gate is on; its thread is a new one. *)
StartMonitor ==
  /\ pc = "gate" /\ Goto("restic")
  /\ \/ \E m \in Monitors :
          /\ monitor[m] = "off"
          /\ monitor' = [monitor EXCEPT ![m] = "sleeping"] /\ stop' = [stop EXCEPT ![m] = FALSE]
          /\ over' = [over EXCEPT ![m] = "no"] /\ own' = [own EXCEPT ![m] = TRUE]
     \/ UNCHANGED watchers
  /\ UNCHANGED watcher

(* Before each restic command the body looks at the event. *)
BeginRestic ==
  /\ pc = "restic" /\ Goto(IF cancel THEN "stopping" ELSE "running")
  /\ UNCHANGED <<watcher, watchers>>

(* A call ends: the task is over, or maintenance has another command.  A      *)
(* successful one has marked the snapshot cache invalid (SnapshotCache).      *)
ResticEnds ==
  /\ pc = "running"
  /\ \/ Goto("stopping")
     \/ task = "maintenance" /\ Goto("restic")
  /\ UNCHANGED <<watcher, watchers>>

(* Mistake: the monitor is joined but not told to stop. *)
JoinOnly ==
  /\ pc = "stopping" /\ Goto("joining") /\ UNCHANGED <<watcher, watchers>>

StopMonitor ==
  /\ pc = "stopping" /\ Goto("joining")
  /\ stop' = [m \in Monitors |-> stop[m] \/ own[m]]
  /\ UNCHANGED <<watcher, monitor, over, own>>

(* The join lasts five seconds at most, however long RCON takes. *)
JoinMonitor ==
  /\ pc = "joining" /\ Leave /\ UNCHANGED <<watcher, watchers>>

Body == \/ Prepare \/ SaveOff \/ Settle \/ SaveAllUnwatched \/ Arm \/ SaveAll
        \/ WaitEnds \/ Disarm \/ ClearEvent \/ StartMonitor \/ BeginRestic
        \/ StopMonitor \/ JoinMonitor
-----------------------------------------------------------------------------
(* notify_output, called for every line: first a look whether it is armed, ... *)
Notify ==
  /\ console = "idle" /\ armed /\ console' = "tested" /\ line' = "own"
  /\ UNCHANGED <<pc, task, cancel, repo, armed, event, heldUp, flush, watchers>>

(* ... then one at the event and a copy of the patterns, ... *)
Match ==
  /\ console = "tested" /\ console' = IF armed /\ event = "clear" THEN "matched" ELSE "idle"
  /\ UNCHANGED <<pc, task, cancel, repo, armed, event, line, heldUp, flush, watchers>>

(* ... and only then the event. *)
SetEvent ==
  /\ console = "matched" /\ console' = "idle"
  /\ event' = IF event = "clear" THEN line ELSE event
  /\ UNCHANGED <<pc, task, cancel, repo, armed, line, heldUp, flush, watchers>>
-----------------------------------------------------------------------------
(* A monitor's round: sixty seconds, unless it is stopped; none if a cancel *)
(* is already under way.                                                     *)
MonitorMoves(m, place) ==
  monitor' = [monitor EXCEPT ![m] = place]
    /\ UNCHANGED <<pc, task, repo, watcher, flush, stop, own>>

StopSeen(m) ==
  /\ monitor[m] = "sleeping" /\ stop[m] /\ MonitorMoves(m, "off") /\ UNCHANGED <<cancel, over>>

Poll(m) ==
  /\ monitor[m] = "sleeping" /\ ~stop[m]
  /\ MonitorMoves(m, IF cancel THEN "off" ELSE "sampling") /\ UNCHANGED <<cancel, over>>

(* No count lets the backup go on; a count below the limit ends the spell. *)
NoCount(m) ==
  /\ monitor[m] = "sampling" /\ MonitorMoves(m, "sleeping") /\ UNCHANGED <<cancel, over>>

InLimit(m) ==
  /\ monitor[m] = "sampling" /\ MonitorMoves(m, "sleeping")
  /\ over' = [over EXCEPT ![m] = "no"] /\ UNCHANGED cancel

(* The first count over the limit warns, later ones interrupt in due time. *)
OverLimit(m) ==
  /\ monitor[m] = "sampling"
  /\ MonitorMoves(m, IF over[m] = "long" THEN "interrupting" ELSE "sleeping")
  /\ over' = [over EXCEPT ![m] = IF @ = "no" THEN "recent" ELSE @] /\ UNCHANGED cancel

SpellGrows(m) ==
  /\ over[m] = "recent" /\ over' = [over EXCEPT ![m] = "long"]
  /\ UNCHANGED <<pc, task, cancel, repo, watcher, flush, monitor, stop, own>>

Interrupt(m) ==
  /\ monitor[m] = "interrupting" /\ MonitorMoves(m, "off") /\ cancel' = TRUE /\ UNCHANGED over

MonitorRound(m) == StopSeen(m) \/ Poll(m) \/ NoCount(m) \/ InLimit(m) \/ OverLimit(m) \/ Interrupt(m)
-----------------------------------------------------------------------------
UserCancels ==
  /\ pc # "idle" /\ ~cancel /\ cancel' = TRUE
  /\ UNCHANGED <<pc, task, repo, watcher, flush, watchers>>

Next == \/ Enter \/ Body \/ InitRepository \/ ResticEnds \/ UserCancels
        \/ Notify \/ Match \/ SetEvent
        \/ \E m \in Monitors : MonitorRound(m) \/ SpellGrows(m)

Spec == Init /\ [][Next]_vars

(* The body's thread goes on, and a restic call that is cancelled ends         *)
(* (ResticProcess.InterruptEnds).  A monitor goes on, and RCON answers or times *)
(* out.                                                                         *)
FairSpec == /\ Spec /\ WF_vars(Body) /\ WF_vars(cancel /\ (InitRepository \/ ResticEnds))
            /\ \A m \in Monitors : WF_vars(MonitorRound(m))
-----------------------------------------------------------------------------
TypeOK ==
  /\ pc \in Places /\ task \in {"backup", "maintenance"} /\ cancel \in BOOLEAN
  /\ repo \in {"absent", "ready"}
  /\ armed \in BOOLEAN /\ event \in {"clear", "own", "old"}
  /\ console \in {"idle", "tested", "matched"} /\ line \in {"own", "old"} /\ heldUp \in BOOLEAN
  /\ flush \in {"none", "own", "old", "timeout"}
  /\ monitor \in [Monitors -> {"off", "sleeping", "sampling", "interrupting"}]
  /\ stop \in [Monitors -> BOOLEAN] /\ own \in [Monitors -> BOOLEAN]
  /\ over \in [Monitors -> {"no", "recent", "long"}]

(* A flush that is taken for complete was reported by a line that reached the  *)
(* plugin (plugin.py:165) since the watcher was armed, unless notify_output was *)
(* on its way with an older line at that very moment.  Lines that come while    *)
(* nobody waits, or between the two halves of disarm, are never taken for the   *)
(* next flush.  When the server printed a line is not known to the plugin.      *)
NoFalseFlush == flush = "old" => heldUp

(* A cancelled body ends, at whatever it waits. *)
BodyEnds == cancel /\ pc # "idle" ~> pc = "idle"

(* A monitor that was told to stop ends, though the body waits for it for five *)
(* seconds only: none is left polling for the life of the server.               *)
MonitorsEnd == \A m \in Monitors : monitor[m] # "off" /\ ~own[m] ~> monitor[m] = "off"

(* docstring at player_gate_service.py:136: the monitor cancels the backup     *)
(* during whose save-off window it counts the players.                          *)
InterruptsItsBackup == \A m \in Monitors : monitor[m] = "interrupting" => own[m]
=============================================================================
