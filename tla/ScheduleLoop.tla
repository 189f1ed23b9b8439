---------------------------- MODULE ScheduleLoop ----------------------------
(***************************************************************************)
(* The schedule threads of BackupScheduler: one for the normal backups, one *)
(* for the forced ones and one for the maintenance.  Each reads the         *)
(* configuration, computes its next time, waits for it and triggers.  A     *)
(* command that changes the configuration wakes all of them, each through   *)
(* an event of its own; stop() ends them through the same events.  The      *)
(* player gate holds a normal backup back while it counts too many players. *)
(*                                                                          *)
(* Time is left to choice: a wait may end at any moment.  What the runners  *)
(* do with a trigger is BackupSlot's business; here a backup is launched in *)
(* a thread of its own and maintenance occupies the thread that started it. *)
(***************************************************************************)
EXTENDS Naturals

CONSTANTS Normal, Forced, Maintenance,   \* the schedule threads by their trigger
          Commanders,                    \* threads that run commands (MCDR's executors)
          Configs                        \* configurations a command may install

Threads == Normal \union Forced \union Maintenance

ASSUME ScheduleAssumption ==
       /\ Normal \cap Forced = {} /\ Normal \cap Maintenance = {} /\ Forced \cap Maintenance = {}
       /\ Configs \subseteq [enabled: BOOLEAN, gate: BOOLEAN] /\ Configs # {}

VARIABLES
  config,      \* what config_provider() returns
  commanding,  \* commanders that changed the configuration and have not yet woken anybody
  shutdown,    \* "no", then "stopping" (service.stopping), "stopEvent", "woken"
  pc,          \* pc[t]: where schedule thread t is
  purpose,     \* purpose[t]: what its current _wait is for
  outdated,    \* outdated[t]: the configuration was changed since t computed its time
  wakeup       \* _wakeup_events[t].is_set()

threadVars == <<pc, purpose, outdated, wakeup>>
vars == <<config, commanding, shutdown, threadVars>>

Places   == {"top", "wait", "waiting", "woken", "due", "gate", "counting", "launching",
             "maintaining", "ended"}
Purposes == {"due", "retry", "grace", "none"}

Init == /\ config \in Configs /\ commanding = {} /\ shutdown = "no"
        /\ pc = [t \in Threads |-> "top"] /\ purpose = [t \in Threads |-> "none"]
        /\ outdated = [t \in Threads |-> FALSE] /\ wakeup = [t \in Threads |-> FALSE]

stopping  == shutdown # "no"
stopEvent == shutdown \in {"stopEvent", "woken"}

\* A wait keeps its purpose until it is over.
Goto(t, place) ==
  /\ pc' = [pc EXCEPT ![t] = place]
  /\ purpose' = [purpose EXCEPT ![t] = IF place = "waiting" THEN @ ELSE "none"]
WaitFor(t, what) == pc' = [pc EXCEPT ![t] = "wait"] /\ purpose' = [purpose EXCEPT ![t] = what]
-----------------------------------------------------------------------------
(* The head of the loop: the next time, or a short sleep when the schedule is  *)
(* off, unset or cannot be computed.                                           *)
Read(t) ==
  /\ pc[t] = "top" /\ ~stopEvent
  /\ outdated' = [outdated EXCEPT ![t] = FALSE]
  /\ \/ config.enabled /\ WaitFor(t, "due")
     \/ WaitFor(t, "retry")
  /\ UNCHANGED <<config, commanding, shutdown, wakeup>>

End(t) ==
  /\ pc[t] = "top" /\ stopEvent /\ Goto(t, "ended")
  /\ UNCHANGED <<config, commanding, shutdown, outdated, wakeup>>

(* Mistake: the event is cleared without a look at it. *)
BeginWaitBlindly(t) ==
  /\ pc[t] = "wait" /\ wakeup' = [wakeup EXCEPT ![t] = FALSE]
  /\ Goto(t, IF stopEvent THEN "top" ELSE "waiting")
  /\ UNCHANGED <<config, commanding, shutdown, outdated>>

(* _wait takes a wakeup that came before it; a wait that returns TRUE always    *)
(* leads back to the head of the loop.                                          *)
BeginWait(t) ==
  /\ pc[t] = "wait" /\ wakeup' = [wakeup EXCEPT ![t] = FALSE]
  /\ Goto(t, IF wakeup[t] \/ stopEvent THEN "top" ELSE "waiting")
  /\ UNCHANGED <<config, commanding, shutdown, outdated>>

(* event.wait returns because the event is set; the event is cleared later.    *)
Wake(t) ==
  /\ pc[t] = "waiting" /\ wakeup[t] /\ Goto(t, "woken")
  /\ UNCHANGED <<config, commanding, shutdown, outdated, wakeup>>

ClearEvent(t) ==
  /\ pc[t] = "woken" /\ wakeup' = [wakeup EXCEPT ![t] = FALSE] /\ Goto(t, "top")
  /\ UNCHANGED <<config, commanding, shutdown, outdated>>

(* Every 30 s the loop of _wait looks at the stop event. *)
NoticeStop(t) ==
  /\ pc[t] = "waiting" /\ stopEvent /\ Goto(t, "top")
  /\ UNCHANGED <<config, commanding, shutdown, outdated, wakeup>>

(* The time is over. *)
TimeOut(t) ==
  /\ pc[t] = "waiting" /\ ~stopEvent
  /\ \/ purpose[t] = "due"   /\ Goto(t, "due")
     \/ purpose[t] = "retry" /\ Goto(t, "top")
     \/ purpose[t] = "grace" /\ Goto(t, "maintaining")
  /\ UNCHANGED <<config, commanding, shutdown, outdated, wakeup>>
-----------------------------------------------------------------------------
(* The three triggers read the configuration again. A backup also ends here if *)
(* the server is not ready or nobody has played; any of them may raise.        *)
Decline(t) ==
  /\ pc[t] = "due"
  /\ t \in Maintenance => ~config.enabled
  /\ Goto(t, "top")
  /\ UNCHANGED <<config, commanding, shutdown, outdated, wakeup>>

Fail(t) ==
  /\ pc[t] \in {"due", "gate", "counting", "launching", "maintaining"} /\ WaitFor(t, "retry")
  /\ UNCHANGED <<config, commanding, shutdown, outdated, wakeup>>

(* Mistake: the gate for every backup. *)
TriggerGatesAll(t) ==
  /\ pc[t] = "due" /\ config.enabled
  /\ IF t \in Maintenance THEN WaitFor(t, "grace") ELSE Goto(t, "gate")
  /\ UNCHANGED <<config, commanding, shutdown, outdated, wakeup>>

(* The maintenance gives a backup due now a second to go first. *)
Trigger(t) ==
  /\ pc[t] = "due" /\ config.enabled
  /\ \/ t \in Normal /\ Goto(t, "gate")
     \/ t \in Forced /\ Goto(t, "launching")
     \/ t \in Maintenance /\ WaitFor(t, "grace")
  /\ UNCHANGED <<config, commanding, shutdown, outdated, wakeup>>

(* wait_for_player_gate, again every minute: the configuration, and then the     *)
(* players, counted by RCON or else by the events.  The count is an input here.   *)
GatePoll(t) ==
  /\ pc[t] = "gate"
  /\ Goto(t, IF stopping THEN "top" ELSE IF config.gate THEN "counting" ELSE "launching")
  /\ UNCHANGED <<config, commanding, shutdown, outdated, wakeup>>

GateCount(t) ==
  /\ pc[t] = "counting" /\ (Goto(t, "launching") \/ Goto(t, "gate"))
  /\ UNCHANGED <<config, commanding, shutdown, outdated, wakeup>>

(* start_deferred_thread. *)
Launch(t) ==
  /\ pc[t] = "launching" /\ Goto(t, "top")
  /\ UNCHANGED <<config, commanding, shutdown, outdated, wakeup>>

(* run_waiting gives up the wait or has been through the maintenance. *)
MaintenanceEnds(t) ==
  /\ pc[t] = "maintaining" /\ Goto(t, "top")
  /\ UNCHANGED <<config, commanding, shutdown, outdated, wakeup>>
-----------------------------------------------------------------------------
(* !!m2r start, stop and reload: the configuration, *)
Change(c) ==
  /\ commanding' = commanding \union {c} /\ config' \in Configs
  /\ outdated' = [t \in Threads |-> TRUE]
  /\ UNCHANGED <<shutdown, pc, purpose, wakeup>>

(* then wakeup(); a command whose write fails never comes here. *)
WakeAll(c) ==
  /\ c \in commanding /\ commanding' = commanding \ {c}
  /\ wakeup' = [t \in Threads |-> TRUE]
  /\ UNCHANGED <<config, shutdown, pc, purpose, outdated>>

(* shutdown_runtime: service.stopping, then the scheduler's stop(). *)
BeginShutdown ==
  /\ shutdown = "no" /\ shutdown' = "stopping"
  /\ UNCHANGED <<config, commanding, threadVars>>

SetStopEvent ==
  /\ shutdown = "stopping" /\ shutdown' = "stopEvent"
  /\ UNCHANGED <<config, commanding, threadVars>>

(* Mistake: stop() relies on the event it set, and wakes nobody. *)
StopWakesNobody ==
  /\ shutdown = "stopEvent" /\ shutdown' = "woken"
  /\ UNCHANGED <<config, commanding, threadVars>>

StopWakesAll ==
  /\ shutdown = "stopEvent" /\ shutdown' = "woken"
  /\ wakeup' = [t \in Threads |-> TRUE]
  /\ UNCHANGED <<config, commanding, pc, purpose, outdated>>
ThreadStep(t) == \/ Read(t) \/ End(t) \/ BeginWait(t) \/ Wake(t) \/ ClearEvent(t)
                 \/ Decline(t) \/ Fail(t) \/ Trigger(t) \/ GatePoll(t) \/ GateCount(t)
                 \/ Launch(t) \/ MaintenanceEnds(t)

Next == \/ \E t \in Threads : ThreadStep(t) \/ NoticeStop(t) \/ TimeOut(t)
        \/ \E c \in Commanders : Change(c) \/ WakeAll(c)
        \/ BeginShutdown \/ SetStopEvent \/ StopWakesAll

Spec == Init /\ [][Next]_vars

(* The threads and stop() go on; no wait need ever time out (NoticeStop and       *)
(* TimeOut are not fair), no command or shutdown need ever come.          *)
Fairness == /\ \A t \in Threads : WF_vars(ThreadStep(t))
            /\ WF_vars(SetStopEvent) /\ WF_vars(StopWakesAll)

FairSpec == Spec /\ Fairness
-----------------------------------------------------------------------------
(* Every variable keeps its type, only a wait has a purpose, and each thread    *)
(* stays on its own path: only normal backups meet the gate, only maintenance   *)
(* has a grace.                                                                 *)
TypeOK ==
  /\ config \in Configs /\ commanding \subseteq Commanders
  /\ shutdown \in {"no", "stopping", "stopEvent", "woken"}
  /\ pc \in [Threads -> Places] /\ purpose \in [Threads -> Purposes]
  /\ outdated \in [Threads -> BOOLEAN] /\ wakeup \in [Threads -> BOOLEAN]
  /\ \A t \in Threads : purpose[t] = "none" <=> pc[t] \notin {"wait", "waiting"}
  /\ \A t \in Threads : /\ pc[t] \in {"gate", "counting"} => t \in Normal
                        /\ pc[t] = "maintaining" \/ purpose[t] = "grace" => t \in Maintenance

(* A thread that sleeps with no wakeup pending has computed its time from the   *)
(* configuration as it is: once every command has woken the threads, none       *)
(* sleeps on with an old schedule or an old switch, whatever it was doing when  *)
(* the wakeup came (backup_scheduler.py:278).                                   *)
NoLostWakeup ==
  \A t \in Threads : commanding = {} /\ pc[t] = "waiting" /\ ~wakeup[t] => ~outdated[t]

(* stop() ends every schedule thread without waiting for a time to come: none   *)
(* sleeps through it, stays in the gate or begins to wait again.                *)
StopEnds == stopEvent ~> \A t \in Threads : pc[t] = "ended"

(* Once a command that switched the schedules off is done, no scheduled backup  *)
(* is launched ("turns off subsequent scheduled backups", docs/commands.md:93): *)
(* neither from its trigger nor after a wait in the gate.                       *)
LaunchedOnlyEnabled ==
  [][\A t \in Normal \union Forced :
       pc[t] # "launching" /\ pc'[t] = "launching" => config.enabled \/ commanding # {}]_vars
=============================================================================
