----------------------------- MODULE BackupSlot -----------------------------
(***************************************************************************)
(* The backup slot: PluginRuntime.backup (core/runtime.py) and every        *)
(* thread that competes for it.  The slot is one mutex plus three shared    *)
(* fields that are not protected by it: the label that tells who is         *)
(* inside, the registered thread, and the single cancel event that backup,  *)
(* maintenance, manual restic commands and the restore workflow share.      *)
(*                                                                          *)
(* A thread of one of the five kinds below runs its code path again and     *)
(* again.  The restore workflow appears here only through what it does to   *)
(* the slot, to its own lock and to the world's autosave (the actions       *)
(* Restore...): RestoreWorkflow.tla is the detailed specification and is    *)
(* checked to implement this one.                                           *)
(***************************************************************************)
EXTENDS Naturals, FiniteSets

CONSTANTS ManualBackups,        \* !!m2r backup:       BackupRunner.start_thread
          ScheduledBackups,     \* scheduler backups:  BackupRunner.run_locked(wait_for_slot)
          ManualMaintenance,    \* !!m2r maintenance:  MaintenanceRunner.start_thread
          ScheduledMaintenance, \* scheduler prune:    MaintenanceRunner.run_waiting
          Commands,             \* init/unlock/exec:   ResticCommands
          NoThread              \* backup.thread = None

Backups     == ManualBackups \union ScheduledBackups
Maintenance == ManualMaintenance \union ScheduledMaintenance
Starters    == ManualBackups \union ManualMaintenance       \* start_thread
Waiters     == ScheduledBackups \union ScheduledMaintenance \* acquire_backup_slot_waiting
Thread      == Backups \union Maintenance \union Commands

ASSUME ThreadAssumption ==
       /\ NoThread \notin Thread
       /\ ManualBackups \intersect ScheduledBackups = {}
       /\ ManualMaintenance \intersect ScheduledMaintenance = {}
       /\ Backups \intersect Maintenance = {}
       /\ Commands \intersect (Backups \union Maintenance) = {}

VARIABLES
  pc,          \* pc[t]: where thread t is in its code path
  lock,        \* runtime.backup.lock.locked()
  label,       \* runtime.backup.label, by class of task
  owner,       \* runtime.backup.thread
  cancel,      \* runtime.backup.cancel.is_set()
  outcome,     \* outcome[t]: how t's tenure of the slot ended, until it has left
  asked,       \* history: threads that were asked to cancel during this tenure
  restoreHeld, \* runtime.restore.lock.locked()
  restorer,    \* the restore workflow's hold on the slot
  executor,    \* the MCDR task executor that runs commands and events
  stopping,    \* runtime.service.stopping.is_set()
  shutdown,    \* progress of PluginEntrypoint.shutdown_runtime
  serverUp,    \* the Minecraft server process is running
  stopEvent,   \* an on_server_stop event waits for the executor
  saving       \* world autosave: on, off, or off because save-on itself failed

threadVars == <<pc, outcome>>
slotVars   == <<lock, label, owner, cancel, asked>>
worldVars  == <<serverUp, stopEvent, saving>>
pluginVars == <<executor, stopping, shutdown>>
vars == <<threadVars, slotVars, restoreHeld, restorer, pluginVars, worldVars>>

PC == {"idle", "spawned", "checked", "polling", "acquiring", "timedOut",
       "starting", "entered", "labelled", "paused", "restic", "ended",
       "releasing", "cleared"}
Outcomes  == {"none", "success", "failed", "canceled"}
Labels    == {"none", "backup", "maintenance", "command", "restore"}
Executors == {"free", "command", "cancel", "restore", "shutdown"}
Restorers == {"away", "acquired", "inside", "cleared"}
Shutdowns == {"up", "begun", "cancelling", "saving", "down"}

(* The places of a code path at which the thread holds backup.lock. *)
InSlot == {"starting", "entered", "labelled", "paused", "restic", "ended",
           "releasing", "cleared"}
(* The restore workflow's thread holds backup.lock. *)
RestorerInSlot == restorer \in {"acquired", "inside", "cleared"}
Holding(t) == pc[t] \in InSlot
(* A backup thread that has sent save-off and not yet tried save-on. *)
OwesSaveOn == {"paused", "restic", "ended"}
(* server_is_running: server_ready stays set until on_server_stop is handled. *)
ServerSeen == serverUp \/ stopEvent
(* Mistake: the label is the raw command word. *)
LabelOfRaw(t) == IF t \in Maintenance THEN "maintenance" ELSE "manual"

(* The label a task class writes: only "maintenance" is ever compared with. *)
LabelOf(t) == IF t \in Maintenance THEN "maintenance"
              ELSE IF t \in Commands THEN "command" ELSE "backup"

Init == /\ pc = [t \in Thread |-> "idle"]
        /\ outcome = [t \in Thread |-> "none"]
        /\ lock = FALSE /\ label = "none" /\ owner = NoThread
        /\ cancel = FALSE /\ asked = {}
        /\ restoreHeld = FALSE /\ restorer = "away"
        /\ executor = "free" /\ stopping = FALSE /\ shutdown = "up"
        /\ serverUp \in BOOLEAN /\ stopEvent = FALSE /\ saving = "on"
-----------------------------------------------------------------------------
Goto(t, place) == pc' = [pc EXCEPT ![t] = place]
End(t, place, result) == /\ Goto(t, place)
                         /\ outcome' = [outcome EXCEPT ![t] = result]

(* The start of a tenure of the slot. *)
Enter(t, place) == ~lock /\ lock' = TRUE /\ Goto(t, place)

(* Mistake: commands are served by a pool, not by one executor thread. *)
CommandCheckPooled(t) ==
  /\ t \in Starters \union Commands /\ pc[t] = "idle"
  /\ ~stopping /\ ~restoreHeld
  /\ t \in ManualBackups => ServerSeen
  /\ Goto(t, "checked")
  /\ UNCHANGED <<outcome, slotVars, restoreHeld, restorer, executor, stopping, shutdown, worldVars>>

(* A command (backup, maintenance, init, unlock, exec) on the executor sees   *)
(* the restore lock free; a busy restore refuses it without a state change.   *)
CommandCheck(t) ==
  /\ t \in Starters \union Commands /\ pc[t] = "idle"
  /\ executor = "free" /\ ~stopping /\ ~restoreHeld
  /\ t \in ManualBackups => ServerSeen
  /\ executor' = "command"
  /\ Goto(t, "checked")
  /\ UNCHANGED <<outcome, slotVars, restoreHeld, restorer, stopping, shutdown, worldVars>>

(* Mistake: the refusal shares the finally clause that releases the slot. *)
CommandAcquireFreesBusy(t) ==
  /\ pc[t] = "checked"
  /\ \/ ~lock /\ Enter(t, IF t \in Commands THEN "entered" ELSE "starting")
        /\ owner' = (IF t \in Commands THEN owner ELSE t) /\ UNCHANGED executor
     \/ lock /\ lock' = FALSE /\ Goto(t, "idle") /\ executor' = "free" /\ UNCHANGED owner
  /\ UNCHANGED <<outcome, label, cancel, asked, restoreHeld, restorer, stopping, shutdown, worldVars>>

(* acquire(blocking=False): the slot, or a reply that it is busy. start_thread *)
(* registers the thread object before it starts it.                            *)
CommandAcquire(t) ==
  /\ pc[t] = "checked"
  /\ \/ /\ Enter(t, IF t \in Commands THEN "entered" ELSE "starting")
        /\ owner' = IF t \in Commands THEN owner ELSE t
        /\ UNCHANGED executor
     \/ /\ lock /\ Goto(t, "idle")
        /\ executor' = "free"
        /\ UNCHANGED <<lock, owner>>
  /\ UNCHANGED <<outcome, label, cancel, asked, restoreHeld, restorer, stopping, shutdown, worldVars>>

(* thread.start(): on failure the slot is rolled back and the error re-raised. *)
StartThread(t) ==
  /\ pc[t] = "starting" /\ executor' = "free"
  /\ \/ Goto(t, "entered") /\ UNCHANGED outcome
     \/ End(t, "releasing", "failed")
  /\ UNCHANGED <<slotVars, restoreHeld, restorer, stopping, shutdown, worldVars>>

(* The scheduler starts a deferred thread or calls run_waiting. Its threads are *)
(* joined with a timeout, so a slow trigger may come as late as the shutdown.   *)
Trigger(t) ==
  /\ t \in Waiters /\ pc[t] = "idle" /\ shutdown # "down"
  /\ t \in ScheduledBackups => ServerSeen
  /\ Goto(t, "spawned")
  /\ UNCHANGED <<outcome, slotVars, restoreHeld, restorer, pluginVars, worldVars>>

(* run_locked / run_waiting: the restore lock is looked at once, before waiting. *)
WaiterCheck(t) ==
  /\ pc[t] = "spawned"
  /\ Goto(t, IF restoreHeld THEN "idle" ELSE "polling")
  /\ UNCHANGED <<outcome, slotVars, restoreHeld, restorer, pluginVars, worldVars>>

(* Mistake: the loop never looks at the stop event again. *)
PollStoppingIgnored(t) ==
  /\ pc[t] = "polling" /\ Goto(t, "acquiring")
  /\ UNCHANGED <<outcome, slotVars, restoreHeld, restorer, pluginVars, worldVars>>

(* Top of acquire_backup_slot_waiting's loop: give up once the plugin stops. *)
PollStopping(t) ==
  /\ pc[t] = "polling"
  /\ Goto(t, IF stopping THEN "idle" ELSE "acquiring")
  /\ UNCHANGED <<outcome, slotVars, restoreHeld, restorer, pluginVars, worldVars>>

(* lock.acquire(timeout=1): taken, or still busy when the second is over. *)
PollAcquire(t) ==
  /\ pc[t] = "acquiring"
  /\ \/ Enter(t, "entered")
     \/ lock /\ Goto(t, "timedOut") /\ UNCHANGED lock
  /\ UNCHANGED <<outcome, label, owner, cancel, asked, restoreHeld, restorer, pluginVars, worldVars>>

(* give_up_when: a scheduled backup waits only behind maintenance. *)
PollGiveUp(t) ==
  /\ pc[t] = "timedOut"
  /\ Goto(t, IF t \in ScheduledBackups /\ label # "maintenance" THEN "idle" ELSE "polling")
  /\ UNCHANGED <<outcome, slotVars, restoreHeld, restorer, pluginVars, worldVars>>
-----------------------------------------------------------------------------
(* Mistake: the event is cleared whatever came before (P1-7). *)
ClearedOnEntryAlways(t) == FALSE

(* _run_with_acquired_lock of both runners: register and label. The event is  *)
(* cleared only when it is not set, so a request that came first survives.    *)
ClearedOnEntry(t) == IF cancel THEN cancel ELSE FALSE
TaskEnter(t) ==
  /\ pc[t] = "entered" /\ t \notin Commands
  /\ label' = LabelOf(t)
  /\ owner' = IF t \in Backups THEN t ELSE owner
  /\ cancel' = ClearedOnEntry(t)
  /\ Goto(t, "labelled")
  /\ UNCHANGED <<outcome, lock, asked, restoreHeld, restorer, pluginVars, worldVars>>

(* command_manage_repository / command_exec: label, clear the event, register, *)
(* then run restic on the command thread, which MCDR replaces when it blocks.  *)
CommandEnter(t) ==
  /\ pc[t] = "entered" /\ t \in Commands
  /\ label' = LabelOf(t) /\ cancel' = FALSE /\ owner' = t
  /\ executor' = "free"
  /\ Goto(t, "restic")
  /\ UNCHANGED <<outcome, lock, asked, restoreHeld, restorer, stopping, shutdown, worldVars>>

(* Mistake: an ended body goes straight to the release, without save-on. *)
BodyFailsWithoutSaveOn(t) ==
  /\ t \in Backups /\ pc[t] \in {"labelled", "paused"}
  /\ \E result \in {"canceled", "failed"} : End(t, "releasing", result)
  /\ UNCHANGED <<slotVars, restoreHeld, restorer, pluginVars, worldVars>>

(* An error or a seen cancel request ends run_backup_body; save-on comes next.  *)
(* When not even the start could be recorded there is no body and no save-on.   *)
BodyFails(t) ==
  /\ t \in Backups /\ pc[t] \in {"labelled", "paused"}
  /\ \/ cancel /\ End(t, "ended", "canceled")
     \/ End(t, "ended", "failed")
     \/ pc[t] = "labelled" /\ End(t, "releasing", "failed")
  /\ UNCHANGED <<slotVars, restoreHeld, restorer, pluginVars, worldVars>>

(* prepare_minecraft_for_backup: save-off, which a server just gone never gets. *)
SaveOff(t) ==
  /\ t \in Backups /\ pc[t] = "labelled" /\ ~cancel /\ ServerSeen
  /\ saving' = IF serverUp THEN "off" ELSE saving
  /\ Goto(t, "paused")
  /\ UNCHANGED <<outcome, slotVars, restoreHeld, restorer, pluginVars, serverUp, stopEvent>>

(* save-all was flushed or timed out and no cancel was seen: restic starts. *)
StartRestic(t) ==
  /\ t \in Backups /\ pc[t] = "paused" /\ ~cancel
  /\ Goto(t, "restic")
  /\ UNCHANGED <<outcome, slotVars, restoreHeld, restorer, pluginVars, worldVars>>

(* run_maintenance_body: check_canceled before each configured command; the   *)
(* repository preparation may fail or run out of commands.                    *)
MaintenanceNext(t) ==
  /\ t \in Maintenance /\ pc[t] = "labelled"
  /\ \/ ~cancel /\ Goto(t, "restic") /\ UNCHANGED outcome
     \/ ~cancel /\ End(t, "releasing", "success")
     \/ cancel /\ End(t, "releasing", "canceled")
     \/ End(t, "releasing", "failed")
  /\ UNCHANGED <<slotVars, restoreHeld, restorer, pluginVars, worldVars>>

(* restic is over. A cancel request makes it canceled unless it had already   *)
(* exited with 0 (assert_restic_process_completed).                           *)
AfterRestic(t) == IF t \in Backups THEN "ended" ELSE "releasing"
ResticEnds(t) ==
  /\ pc[t] = "restic"
  /\ \/ cancel /\ End(t, AfterRestic(t), "canceled")
     \/ End(t, AfterRestic(t), "failed")
     \/ t \in Maintenance /\ Goto(t, "labelled") /\ UNCHANGED outcome
     \/ t \notin Maintenance /\ End(t, AfterRestic(t), "success")
  /\ UNCHANGED <<slotVars, restoreHeld, restorer, pluginVars, worldVars>>

(* try_force_save_on: the command reaches a running server or raises; a stopped *)
(* server needs none.                                                           *)
ForceSaveOn(raised) ==
  /\ raised => ServerSeen
  /\ saving' = IF ~serverUp THEN saving
               ELSE IF raised /\ saving # "on" THEN "stuck" ELSE "on"

(* _include_save_on_result: success turns into failure when save-on failed. *)
SaveOn(t) ==
  /\ pc[t] = "ended"
  /\ \E raised \in BOOLEAN :
       /\ ForceSaveOn(raised)
       /\ End(t, "releasing", IF raised /\ outcome[t] = "success" THEN "failed" ELSE outcome[t])
  /\ UNCHANGED <<slotVars, restoreHeld, restorer, pluginVars, serverUp, stopEvent>>

(* release_backup_slot, first half: the shared fields. *)
ReleaseClear(t) ==
  /\ pc[t] = "releasing"
  /\ label' = "none" /\ owner' = NoThread /\ cancel' = FALSE
  /\ Goto(t, "cleared")
  /\ UNCHANGED <<outcome, lock, asked, restoreHeld, restorer, pluginVars, worldVars>>

(* release_backup_slot, second half: the lock. *)
ReleaseUnlock(t) ==
  /\ pc[t] = "cleared"
  /\ lock' = FALSE
  /\ End(t, "idle", "none") /\ asked' = asked \ {t}
  /\ UNCHANGED <<label, owner, cancel, restoreHeld, restorer, pluginVars, worldVars>>

(* Mistake: the lock is released before the fields are cleared. *)
ReleaseUnlocksFirst(t) ==
  /\ pc[t] \in {"releasing", "cleared"}
  /\ IF pc[t] = "releasing"
       THEN /\ lock' = FALSE /\ Goto(t, "cleared") /\ asked' = asked \ {t}
            /\ UNCHANGED <<outcome, label, owner, cancel>>
       ELSE /\ label' = "none" /\ owner' = NoThread /\ cancel' = FALSE
            /\ End(t, "idle", "none") /\ UNCHANGED <<lock, asked>>
  /\ UNCHANGED <<restoreHeld, restorer, pluginVars, worldVars>>

(* PluginRuntime.release_backup_slot, in the finally clause of every task. *)
Release(t) == ReleaseClear(t) \/ ReleaseUnlock(t)
-----------------------------------------------------------------------------
(* The threads inside the slot whose tenure a request made now is aimed at. *)
Aimed == {t \in Thread : Holding(t) /\ pc[t] # "cleared"}

(* A cancel, stop or server-stop handler on the executor first looks at the    *)
(* locks, then sets the event: two steps with the worker threads in between.   *)
CancelCheck ==
  /\ executor = "free" /\ ~stopping /\ (lock \/ restoreHeld)
  /\ executor' = "cancel"
  /\ UNCHANGED <<threadVars, slotVars, restoreHeld, restorer, stopping, shutdown, worldVars>>

(* request_cancel_current_process: set the event and terminate the process. *)
SetCancel == cancel' = TRUE /\ asked' = asked \union Aimed

CancelSet ==
  /\ executor = "cancel" /\ executor' = "free"
  /\ SetCancel
  /\ UNCHANGED <<threadVars, lock, label, owner, restoreHeld, restorer, stopping, shutdown, worldVars>>

(* The restore workflow ends and gives up its lock. It never leaves autosave   *)
(* off behind unless a backup thread still owes its save-on.                   *)
EndsRestore == /\ restoreHeld /\ restoreHeld' = FALSE
               /\ serverUp /\ saving = "off" => \E t \in Backups : pc[t] \in OwesSaveOn

(* on_server_stop: a running backup is cancelled, except that the event may    *)
(* drive a restore on or end it instead.                                       *)
OnServerStop ==
  /\ stopEvent /\ executor = "free"
  /\ stopEvent' = FALSE
  /\ \/ lock /\ ~stopping /\ executor' = "cancel" /\ UNCHANGED restoreHeld
     \/ (~lock \/ restoreHeld \/ stopping) /\ UNCHANGED <<executor, restoreHeld>>
     \/ EndsRestore /\ UNCHANGED executor
  /\ UNCHANGED <<threadVars, slotVars, restorer, stopping, shutdown, serverUp, saving>>

ServerDown ==
  /\ serverUp /\ serverUp' = FALSE /\ stopEvent' = TRUE
  /\ UNCHANGED <<threadVars, slotVars, restoreHeld, restorer, pluginVars, saving>>

(* A fresh server process saves the world by default. *)
ServerStarts ==
  /\ ~serverUp /\ ~stopEvent /\ serverUp' = TRUE /\ saving' = "on"
  /\ UNCHANGED <<threadVars, slotVars, restoreHeld, restorer, pluginVars, stopEvent>>
-----------------------------------------------------------------------------
(* shutdown_runtime on the executor: stop the waiters' loops (the scheduler is *)
(* joined with a timeout), cancel a running backup and join it with a timeout, *)
(* then force save-on.                                                         *)
ShutdownBegin ==
  /\ shutdown = "up" /\ executor = "free"
  /\ stopping' = TRUE /\ shutdown' = "begun" /\ executor' = "shutdown"
  /\ UNCHANGED <<threadVars, slotVars, restoreHeld, restorer, worldVars>>

ShutdownCheck ==
  /\ shutdown = "begun"
  /\ shutdown' = IF lock THEN "cancelling" ELSE "saving"
  /\ UNCHANGED <<threadVars, slotVars, restoreHeld, restorer, executor, stopping, worldVars>>

ShutdownCancel ==
  /\ shutdown = "cancelling" /\ shutdown' = "saving"
  /\ SetCancel
  /\ UNCHANGED <<threadVars, lock, label, owner, restoreHeld, restorer, executor, stopping, worldVars>>

ShutdownSaveOn ==
  /\ shutdown = "saving" /\ shutdown' = "down" /\ executor' = "free"
  /\ \E raised \in BOOLEAN : ForceSaveOn(raised)
  /\ UNCHANGED <<threadVars, slotVars, restoreHeld, restorer, stopping, serverUp, stopEvent>>
-----------------------------------------------------------------------------
(* Mistake: restore apply does not ask whether a backup is running. *)
RestoreCheckIgnoresBackup ==
  /\ executor = "free" /\ ~stopping /\ ServerSeen
  /\ executor' = "restore"
  /\ UNCHANGED <<threadVars, slotVars, restoreHeld, restorer, stopping, shutdown, worldVars>>

(* The restore workflow, as far as the slot can tell. restore apply runs on   *)
(* the executor: it sees that no backup runs,                                  *)
RestoreCheck ==
  /\ executor = "free" /\ ~stopping /\ ~lock /\ ServerSeen
  /\ executor' = "restore"
  /\ UNCHANGED <<threadVars, slotVars, restoreHeld, restorer, stopping, shutdown, worldVars>>

(* and only then takes the restore lock; a busy lock or a thread that fails to *)
(* start leaves nothing behind.                                                *)
RestoreTake ==
  /\ executor = "restore" /\ executor' = "free"
  /\ \/ ~restoreHeld /\ restoreHeld' = TRUE
     \/ UNCHANGED restoreHeld
  /\ UNCHANGED <<threadVars, slotVars, restorer, stopping, shutdown, worldVars>>

(* acquire_restore_pre_backup_slot for the safety snapshot. *)
RestoreAcquire ==
  /\ restoreHeld /\ restorer = "away" /\ ~lock
  /\ lock' = TRUE /\ restorer' = "acquired"
  /\ UNCHANGED <<threadVars, label, owner, cancel, asked, restoreHeld, pluginVars, worldVars>>

RestoreEnter ==
  /\ restorer = "acquired" /\ restorer' = "inside"
  /\ label' = "restore" /\ cancel' = FALSE
  /\ UNCHANGED <<threadVars, lock, owner, asked, restoreHeld, pluginVars, worldVars>>

(* The safety snapshot is a backup body: save-off while it runs. *)
RestoreSaveOff ==
  /\ restorer = "inside" /\ restoreHeld /\ ServerSeen
  /\ saving' = IF serverUp THEN "off" ELSE saving
  /\ UNCHANGED <<threadVars, slotVars, restoreHeld, restorer, pluginVars, serverUp, stopEvent>>

RestoreSaveOn ==
  /\ \E raised \in BOOLEAN : ForceSaveOn(raised)
  /\ UNCHANGED <<threadVars, slotVars, restoreHeld, restorer, pluginVars, serverUp, stopEvent>>

RestoreClear ==
  /\ restorer = "inside" /\ restorer' = "cleared"
  /\ label' = "none" /\ owner' = NoThread /\ cancel' = FALSE
  /\ UNCHANGED <<threadVars, lock, asked, restoreHeld, pluginVars, worldVars>>

RestoreUnlock ==
  /\ restorer = "cleared" /\ restorer' = "away" /\ lock' = FALSE
  /\ UNCHANGED <<threadVars, label, owner, cancel, asked, restoreHeld, pluginVars, worldVars>>

(* finish_restore_workflow, by whichever thread ends the workflow. *)
RestoreFinish ==
  /\ EndsRestore
  /\ UNCHANGED <<threadVars, slotVars, restorer, pluginVars, worldVars>>
-----------------------------------------------------------------------------
ThreadStep(t) ==
  \/ CommandCheck(t) \/ CommandAcquire(t) \/ StartThread(t)
  \/ Trigger(t) \/ WaiterCheck(t) \/ PollStopping(t) \/ PollAcquire(t) \/ PollGiveUp(t)
  \/ TaskEnter(t) \/ CommandEnter(t)
  \/ BodyFails(t) \/ SaveOff(t) \/ StartRestic(t) \/ MaintenanceNext(t)
  \/ ResticEnds(t) \/ SaveOn(t) \/ Release(t)

PluginStep == \/ CancelCheck \/ CancelSet \/ OnServerStop
              \/ ShutdownBegin \/ ShutdownCheck \/ ShutdownCancel \/ ShutdownSaveOn

WorldStep == ServerDown \/ ServerStarts

RestoreStep == \/ RestoreCheck \/ RestoreTake \/ RestoreAcquire \/ RestoreEnter
               \/ RestoreSaveOff \/ RestoreSaveOn \/ RestoreClear \/ RestoreUnlock
               \/ RestoreFinish

Next == \/ \E t \in Thread : ThreadStep(t)
        \/ PluginStep \/ WorldStep \/ RestoreStep

Spec == Init /\ [][Next]_vars

(* What the threads do on their own. Users and the schedules need never act,   *)
(* and restic may run for ever unless it sees the cancel event.                *)
WorkerStep(t) ==
  \/ CommandAcquire(t) \/ StartThread(t)
  \/ WaiterCheck(t) \/ PollStopping(t) \/ PollAcquire(t) \/ PollGiveUp(t)
  \/ TaskEnter(t) \/ CommandEnter(t)
  \/ BodyFails(t) \/ SaveOff(t) \/ StartRestic(t) \/ MaintenanceNext(t)
  \/ cancel /\ ResticEnds(t)
  \/ SaveOn(t) \/ Release(t)

ShutdownStep == ShutdownCheck \/ ShutdownCancel \/ ShutdownSaveOn

Fairness == /\ \A t \in Thread : WF_vars(WorkerStep(t))
            /\ WF_vars(CancelSet) /\ WF_vars(ShutdownStep)

FairSpec == Spec /\ Fairness
-----------------------------------------------------------------------------
(* Every variable keeps its type. *)
TypeOK ==
  /\ pc \in [Thread -> PC] /\ outcome \in [Thread -> Outcomes]
  /\ lock \in BOOLEAN /\ label \in Labels /\ owner \in Thread \union {NoThread}
  /\ cancel \in BOOLEAN /\ asked \subseteq Thread
  /\ restoreHeld \in BOOLEAN /\ restorer \in Restorers
  /\ executor \in Executors /\ stopping \in BOOLEAN /\ shutdown \in Shutdowns
  /\ serverUp \in BOOLEAN /\ stopEvent \in BOOLEAN /\ saving \in {"on", "off", "stuck"}

(* One task is inside the slot at a time, and the lock is taken exactly while  *)
(* one is: no early return, refusal, failed thread start or release leaks it   *)
(* or frees somebody else's (release_backup_slot frees any locked lock).       *)
SlotExclusive ==
  /\ \A t, u \in Thread : Holding(t) /\ Holding(u) => t = u
  /\ RestorerInSlot => \A t \in Thread : ~Holding(t)
  /\ lock <=> RestorerInSlot \/ \E t \in Thread : Holding(t)

(* A task started by a command and a restore workflow never overlap, although  *)
(* each side looks at the other's lock before it takes its own: the executor   *)
(* runs one command at a time (docs/commands.md:190).                          *)
CommandsExcludeRestore ==
  \A t \in Starters \union Commands : Holding(t) => ~restoreHeld

(* The label and the registered thread describe the task inside the slot: a    *)
(* waiter that reads "maintenance" waits for one, and shutdown_runtime joins   *)
(* the backup whose body runs, never a thread that has left.                   *)
SlotFields ==
  /\ label = "maintenance" => \E t \in Maintenance : Holding(t) /\ pc[t] # "cleared"
  /\ owner # NoThread => Holding(owner) /\ pc[owner] # "cleared"
  /\ \A t \in Backups : pc[t] \in {"labelled", "paused", "restic", "ended"}
                          => owner = t /\ label = "backup"

(* A cancel request aimed at the task in the slot is still set when the task   *)
(* looks for it, even when it came before the task's thread ran (P1-7).        *)
CancelSticks == \A t \in asked : pc[t] # "cleared" => cancel

(* While the server runs with autosave off, a backup or the restore workflow   *)
(* is on its way to save-on, whichever error, cancel or shutdown intervenes;   *)
(* or save-on was tried and the server refused it ("stuck").                   *)
SavingOwed ==
  serverUp /\ saving = "off" => \/ restoreHeld
                                \/ \E t \in Backups : pc[t] \in OwesSaveOn

(* A task that was asked to cancel leaves the slot, at the latest when restic  *)
(* sees the event.                                                             *)
CancelEnds == \A t \in Thread : t \in asked ~> t \notin asked

(* Once the plugin stops, every thread that waits for the slot goes away.      *)
StoppingEndsWaiting ==
  \A t \in Waiters : stopping ~> pc[t] \notin {"polling", "acquiring", "timedOut"}

(* A task ends canceled only when somebody asked this task to cancel.          *)
(* docs/commands.md:105 promises a request for the currently running task.     *)
CanceledOnlyIfAsked == \A t \in Thread : outcome[t] = "canceled" => t \in asked

(* A scheduled backup that gives up does so because a backup already runs      *)
(* (warn.backup.already_running), not a maintenance task it should wait for.   *)
GivesUpOnlyForBackup ==
  [][\A t \in ScheduledBackups : pc[t] = "timedOut" /\ pc'[t] = "idle" =>
       RestorerInSlot \/ \E u \in Backups \union Commands : Holding(u)]_vars

(* Once shutdown_runtime has cancelled what was running, no waiting thread     *)
(* takes the slot any more (acquire_backup_slot_waiting).                      *)
NoTaskAfterStop ==
  [][\A t \in Waiters : pc[t] = "acquiring" /\ pc'[t] = "entered"
                          => shutdown \notin {"saving", "down"}]_vars

(* A scheduled task does not run beside a restore workflow                     *)
(* (warn.backup.restore_running, warn.maintenance.restore_running).            *)
WaitersExcludeRestore == \A t \in Waiters : pc[t] \in InSlot => ~restoreHeld
=============================================================================
