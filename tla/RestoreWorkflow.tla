--------------------------- MODULE RestoreWorkflow ---------------------------
(***************************************************************************)
(* The restore workflow (restore/restore_workflow.py, the apply command and *)
(* the server hooks of core/plugin.py) together with everything else that   *)
(* uses the backup slot.  The threads, the cancel requests and the plugin   *)
(* shutdown are those of BackupSlot; the session, the pre-stop, direct,     *)
(* after-stop and watchdog threads and the server events are detailed here. *)
(* The composition is checked to implement BackupSlot: the restorer of that *)
(* specification is the place of the one pre-stop thread inside the slot.   *)
(***************************************************************************)
EXTENDS Naturals, FiniteSets

CONSTANTS ManualBackups, ScheduledBackups, ManualMaintenance, ScheduledMaintenance,
          Commands, NoThread,  \* as in BackupSlot
          MaxRestores,         \* bound: restore apply commands that are accepted
          RestoreKinds,        \* what may be applied: "safe", "skip" (--skip-safety), "direct"
          Disturbances         \* sets of surprises, of which a behaviour has one: "crash", the
                               \* server ends unasked; "operatorStart", somebody starts it during
                               \* a restore; "mcdrStop", MCDR exits during a restore; "again", another
                               \* restore is applied after the first

ASSUME RestoreAssumption == /\ MaxRestores \in Nat
                            /\ RestoreKinds \subseteq {"safe", "skip", "direct"}
                            /\ Disturbances \subseteq SUBSET {"crash", "operatorStart", "mcdrStop", "again"}

VARIABLES
  pc, lock, label, owner, cancel, outcome, asked,   \* as in BackupSlot
  restoreHeld, executor, stopping, shutdown, serverUp, stopEvent, saving,
  current,    \* runtime.restore.session: a session's number, 0 for None
  session,    \* session[n]: the fields of the n-th RestoreSession
  worker,     \* worker[n]: the place of its pre-stop or direct thread
  after,      \* after[n]: the after-stop thread that n's server stop started
  watchdog,   \* sessions whose startup watchdog still sleeps
  files,      \* the world on disk: as the session found it, restored, or mixed
  stopAsked,  \* server.stop() was accepted and the process has not ended yet
  loading,    \* the process is up and its startup event not handled yet
  world   \* what the environment may do in this behaviour

slotVars  == <<pc, outcome, lock, label, owner, cancel, asked>>
envVars   == <<executor, stopping, shutdown>>
worldVars == <<serverUp, stopEvent, saving, stopAsked, loading>>
threads   == <<worker, after, watchdog>>
flowVars  == <<current, session, threads, files>>
vars == <<world, slotVars, restoreHeld, envVars, worldVars, flowVars>>

Session == 1..MaxRestores
None == 0
Phases == {"NONE", "PRE_BACKUP", "STOPPING", "RESTORING", "STARTING"}
Errors == {"none", "failed", "canceled", "missing"}
Fields == [phase : Phases, kind : RestoreKinds \union {"none"}, safety : BOOLEAN, error : Errors,
           rollback : Errors]
WorkerPC == {"none", "spawned", "wantSlot", "slotTaken", "snapshot", "copying", "stopReq",
             "stopCall", "stopFailed", "failed", "finishing", "leaving", "cleared", "died",
             "direct", "directRestic"}
AfterPC == {"none", "spawned", "tasks", "restic", "rollback", "rolling", "marking", "starting"}

NoAfter == [at |-> "none", of |-> None, error |-> "none", rollback |-> "none"]

(* The pre-stop thread of n is between acquire_restore_pre_backup_slot and the *)
(* finally clause that releases the slot.                                       *)
Inside(n) == /\ session[n].kind = "safe"
             /\ worker[n] \in {"snapshot", "copying", "stopReq", "stopCall", "stopFailed",
                               "failed", "finishing", "leaving"}
Restorer == IF \E n \in Session : worker[n] = "slotTaken" THEN "acquired"
            ELSE IF \E n \in Session : Inside(n) THEN "inside"
            ELSE IF \E n \in Session : worker[n] = "cleared" THEN "cleared" ELSE "away"

Slot == INSTANCE BackupSlot WITH restorer <- Restorer

(* What BackupSlot assumes of the threads (INSTANCE does not bring it along). *)
ASSUME SlotAssumption == Slot!ThreadAssumption

Init == /\ current = None
        /\ session = [n \in Session |->
             [phase |-> "NONE", kind |-> "none", safety |-> FALSE, error |-> "none",
              rollback |-> "none"]]
        /\ worker = [n \in Session |-> "none"]
        /\ after = [n \in Session |-> NoAfter]
        /\ watchdog = {} /\ files = "original"
        /\ stopAsked = FALSE /\ loading = FALSE /\ world \in Disturbances
        /\ Slot!Init
-----------------------------------------------------------------------------
Phase == IF current = None THEN "NONE" ELSE session[current].phase

(* Mistake: nobody asks whose session it is. *)
FinishUnchecked(n) == current' = None /\ restoreHeld' = FALSE

(* finish_restore_workflow with expected_session: ends that session only.      *)
Finish(n) == IF current = n THEN current' = None /\ restoreHeld' = FALSE
             ELSE UNCHANGED <<current, restoreHeld>>
(* Without an expected session it ends whatever runs. *)
FinishAny == current' = None /\ restoreHeld' = FALSE

Work(n, place) == worker' = [worker EXCEPT ![n] = place]

(* Mistake: the phase is stored as it was written, not as a RestorePhase. *)
SetPhaseRaw(phase) ==
  session' = IF current = None THEN session
             ELSE [session EXCEPT ![current].phase = IF phase = "RESTORING" THEN "restoring" ELSE phase]

(* The session setters change the current session, if there is one. *)
SetPhase(phase) == session' = IF current = None THEN session
                              ELSE [session EXCEPT ![current].phase = phase]

(* reject_restore_apply, first half: tasks are queued, no backup runs, the     *)
(* server is ready.                                                            *)
ApplyCheck ==
  /\ executor = "free" /\ ~stopping /\ ~lock /\ Slot!ServerSeen
  /\ executor' = "restore"
  /\ UNCHANGED <<world, slotVars, restoreHeld, stopping, shutdown, worldVars, flowVars>>

(* Second half and start_restore_apply: the restore lock, the session and its  *)
(* thread; a refusal, or a thread that does not start, leaves nothing behind.  *)
ApplyTake ==
  /\ executor = "restore" /\ executor' = "free"
  /\ \/ /\ ~restoreHeld /\ restoreHeld' = TRUE
        /\ \E n \in Session, kind \in RestoreKinds :
             /\ n = 1 \/ "again" \in world
             /\ session[n].phase = "NONE" /\ \A m \in 1..(n - 1) : session[m].phase # "NONE"
             /\ current' = n
             /\ session' = [session EXCEPT ![n].phase = "PRE_BACKUP", ![n].kind = kind]
             /\ Work(n, IF kind = "direct" THEN "direct" ELSE "spawned")
        /\ files' = "original"
     \/ UNCHANGED <<restoreHeld, current, session, worker, files>>
  /\ UNCHANGED <<world, slotVars, stopping, shutdown, worldVars, after, watchdog>>
-----------------------------------------------------------------------------
(* run_restore_pre_stop_stage: find the session; skip the snapshot or not. *)
PreStopStart(n) ==
  /\ worker[n] = "spawned"
  /\ IF current = None
       THEN FinishAny /\ Work(n, "none")
       ELSE /\ Work(n, IF session[n].kind = "skip" THEN "stopReq" ELSE "wantSlot")
            /\ UNCHANGED <<current, restoreHeld>>
  /\ UNCHANGED <<world, slotVars, envVars, worldVars, session, after, watchdog, files>>

(* acquire_restore_pre_backup_slot: taken, or the workflow ends.               *)
PreStopAcquire(n) ==
  /\ worker[n] = "wantSlot"
  /\ IF lock THEN Finish(n) /\ Work(n, "none") /\ UNCHANGED lock
     ELSE lock' = TRUE /\ Work(n, "slotTaken") /\ UNCHANGED <<current, restoreHeld>>
  /\ UNCHANGED <<world, pc, outcome, label, owner, cancel, asked, envVars, worldVars, session, after,
                 watchdog, files>>

PreStopEnter(n) ==
  /\ worker[n] = "slotTaken" /\ Work(n, "snapshot")
  /\ label' = "restore" /\ cancel' = FALSE
  /\ UNCHANGED <<world, pc, outcome, lock, owner, asked, restoreHeld, envVars, worldVars, current,
                 session, after, watchdog, files>>

(* create_restore_safety_snapshot is a backup body: save-off first,            *)
SnapshotSaveOff(n) ==
  /\ worker[n] = "snapshot" /\ ~cancel /\ Slot!ServerSeen
  /\ saving' = IF serverUp THEN "off" ELSE saving
  /\ Work(n, "copying")
  /\ UNCHANGED <<world, slotVars, restoreHeld, envVars, serverUp, stopEvent, stopAsked, loading, current,
                 session, after, watchdog, files>>

(* then restic backup, whose snapshot id makes the rollback possible.          *)
SnapshotDone(n) ==
  /\ worker[n] = "copying" /\ Work(n, "stopReq")
  /\ session' = IF current = None THEN session ELSE [session EXCEPT ![current].safety = TRUE]
  /\ UNCHANGED <<world, slotVars, restoreHeld, envVars, worldVars, current, after, watchdog, files>>

(* Any error, no snapshot id, or a cancel request: handle_restore_pre_stop_... *)
SnapshotFails(n) ==
  /\ worker[n] \in {"snapshot", "copying"} /\ Work(n, "failed")
  /\ UNCHANGED <<world, slotVars, restoreHeld, envVars, worldVars, current, session, after, watchdog,
                 files>>

(* request_minecraft_stop_for_restore: the phase first, *)
MarkStopping(n) ==
  /\ worker[n] = "stopReq" /\ Work(n, "stopCall")
  /\ SetPhase("STOPPING")
  /\ UNCHANGED <<world, slotVars, restoreHeld, envVars, worldVars, current, after, watchdog, files>>

(* Mistake: only a thread that took the safety snapshot to its end releases.   *)
LeftUnreleased(n) ==
  IF session[n].kind = "skip" \/ ~session[n].safety THEN "none" ELSE "leaving"

(* The safe kind goes on to the finally clause. *)
Left(n) == IF session[n].kind = "skip" THEN "none" ELSE "leaving"

(* Mistake: the restore starts when the stop is accepted, not when it happened. *)
StopCallGoesOn(n) ==
  /\ worker[n] = "stopCall" /\ serverUp
  /\ stopAsked' = TRUE /\ Work(n, Left(n)) /\ SetPhase("RESTORING")
  /\ after' = [after EXCEPT ![n].at = "spawned"]
  /\ UNCHANGED <<world, slotVars, restoreHeld, envVars, serverUp, stopEvent, saving, loading, current,
                 watchdog, files>>

(* then server.stop(), which refuses when the process is not running.          *)
StopCall(n) ==
  /\ worker[n] = "stopCall"
  /\ IF serverUp THEN stopAsked' = TRUE /\ Work(n, Left(n))
                 ELSE UNCHANGED stopAsked /\ Work(n, "stopFailed")
  /\ UNCHANGED <<world, slotVars, restoreHeld, envVars, serverUp, stopEvent, saving, loading, current,
                 session, after, watchdog, files>>

(* After a refused stop: save-on, whose error reaches the failure handler, or  *)
(* kills the thread when there was no safety snapshot to guard.                *)
StopFailed(n) ==
  /\ worker[n] = "stopFailed"
  /\ \E raised \in BOOLEAN :
       /\ Slot!ForceSaveOn(raised)
       /\ Work(n, IF ~raised THEN "finishing" ELSE IF session[n].kind = "skip" THEN "died" ELSE "failed")
  /\ UNCHANGED <<world, slotVars, restoreHeld, envVars, serverUp, stopEvent, stopAsked, loading, current,
                 session, after, watchdog, files>>

(* handle_restore_pre_stop_failure: save-on, its error swallowed. *)
PreStopFailed(n) ==
  /\ worker[n] = "failed" /\ Work(n, "finishing")
  /\ \E raised \in BOOLEAN : Slot!ForceSaveOn(raised)
  /\ UNCHANGED <<world, slotVars, restoreHeld, envVars, serverUp, stopEvent, stopAsked, loading, current,
                 session, after, watchdog, files>>

PreStopFinish(n) ==
  /\ worker[n] = "finishing" /\ Work(n, Left(n))
  /\ Finish(n)
  /\ UNCHANGED <<world, slotVars, envVars, worldVars, session, after, watchdog, files>>

(* The finally clause: release_backup_slot, in its two halves. *)
PreStopClear(n) ==
  /\ worker[n] = "leaving" /\ Work(n, "cleared")
  /\ label' = "none" /\ owner' = NoThread /\ cancel' = FALSE
  /\ UNCHANGED <<world, pc, outcome, lock, asked, restoreHeld, envVars, worldVars, current, session,
                 after, watchdog, files>>

PreStopUnlock(n) ==
  /\ worker[n] = "cleared" /\ Work(n, "none")
  /\ lock' = FALSE
  /\ UNCHANGED <<world, pc, outcome, label, owner, cancel, asked, restoreHeld, envVars, worldVars, current,
                 session, after, watchdog, files>>

(* run_direct_restore_stage: every target is an external directory, the server *)
(* keeps running and the world on disk is not touched.                         *)
DirectTask(n) ==
  /\ worker[n] = "direct"
  /\ SetPhase("RESTORING")
  /\ \/ ~cancel /\ Work(n, "directRestic") /\ UNCHANGED <<current, restoreHeld>>
     \/ Finish(n) /\ Work(n, "none")
  /\ UNCHANGED <<world, slotVars, envVars, worldVars, after, watchdog, files>>

DirectRestic(n) ==
  /\ worker[n] = "directRestic"
  /\ \/ Work(n, "direct") /\ UNCHANGED <<current, restoreHeld>>
     \/ Finish(n) /\ Work(n, "none")
  /\ UNCHANGED <<world, slotVars, envVars, worldVars, session, after, watchdog, files>>

WorkerStep(n) ==
  \/ PreStopStart(n) \/ PreStopAcquire(n) \/ PreStopEnter(n)
  \/ SnapshotSaveOff(n) \/ SnapshotDone(n) \/ SnapshotFails(n)
  \/ MarkStopping(n) \/ StopCall(n) \/ StopFailed(n) \/ PreStopFailed(n)
  \/ PreStopFinish(n) \/ PreStopClear(n) \/ PreStopUnlock(n)
  \/ DirectTask(n) \/ DirectRestic(n)
-----------------------------------------------------------------------------
(* run_restore_after_stop_stage works on whatever session it finds. *)
AfterStopStart(k) ==
  /\ after[k].at = "spawned"
  /\ IF current = None
       THEN FinishAny /\ after' = [after EXCEPT ![k] = NoAfter]
       ELSE /\ after' = [after EXCEPT ![k].at = "tasks", ![k].of = current]
            /\ UNCHANGED <<current, restoreHeld>>
  /\ UNCHANGED <<world, slotVars, envVars, worldVars, session, worker, watchdog, files>>

(* A failed stage rolls back to the safety snapshot, unless it was skipped.    *)
FailStage(k, error) ==
  LET s == session[after[k].of]
      missing == s.kind # "skip" /\ ~s.safety
  IN  after' = [after EXCEPT ![k].error = error,
                             ![k].at = IF s.safety /\ s.kind # "skip" THEN "rollback" ELSE "marking",
                             ![k].rollback = IF missing THEN "missing" ELSE "none"]

(* execute_restore_tasks: the event is checked before every task, once the      *)
(* executable has been found.                                                  *)
AfterStopTask(k) ==
  /\ after[k].at = "tasks"
  /\ \/ cancel /\ FailStage(k, "canceled")
     \/ FailStage(k, "failed")
     \/ ~cancel /\ after' = [after EXCEPT ![k].at = "restic"]
  /\ UNCHANGED <<world, slotVars, restoreHeld, envVars, worldVars, current, session, worker, watchdog,
                 files>>

(* A task's restic restore: the next one, the last one, or a failure. *)
AfterStopRestic(k) ==
  /\ after[k].at = "restic"
  /\ \/ after' = [after EXCEPT ![k].at = "tasks"] /\ files' = "mixed"
     \/ after' = [after EXCEPT ![k].at = "marking"] /\ files' = "restored"
     \/ FailStage(k, "failed") /\ files' \in {files, "mixed"}
     \/ cancel /\ FailStage(k, "canceled") /\ files' \in {files, "mixed"}
  /\ UNCHANGED <<world, slotVars, restoreHeld, envVars, worldVars, current, session, worker, watchdog>>

(* rollback_to_safety_snapshot runs restic too: it dies of a cancel event that *)
(* is set when it starts. Mistake: its failure is logged and then forgotten.   *)
RolledBackAnyway(k, error) == after' = [after EXCEPT ![k].at = "marking"]
RolledBack(k, error) == after' = [after EXCEPT ![k].at = "marking", ![k].rollback = error]

RollbackStart(k) ==
  /\ after[k].at = "rollback"
  /\ \/ cancel /\ RolledBack(k, "canceled")
     \/ ~cancel /\ after' = [after EXCEPT ![k].at = "rolling"]
  /\ UNCHANGED <<world, slotVars, restoreHeld, envVars, worldVars, current, session, worker, watchdog,
                 files>>

RollbackRestic(k) ==
  /\ after[k].at = "rolling"
  /\ \/ RolledBack(k, "none") /\ files' = "original"
     \/ RolledBack(k, "failed") /\ files' \in {files, "mixed"}
     \/ cancel /\ RolledBack(k, "canceled") /\ files' \in {files, "mixed"}
  /\ UNCHANGED <<world, slotVars, restoreHeld, envVars, worldVars, current, session, worker, watchdog>>

(* mark_restore_starting: the stage's result goes into the current session. *)
MarkStarting(k) ==
  /\ after[k].at = "marking"
  /\ after' = [after EXCEPT ![k].at = "starting"]
  /\ session' = IF current = None THEN session
                ELSE [session EXCEPT ![current].phase = "STARTING",
                                     ![current].error = after[k].error,
                                     ![current].rollback = after[k].rollback]
  /\ UNCHANGED <<world, slotVars, restoreHeld, envVars, worldVars, current, worker, watchdog, files>>

(* Mistake: nobody watches a server that never reports its startup. *)
StartServerUnwatched(k) ==
  /\ after[k].at = "starting"
  /\ after' = [after EXCEPT ![k] = NoAfter]
  /\ \/ /\ ~serverUp /\ ~stopEvent
        /\ serverUp' = TRUE /\ saving' = "on" /\ loading' = TRUE
        /\ UNCHANGED <<current, restoreHeld>>
     \/ Finish(after[k].of) /\ UNCHANGED <<serverUp, saving, loading>>
  /\ UNCHANGED <<world, slotVars, envVars, stopEvent, stopAsked, session, worker, watchdog, files>>

(* server.start() and the watchdog; a refused start ends the workflow. *)
StartServer(k) ==
  /\ after[k].at = "starting"
  /\ after' = [after EXCEPT ![k] = NoAfter]
  /\ \/ /\ ~serverUp /\ ~stopEvent
        /\ serverUp' = TRUE /\ saving' = "on" /\ loading' = TRUE
        /\ watchdog' = watchdog \union {after[k].of}
        /\ UNCHANGED <<current, restoreHeld>>
     \/ Finish(after[k].of) /\ UNCHANGED <<serverUp, saving, loading, watchdog>>
  /\ UNCHANGED <<world, slotVars, envVars, stopEvent, stopAsked, session, worker, files>>

AfterStep(k) ==
  \/ AfterStopStart(k) \/ AfterStopTask(k) \/ AfterStopRestic(k)
  \/ RollbackStart(k) \/ RollbackRestic(k) \/ MarkStarting(k) \/ StartServer(k)

(* finish_restore_start_timeout_if_still_starting, after the timeout. *)
WatchdogFires(n) ==
  /\ n \in watchdog /\ watchdog' = watchdog \ {n}
  /\ IF Phase = "STARTING" THEN Finish(n) ELSE UNCHANGED <<current, restoreHeld>>
  /\ UNCHANGED <<world, slotVars, envVars, worldVars, session, worker, after, files>>
-----------------------------------------------------------------------------
(* on_server_startup ends a session that waits for it. *)
OnServerStartup ==
  /\ executor = "free" /\ serverUp /\ loading /\ loading' = FALSE
  /\ IF Phase = "STARTING" /\ ~stopping THEN FinishAny ELSE UNCHANGED <<current, restoreHeld>>
  /\ UNCHANGED <<world, slotVars, envVars, serverUp, stopEvent, saving, stopAsked, session, threads,
                 files>>

(* Mistake: any server stop during the workflow starts the restore. *)
OnServerStopAnyPhase ==
  /\ executor = "free" /\ stopEvent /\ stopEvent' = FALSE
  /\ IF Phase \in {"PRE_BACKUP", "STOPPING"} /\ ~stopping
       THEN SetPhase("RESTORING") /\ after' = [after EXCEPT ![current].at = "spawned"]
       ELSE UNCHANGED <<session, after>>
  /\ UNCHANGED <<world, slotVars, current, restoreHeld, executor, stopping, shutdown, serverUp, saving,
                 stopAsked, loading, worker, watchdog, files>>

(* on_server_stop and handle_restore_server_stop, by the session's phase. *)
OnServerStop ==
  /\ executor = "free" /\ stopEvent /\ stopEvent' = FALSE
  /\ \/ /\ Phase = "STARTING" /\ ~stopping /\ FinishAny
        /\ UNCHANGED <<session, after, executor>>
     \/ /\ Phase = "STOPPING" /\ ~stopping
        /\ SetPhase("RESTORING")
        /\ after' = [after EXCEPT ![current].at = "spawned"]
        /\ UNCHANGED <<current, restoreHeld, executor>>
     \/ /\ Phase \notin {"STARTING", "STOPPING"} \/ stopping
        /\ executor' = IF lock /\ ~stopping THEN "cancel" ELSE executor
        /\ UNCHANGED <<current, session, after, restoreHeld>>
  /\ UNCHANGED <<world, slotVars, stopping, shutdown, serverUp, saving, stopAsked, loading, worker,
                 watchdog, files>>

(* The server process ends: asked by the restore workflow, or on its own.      *)
ServerDown ==
  /\ stopAsked \/ "crash" \in world
  /\ stopAsked' = FALSE /\ loading' = FALSE
  /\ UNCHANGED <<world, flowVars>>
  /\ Slot!ServerDown

(* An operator or another plugin starts the server. *)
OperatorStart ==
  /\ ~restoreHeld \/ "operatorStart" \in world
  /\ loading' = TRUE
  /\ UNCHANGED <<world, flowVars, stopAsked>>
  /\ Slot!ServerStarts

(* Mistake: the plugin is unloaded at once, without wait_for_active_restore. *)
UnloadAtOnce == UNCHANGED <<world, flowVars, stopAsked, loading>> /\ Slot!ShutdownBegin

(* on_unload waits until no restore is active; on_mcdr_stop does not.          *)
Unload ==
  /\ (current = None /\ ~restoreHeld) \/ "mcdrStop" \in world
  /\ UNCHANGED <<world, flowVars, stopAsked, loading>>
  /\ Slot!ShutdownBegin

ExecutorCancels == UNCHANGED <<world, flowVars, stopAsked, loading>> /\ Slot!CancelSet

(* What the restore workflow does not touch, taken from BackupSlot. *)
SlotStep ==
  /\ UNCHANGED <<world, flowVars, stopAsked, loading>>
  /\ \/ \E t \in Slot!Thread : Slot!ThreadStep(t)
     \/ Slot!CancelCheck
     \/ Slot!ShutdownCheck \/ Slot!ShutdownCancel \/ Slot!ShutdownSaveOn

Next == \/ ApplyCheck \/ ApplyTake
        \/ \E n \in Session : WorkerStep(n) \/ AfterStep(n) \/ WatchdogFires(n)
        \/ OnServerStartup \/ OnServerStop
        \/ Unload \/ ServerDown \/ OperatorStart
        \/ ExecutorCancels \/ SlotStep

Spec == Init /\ [][Next]_vars

(* The threads run; restic is ended by its deadline; the tasks are finite; a   *)
(* server that was asked to stop does stop; the executor gets to the stop event *)
(* between two commands.                                                       *)
(* Neither the server's startup nor its event is taken for granted.            *)
Fairness ==
  /\ WF_vars(ApplyTake)
  /\ \A n \in Session : WF_vars(WorkerStep(n)) /\ WF_vars(AfterStep(n)) /\ WF_vars(WatchdogFires(n))
  /\ \A n \in Session : /\ SF_vars(DirectRestic(n) /\ worker'[n] = "none")
                         /\ SF_vars(AfterStopRestic(n) /\ after'[n].at # "tasks")
  /\ SF_vars(OnServerStop)
  /\ WF_vars(stopAsked /\ ServerDown)
  /\ WF_vars(ExecutorCancels)

FairSpec == Spec /\ Fairness
-----------------------------------------------------------------------------
(* Every variable keeps its type; the slot's variables are checked by Slot. *)
TypeOK ==
  /\ current \in Session \union {None} /\ session \in [Session -> Fields]
  /\ worker \in [Session -> WorkerPC] /\ watchdog \subseteq Session
  /\ after \in [Session -> [at : AfterPC, of : Session \union {None}, error : Errors,
                            rollback : Errors]]
  /\ files \in {"original", "restored", "mixed"} /\ stopAsked \in BOOLEAN /\ loading \in BOOLEAN

(* The workflow does to the slot, to its lock, to autosave and to the executor *)
(* only what BackupSlot allows, so that every invariant of BackupSlot holds    *)
(* here: no path of the pre-stop thread leaks the slot, and no end of the      *)
(* workflow leaves a running server without autosave.                          *)
ImplementsSlot == Slot!Spec

(* The pre-stop or direct thread of n has not yet done its part. *)
Working(n) == worker[n] \notin {"none", "leaving", "cleared", "died"}
AfterStop(k) == after[k].at # "none"

(* The server stops only when it is asked to.  What a crash can break is said   *)
(* of such a server only.                                                        *)
Calm == world \subseteq {"again"}

(* A thread of the workflow works for the current session: no setter changes,  *)
(* and no end hits, a session that belongs to somebody else                    *)
(* (expected_session).                                                         *)
ThreadsOwnSession ==
  Calm => \A n \in Session : /\ Working(n) => current = n
                             /\ AfterStop(n) => current = n /\ after[n].of \in {None, n}

(* A current session always has somebody who will end it or drive it on: a     *)
(* thread, the server's stop, or the startup watchdog.                         *)
SessionDriven ==
  Calm /\ current # None =>
                    \/ Working(current) \/ AfterStop(current)
                    \/ Phase = "STOPPING" /\ (stopAsked \/ stopEvent)
                    \/ Phase = "STARTING" /\ current \in watchdog

(* restic writes the world only while the server process is down.              *)
ServerOffDuringRestore ==
  Calm => \A k \in Session : after[k].at \in {"restic", "rolling"} => ~serverUp

(* What handle_restore_server_startup tells the users is true of the world: a  *)
(* restore without an error is complete, one with an error that was rolled     *)
(* back has left the world as the safety snapshot found it.                    *)
ReportsTruth ==
  Phase = "STARTING" =>
    LET s == session[current]
    IN  /\ s.error = "none" => files = "restored"
        /\ s.error # "none" /\ s.kind = "safe" /\ s.rollback = "none" => files = "original"

PhaseRank == [phase \in Phases |->
  CASE phase = "NONE" -> 0 [] phase = "PRE_BACKUP" -> 1 [] phase = "STOPPING" -> 2
    [] phase = "RESTORING" -> 3 [] phase = "STARTING" -> 4]

(* A session's phase only moves forward, whatever the server does meanwhile:   *)
(* one stop event starts one restore.                                          *)
PhaseForward ==
  [][\A n \in Session : PhaseRank[session[n].phase] <= PhaseRank[session'[n].phase]]_vars

(* When the plugin is unloaded no restore is under way that the next instance  *)
(* would not know of (plugin.py, wait_for_active_restore).                     *)
QuietUnload ==
  stopping => /\ current = None /\ ~restoreHeld
              /\ \A n \in Session : ~Working(n) /\ ~AfterStop(n)

(* It holds as long as the server stops only when asked; a crash before the     *)
(* pre-stop thread's server.stop() breaks QuietUnload.                          *)
UnloadIsQuiet == Calm => QuietUnload

(* A restore ends: whichever step fails, the restore lock comes free again.    *)
RestoreEnds == restoreHeld ~> ~restoreHeld \/ stopping

(* A restore that is cancelled with the server down is rolled back to its      *)
(* safety snapshot (docs/commands.md:108).                                     *)
CancelRollsBack ==
  \A k \in Session : after[k].error = "canceled" => after[k].rollback # "canceled"

(* A cancel request made with the server down stays until the stage has seen   *)
(* it (docs/commands.md:108).                                                  *)
RequestKept ==
  [][\A k \in Session : after[k].at \in {"tasks", "restic"} /\ after'[k].at \in {"tasks", "restic"}
                          /\ cancel => cancel']_vars
=============================================================================
