------------------------ MODULE RestoreWorkflowProofs -----------------------
(***************************************************************************)
(* Proofs about RestoreWorkflow, for every number of restores and every set *)
(* of threads.  The pre-stop, direct and after-stop threads, the watchdogs  *)
(* and the server's events are shown to do to the slot only what BackupSlot *)
(* allows; its invariants, proved in BackupSlotProofs, then hold here, and  *)
(* what the two halves need of each other is proved in one induction.       *)
(***************************************************************************)
EXTENDS RestoreWorkflow, TLAPS

SlotP == INSTANCE BackupSlotProofs WITH restorer <- Restorer

(* The worlds the theorems are about.  In a world with both a crash and another *)
(* restore a thread of the first session may meet the second one.               *)
Orderly == Calm \/ "again" \notin world
-----------------------------------------------------------------------------
(* The inductive invariant. *)
HeldIffCurrent == restoreHeld <=> current # None
EventMeansDown == stopEvent => ~serverUp

(* A session that was not started has nobody working for it; without another    *)
(* restore there is only the first.                                             *)
Started(n) == session[n].phase # "NONE"
FreshAt(n) ==
  /\ Started(n) \/ /\ worker[n] = "none" /\ after[n].at = "none"
                   /\ n \notin watchdog /\ current # n
  /\ "again" \notin world /\ n # 1 => ~Started(n)
Fresh == \A n \in Session : FreshAt(n)

Before == {"spawned", "wantSlot", "slotTaken", "snapshot", "copying", "stopReq"}
SafeOnly == {"wantSlot", "slotTaken", "snapshot", "copying", "failed", "leaving", "cleared"}
Direct == {"direct", "directRestic"}

(* Until the pre-stop thread asks for the server's stop the session is its own. *)
WorkerPlace(n) ==
  /\ worker[n] \in Before => current = n /\ session[n].phase = "PRE_BACKUP"
  /\ worker[n] \in Direct => /\ current = n /\ session[n].phase \in {"PRE_BACKUP", "RESTORING"}
                             /\ session[n].kind = "direct"
  /\ worker[n] \in SafeOnly => session[n].kind = "safe"
  /\ worker[n] = "died" => session[n].kind = "skip"
  /\ worker[n] \notin Direct \union {"none"} => session[n].kind \in {"safe", "skip"}
  /\ session[n].phase = "STOPPING" => session[n].kind # "direct"
WorkerPlaces == \A n \in Session : WorkerPlace(n)

(* The pre-stop thread of n holds the slot. *)
InPlace(n) == worker[n] \in {"slotTaken", "cleared"} \/ Inside(n)
OneInPlace == \A n, m \in Session : InPlace(n) /\ InPlace(m) => n = m

(* An after-stop thread works for the session that started it. *)
AfterPlace(k) ==
  /\ after[k].at # "none" => /\ session[k].phase \in {"RESTORING", "STARTING"}
                             /\ session[k].kind # "direct" /\ current \in {None, k}
  /\ after[k].at \notin {"none", "spawned"} => after[k].of = k
  /\ after[k].at \in {"none", "spawned"} => after[k].of = None
  /\ session[k].phase = "STARTING" => after[k].at \in {"none", "starting"}
  /\ k \in watchdog => session[k].phase \in {"RESTORING", "STARTING"} /\ after[k].at = "none"
AfterPlaces == \A k \in Session : AfterPlace(k)
OneAfter == \A k, m \in Session : after[k].at # "none" /\ after[m].at # "none" => k = m

(* What an after-stop thread carries is true of the world. *)
CarriedBy(k) ==
  /\ after[k].at \in {"none", "spawned", "tasks", "restic"} =>
       after[k].error = "none" /\ after[k].rollback = "none"
  /\ after[k].at \in {"rollback", "rolling"} => after[k].error # "none"
  /\ after[k].at = "marking" =>
       /\ after[k].error = "none" => files = "restored"
       /\ after[k].error # "none" /\ session[k].kind = "safe" /\ after[k].rollback = "none"
            => files = "original"
Carried == \A k \in Session : CarriedBy(k)

BackupOwes == \E t \in Slot!Backups : pc[t] \in Slot!OwesSaveOn
(* The restore workflow is on its way to save-on or to the server's stop. *)
RestoreOwes == /\ current # None /\ session[current].kind = "safe"
               /\ session[current].phase \in {"PRE_BACKUP", "STOPPING"}
               /\ worker[current] \in {"copying", "stopReq", "stopCall", "stopFailed", "failed",
                                       "leaving", "cleared", "none"}
Owing == serverUp /\ saving = "off" => BackupOwes \/ RestoreOwes

(* A server that ends only when asked: its end is the stop the current session  *)
(* waits for, so every thread keeps its session and the server stays down.      *)
CalmAfter(k) ==
  /\ after[k].at # "none" => current = k /\ ~serverUp /\ ~stopEvent
  /\ after[k].at = "starting" => session[k].phase = "STARTING"
CalmWorker(n) ==
  Working(n) => /\ current = n
                /\ session[n].phase \in {"PRE_BACKUP", "STOPPING"} \/ worker[n] \in Direct
                /\ worker[n] \in {"stopCall", "stopFailed"} => session[n].phase = "STOPPING"
                /\ worker[n] = "stopFailed" => ~serverUp /\ ~stopEvent
StopComing ==
  /\ stopAsked => serverUp
  /\ stopAsked \/ stopEvent => current # None /\ Phase = "STOPPING" /\ ~Working(current)
Unloaded == stopping => current = None /\ executor # "restore"
CalmPlaces == Calm => /\ \A n \in Session : CalmAfter(n) /\ CalmWorker(n)
                      /\ StopComing /\ Unloaded

Core == /\ TypeOK /\ HeldIffCurrent /\ EventMeansDown /\ Fresh /\ WorkerPlaces /\ OneInPlace
        /\ AfterPlaces /\ OneAfter /\ Carried /\ Owing
        /\ CalmPlaces /\ SessionDriven /\ ReportsTruth
OrderlyCore == Orderly => Core
-----------------------------------------------------------------------------
(* What a step does to the session and after-stop records, field by field. *)
AfterRec == [at : AfterPC, of : Session \union {None}, error : Errors, rollback : Errors]

OthersStay(k) == \A m \in Session : m # k => after'[m] = after[m]
Moved(k, a) == /\ after' \in [Session -> AfterRec] /\ OthersStay(k)
               /\ after'[k].at = a /\ after'[k].of = after[k].of
               /\ after'[k].error = after[k].error /\ after'[k].rollback = after[k].rollback
Failed(k) == /\ after' \in [Session -> AfterRec] /\ OthersStay(k)
             /\ after'[k].of = after[k].of /\ after'[k].error # "none"
             /\ after'[k].at \in {"rollback", "marking"}
             /\ after'[k].at = "marking" /\ session[after[k].of].kind = "safe"
                  => after'[k].rollback # "none"
Rolled(k, e) == /\ after' \in [Session -> AfterRec] /\ OthersStay(k)
                /\ after'[k].at = "marking" /\ after'[k].of = after[k].of
                /\ after'[k].error = after[k].error /\ after'[k].rollback = e
Gone(k) == after' \in [Session -> AfterRec] /\ OthersStay(k) /\ after'[k] = NoAfter

ResultStays(m) == /\ session'[m].kind = session[m].kind
                  /\ session'[m].error = session[m].error
                  /\ session'[m].rollback = session[m].rollback
PhaseIs(p) == /\ session' \in [Session -> Fields]
              /\ \A m \in Session :
                   /\ session'[m].phase = IF m = current THEN p ELSE session[m].phase
                   /\ ResultStays(m)

LEMMA MoveEffect ==
  ASSUME TypeOK, NEW k \in Session, NEW a \in AfterPC, after' = [after EXCEPT ![k].at = a]
  PROVE  Moved(k, a)
BY DEF TypeOK, AfterRec, Moved, OthersStay

LEMMA GoneEffect ==
  ASSUME TypeOK, NEW k \in Session, after' = [after EXCEPT ![k] = NoAfter]
  PROVE  Gone(k)
<1>1. NoAfter \in AfterRec
  BY DEF NoAfter, AfterRec, AfterPC, Errors
<1> QED BY <1>1 DEF TypeOK, AfterRec, Gone, OthersStay

LEMMA FailEffect ==
  ASSUME TypeOK, NEW k \in Session, NEW e \in Errors \ {"none"}, FailStage(k, e)
  PROVE  Failed(k)
<1> DEFINE s == session[after[k].of]
           a == IF s.safety /\ s.kind # "skip" THEN "rollback" ELSE "marking"
           r == IF s.kind # "skip" /\ ~s.safety THEN "missing" ELSE "none"
<1>1. after' = [after EXCEPT ![k].error = e, ![k].at = a, ![k].rollback = r]
  BY DEF FailStage
<1>2. a \in {"rollback", "marking"} /\ r \in {"missing", "none"}
  OBVIOUS
<1>3. a = "marking" /\ s.kind = "safe" => r = "missing"
  OBVIOUS
<1> HIDE DEF a, r
<1>4. /\ after' \in [Session -> AfterRec] /\ OthersStay(k)
      /\ after'[k].of = after[k].of /\ after'[k].error = e
      /\ after'[k].rollback = r /\ after'[k].at = a
  BY <1>1, <1>2 DEF TypeOK, AfterRec, AfterPC, Errors, OthersStay
<1> QED BY <1>2, <1>3, <1>4 DEF Failed

LEMMA RollEffect ==
  ASSUME TypeOK, NEW k \in Session, NEW e \in Errors, RolledBack(k, e)
  PROVE  Rolled(k, e)
BY DEF TypeOK, AfterRec, AfterPC, RolledBack, Rolled, OthersStay

LEMMA PhaseEffect ==
  ASSUME TypeOK, NEW p \in Phases, SetPhase(p)
  PROVE  PhaseIs(p)
<1>1. CASE current = None
  BY <1>1 DEF TypeOK, SetPhase, None, Session, PhaseIs, ResultStays
<1>2. CASE current # None
  BY <1>2 DEF TypeOK, SetPhase, None, Session, Fields, PhaseIs, ResultStays
<1> QED BY <1>1, <1>2
-----------------------------------------------------------------------------
(* The same for the actions that use them. *)
Taken(n, kind) ==
  /\ ~restoreHeld /\ restoreHeld' /\ current' = n /\ files' = "original"
  /\ session[n].phase = "NONE" /\ (n = 1 \/ "again" \in world)
  /\ session' \in [Session -> Fields]
  /\ session'[n].phase = "PRE_BACKUP" /\ session'[n].kind = kind
  /\ \A m \in Session : m # n => session'[m] = session[m] /\ worker'[m] = worker[m]
  /\ worker' \in [Session -> WorkerPC]
  /\ worker'[n] = IF kind = "direct" THEN "direct" ELSE "spawned"

LEMMA TakeEffect ==
  ASSUME TypeOK, ApplyTake
  PROVE  /\ executor = "restore" /\ executor' = "free"
         /\ UNCHANGED <<world, slotVars, stopping, worldVars, after, watchdog>>
         /\ \/ \E n \in Session, kind \in RestoreKinds : Taken(n, kind)
            \/ UNCHANGED <<restoreHeld, current, session, worker, files>>
<1>1. ASSUME NEW n \in Session, NEW kind \in RestoreKinds,
             session' = [session EXCEPT ![n].phase = "PRE_BACKUP", ![n].kind = kind]
      PROVE  /\ session' \in [Session -> Fields]
             /\ session'[n].phase = "PRE_BACKUP" /\ session'[n].kind = kind
             /\ \A m \in Session : m # n => session'[m] = session[m]
  <2> DEFINE rec == [session[n] EXCEPT !.phase = "PRE_BACKUP", !.kind = kind]
  <2>1. session[n] \in Fields /\ session \in [Session -> Fields]
    BY DEF TypeOK
  <2>2. rec \in Fields /\ rec.phase = "PRE_BACKUP" /\ rec.kind = kind
    BY <2>1 DEF Fields, Phases
  <2>3. session' = [session EXCEPT ![n] = rec]
    BY <1>1, <2>1 DEF Fields
  <2> HIDE DEF rec
  <2> QED BY <2>1, <2>2, <2>3
<1>2. ASSUME NEW n \in Session, NEW kind \in RestoreKinds,
             Work(n, IF kind = "direct" THEN "direct" ELSE "spawned")
      PROVE  /\ worker' \in [Session -> WorkerPC]
             /\ worker'[n] = IF kind = "direct" THEN "direct" ELSE "spawned"
             /\ \A m \in Session : m # n => worker'[m] = worker[m]
  BY <1>2 DEF TypeOK, Work, WorkerPC
<1>3. CASE UNCHANGED <<restoreHeld, current, session, worker, files>>
  BY <1>3 DEF ApplyTake
<1>4. CASE ~UNCHANGED <<restoreHeld, current, session, worker, files>>
  <2>1. PICK n \in Session, kind \in RestoreKinds :
          /\ n = 1 \/ "again" \in world
          /\ session[n].phase = "NONE" /\ current' = n
          /\ session' = [session EXCEPT ![n].phase = "PRE_BACKUP", ![n].kind = kind]
          /\ Work(n, IF kind = "direct" THEN "direct" ELSE "spawned")
    BY <1>4, Zenon DEF ApplyTake
  <2>2. ~restoreHeld /\ restoreHeld' /\ files' = "original"
    BY <1>4, Zenon DEF ApplyTake
  <2>3. /\ session' \in [Session -> Fields]
        /\ session'[n].phase = "PRE_BACKUP" /\ session'[n].kind = kind
        /\ \A m \in Session : m # n => session'[m] = session[m]
    BY <2>1, <1>1
  <2>4. /\ worker' \in [Session -> WorkerPC]
        /\ worker'[n] = IF kind = "direct" THEN "direct" ELSE "spawned"
        /\ \A m \in Session : m # n => worker'[m] = worker[m]
    BY <2>1, <1>2
  <2>5. Taken(n, kind)
    BY <2>1, <2>2, <2>3, <2>4, Zenon DEF Taken
  <2> QED BY <2>5 DEF ApplyTake
<1> QED BY <1>3, <1>4

LEMMA SnapshotEffect ==
  ASSUME TypeOK, NEW n \in Session, SnapshotDone(n)
  PROVE  /\ session' \in [Session -> Fields]
         /\ \A m \in Session : session'[m].phase = session[m].phase /\ ResultStays(m)
<1>1. CASE current = None
  BY <1>1 DEF TypeOK, SnapshotDone, None, Session, ResultStays
<1>2. CASE current # None
  BY <1>2 DEF TypeOK, SnapshotDone, None, Session, Fields, ResultStays
<1> QED BY <1>1, <1>2

LEMMA StopEffect ==
  ASSUME TypeOK, OnServerStop
  PROVE  /\ executor = "free" /\ stopEvent /\ ~stopEvent'
         /\ UNCHANGED <<world, slotVars, stopping, serverUp, saving, stopAsked, worker, watchdog,
                        files>>
         /\ \/ /\ Phase = "STARTING" /\ ~stopping /\ FinishAny
               /\ UNCHANGED <<session, after, executor>>
            \/ /\ Phase = "STOPPING" /\ ~stopping /\ current \in Session
               /\ PhaseIs("RESTORING") /\ Moved(current, "spawned")
               /\ UNCHANGED <<current, restoreHeld, executor>>
            \/ /\ Phase \notin {"STARTING", "STOPPING"} \/ stopping
               /\ executor' \in {"free", "cancel"}
               /\ UNCHANGED <<current, session, after, restoreHeld>>
<1>1. ASSUME Phase = "STOPPING", SetPhase("RESTORING"),
             after' = [after EXCEPT ![current].at = "spawned"]
      PROVE  current \in Session /\ PhaseIs("RESTORING") /\ Moved(current, "spawned")
  <2>1. current \in Session
    BY <1>1 DEF TypeOK, Phase
  <2> QED BY <1>1, <2>1, MoveEffect, PhaseEffect DEF Phases, AfterPC
<1> QED BY <1>1 DEF OnServerStop

LEMMA StartEffect ==
  ASSUME TypeOK, NEW k \in Session, AfterStopStart(k)
  PROVE  \/ current = None /\ Gone(k)
         \/ /\ current # None /\ after' \in [Session -> AfterRec] /\ OthersStay(k)
            /\ after'[k].at = "tasks" /\ after'[k].of = current
            /\ after'[k].error = after[k].error /\ after'[k].rollback = after[k].rollback
<1>1. CASE current = None
  BY <1>1, GoneEffect DEF AfterStopStart
<1>2. CASE current # None
  BY <1>2 DEF AfterStopStart, TypeOK, AfterRec, AfterPC, OthersStay
<1> QED BY <1>1, <1>2

LEMMA TaskEffect ==
  ASSUME TypeOK, NEW k \in Session, AfterStopTask(k)
  PROVE  Failed(k) \/ Moved(k, "restic")
BY FailEffect, MoveEffect DEF AfterStopTask, AfterPC, Errors

LEMMA ResticEffect ==
  ASSUME TypeOK, NEW k \in Session, AfterStopRestic(k)
  PROVE  \/ Moved(k, "tasks") /\ files' = "mixed"
         \/ Moved(k, "marking") /\ files' = "restored"
         \/ Failed(k) /\ files' \in {files, "mixed"}
BY FailEffect, MoveEffect DEF AfterStopRestic, AfterPC, Errors

LEMMA RollbackEffect ==
  ASSUME TypeOK, NEW k \in Session, RollbackStart(k)
  PROVE  Moved(k, "rolling") \/ Rolled(k, "canceled")
BY MoveEffect, RollEffect DEF RollbackStart, AfterPC, Errors

LEMMA RollingEffect ==
  ASSUME TypeOK, NEW k \in Session, RollbackRestic(k)
  PROVE  \/ Rolled(k, "none") /\ files' = "original"
         \/ \E e \in Errors \ {"none"} : Rolled(k, e) /\ files' \in {files, "mixed"}
BY RollEffect DEF RollbackRestic, Errors

LEMMA MarkEffect ==
  ASSUME TypeOK, NEW k \in Session, MarkStarting(k)
  PROVE  /\ Moved(k, "starting") /\ session' \in [Session -> Fields]
         /\ after[k].at = "marking"
         /\ UNCHANGED <<world, slotVars, restoreHeld, executor, stopping, worldVars, current,
                        worker, watchdog, files>>
         /\ \A m \in Session :
              \/ m # current /\ session'[m] = session[m]
              \/ /\ m = current /\ session'[m].kind = session[m].kind
                 /\ session'[m].phase = "STARTING"
                 /\ session'[m].error = after[k].error
                 /\ session'[m].rollback = after[k].rollback
<1>1. /\ Moved(k, "starting") /\ after[k].at = "marking"
      /\ UNCHANGED <<world, slotVars, restoreHeld, executor, stopping, worldVars, current,
                     worker, watchdog, files>>
  BY MoveEffect DEF MarkStarting, AfterPC, envVars
<1>2. CASE current = None
  BY <1>1, <1>2 DEF TypeOK, MarkStarting, None, Session
<1>3. CASE current # None
  <2> DEFINE e == after[k].error
             r == after[k].rollback
  <2>1. e \in Errors /\ r \in Errors
    BY DEF TypeOK
  <2> DEFINE rec == [session[current] EXCEPT !.phase = "STARTING", !.error = e, !.rollback = r]
  <2>2. session[current] \in Fields /\ session \in [Session -> Fields] /\ current \in Session
    BY <1>3 DEF TypeOK
  <2>3. session' = [session EXCEPT ![current] = rec]
    BY <1>3, <2>2 DEF MarkStarting, Fields
  <2> HIDE DEF e, r
  <2>4. /\ rec \in Fields /\ rec.phase = "STARTING" /\ rec.error = e /\ rec.rollback = r
        /\ rec.kind = session[current].kind
    BY <2>1, <2>2 DEF Fields, Phases
  <2> HIDE DEF rec
  <2>5. /\ session' \in [Session -> Fields] /\ session'[current] = rec
        /\ \A m \in Session : m # current => session'[m] = session[m]
    BY <2>2, <2>3, <2>4
  <2> QED BY <1>1, <2>2, <2>4, <2>5 DEF e, r
<1> QED BY <1>2, <1>3

LEMMA NoneApart == None \notin Session
BY DEF None, Session

-----------------------------------------------------------------------------
(* An after-stop thread past its first step knows its session. *)
OfKnown == \A k \in Session : after[k].at \notin {"none", "spawned"} => after[k].of \in Session

(* No step takes a variable of the workflow out of its type. *)
LEMMA TypeStep ==
  ASSUME TypeOK, OfKnown, [Next]_vars PROVE TypeOK'
<1> USE DEF TypeOK, OfKnown, Session, None, WorkerPC, Finish, FinishAny, Work, Left,
            flowVars, threads, worldVars, AfterRec
<1>1. CASE ApplyCheck
  BY <1>1 DEF ApplyCheck
<1>2. CASE ApplyTake
  <2>1. CASE UNCHANGED <<restoreHeld, current, session, worker, files>>
    BY <1>2, <2>1, TakeEffect
  <2>2. ASSUME NEW n \in Session, NEW kind \in RestoreKinds, Taken(n, kind) PROVE TypeOK'
    BY <1>2, <2>2, TakeEffect DEF Taken
  <2> QED BY <1>2, <2>1, <2>2, TakeEffect
<1>3. CASE OnServerStartup
  BY <1>3 DEF OnServerStartup
<1>4. CASE OnServerStop
  <2>1. session' \in [Session -> Fields] /\ after' \in [Session -> AfterRec]
        /\ UNCHANGED <<worker, watchdog, files, stopAsked>>
    BY <1>4, StopEffect DEF PhaseIs, Moved
  <2>2. current' \in {current, None} /\ loading' = loading
    BY <1>4, Zenon DEF OnServerStop
  <2> QED BY <2>1, <2>2
<1>5. CASE Unload
  BY <1>5 DEF Unload, Slot!ShutdownBegin
<1>6. CASE ServerDown
  BY <1>6 DEF ServerDown, Slot!ServerDown
<1>7. CASE OperatorStart
  BY <1>7 DEF OperatorStart, Slot!ServerStarts
<1>8. CASE ExecutorCancels
  BY <1>8 DEF ExecutorCancels, Slot!CancelSet
<1>9. CASE SlotStep
  BY <1>9 DEF SlotStep
<1>10. ASSUME NEW n \in Session, PreStopStart(n) PROVE TypeOK'
  BY <1>10 DEF PreStopStart
<1>11. ASSUME NEW n \in Session, PreStopAcquire(n) PROVE TypeOK'
  BY <1>11 DEF PreStopAcquire
<1>12. ASSUME NEW n \in Session, PreStopEnter(n) PROVE TypeOK'
  BY <1>12 DEF PreStopEnter
<1>13. ASSUME NEW n \in Session, SnapshotSaveOff(n) PROVE TypeOK'
  BY <1>13 DEF SnapshotSaveOff
<1>14. ASSUME NEW n \in Session, SnapshotDone(n) PROVE TypeOK'
  BY <1>14, SnapshotEffect DEF SnapshotDone
<1>15. ASSUME NEW n \in Session, SnapshotFails(n) PROVE TypeOK'
  BY <1>15 DEF SnapshotFails
<1>16. ASSUME NEW n \in Session, MarkStopping(n) PROVE TypeOK'
  BY <1>16, PhaseEffect DEF MarkStopping, Phases, PhaseIs
<1>17. ASSUME NEW n \in Session, StopCall(n) PROVE TypeOK'
  BY <1>17 DEF StopCall
<1>18. ASSUME NEW n \in Session, StopFailed(n) PROVE TypeOK'
  BY <1>18 DEF StopFailed
<1>19. ASSUME NEW n \in Session, PreStopFailed(n) PROVE TypeOK'
  BY <1>19 DEF PreStopFailed
<1>20. ASSUME NEW n \in Session, PreStopFinish(n) PROVE TypeOK'
  BY <1>20 DEF PreStopFinish
<1>21. ASSUME NEW n \in Session, PreStopClear(n) PROVE TypeOK'
  BY <1>21 DEF PreStopClear
<1>22. ASSUME NEW n \in Session, PreStopUnlock(n) PROVE TypeOK'
  BY <1>22 DEF PreStopUnlock
<1>23. ASSUME NEW n \in Session, DirectTask(n) PROVE TypeOK'
  BY <1>23, PhaseEffect DEF DirectTask, Phases, PhaseIs
<1>24. ASSUME NEW n \in Session, DirectRestic(n) PROVE TypeOK'
  BY <1>24 DEF DirectRestic
<1>25. ASSUME NEW k \in Session, AfterStopStart(k) PROVE TypeOK'
  BY <1>25, StartEffect DEF AfterStopStart, Gone
<1>26. ASSUME NEW k \in Session, AfterStopTask(k) PROVE TypeOK'
  BY <1>26, TaskEffect DEF AfterStopTask, Moved, Failed
<1>27. ASSUME NEW k \in Session, AfterStopRestic(k) PROVE TypeOK'
  BY <1>27, ResticEffect DEF AfterStopRestic, Moved, Failed
<1>28. ASSUME NEW k \in Session, RollbackStart(k) PROVE TypeOK'
  BY <1>28, RollbackEffect DEF RollbackStart, Moved, Rolled
<1>29. ASSUME NEW k \in Session, RollbackRestic(k) PROVE TypeOK'
  BY <1>29, RollingEffect DEF RollbackRestic, Rolled
<1>30. ASSUME NEW k \in Session, MarkStarting(k) PROVE TypeOK'
  BY <1>30, MarkEffect DEF Moved
<1>31. ASSUME NEW k \in Session, StartServer(k) PROVE TypeOK'
  BY <1>31, GoneEffect DEF StartServer, Gone
<1>32. ASSUME NEW n \in Session, WatchdogFires(n) PROVE TypeOK'
  BY <1>32 DEF WatchdogFires
<1>33. CASE UNCHANGED vars
  BY <1>33 DEF vars
<1> QED
  BY <1>1, <1>2, <1>3, <1>4, <1>5, <1>6, <1>7, <1>8, <1>9, <1>10, <1>11, <1>12, <1>13,
     <1>14, <1>15, <1>16, <1>17, <1>18, <1>19, <1>20, <1>21, <1>22, <1>23, <1>24, <1>25,
     <1>26, <1>27, <1>28, <1>29, <1>30, <1>31, <1>32, <1>33
     DEF Next, WorkerStep, AfterStep

(* An after-stop thread takes over the session it found and keeps it. *)
LEMMA OfKnownStep ==
  ASSUME TypeOK, OfKnown, [Next]_vars PROVE OfKnown'
<1> USE DEF TypeOK, OfKnown, Phase, Finish, FinishAny, Work, Left, flowVars, threads,
            worldVars, slotVars, envVars
<1> USE NoneApart
<1> DEFINE Known(m) == after[m].at \notin {"none", "spawned"} => after[m].of \in Session
<1> SUFFICES ASSUME NEW m \in Session PROVE Known(m)'
  OBVIOUS
<1>1. CASE ApplyCheck
  BY <1>1 DEF ApplyCheck
<1>2. CASE ApplyTake
  BY <1>2, TakeEffect DEF Taken
<1>3. CASE OnServerStartup
  BY <1>3 DEF OnServerStartup
<1>4. CASE OnServerStop
  <2>1. CASE UNCHANGED after
    BY <2>1
  <2>2. CASE Moved(current, "spawned")
    BY <2>2 DEF Moved, OthersStay
  <2> QED BY <1>4, <2>1, <2>2, StopEffect
<1>5. CASE Unload
  BY <1>5 DEF Unload, Slot!ShutdownBegin
<1>6. CASE ServerDown
  BY <1>6 DEF ServerDown, Slot!ServerDown
<1>7. CASE OperatorStart
  BY <1>7 DEF OperatorStart, Slot!ServerStarts
<1>8. CASE ExecutorCancels
  BY <1>8 DEF ExecutorCancels, Slot!CancelSet
<1>9. CASE SlotStep
  BY <1>9 DEF SlotStep
<1>10. ASSUME NEW n \in Session, PreStopStart(n) PROVE Known(m)'
  BY <1>10 DEF PreStopStart
<1>11. ASSUME NEW n \in Session, PreStopAcquire(n) PROVE Known(m)'
  BY <1>11 DEF PreStopAcquire
<1>12. ASSUME NEW n \in Session, PreStopEnter(n) PROVE Known(m)'
  BY <1>12 DEF PreStopEnter
<1>13. ASSUME NEW n \in Session, SnapshotSaveOff(n) PROVE Known(m)'
  BY <1>13 DEF SnapshotSaveOff
<1>14. ASSUME NEW n \in Session, SnapshotDone(n) PROVE Known(m)'
  BY <1>14, SnapshotEffect DEF SnapshotDone, ResultStays
<1>15. ASSUME NEW n \in Session, SnapshotFails(n) PROVE Known(m)'
  BY <1>15 DEF SnapshotFails
<1>16. ASSUME NEW n \in Session, MarkStopping(n) PROVE Known(m)'
  BY <1>16, PhaseEffect DEF MarkStopping, Phases, PhaseIs, ResultStays
<1>17. ASSUME NEW n \in Session, StopCall(n) PROVE Known(m)'
  BY <1>17 DEF StopCall
<1>18. ASSUME NEW n \in Session, StopFailed(n) PROVE Known(m)'
  BY <1>18 DEF StopFailed
<1>19. ASSUME NEW n \in Session, PreStopFailed(n) PROVE Known(m)'
  BY <1>19 DEF PreStopFailed
<1>20. ASSUME NEW n \in Session, PreStopFinish(n) PROVE Known(m)'
  BY <1>20 DEF PreStopFinish
<1>21. ASSUME NEW n \in Session, PreStopClear(n) PROVE Known(m)'
  BY <1>21 DEF PreStopClear
<1>22. ASSUME NEW n \in Session, PreStopUnlock(n) PROVE Known(m)'
  BY <1>22 DEF PreStopUnlock
<1>23. ASSUME NEW n \in Session, DirectTask(n) PROVE Known(m)'
  BY <1>23, PhaseEffect DEF DirectTask, Phases, PhaseIs, ResultStays
<1>24. ASSUME NEW n \in Session, DirectRestic(n) PROVE Known(m)'
  BY <1>24 DEF DirectRestic
<1>25. ASSUME NEW k \in Session, AfterStopStart(k) PROVE Known(m)'
  BY <1>25, StartEffect DEF AfterStopStart, Gone, OthersStay, NoAfter
<1>26. ASSUME NEW k \in Session, AfterStopTask(k) PROVE Known(m)'
  BY <1>26, TaskEffect DEF AfterStopTask, Moved, Failed, OthersStay
<1>27. ASSUME NEW k \in Session, AfterStopRestic(k) PROVE Known(m)'
  BY <1>27, ResticEffect DEF AfterStopRestic, Moved, Failed, OthersStay
<1>28. ASSUME NEW k \in Session, RollbackStart(k) PROVE Known(m)'
  BY <1>28, RollbackEffect DEF RollbackStart, Moved, Rolled, OthersStay
<1>29. ASSUME NEW k \in Session, RollbackRestic(k) PROVE Known(m)'
  BY <1>29, RollingEffect DEF RollbackRestic, Rolled, OthersStay
<1>30. ASSUME NEW k \in Session, MarkStarting(k) PROVE Known(m)'
  BY <1>30, MarkEffect DEF Moved, OthersStay
<1>31. ASSUME NEW k \in Session, StartServer(k) PROVE Known(m)'
  BY <1>31, GoneEffect DEF StartServer, Gone, OthersStay, NoAfter
<1>32. ASSUME NEW n \in Session, WatchdogFires(n) PROVE Known(m)'
  BY <1>32 DEF WatchdogFires
<1>33. CASE UNCHANGED vars
  BY <1>33 DEF vars
<1> QED
  BY <1>1, <1>2, <1>3, <1>4, <1>5, <1>6, <1>7, <1>8, <1>9, <1>10, <1>11, <1>12, <1>13,
     <1>14, <1>15, <1>16, <1>17, <1>18, <1>19, <1>20, <1>21, <1>22, <1>23, <1>24, <1>25,
     <1>26, <1>27, <1>28, <1>29, <1>30, <1>31, <1>32, <1>33
     DEF Next, WorkerStep, AfterStep

-----------------------------------------------------------------------------
(* What the slot does by itself touches neither the workflow nor its lock, does *)
(* not stop the plugin, and does not run restore apply.                          *)
LEMMA SlotFrame ==
  ASSUME SlotStep
  PROVE  /\ UNCHANGED <<world, flowVars, stopAsked, loading, restoreHeld, stopping>>
         /\ executor' = "restore" => executor = "restore"
<1> DEFINE Goal == /\ UNCHANGED <<restoreHeld, stopping>>
                   /\ executor' = "restore" => executor = "restore"
<1> USE DEF Slot!pluginVars
<1>1. ASSUME NEW t \in Slot!Thread, Slot!CommandCheck(t) PROVE Goal
  BY <1>1 DEF Slot!CommandCheck
<1>2. ASSUME NEW t \in Slot!Thread, Slot!CommandAcquire(t) PROVE Goal
  BY <1>2 DEF Slot!CommandAcquire
<1>3. ASSUME NEW t \in Slot!Thread, Slot!StartThread(t) PROVE Goal
  BY <1>3 DEF Slot!StartThread
<1>4. ASSUME NEW t \in Slot!Thread, Slot!Trigger(t) PROVE Goal
  BY <1>4 DEF Slot!Trigger
<1>5. ASSUME NEW t \in Slot!Thread, Slot!WaiterCheck(t) PROVE Goal
  BY <1>5 DEF Slot!WaiterCheck
<1>6. ASSUME NEW t \in Slot!Thread, Slot!PollStopping(t) PROVE Goal
  BY <1>6 DEF Slot!PollStopping
<1>7. ASSUME NEW t \in Slot!Thread, Slot!PollAcquire(t) PROVE Goal
  BY <1>7 DEF Slot!PollAcquire
<1>8. ASSUME NEW t \in Slot!Thread, Slot!PollGiveUp(t) PROVE Goal
  BY <1>8 DEF Slot!PollGiveUp
<1>9. ASSUME NEW t \in Slot!Thread, Slot!TaskEnter(t) PROVE Goal
  BY <1>9 DEF Slot!TaskEnter
<1>10. ASSUME NEW t \in Slot!Thread, Slot!CommandEnter(t) PROVE Goal
  BY <1>10 DEF Slot!CommandEnter
<1>11. ASSUME NEW t \in Slot!Thread, Slot!BodyFails(t) PROVE Goal
  BY <1>11 DEF Slot!BodyFails
<1>12. ASSUME NEW t \in Slot!Thread, Slot!SaveOff(t) PROVE Goal
  BY <1>12 DEF Slot!SaveOff
<1>13. ASSUME NEW t \in Slot!Thread, Slot!StartRestic(t) PROVE Goal
  BY <1>13 DEF Slot!StartRestic
<1>14. ASSUME NEW t \in Slot!Thread, Slot!MaintenanceNext(t) PROVE Goal
  BY <1>14 DEF Slot!MaintenanceNext
<1>15. ASSUME NEW t \in Slot!Thread, Slot!ResticEnds(t) PROVE Goal
  BY <1>15 DEF Slot!ResticEnds
<1>16. ASSUME NEW t \in Slot!Thread, Slot!SaveOn(t) PROVE Goal
  BY <1>16 DEF Slot!SaveOn
<1>17. ASSUME NEW t \in Slot!Thread, Slot!ReleaseClear(t) PROVE Goal
  BY <1>17 DEF Slot!ReleaseClear
<1>18. ASSUME NEW t \in Slot!Thread, Slot!ReleaseUnlock(t) PROVE Goal
  BY <1>18 DEF Slot!ReleaseUnlock
<1>19. ASSUME Slot!CancelCheck PROVE Goal
  BY <1>19 DEF Slot!CancelCheck
<1>20. ASSUME Slot!ShutdownCheck PROVE Goal
  BY <1>20 DEF Slot!ShutdownCheck
<1>21. ASSUME Slot!ShutdownCancel PROVE Goal
  BY <1>21 DEF Slot!ShutdownCancel
<1>22. ASSUME Slot!ShutdownSaveOn PROVE Goal
  BY <1>22 DEF Slot!ShutdownSaveOn
<1>23. Goal
  BY <1>1, <1>2, <1>3, <1>4, <1>5, <1>6, <1>7, <1>8, <1>9, <1>10, <1>11, <1>12, <1>13,
     <1>14, <1>15, <1>16, <1>17, <1>18, <1>19, <1>20, <1>21, <1>22
     DEF SlotStep, Slot!ThreadStep, Slot!Release
<1> QED BY <1>23 DEF SlotStep

(* The restore lock is taken and given back together with the current session. *)
LEMMA HeldStep ==
  ASSUME TypeOK, HeldIffCurrent, [Next]_vars PROVE HeldIffCurrent'
<1> USE NoneApart DEF TypeOK, HeldIffCurrent, Phase, Finish, FinishAny, Work, Left,
            flowVars, threads, worldVars, slotVars, envVars
<1>1. CASE ApplyCheck
  BY <1>1 DEF ApplyCheck
<1>2. CASE ApplyTake
  <2>1. ASSUME NEW n \in Session, NEW kind \in RestoreKinds, Taken(n, kind) PROVE HeldIffCurrent'
    BY <2>1, NoneApart DEF Taken
  <2> QED BY <1>2, <2>1, TakeEffect
<1>3. CASE OnServerStartup
  BY <1>3 DEF OnServerStartup
<1>4. CASE OnServerStop
  BY <1>4, StopEffect DEF PhaseIs, ResultStays, Moved, OthersStay
<1>5. CASE Unload
  BY <1>5 DEF Unload, Slot!ShutdownBegin
<1>6. CASE ServerDown
  BY <1>6 DEF ServerDown, Slot!ServerDown
<1>7. CASE OperatorStart
  BY <1>7 DEF OperatorStart, Slot!ServerStarts
<1>8. CASE ExecutorCancels
  BY <1>8 DEF ExecutorCancels, Slot!CancelSet
<1>9. CASE SlotStep
  BY <1>9, SlotFrame DEF SlotStep
<1>10. ASSUME NEW n \in Session, PreStopStart(n) PROVE HeldIffCurrent'
  BY <1>10 DEF PreStopStart
<1>11. ASSUME NEW n \in Session, PreStopAcquire(n) PROVE HeldIffCurrent'
  BY <1>11 DEF PreStopAcquire
<1>12. ASSUME NEW n \in Session, PreStopEnter(n) PROVE HeldIffCurrent'
  BY <1>12 DEF PreStopEnter
<1>13. ASSUME NEW n \in Session, SnapshotSaveOff(n) PROVE HeldIffCurrent'
  BY <1>13 DEF SnapshotSaveOff
<1>14. ASSUME NEW n \in Session, SnapshotDone(n) PROVE HeldIffCurrent'
  BY <1>14, SnapshotEffect DEF SnapshotDone, ResultStays
<1>15. ASSUME NEW n \in Session, SnapshotFails(n) PROVE HeldIffCurrent'
  BY <1>15 DEF SnapshotFails
<1>16. ASSUME NEW n \in Session, MarkStopping(n) PROVE HeldIffCurrent'
  BY <1>16, PhaseEffect DEF MarkStopping, Phases, PhaseIs, ResultStays
<1>17. ASSUME NEW n \in Session, StopCall(n) PROVE HeldIffCurrent'
  BY <1>17 DEF StopCall
<1>18. ASSUME NEW n \in Session, StopFailed(n) PROVE HeldIffCurrent'
  BY <1>18 DEF StopFailed
<1>19. ASSUME NEW n \in Session, PreStopFailed(n) PROVE HeldIffCurrent'
  BY <1>19 DEF PreStopFailed
<1>20. ASSUME NEW n \in Session, PreStopFinish(n) PROVE HeldIffCurrent'
  BY <1>20 DEF PreStopFinish
<1>21. ASSUME NEW n \in Session, PreStopClear(n) PROVE HeldIffCurrent'
  BY <1>21 DEF PreStopClear
<1>22. ASSUME NEW n \in Session, PreStopUnlock(n) PROVE HeldIffCurrent'
  BY <1>22 DEF PreStopUnlock
<1>23. ASSUME NEW n \in Session, DirectTask(n) PROVE HeldIffCurrent'
  BY <1>23, PhaseEffect DEF DirectTask, Phases, PhaseIs, ResultStays
<1>24. ASSUME NEW n \in Session, DirectRestic(n) PROVE HeldIffCurrent'
  BY <1>24 DEF DirectRestic
<1>25. ASSUME NEW k \in Session, AfterStopStart(k) PROVE HeldIffCurrent'
  BY <1>25, StartEffect DEF AfterStopStart, Gone, OthersStay, NoAfter
<1>26. ASSUME NEW k \in Session, AfterStopTask(k) PROVE HeldIffCurrent'
  BY <1>26, TaskEffect DEF AfterStopTask, Moved, Failed, OthersStay
<1>27. ASSUME NEW k \in Session, AfterStopRestic(k) PROVE HeldIffCurrent'
  BY <1>27, ResticEffect DEF AfterStopRestic, Moved, Failed, OthersStay
<1>28. ASSUME NEW k \in Session, RollbackStart(k) PROVE HeldIffCurrent'
  BY <1>28, RollbackEffect DEF RollbackStart, Moved, Rolled, OthersStay
<1>29. ASSUME NEW k \in Session, RollbackRestic(k) PROVE HeldIffCurrent'
  BY <1>29, RollingEffect DEF RollbackRestic, Rolled, OthersStay
<1>30. ASSUME NEW k \in Session, MarkStarting(k) PROVE HeldIffCurrent'
  BY <1>30, MarkEffect DEF Moved, OthersStay
<1>31. ASSUME NEW k \in Session, StartServer(k) PROVE HeldIffCurrent'
  BY <1>31, GoneEffect DEF StartServer, Gone, OthersStay, NoAfter
<1>32. ASSUME NEW n \in Session, WatchdogFires(n) PROVE HeldIffCurrent'
  BY <1>32 DEF WatchdogFires
<1>33. CASE UNCHANGED vars
  BY <1>33 DEF vars
<1> QED
  BY <1>1, <1>2, <1>3, <1>4, <1>5, <1>6, <1>7, <1>8, <1>9, <1>10, <1>11, <1>12, <1>13,
     <1>14, <1>15, <1>16, <1>17, <1>18, <1>19, <1>20, <1>21, <1>22, <1>23, <1>24, <1>25,
     <1>26, <1>27, <1>28, <1>29, <1>30, <1>31, <1>32, <1>33
     DEF Next, WorkerStep, AfterStep

(* Nobody starts work for a session before it is applied. *)
LEMMA FreshStep ==
  ASSUME TypeOK, Fresh, AfterPlaces, [Next]_vars PROVE Fresh'
<1> USE DEF TypeOK, Fresh, FreshAt, Started, AfterPlaces, AfterPlace, Phase, Finish,
            FinishAny, Work, Left, flowVars, threads, worldVars, slotVars, envVars
<1> USE NoneApart
<1> SUFFICES ASSUME NEW m \in Session PROVE FreshAt(m)'
  OBVIOUS
<1>1. CASE ApplyCheck
  BY <1>1 DEF ApplyCheck
<1>2. CASE ApplyTake
  BY <1>2, TakeEffect DEF Taken
<1>3. CASE OnServerStartup
  BY <1>3 DEF OnServerStartup
<1>4. CASE OnServerStop
  <2>0. UNCHANGED <<world, worker, watchdog>> /\ stopEvent
    BY <1>4, StopEffect
  <2>1. CASE Phase = "STARTING" /\ FinishAny /\ UNCHANGED <<session, after>>
    BY <2>0, <2>1
  <2>2. CASE PhaseIs("RESTORING") /\ Moved(current, "spawned") /\ Phase = "STOPPING"
             /\ UNCHANGED current
    BY <2>0, <2>2 DEF PhaseIs, ResultStays, Moved, OthersStay
  <2>3. CASE UNCHANGED <<current, session, after>>
    BY <2>0, <2>3
  <2> QED BY <1>4, <2>1, <2>2, <2>3, StopEffect
<1>5. CASE Unload
  BY <1>5 DEF Unload, Slot!ShutdownBegin
<1>6. CASE ServerDown
  BY <1>6 DEF ServerDown, Slot!ServerDown
<1>7. CASE OperatorStart
  BY <1>7 DEF OperatorStart, Slot!ServerStarts
<1>8. CASE ExecutorCancels
  BY <1>8 DEF ExecutorCancels, Slot!CancelSet
<1>9. CASE SlotStep
  BY <1>9 DEF SlotStep
<1>10. ASSUME NEW n \in Session, PreStopStart(n) PROVE FreshAt(m)'
  BY <1>10 DEF PreStopStart
<1>11. ASSUME NEW n \in Session, PreStopAcquire(n) PROVE FreshAt(m)'
  BY <1>11 DEF PreStopAcquire
<1>12. ASSUME NEW n \in Session, PreStopEnter(n) PROVE FreshAt(m)'
  BY <1>12 DEF PreStopEnter
<1>13. ASSUME NEW n \in Session, SnapshotSaveOff(n) PROVE FreshAt(m)'
  BY <1>13 DEF SnapshotSaveOff
<1>14. ASSUME NEW n \in Session, SnapshotDone(n) PROVE FreshAt(m)'
  BY <1>14, SnapshotEffect DEF SnapshotDone, ResultStays
<1>15. ASSUME NEW n \in Session, SnapshotFails(n) PROVE FreshAt(m)'
  BY <1>15 DEF SnapshotFails
<1>16. ASSUME NEW n \in Session, MarkStopping(n) PROVE FreshAt(m)'
  BY <1>16, PhaseEffect DEF MarkStopping, Phases, PhaseIs, ResultStays
<1>17. ASSUME NEW n \in Session, StopCall(n) PROVE FreshAt(m)'
  BY <1>17 DEF StopCall
<1>18. ASSUME NEW n \in Session, StopFailed(n) PROVE FreshAt(m)'
  BY <1>18 DEF StopFailed
<1>19. ASSUME NEW n \in Session, PreStopFailed(n) PROVE FreshAt(m)'
  BY <1>19 DEF PreStopFailed
<1>20. ASSUME NEW n \in Session, PreStopFinish(n) PROVE FreshAt(m)'
  BY <1>20 DEF PreStopFinish
<1>21. ASSUME NEW n \in Session, PreStopClear(n) PROVE FreshAt(m)'
  BY <1>21 DEF PreStopClear
<1>22. ASSUME NEW n \in Session, PreStopUnlock(n) PROVE FreshAt(m)'
  BY <1>22 DEF PreStopUnlock
<1>23. ASSUME NEW n \in Session, DirectTask(n) PROVE FreshAt(m)'
  BY <1>23, PhaseEffect DEF DirectTask, Phases, PhaseIs, ResultStays
<1>24. ASSUME NEW n \in Session, DirectRestic(n) PROVE FreshAt(m)'
  BY <1>24 DEF DirectRestic
<1>25. ASSUME NEW k \in Session, AfterStopStart(k) PROVE FreshAt(m)'
  BY <1>25, StartEffect DEF AfterStopStart, Gone, OthersStay, NoAfter
<1>26. ASSUME NEW k \in Session, AfterStopTask(k) PROVE FreshAt(m)'
  BY <1>26, TaskEffect DEF AfterStopTask, Moved, Failed, OthersStay
<1>27. ASSUME NEW k \in Session, AfterStopRestic(k) PROVE FreshAt(m)'
  BY <1>27, ResticEffect DEF AfterStopRestic, Moved, Failed, OthersStay
<1>28. ASSUME NEW k \in Session, RollbackStart(k) PROVE FreshAt(m)'
  BY <1>28, RollbackEffect DEF RollbackStart, Moved, Rolled, OthersStay
<1>29. ASSUME NEW k \in Session, RollbackRestic(k) PROVE FreshAt(m)'
  BY <1>29, RollingEffect DEF RollbackRestic, Rolled, OthersStay
<1>30. ASSUME NEW k \in Session, MarkStarting(k) PROVE FreshAt(m)'
  BY <1>30, MarkEffect DEF Moved, OthersStay
<1>31. ASSUME NEW k \in Session, StartServer(k) PROVE FreshAt(m)'
  BY <1>31, GoneEffect DEF StartServer, Gone, OthersStay, NoAfter
<1>32. ASSUME NEW n \in Session, WatchdogFires(n) PROVE FreshAt(m)'
  BY <1>32 DEF WatchdogFires
<1>33. CASE UNCHANGED vars
  BY <1>33 DEF vars
<1> QED
  BY <1>1, <1>2, <1>3, <1>4, <1>5, <1>6, <1>7, <1>8, <1>9, <1>10, <1>11, <1>12, <1>13,
     <1>14, <1>15, <1>16, <1>17, <1>18, <1>19, <1>20, <1>21, <1>22, <1>23, <1>24, <1>25,
     <1>26, <1>27, <1>28, <1>29, <1>30, <1>31, <1>32, <1>33
     DEF Next, WorkerStep, AfterStep

(* A pre-stop or direct thread stays in the places of its kind and phase. *)
LEMMA WorkerStepKept ==
  ASSUME TypeOK, HeldIffCurrent, Fresh, WorkerPlaces, AfterPlaces, [Next]_vars
  PROVE  WorkerPlaces'
<1> USE DEF TypeOK, HeldIffCurrent, Fresh, FreshAt, Started, WorkerPlaces, WorkerPlace,
            AfterPlaces, AfterPlace, Before, SafeOnly, Direct, Phase, WorkerPC, Finish,
            FinishAny, Work, Left, flowVars, threads, worldVars, slotVars, envVars
<1> USE NoneApart
<1> SUFFICES ASSUME NEW m \in Session PROVE WorkerPlace(m)'
  OBVIOUS
<1>1. CASE ApplyCheck
  BY <1>1 DEF ApplyCheck
<1>2. CASE ApplyTake
  BY <1>2, TakeEffect, RestoreAssumption DEF Taken
<1>3. CASE OnServerStartup
  BY <1>3 DEF OnServerStartup
<1>4. CASE OnServerStop
  <2>0. UNCHANGED <<world, worker, watchdog>> /\ stopEvent
    BY <1>4, StopEffect
  <2>1. CASE Phase = "STARTING" /\ FinishAny /\ UNCHANGED <<session, after>>
    BY <2>0, <2>1
  <2>2. CASE PhaseIs("RESTORING") /\ Moved(current, "spawned") /\ Phase = "STOPPING"
             /\ UNCHANGED current
    BY <2>0, <2>2 DEF PhaseIs, ResultStays, Moved, OthersStay
  <2>3. CASE UNCHANGED <<current, session, after>>
    BY <2>0, <2>3
  <2> QED BY <1>4, <2>1, <2>2, <2>3, StopEffect
<1>5. CASE Unload
  BY <1>5 DEF Unload, Slot!ShutdownBegin
<1>6. CASE ServerDown
  BY <1>6 DEF ServerDown, Slot!ServerDown
<1>7. CASE OperatorStart
  BY <1>7 DEF OperatorStart, Slot!ServerStarts
<1>8. CASE ExecutorCancels
  BY <1>8 DEF ExecutorCancels, Slot!CancelSet
<1>9. CASE SlotStep
  BY <1>9 DEF SlotStep
<1>10. ASSUME NEW n \in Session, PreStopStart(n) PROVE WorkerPlace(m)'
  BY <1>10 DEF PreStopStart
<1>11. ASSUME NEW n \in Session, PreStopAcquire(n) PROVE WorkerPlace(m)'
  BY <1>11 DEF PreStopAcquire
<1>12. ASSUME NEW n \in Session, PreStopEnter(n) PROVE WorkerPlace(m)'
  BY <1>12 DEF PreStopEnter
<1>13. ASSUME NEW n \in Session, SnapshotSaveOff(n) PROVE WorkerPlace(m)'
  BY <1>13 DEF SnapshotSaveOff
<1>14. ASSUME NEW n \in Session, SnapshotDone(n) PROVE WorkerPlace(m)'
  BY <1>14, SnapshotEffect DEF SnapshotDone, ResultStays
<1>15. ASSUME NEW n \in Session, SnapshotFails(n) PROVE WorkerPlace(m)'
  BY <1>15 DEF SnapshotFails
<1>16. ASSUME NEW n \in Session, MarkStopping(n) PROVE WorkerPlace(m)'
  BY <1>16, PhaseEffect DEF MarkStopping, Phases, PhaseIs, ResultStays
<1>17. ASSUME NEW n \in Session, StopCall(n) PROVE WorkerPlace(m)'
  BY <1>17 DEF StopCall
<1>18. ASSUME NEW n \in Session, StopFailed(n) PROVE WorkerPlace(m)'
  BY <1>18 DEF StopFailed
<1>19. ASSUME NEW n \in Session, PreStopFailed(n) PROVE WorkerPlace(m)'
  BY <1>19 DEF PreStopFailed
<1>20. ASSUME NEW n \in Session, PreStopFinish(n) PROVE WorkerPlace(m)'
  BY <1>20 DEF PreStopFinish
<1>21. ASSUME NEW n \in Session, PreStopClear(n) PROVE WorkerPlace(m)'
  BY <1>21 DEF PreStopClear
<1>22. ASSUME NEW n \in Session, PreStopUnlock(n) PROVE WorkerPlace(m)'
  BY <1>22 DEF PreStopUnlock
<1>23. ASSUME NEW n \in Session, DirectTask(n) PROVE WorkerPlace(m)'
  BY <1>23, PhaseEffect DEF DirectTask, Phases, PhaseIs, ResultStays
<1>24. ASSUME NEW n \in Session, DirectRestic(n) PROVE WorkerPlace(m)'
  BY <1>24 DEF DirectRestic
<1>25. ASSUME NEW k \in Session, AfterStopStart(k) PROVE WorkerPlace(m)'
  BY <1>25, StartEffect DEF AfterStopStart, Gone, OthersStay, NoAfter
<1>26. ASSUME NEW k \in Session, AfterStopTask(k) PROVE WorkerPlace(m)'
  BY <1>26, TaskEffect DEF AfterStopTask, Moved, Failed, OthersStay
<1>27. ASSUME NEW k \in Session, AfterStopRestic(k) PROVE WorkerPlace(m)'
  BY <1>27, ResticEffect DEF AfterStopRestic, Moved, Failed, OthersStay
<1>28. ASSUME NEW k \in Session, RollbackStart(k) PROVE WorkerPlace(m)'
  BY <1>28, RollbackEffect DEF RollbackStart, Moved, Rolled, OthersStay
<1>29. ASSUME NEW k \in Session, RollbackRestic(k) PROVE WorkerPlace(m)'
  BY <1>29, RollingEffect DEF RollbackRestic, Rolled, OthersStay
<1>30. ASSUME NEW k \in Session, MarkStarting(k) PROVE WorkerPlace(m)'
  BY <1>30, MarkEffect DEF Moved, OthersStay
<1>31. ASSUME NEW k \in Session, StartServer(k) PROVE WorkerPlace(m)'
  BY <1>31, GoneEffect DEF StartServer, Gone, OthersStay, NoAfter
<1>32. ASSUME NEW n \in Session, WatchdogFires(n) PROVE WorkerPlace(m)'
  BY <1>32 DEF WatchdogFires
<1>33. CASE UNCHANGED vars
  BY <1>33 DEF vars
<1> QED
  BY <1>1, <1>2, <1>3, <1>4, <1>5, <1>6, <1>7, <1>8, <1>9, <1>10, <1>11, <1>12, <1>13,
     <1>14, <1>15, <1>16, <1>17, <1>18, <1>19, <1>20, <1>21, <1>22, <1>23, <1>24, <1>25,
     <1>26, <1>27, <1>28, <1>29, <1>30, <1>31, <1>32, <1>33
     DEF Next, WorkerStep, AfterStep

(* A free lock means that no pre-stop thread is in the slot. *)
LEMMA FreeSlot ==
  ASSUME Slot!SlotExclusive, ~lock PROVE \A n \in Session : ~InPlace(n)
BY DEF Slot!SlotExclusive, Slot!RestorerInSlot, Restorer, InPlace

(* Two pre-stop threads never hold the slot together: the lock is one. *)
LEMMA OneInPlaceStep ==
  ASSUME TypeOK, Slot!SlotExclusive, Fresh, WorkerPlaces, OneInPlace, [Next]_vars
  PROVE  OneInPlace'
<1> USE DEF TypeOK, WorkerPlaces, WorkerPlace, Fresh, FreshAt, Started, OneInPlace, InPlace,
            Inside, SafeOnly, WorkerPC, Finish, FinishAny, Work, Left, flowVars, threads,
            worldVars, slotVars, envVars
<1>1. CASE ApplyCheck
  BY <1>1 DEF ApplyCheck
<1>2. CASE ApplyTake
  BY <1>2, TakeEffect DEF Taken
<1>3. CASE OnServerStartup
  BY <1>3 DEF OnServerStartup
<1>4. CASE OnServerStop
  <2>1. worker' = worker /\ \A m \in Session : session'[m].kind = session[m].kind
    BY <1>4, StopEffect DEF PhaseIs, ResultStays
  <2> QED BY <2>1
<1>5. CASE Unload
  BY <1>5 DEF Unload, Slot!ShutdownBegin
<1>6. CASE ServerDown
  BY <1>6 DEF ServerDown, Slot!ServerDown
<1>7. CASE OperatorStart
  BY <1>7 DEF OperatorStart, Slot!ServerStarts
<1>8. CASE ExecutorCancels
  BY <1>8 DEF ExecutorCancels, Slot!CancelSet
<1>9. CASE SlotStep
  BY <1>9 DEF SlotStep
<1>10. ASSUME NEW n \in Session, PreStopStart(n) PROVE OneInPlace'
  BY <1>10 DEF PreStopStart
<1>11. ASSUME NEW n \in Session, PreStopAcquire(n) PROVE OneInPlace'
  BY <1>11, FreeSlot DEF PreStopAcquire
<1>12. ASSUME NEW n \in Session, PreStopEnter(n) PROVE OneInPlace'
  BY <1>12 DEF PreStopEnter
<1>13. ASSUME NEW n \in Session, SnapshotSaveOff(n) PROVE OneInPlace'
  BY <1>13 DEF SnapshotSaveOff
<1>14. ASSUME NEW n \in Session, SnapshotDone(n) PROVE OneInPlace'
  BY <1>14, SnapshotEffect DEF SnapshotDone, ResultStays
<1>15. ASSUME NEW n \in Session, SnapshotFails(n) PROVE OneInPlace'
  BY <1>15 DEF SnapshotFails
<1>16. ASSUME NEW n \in Session, MarkStopping(n) PROVE OneInPlace'
  BY <1>16, PhaseEffect DEF MarkStopping, Phases, PhaseIs, ResultStays
<1>17. ASSUME NEW n \in Session, StopCall(n) PROVE OneInPlace'
  BY <1>17 DEF StopCall
<1>18. ASSUME NEW n \in Session, StopFailed(n) PROVE OneInPlace'
  BY <1>18 DEF StopFailed
<1>19. ASSUME NEW n \in Session, PreStopFailed(n) PROVE OneInPlace'
  BY <1>19 DEF PreStopFailed
<1>20. ASSUME NEW n \in Session, PreStopFinish(n) PROVE OneInPlace'
  BY <1>20 DEF PreStopFinish
<1>21. ASSUME NEW n \in Session, PreStopClear(n) PROVE OneInPlace'
  <2>1. worker[n] = "leaving" /\ session[n].kind = "safe" /\ session' = session
    BY <1>21  DEF PreStopClear
  <2>2. InPlace(n) /\ \A m \in Session : m # n => (InPlace(m)' <=> InPlace(m))
    BY <1>21, <2>1 DEF PreStopClear
  <2> QED BY <2>2
<1>22. ASSUME NEW n \in Session, PreStopUnlock(n) PROVE OneInPlace'
  BY <1>22 DEF PreStopUnlock
<1>23. ASSUME NEW n \in Session, DirectTask(n) PROVE OneInPlace'
  BY <1>23, PhaseEffect DEF DirectTask, Phases, PhaseIs, ResultStays
<1>24. ASSUME NEW n \in Session, DirectRestic(n) PROVE OneInPlace'
  BY <1>24 DEF DirectRestic
<1>25. ASSUME NEW k \in Session, AfterStopStart(k) PROVE OneInPlace'
  BY <1>25, StartEffect DEF AfterStopStart, Gone, OthersStay, NoAfter
<1>26. ASSUME NEW k \in Session, AfterStopTask(k) PROVE OneInPlace'
  BY <1>26, TaskEffect DEF AfterStopTask, Moved, Failed, OthersStay
<1>27. ASSUME NEW k \in Session, AfterStopRestic(k) PROVE OneInPlace'
  BY <1>27, ResticEffect DEF AfterStopRestic, Moved, Failed, OthersStay
<1>28. ASSUME NEW k \in Session, RollbackStart(k) PROVE OneInPlace'
  BY <1>28, RollbackEffect DEF RollbackStart, Moved, Rolled, OthersStay
<1>29. ASSUME NEW k \in Session, RollbackRestic(k) PROVE OneInPlace'
  BY <1>29, RollingEffect DEF RollbackRestic, Rolled, OthersStay
<1>30. ASSUME NEW k \in Session, MarkStarting(k) PROVE OneInPlace'
  BY <1>30, MarkEffect DEF Moved, OthersStay
<1>31. ASSUME NEW k \in Session, StartServer(k) PROVE OneInPlace'
  BY <1>31, GoneEffect DEF StartServer, Gone, OthersStay, NoAfter
<1>32. ASSUME NEW n \in Session, WatchdogFires(n) PROVE OneInPlace'
  BY <1>32 DEF WatchdogFires
<1>33. CASE UNCHANGED vars
  BY <1>33 DEF vars
<1> QED
  BY <1>1, <1>2, <1>3, <1>4, <1>5, <1>6, <1>7, <1>8, <1>9, <1>10, <1>11, <1>12, <1>13,
     <1>14, <1>15, <1>16, <1>17, <1>18, <1>19, <1>20, <1>21, <1>22, <1>23, <1>24, <1>25,
     <1>26, <1>27, <1>28, <1>29, <1>30, <1>31, <1>32, <1>33
     DEF Next, WorkerStep, AfterStep

-----------------------------------------------------------------------------
(* When a restore is taken nobody else is at work. *)
LEMMA TakenAlone ==
  ASSUME Orderly, HeldIffCurrent, Fresh, CalmPlaces, NEW n \in Session, NEW kind, Taken(n, kind)
  PROVE  current = None /\ ~Started(n) /\ \A k \in Session : after[k].at = "none"
<1>1. current = None /\ ~Started(n)
  BY DEF Taken, HeldIffCurrent, Started
<1>2. CASE Calm
  BY <1>1, <1>2, NoneApart DEF CalmPlaces, CalmAfter
<1>3. CASE "again" \notin world
  <2>1. n = 1
    BY <1>3 DEF Taken
  <2> QED BY <1>1, <1>3, <2>1 DEF Fresh, FreshAt
<1> QED BY <1>1, <1>2, <1>3 DEF Orderly

(* An after-stop thread stays with the session whose stop started it. *)
LEMMA AfterPlacesStep ==
  ASSUME TypeOK, Orderly, HeldIffCurrent, Fresh, WorkerPlaces, AfterPlaces, OneAfter,
         CalmPlaces, [Next]_vars
  PROVE  AfterPlaces'
<1> USE DEF TypeOK, HeldIffCurrent, Fresh, FreshAt, Started, WorkerPlaces, WorkerPlace,
            AfterPlaces, AfterPlace, OneAfter, CalmPlaces, CalmAfter, CalmWorker, Direct,
            Before, Phase, Finish, FinishAny, Work, Left, flowVars, threads, worldVars,
            slotVars, envVars
<1> USE NoneApart
<1> SUFFICES ASSUME NEW m \in Session PROVE AfterPlace(m)'
  OBVIOUS
<1>1. CASE ApplyCheck
  BY <1>1 DEF ApplyCheck
<1>2. CASE ApplyTake
  <2>1. CASE UNCHANGED <<restoreHeld, current, session, worker, files>>
    BY <1>2, <2>1, TakeEffect
  <2>2. ASSUME NEW n \in Session, NEW kind \in RestoreKinds, Taken(n, kind) PROVE AfterPlace(m)'
    <3>1. \A k \in Session : after[k].at = "none" /\ current = None
      BY <2>2, TakenAlone
    <3>2. UNCHANGED <<after, watchdog, world>>
      BY <1>2, TakeEffect
    <3> QED BY <2>2, <3>1, <3>2 DEF Taken
  <2> QED BY <1>2, <2>1, <2>2, TakeEffect
<1>3. CASE OnServerStartup
  BY <1>3 DEF OnServerStartup
<1>4. CASE OnServerStop
  <2>0. UNCHANGED <<world, lock, stopping, serverUp, saving, stopAsked, worker, watchdog, files>>
        /\ stopEvent /\ ~stopEvent'
    BY <1>4, StopEffect
  <2>1. CASE Phase = "STARTING" /\ FinishAny /\ UNCHANGED <<session, after>>
    BY <2>0, <2>1
  <2>2. CASE PhaseIs("RESTORING") /\ Moved(current, "spawned") /\ Phase = "STOPPING"
             /\ current \in Session /\ UNCHANGED <<current, restoreHeld>>
    BY <2>0, <2>2 DEF PhaseIs, ResultStays, Moved, OthersStay
  <2>3. CASE UNCHANGED <<current, session, after, restoreHeld>>
    BY <2>0, <2>3
  <2> QED BY <1>4, <2>1, <2>2, <2>3, StopEffect
<1>5. CASE Unload
  BY <1>5 DEF Unload, Slot!ShutdownBegin
<1>6. CASE ServerDown
  BY <1>6 DEF ServerDown, Slot!ServerDown
<1>7. CASE OperatorStart
  BY <1>7 DEF OperatorStart, Slot!ServerStarts
<1>8. CASE ExecutorCancels
  BY <1>8 DEF ExecutorCancels, Slot!CancelSet
<1>9. CASE SlotStep
  BY <1>9 DEF SlotStep
<1>10. ASSUME NEW n \in Session, PreStopStart(n) PROVE AfterPlace(m)'
  BY <1>10 DEF PreStopStart
<1>11. ASSUME NEW n \in Session, PreStopAcquire(n) PROVE AfterPlace(m)'
  BY <1>11 DEF PreStopAcquire
<1>12. ASSUME NEW n \in Session, PreStopEnter(n) PROVE AfterPlace(m)'
  BY <1>12 DEF PreStopEnter
<1>13. ASSUME NEW n \in Session, SnapshotSaveOff(n) PROVE AfterPlace(m)'
  BY <1>13 DEF SnapshotSaveOff
<1>14. ASSUME NEW n \in Session, SnapshotDone(n) PROVE AfterPlace(m)'
  BY <1>14, SnapshotEffect DEF SnapshotDone, ResultStays
<1>15. ASSUME NEW n \in Session, SnapshotFails(n) PROVE AfterPlace(m)'
  BY <1>15 DEF SnapshotFails
<1>16. ASSUME NEW n \in Session, MarkStopping(n) PROVE AfterPlace(m)'
  BY <1>16, PhaseEffect DEF MarkStopping, Phases, PhaseIs, ResultStays
<1>17. ASSUME NEW n \in Session, StopCall(n) PROVE AfterPlace(m)'
  BY <1>17 DEF StopCall
<1>18. ASSUME NEW n \in Session, StopFailed(n) PROVE AfterPlace(m)'
  BY <1>18 DEF StopFailed
<1>19. ASSUME NEW n \in Session, PreStopFailed(n) PROVE AfterPlace(m)'
  BY <1>19 DEF PreStopFailed
<1>20. ASSUME NEW n \in Session, PreStopFinish(n) PROVE AfterPlace(m)'
  BY <1>20 DEF PreStopFinish
<1>21. ASSUME NEW n \in Session, PreStopClear(n) PROVE AfterPlace(m)'
  BY <1>21 DEF PreStopClear
<1>22. ASSUME NEW n \in Session, PreStopUnlock(n) PROVE AfterPlace(m)'
  BY <1>22 DEF PreStopUnlock
<1>23. ASSUME NEW n \in Session, DirectTask(n) PROVE AfterPlace(m)'
  BY <1>23, PhaseEffect DEF DirectTask, Phases, PhaseIs, ResultStays
<1>24. ASSUME NEW n \in Session, DirectRestic(n) PROVE AfterPlace(m)'
  BY <1>24 DEF DirectRestic
<1>25. ASSUME NEW k \in Session, AfterStopStart(k) PROVE AfterPlace(m)'
  BY <1>25, StartEffect DEF AfterStopStart, Gone, OthersStay, NoAfter
<1>26. ASSUME NEW k \in Session, AfterStopTask(k) PROVE AfterPlace(m)'
  BY <1>26, TaskEffect DEF AfterStopTask, Moved, Failed, OthersStay
<1>27. ASSUME NEW k \in Session, AfterStopRestic(k) PROVE AfterPlace(m)'
  BY <1>27, ResticEffect DEF AfterStopRestic, Moved, Failed, OthersStay
<1>28. ASSUME NEW k \in Session, RollbackStart(k) PROVE AfterPlace(m)'
  BY <1>28, RollbackEffect DEF RollbackStart, Moved, Rolled, OthersStay
<1>29. ASSUME NEW k \in Session, RollbackRestic(k) PROVE AfterPlace(m)'
  BY <1>29, RollingEffect DEF RollbackRestic, Rolled, OthersStay
<1>30. ASSUME NEW k \in Session, MarkStarting(k) PROVE AfterPlace(m)'
  BY <1>30, MarkEffect DEF Moved, OthersStay
<1>31. ASSUME NEW k \in Session, StartServer(k) PROVE AfterPlace(m)'
  BY <1>31, GoneEffect DEF StartServer, Gone, OthersStay, NoAfter
<1>32. ASSUME NEW n \in Session, WatchdogFires(n) PROVE AfterPlace(m)'
  BY <1>32 DEF WatchdogFires
<1>33. CASE UNCHANGED vars
  BY <1>33 DEF vars
<1> QED
  BY <1>1, <1>2, <1>3, <1>4, <1>5, <1>6, <1>7, <1>8, <1>9, <1>10, <1>11, <1>12, <1>13,
     <1>14, <1>15, <1>16, <1>17, <1>18, <1>19, <1>20, <1>21, <1>22, <1>23, <1>24, <1>25,
     <1>26, <1>27, <1>28, <1>29, <1>30, <1>31, <1>32, <1>33
     DEF Next, WorkerStep, AfterStep

(* One stop event starts one after-stop thread, and the next one only after it. *)
LEMMA OneAfterStep ==
  ASSUME TypeOK, AfterPlaces, OneAfter, [Next]_vars PROVE OneAfter'
<1> USE DEF TypeOK, AfterPlaces, AfterPlace, OneAfter, Phase, Finish, FinishAny, Work, Left,
            flowVars, threads, worldVars, slotVars, envVars
<1> USE NoneApart
<1>1. CASE ApplyCheck
  BY <1>1 DEF ApplyCheck
<1>2. CASE ApplyTake
  BY <1>2, TakeEffect DEF Taken
<1>3. CASE OnServerStartup
  BY <1>3 DEF OnServerStartup
<1>4. CASE OnServerStop
  <2>0. UNCHANGED <<world, lock, stopping, serverUp, saving, stopAsked, worker, watchdog, files>>
        /\ stopEvent /\ ~stopEvent'
    BY <1>4, StopEffect
  <2>1. CASE Phase = "STARTING" /\ FinishAny /\ UNCHANGED <<session, after>>
    BY <2>0, <2>1
  <2>2. CASE PhaseIs("RESTORING") /\ Moved(current, "spawned") /\ Phase = "STOPPING"
             /\ current \in Session /\ UNCHANGED <<current, restoreHeld>>
    BY <2>0, <2>2 DEF PhaseIs, ResultStays, Moved, OthersStay
  <2>3. CASE UNCHANGED <<current, session, after, restoreHeld>>
    BY <2>0, <2>3
  <2> QED BY <1>4, <2>1, <2>2, <2>3, StopEffect
<1>5. CASE Unload
  BY <1>5 DEF Unload, Slot!ShutdownBegin
<1>6. CASE ServerDown
  BY <1>6 DEF ServerDown, Slot!ServerDown
<1>7. CASE OperatorStart
  BY <1>7 DEF OperatorStart, Slot!ServerStarts
<1>8. CASE ExecutorCancels
  BY <1>8 DEF ExecutorCancels, Slot!CancelSet
<1>9. CASE SlotStep
  BY <1>9 DEF SlotStep
<1>10. ASSUME NEW n \in Session, PreStopStart(n) PROVE OneAfter'
  BY <1>10 DEF PreStopStart
<1>11. ASSUME NEW n \in Session, PreStopAcquire(n) PROVE OneAfter'
  BY <1>11 DEF PreStopAcquire
<1>12. ASSUME NEW n \in Session, PreStopEnter(n) PROVE OneAfter'
  BY <1>12 DEF PreStopEnter
<1>13. ASSUME NEW n \in Session, SnapshotSaveOff(n) PROVE OneAfter'
  BY <1>13 DEF SnapshotSaveOff
<1>14. ASSUME NEW n \in Session, SnapshotDone(n) PROVE OneAfter'
  BY <1>14, SnapshotEffect DEF SnapshotDone, ResultStays
<1>15. ASSUME NEW n \in Session, SnapshotFails(n) PROVE OneAfter'
  BY <1>15 DEF SnapshotFails
<1>16. ASSUME NEW n \in Session, MarkStopping(n) PROVE OneAfter'
  BY <1>16, PhaseEffect DEF MarkStopping, Phases, PhaseIs, ResultStays
<1>17. ASSUME NEW n \in Session, StopCall(n) PROVE OneAfter'
  BY <1>17 DEF StopCall
<1>18. ASSUME NEW n \in Session, StopFailed(n) PROVE OneAfter'
  BY <1>18 DEF StopFailed
<1>19. ASSUME NEW n \in Session, PreStopFailed(n) PROVE OneAfter'
  BY <1>19 DEF PreStopFailed
<1>20. ASSUME NEW n \in Session, PreStopFinish(n) PROVE OneAfter'
  BY <1>20 DEF PreStopFinish
<1>21. ASSUME NEW n \in Session, PreStopClear(n) PROVE OneAfter'
  BY <1>21 DEF PreStopClear
<1>22. ASSUME NEW n \in Session, PreStopUnlock(n) PROVE OneAfter'
  BY <1>22 DEF PreStopUnlock
<1>23. ASSUME NEW n \in Session, DirectTask(n) PROVE OneAfter'
  BY <1>23, PhaseEffect DEF DirectTask, Phases, PhaseIs, ResultStays
<1>24. ASSUME NEW n \in Session, DirectRestic(n) PROVE OneAfter'
  BY <1>24 DEF DirectRestic
<1>25. ASSUME NEW k \in Session, AfterStopStart(k) PROVE OneAfter'
  BY <1>25, StartEffect DEF AfterStopStart, Gone, OthersStay, NoAfter
<1>26. ASSUME NEW k \in Session, AfterStopTask(k) PROVE OneAfter'
  BY <1>26, TaskEffect DEF AfterStopTask, Moved, Failed, OthersStay
<1>27. ASSUME NEW k \in Session, AfterStopRestic(k) PROVE OneAfter'
  BY <1>27, ResticEffect DEF AfterStopRestic, Moved, Failed, OthersStay
<1>28. ASSUME NEW k \in Session, RollbackStart(k) PROVE OneAfter'
  BY <1>28, RollbackEffect DEF RollbackStart, Moved, Rolled, OthersStay
<1>29. ASSUME NEW k \in Session, RollbackRestic(k) PROVE OneAfter'
  BY <1>29, RollingEffect DEF RollbackRestic, Rolled, OthersStay
<1>30. ASSUME NEW k \in Session, MarkStarting(k) PROVE OneAfter'
  BY <1>30, MarkEffect DEF Moved, OthersStay
<1>31. ASSUME NEW k \in Session, StartServer(k) PROVE OneAfter'
  BY <1>31, GoneEffect DEF StartServer, Gone, OthersStay, NoAfter
<1>32. ASSUME NEW n \in Session, WatchdogFires(n) PROVE OneAfter'
  BY <1>32 DEF WatchdogFires
<1>33. CASE UNCHANGED vars
  BY <1>33 DEF vars
<1> QED
  BY <1>1, <1>2, <1>3, <1>4, <1>5, <1>6, <1>7, <1>8, <1>9, <1>10, <1>11, <1>12, <1>13,
     <1>14, <1>15, <1>16, <1>17, <1>18, <1>19, <1>20, <1>21, <1>22, <1>23, <1>24, <1>25,
     <1>26, <1>27, <1>28, <1>29, <1>30, <1>31, <1>32, <1>33
     DEF Next, WorkerStep, AfterStep

(* The result an after-stop thread carries agrees with the files it has written. *)
LEMMA CarriedStep ==
  ASSUME TypeOK, Orderly, HeldIffCurrent, Fresh, WorkerPlaces, AfterPlaces, OneAfter,
         CalmPlaces, Carried, [Next]_vars
  PROVE  Carried'
<1> USE DEF TypeOK, HeldIffCurrent, Fresh, FreshAt, Started, WorkerPlaces, WorkerPlace,
            AfterPlaces, AfterPlace, OneAfter, CalmPlaces, Carried, CarriedBy, Direct,
            Before, Phase, Finish, FinishAny, Work, Left, flowVars, threads, worldVars,
            slotVars, envVars
<1> USE NoneApart
<1> SUFFICES ASSUME NEW m \in Session PROVE CarriedBy(m)'
  OBVIOUS
<1>1. CASE ApplyCheck
  BY <1>1 DEF ApplyCheck
<1>2. CASE ApplyTake
  <2>1. CASE UNCHANGED <<restoreHeld, current, session, worker, files>>
    BY <1>2, <2>1, TakeEffect
  <2>2. ASSUME NEW n \in Session, NEW kind \in RestoreKinds, Taken(n, kind) PROVE CarriedBy(m)'
    <3>1. \A k \in Session : after[k].at = "none" /\ current = None
      BY <2>2, TakenAlone
    <3>2. UNCHANGED <<after, watchdog, world>>
      BY <1>2, TakeEffect
    <3> QED BY <2>2, <3>1, <3>2 DEF Taken
  <2> QED BY <1>2, <2>1, <2>2, TakeEffect
<1>3. CASE OnServerStartup
  BY <1>3 DEF OnServerStartup
<1>4. CASE OnServerStop
  <2>0. UNCHANGED <<world, lock, stopping, serverUp, saving, stopAsked, worker, watchdog, files>>
        /\ stopEvent /\ ~stopEvent'
    BY <1>4, StopEffect
  <2>1. CASE Phase = "STARTING" /\ FinishAny /\ UNCHANGED <<session, after>>
    BY <2>0, <2>1
  <2>2. CASE PhaseIs("RESTORING") /\ Moved(current, "spawned") /\ Phase = "STOPPING"
             /\ current \in Session /\ UNCHANGED <<current, restoreHeld>>
    BY <2>0, <2>2 DEF PhaseIs, ResultStays, Moved, OthersStay
  <2>3. CASE UNCHANGED <<current, session, after, restoreHeld>>
    BY <2>0, <2>3
  <2> QED BY <1>4, <2>1, <2>2, <2>3, StopEffect
<1>5. CASE Unload
  BY <1>5 DEF Unload, Slot!ShutdownBegin
<1>6. CASE ServerDown
  BY <1>6 DEF ServerDown, Slot!ServerDown
<1>7. CASE OperatorStart
  BY <1>7 DEF OperatorStart, Slot!ServerStarts
<1>8. CASE ExecutorCancels
  BY <1>8 DEF ExecutorCancels, Slot!CancelSet
<1>9. CASE SlotStep
  BY <1>9 DEF SlotStep
<1>10. ASSUME NEW n \in Session, PreStopStart(n) PROVE CarriedBy(m)'
  BY <1>10 DEF PreStopStart
<1>11. ASSUME NEW n \in Session, PreStopAcquire(n) PROVE CarriedBy(m)'
  BY <1>11 DEF PreStopAcquire
<1>12. ASSUME NEW n \in Session, PreStopEnter(n) PROVE CarriedBy(m)'
  BY <1>12 DEF PreStopEnter
<1>13. ASSUME NEW n \in Session, SnapshotSaveOff(n) PROVE CarriedBy(m)'
  BY <1>13 DEF SnapshotSaveOff
<1>14. ASSUME NEW n \in Session, SnapshotDone(n) PROVE CarriedBy(m)'
  BY <1>14, SnapshotEffect DEF SnapshotDone, ResultStays
<1>15. ASSUME NEW n \in Session, SnapshotFails(n) PROVE CarriedBy(m)'
  BY <1>15 DEF SnapshotFails
<1>16. ASSUME NEW n \in Session, MarkStopping(n) PROVE CarriedBy(m)'
  BY <1>16, PhaseEffect DEF MarkStopping, Phases, PhaseIs, ResultStays
<1>17. ASSUME NEW n \in Session, StopCall(n) PROVE CarriedBy(m)'
  BY <1>17 DEF StopCall
<1>18. ASSUME NEW n \in Session, StopFailed(n) PROVE CarriedBy(m)'
  BY <1>18 DEF StopFailed
<1>19. ASSUME NEW n \in Session, PreStopFailed(n) PROVE CarriedBy(m)'
  BY <1>19 DEF PreStopFailed
<1>20. ASSUME NEW n \in Session, PreStopFinish(n) PROVE CarriedBy(m)'
  BY <1>20 DEF PreStopFinish
<1>21. ASSUME NEW n \in Session, PreStopClear(n) PROVE CarriedBy(m)'
  BY <1>21 DEF PreStopClear
<1>22. ASSUME NEW n \in Session, PreStopUnlock(n) PROVE CarriedBy(m)'
  BY <1>22 DEF PreStopUnlock
<1>23. ASSUME NEW n \in Session, DirectTask(n) PROVE CarriedBy(m)'
  BY <1>23, PhaseEffect DEF DirectTask, Phases, PhaseIs, ResultStays
<1>24. ASSUME NEW n \in Session, DirectRestic(n) PROVE CarriedBy(m)'
  BY <1>24 DEF DirectRestic
<1>25. ASSUME NEW k \in Session, AfterStopStart(k) PROVE CarriedBy(m)'
  BY <1>25, StartEffect DEF AfterStopStart, Gone, OthersStay, NoAfter
<1>26. ASSUME NEW k \in Session, AfterStopTask(k) PROVE CarriedBy(m)'
  BY <1>26, TaskEffect DEF AfterStopTask, Moved, Failed, OthersStay
<1>27. ASSUME NEW k \in Session, AfterStopRestic(k) PROVE CarriedBy(m)'
  BY <1>27, ResticEffect DEF AfterStopRestic, Moved, Failed, OthersStay
<1>28. ASSUME NEW k \in Session, RollbackStart(k) PROVE CarriedBy(m)'
  BY <1>28, RollbackEffect DEF RollbackStart, Moved, Rolled, OthersStay
<1>29. ASSUME NEW k \in Session, RollbackRestic(k) PROVE CarriedBy(m)'
  BY <1>29, RollingEffect DEF RollbackRestic, Rolled, OthersStay
<1>30. ASSUME NEW k \in Session, MarkStarting(k) PROVE CarriedBy(m)'
  BY <1>30, MarkEffect DEF Moved, OthersStay
<1>31. ASSUME NEW k \in Session, StartServer(k) PROVE CarriedBy(m)'
  BY <1>31, GoneEffect DEF StartServer, Gone, OthersStay, NoAfter
<1>32. ASSUME NEW n \in Session, WatchdogFires(n) PROVE CarriedBy(m)'
  BY <1>32 DEF WatchdogFires
<1>33. CASE UNCHANGED vars
  BY <1>33 DEF vars
<1> QED
  BY <1>1, <1>2, <1>3, <1>4, <1>5, <1>6, <1>7, <1>8, <1>9, <1>10, <1>11, <1>12, <1>13,
     <1>14, <1>15, <1>16, <1>17, <1>18, <1>19, <1>20, <1>21, <1>22, <1>23, <1>24, <1>25,
     <1>26, <1>27, <1>28, <1>29, <1>30, <1>31, <1>32, <1>33
     DEF Next, WorkerStep, AfterStep

(* What the session says from its start-up phase on is true of the files. *)
LEMMA ReportsStep ==
  ASSUME TypeOK, Orderly, HeldIffCurrent, Fresh, WorkerPlaces, AfterPlaces, OneAfter,
         CalmPlaces, Carried, ReportsTruth, [Next]_vars
  PROVE  ReportsTruth'
<1> USE DEF TypeOK, HeldIffCurrent, Fresh, FreshAt, Started, WorkerPlaces, WorkerPlace,
            AfterPlaces, AfterPlace, OneAfter, CalmPlaces, CalmAfter, CalmWorker, Carried,
            CarriedBy, ReportsTruth, Direct, Before, Phase, Finish, FinishAny, Work, Left,
            flowVars, threads, worldVars, slotVars, envVars
<1> USE NoneApart
<1>1. CASE ApplyCheck
  BY <1>1 DEF ApplyCheck
<1>2. CASE ApplyTake
  <2>1. CASE UNCHANGED <<restoreHeld, current, session, worker, files>>
    BY <1>2, <2>1, TakeEffect
  <2>2. ASSUME NEW n \in Session, NEW kind \in RestoreKinds, Taken(n, kind) PROVE ReportsTruth'
    <3>1. \A k \in Session : after[k].at = "none" /\ current = None
      BY <2>2, TakenAlone
    <3>2. UNCHANGED <<after, watchdog, world>>
      BY <1>2, TakeEffect
    <3> QED BY <2>2, <3>1, <3>2 DEF Taken
  <2> QED BY <1>2, <2>1, <2>2, TakeEffect
<1>3. CASE OnServerStartup
  BY <1>3 DEF OnServerStartup
<1>4. CASE OnServerStop
  <2>0. UNCHANGED <<world, lock, stopping, serverUp, saving, stopAsked, worker, watchdog, files>>
        /\ stopEvent /\ ~stopEvent'
    BY <1>4, StopEffect
  <2>1. CASE Phase = "STARTING" /\ FinishAny /\ UNCHANGED <<session, after>>
    BY <2>0, <2>1
  <2>2. CASE PhaseIs("RESTORING") /\ Moved(current, "spawned") /\ Phase = "STOPPING"
             /\ current \in Session /\ UNCHANGED <<current, restoreHeld>>
    BY <2>0, <2>2 DEF PhaseIs, ResultStays, Moved, OthersStay
  <2>3. CASE UNCHANGED <<current, session, after, restoreHeld>>
    BY <2>0, <2>3
  <2> QED BY <1>4, <2>1, <2>2, <2>3, StopEffect
<1>5. CASE Unload
  BY <1>5 DEF Unload, Slot!ShutdownBegin
<1>6. CASE ServerDown
  BY <1>6 DEF ServerDown, Slot!ServerDown
<1>7. CASE OperatorStart
  BY <1>7 DEF OperatorStart, Slot!ServerStarts
<1>8. CASE ExecutorCancels
  BY <1>8 DEF ExecutorCancels, Slot!CancelSet
<1>9. CASE SlotStep
  BY <1>9 DEF SlotStep
<1>10. ASSUME NEW n \in Session, PreStopStart(n) PROVE ReportsTruth'
  BY <1>10 DEF PreStopStart
<1>11. ASSUME NEW n \in Session, PreStopAcquire(n) PROVE ReportsTruth'
  BY <1>11 DEF PreStopAcquire
<1>12. ASSUME NEW n \in Session, PreStopEnter(n) PROVE ReportsTruth'
  BY <1>12 DEF PreStopEnter
<1>13. ASSUME NEW n \in Session, SnapshotSaveOff(n) PROVE ReportsTruth'
  BY <1>13 DEF SnapshotSaveOff
<1>14. ASSUME NEW n \in Session, SnapshotDone(n) PROVE ReportsTruth'
  BY <1>14, SnapshotEffect DEF SnapshotDone, ResultStays
<1>15. ASSUME NEW n \in Session, SnapshotFails(n) PROVE ReportsTruth'
  BY <1>15 DEF SnapshotFails
<1>16. ASSUME NEW n \in Session, MarkStopping(n) PROVE ReportsTruth'
  BY <1>16, PhaseEffect DEF MarkStopping, Phases, PhaseIs, ResultStays
<1>17. ASSUME NEW n \in Session, StopCall(n) PROVE ReportsTruth'
  BY <1>17 DEF StopCall
<1>18. ASSUME NEW n \in Session, StopFailed(n) PROVE ReportsTruth'
  BY <1>18 DEF StopFailed
<1>19. ASSUME NEW n \in Session, PreStopFailed(n) PROVE ReportsTruth'
  BY <1>19 DEF PreStopFailed
<1>20. ASSUME NEW n \in Session, PreStopFinish(n) PROVE ReportsTruth'
  BY <1>20 DEF PreStopFinish
<1>21. ASSUME NEW n \in Session, PreStopClear(n) PROVE ReportsTruth'
  BY <1>21 DEF PreStopClear
<1>22. ASSUME NEW n \in Session, PreStopUnlock(n) PROVE ReportsTruth'
  BY <1>22 DEF PreStopUnlock
<1>23. ASSUME NEW n \in Session, DirectTask(n) PROVE ReportsTruth'
  BY <1>23, PhaseEffect DEF DirectTask, Phases, PhaseIs, ResultStays
<1>24. ASSUME NEW n \in Session, DirectRestic(n) PROVE ReportsTruth'
  BY <1>24 DEF DirectRestic
<1>25. ASSUME NEW k \in Session, AfterStopStart(k) PROVE ReportsTruth'
  BY <1>25, StartEffect DEF AfterStopStart, Gone, OthersStay, NoAfter
<1>26. ASSUME NEW k \in Session, AfterStopTask(k) PROVE ReportsTruth'
  BY <1>26, TaskEffect DEF AfterStopTask, Moved, Failed, OthersStay
<1>27. ASSUME NEW k \in Session, AfterStopRestic(k) PROVE ReportsTruth'
  BY <1>27, ResticEffect DEF AfterStopRestic, Moved, Failed, OthersStay
<1>28. ASSUME NEW k \in Session, RollbackStart(k) PROVE ReportsTruth'
  BY <1>28, RollbackEffect DEF RollbackStart, Moved, Rolled, OthersStay
<1>29. ASSUME NEW k \in Session, RollbackRestic(k) PROVE ReportsTruth'
  BY <1>29, RollingEffect DEF RollbackRestic, Rolled, OthersStay
<1>30. ASSUME NEW k \in Session, MarkStarting(k) PROVE ReportsTruth'
  BY <1>30, MarkEffect DEF Moved, OthersStay
<1>31. ASSUME NEW k \in Session, StartServer(k) PROVE ReportsTruth'
  BY <1>31, GoneEffect DEF StartServer, Gone, OthersStay, NoAfter
<1>32. ASSUME NEW n \in Session, WatchdogFires(n) PROVE ReportsTruth'
  BY <1>32 DEF WatchdogFires
<1>33. CASE UNCHANGED vars
  BY <1>33 DEF vars
<1> QED
  BY <1>1, <1>2, <1>3, <1>4, <1>5, <1>6, <1>7, <1>8, <1>9, <1>10, <1>11, <1>12, <1>13,
     <1>14, <1>15, <1>16, <1>17, <1>18, <1>19, <1>20, <1>21, <1>22, <1>23, <1>24, <1>25,
     <1>26, <1>27, <1>28, <1>29, <1>30, <1>31, <1>32, <1>33
     DEF Next, WorkerStep, AfterStep

-----------------------------------------------------------------------------
(* The slot by itself neither starts nor ends the server; a backup that sends    *)
(* save-off owes save-on, and one that has tried it no longer does.              *)
LEMMA OwesByPlace == ASSUME UNCHANGED pc PROVE BackupOwes' <=> BackupOwes
BY DEF BackupOwes

(* A step of the slot leaves autosave off only for a backup that will turn it on. *)
LEMMA SlotSaving ==
  ASSUME Slot!TypeOK, SlotStep
  PROVE  /\ UNCHANGED <<serverUp, stopEvent>>
         /\ serverUp /\ saving' = "off" => BackupOwes' \/ (saving = "off" /\ ~BackupOwes)
<1> USE DEF Slot!TypeOK, BackupOwes, Slot!Backups, Slot!Thread, Slot!OwesSaveOn, Slot!Goto,
            Slot!End, Slot!Enter, Slot!threadVars, Slot!slotVars, Slot!worldVars,
            Slot!pluginVars, Slot!ForceSaveOn, Slot!SetCancel, Slot!AfterRestic
<1> DEFINE Goal == /\ UNCHANGED <<serverUp, stopEvent>>
                   /\ serverUp /\ saving' = "off" => BackupOwes' \/ (saving = "off" /\ ~BackupOwes)
<1>1. ASSUME NEW t \in Slot!Thread, Slot!CommandCheck(t) PROVE Goal
  BY <1>1 DEF Slot!CommandCheck
<1>2. ASSUME NEW t \in Slot!Thread, Slot!CommandAcquire(t) PROVE Goal
  BY <1>2 DEF Slot!CommandAcquire
<1>3. ASSUME NEW t \in Slot!Thread, Slot!StartThread(t) PROVE Goal
  BY <1>3 DEF Slot!StartThread
<1>4. ASSUME NEW t \in Slot!Thread, Slot!Trigger(t) PROVE Goal
  BY <1>4 DEF Slot!Trigger
<1>5. ASSUME NEW t \in Slot!Thread, Slot!WaiterCheck(t) PROVE Goal
  BY <1>5 DEF Slot!WaiterCheck
<1>6. ASSUME NEW t \in Slot!Thread, Slot!PollStopping(t) PROVE Goal
  BY <1>6 DEF Slot!PollStopping
<1>7. ASSUME NEW t \in Slot!Thread, Slot!PollAcquire(t) PROVE Goal
  BY <1>7 DEF Slot!PollAcquire
<1>8. ASSUME NEW t \in Slot!Thread, Slot!PollGiveUp(t) PROVE Goal
  BY <1>8 DEF Slot!PollGiveUp
<1>9. ASSUME NEW t \in Slot!Thread, Slot!TaskEnter(t) PROVE Goal
  BY <1>9 DEF Slot!TaskEnter
<1>10. ASSUME NEW t \in Slot!Thread, Slot!CommandEnter(t) PROVE Goal
  BY <1>10 DEF Slot!CommandEnter
<1>11. ASSUME NEW t \in Slot!Thread, Slot!BodyFails(t) PROVE Goal
  BY <1>11 DEF Slot!BodyFails
<1>12. ASSUME NEW t \in Slot!Thread, Slot!SaveOff(t) PROVE Goal
  BY <1>12 DEF Slot!SaveOff
<1>13. ASSUME NEW t \in Slot!Thread, Slot!StartRestic(t) PROVE Goal
  BY <1>13 DEF Slot!StartRestic
<1>14. ASSUME NEW t \in Slot!Thread, Slot!MaintenanceNext(t) PROVE Goal
  BY <1>14 DEF Slot!MaintenanceNext
<1>15. ASSUME NEW t \in Slot!Thread, Slot!ResticEnds(t) PROVE Goal
  <2>1. t \in Slot!Backups => t \notin Slot!Maintenance
    BY SlotAssumption DEF Slot!ThreadAssumption
  <2> QED BY <1>15, <2>1 DEF Slot!ResticEnds
<1>16. ASSUME NEW t \in Slot!Thread, Slot!SaveOn(t) PROVE Goal
  BY <1>16 DEF Slot!SaveOn
<1>17. ASSUME NEW t \in Slot!Thread, Slot!ReleaseClear(t) PROVE Goal
  BY <1>17 DEF Slot!ReleaseClear
<1>18. ASSUME NEW t \in Slot!Thread, Slot!ReleaseUnlock(t) PROVE Goal
  BY <1>18 DEF Slot!ReleaseUnlock
<1>19. CASE Slot!CancelCheck
  BY <1>19 DEF Slot!CancelCheck
<1>20. CASE Slot!ShutdownCheck
  BY <1>20 DEF Slot!ShutdownCheck
<1>21. CASE Slot!ShutdownCancel
  BY <1>21 DEF Slot!ShutdownCancel
<1>22. CASE Slot!ShutdownSaveOn
  BY <1>22 DEF Slot!ShutdownSaveOn
<1> QED
  BY <1>1, <1>2, <1>3, <1>4, <1>5, <1>6, <1>7, <1>8, <1>9, <1>10, <1>11, <1>12, <1>13,
     <1>14, <1>15, <1>16, <1>17, <1>18, <1>19, <1>20, <1>21, <1>22
     DEF SlotStep, Slot!ThreadStep, Slot!Release

(* The stop event stands for a server that is down. *)
LEMMA EventStep ==
  ASSUME TypeOK, Slot!TypeOK, EventMeansDown, [Next]_vars PROVE EventMeansDown'
<1> USE DEF TypeOK, EventMeansDown, Finish, FinishAny, Work, Left, flowVars, threads,
            worldVars, slotVars, envVars, Slot!ForceSaveOn, Slot!worldVars
<1>1. CASE ApplyCheck
  BY <1>1 DEF ApplyCheck
<1>2. CASE ApplyTake
  BY <1>2, TakeEffect DEF Taken
<1>3. CASE OnServerStartup
  BY <1>3 DEF OnServerStartup
<1>4. CASE OnServerStop
  BY <1>4, StopEffect
<1>5. CASE Unload
  BY <1>5 DEF Unload, Slot!ShutdownBegin
<1>6. CASE ServerDown
  BY <1>6 DEF ServerDown, Slot!ServerDown
<1>7. CASE OperatorStart
  BY <1>7 DEF OperatorStart, Slot!ServerStarts
<1>8. CASE ExecutorCancels
  BY <1>8 DEF ExecutorCancels, Slot!CancelSet
<1>9. CASE SlotStep
  BY <1>9, SlotSaving DEF SlotStep
<1>10. ASSUME NEW n \in Session, PreStopStart(n) PROVE EventMeansDown'
  BY <1>10 DEF PreStopStart
<1>11. ASSUME NEW n \in Session, PreStopAcquire(n) PROVE EventMeansDown'
  BY <1>11 DEF PreStopAcquire
<1>12. ASSUME NEW n \in Session, PreStopEnter(n) PROVE EventMeansDown'
  BY <1>12 DEF PreStopEnter
<1>13. ASSUME NEW n \in Session, SnapshotSaveOff(n) PROVE EventMeansDown'
  BY <1>13 DEF SnapshotSaveOff
<1>14. ASSUME NEW n \in Session, SnapshotDone(n) PROVE EventMeansDown'
  BY <1>14, SnapshotEffect DEF SnapshotDone, ResultStays
<1>15. ASSUME NEW n \in Session, SnapshotFails(n) PROVE EventMeansDown'
  BY <1>15 DEF SnapshotFails
<1>16. ASSUME NEW n \in Session, MarkStopping(n) PROVE EventMeansDown'
  BY <1>16, PhaseEffect DEF MarkStopping, Phases, PhaseIs, ResultStays
<1>17. ASSUME NEW n \in Session, StopCall(n) PROVE EventMeansDown'
  BY <1>17 DEF StopCall
<1>18. ASSUME NEW n \in Session, StopFailed(n) PROVE EventMeansDown'
  BY <1>18 DEF StopFailed
<1>19. ASSUME NEW n \in Session, PreStopFailed(n) PROVE EventMeansDown'
  BY <1>19 DEF PreStopFailed
<1>20. ASSUME NEW n \in Session, PreStopFinish(n) PROVE EventMeansDown'
  BY <1>20 DEF PreStopFinish
<1>21. ASSUME NEW n \in Session, PreStopClear(n) PROVE EventMeansDown'
  BY <1>21 DEF PreStopClear
<1>22. ASSUME NEW n \in Session, PreStopUnlock(n) PROVE EventMeansDown'
  BY <1>22 DEF PreStopUnlock
<1>23. ASSUME NEW n \in Session, DirectTask(n) PROVE EventMeansDown'
  BY <1>23, PhaseEffect DEF DirectTask, Phases, PhaseIs, ResultStays
<1>24. ASSUME NEW n \in Session, DirectRestic(n) PROVE EventMeansDown'
  BY <1>24 DEF DirectRestic
<1>25. ASSUME NEW k \in Session, AfterStopStart(k) PROVE EventMeansDown'
  BY <1>25, StartEffect DEF AfterStopStart, Gone, OthersStay, NoAfter
<1>26. ASSUME NEW k \in Session, AfterStopTask(k) PROVE EventMeansDown'
  BY <1>26, TaskEffect DEF AfterStopTask, Moved, Failed, OthersStay
<1>27. ASSUME NEW k \in Session, AfterStopRestic(k) PROVE EventMeansDown'
  BY <1>27, ResticEffect DEF AfterStopRestic, Moved, Failed, OthersStay
<1>28. ASSUME NEW k \in Session, RollbackStart(k) PROVE EventMeansDown'
  BY <1>28, RollbackEffect DEF RollbackStart, Moved, Rolled, OthersStay
<1>29. ASSUME NEW k \in Session, RollbackRestic(k) PROVE EventMeansDown'
  BY <1>29, RollingEffect DEF RollbackRestic, Rolled, OthersStay
<1>30. ASSUME NEW k \in Session, MarkStarting(k) PROVE EventMeansDown'
  BY <1>30, MarkEffect DEF Moved, OthersStay
<1>31. ASSUME NEW k \in Session, StartServer(k) PROVE EventMeansDown'
  BY <1>31, GoneEffect DEF StartServer, Gone, OthersStay, NoAfter
<1>32. ASSUME NEW n \in Session, WatchdogFires(n) PROVE EventMeansDown'
  BY <1>32 DEF WatchdogFires
<1>33. CASE UNCHANGED vars
  BY <1>33 DEF vars
<1> QED
  BY <1>1, <1>2, <1>3, <1>4, <1>5, <1>6, <1>7, <1>8, <1>9, <1>10, <1>11, <1>12, <1>13,
     <1>14, <1>15, <1>16, <1>17, <1>18, <1>19, <1>20, <1>21, <1>22, <1>23, <1>24, <1>25,
     <1>26, <1>27, <1>28, <1>29, <1>30, <1>31, <1>32, <1>33
     DEF Next, WorkerStep, AfterStep

(* Autosave of a running server is off only while somebody will turn it on. *)
LEMMA OwingStep ==
  ASSUME Slot!TypeOK, TypeOK, HeldIffCurrent, EventMeansDown, Fresh, WorkerPlaces,
         AfterPlaces, Owing, [Next]_vars
  PROVE  Owing'
<1> USE DEF TypeOK, HeldIffCurrent, EventMeansDown, Fresh, FreshAt, Started, WorkerPlaces,
            WorkerPlace, AfterPlaces, AfterPlace, Owing, RestoreOwes, Direct, Before,
            SafeOnly, Phase, Slot!ForceSaveOn, Slot!worldVars, Slot!threadVars,
            Slot!slotVars, Finish, FinishAny, Work, Left, flowVars, threads, worldVars,
            slotVars, envVars
<1> USE NoneApart
<1>1. CASE ApplyCheck
  BY <1>1, OwesByPlace DEF ApplyCheck
<1>2. CASE ApplyTake
  <2>0. UNCHANGED <<pc, serverUp, saving>>
    BY <1>2, TakeEffect
  <2>1. CASE UNCHANGED <<restoreHeld, current, session, worker, files>>
    BY <2>0, <2>1, OwesByPlace
  <2>2. ASSUME NEW n \in Session, NEW kind \in RestoreKinds, Taken(n, kind) PROVE Owing'
    <3>1. current = None
      BY <2>2 DEF Taken
    <3> QED BY <2>0, <3>1, OwesByPlace
  <2> QED BY <1>2, <2>1, <2>2, TakeEffect
<1>3. CASE OnServerStartup
  BY <1>3, OwesByPlace DEF OnServerStartup
<1>4. CASE OnServerStop
  <2>0. UNCHANGED <<slotVars, serverUp, saving, worker>> /\ ~serverUp
    BY <1>4, StopEffect
  <2> QED BY <2>0
<1>5. CASE Unload
  BY <1>5, OwesByPlace DEF Unload, Slot!ShutdownBegin
<1>6. CASE ServerDown
  BY <1>6, OwesByPlace DEF ServerDown, Slot!ServerDown
<1>7. CASE OperatorStart
  BY <1>7, OwesByPlace DEF OperatorStart, Slot!ServerStarts
<1>8. CASE ExecutorCancels
  BY <1>8, OwesByPlace DEF ExecutorCancels, Slot!CancelSet
<1>9. CASE SlotStep
  BY <1>9, SlotSaving DEF SlotStep
<1>10. ASSUME NEW n \in Session, PreStopStart(n) PROVE Owing'
  BY <1>10, OwesByPlace DEF PreStopStart
<1>11. ASSUME NEW n \in Session, PreStopAcquire(n) PROVE Owing'
  BY <1>11, OwesByPlace DEF PreStopAcquire
<1>12. ASSUME NEW n \in Session, PreStopEnter(n) PROVE Owing'
  BY <1>12, OwesByPlace DEF PreStopEnter
<1>13. ASSUME NEW n \in Session, SnapshotSaveOff(n) PROVE Owing'
  BY <1>13, OwesByPlace DEF SnapshotSaveOff
<1>14. ASSUME NEW n \in Session, SnapshotDone(n) PROVE Owing'
  BY <1>14, SnapshotEffect, OwesByPlace DEF SnapshotDone, ResultStays
<1>15. ASSUME NEW n \in Session, SnapshotFails(n) PROVE Owing'
  BY <1>15, OwesByPlace DEF SnapshotFails
<1>16. ASSUME NEW n \in Session, MarkStopping(n) PROVE Owing'
  BY <1>16, PhaseEffect, OwesByPlace DEF MarkStopping, Phases, PhaseIs, ResultStays
<1>17. ASSUME NEW n \in Session, StopCall(n) PROVE Owing'
  BY <1>17, OwesByPlace DEF StopCall
<1>18. ASSUME NEW n \in Session, StopFailed(n) PROVE Owing'
  BY <1>18, OwesByPlace DEF StopFailed
<1>19. ASSUME NEW n \in Session, PreStopFailed(n) PROVE Owing'
  BY <1>19, OwesByPlace DEF PreStopFailed
<1>20. ASSUME NEW n \in Session, PreStopFinish(n) PROVE Owing'
  BY <1>20, OwesByPlace DEF PreStopFinish
<1>21. ASSUME NEW n \in Session, PreStopClear(n) PROVE Owing'
  BY <1>21, OwesByPlace DEF PreStopClear
<1>22. ASSUME NEW n \in Session, PreStopUnlock(n) PROVE Owing'
  BY <1>22, OwesByPlace DEF PreStopUnlock
<1>23. ASSUME NEW n \in Session, DirectTask(n) PROVE Owing'
  BY <1>23, PhaseEffect, OwesByPlace DEF DirectTask, Phases, PhaseIs, ResultStays
<1>24. ASSUME NEW n \in Session, DirectRestic(n) PROVE Owing'
  BY <1>24, OwesByPlace DEF DirectRestic
<1>25. ASSUME NEW k \in Session, AfterStopStart(k) PROVE Owing'
  BY <1>25, StartEffect, OwesByPlace DEF AfterStopStart, Gone, OthersStay, NoAfter
<1>26. ASSUME NEW k \in Session, AfterStopTask(k) PROVE Owing'
  BY <1>26, TaskEffect, OwesByPlace DEF AfterStopTask, Moved, Failed, OthersStay
<1>27. ASSUME NEW k \in Session, AfterStopRestic(k) PROVE Owing'
  BY <1>27, ResticEffect, OwesByPlace DEF AfterStopRestic, Moved, Failed, OthersStay
<1>28. ASSUME NEW k \in Session, RollbackStart(k) PROVE Owing'
  BY <1>28, RollbackEffect, OwesByPlace DEF RollbackStart, Moved, Rolled, OthersStay
<1>29. ASSUME NEW k \in Session, RollbackRestic(k) PROVE Owing'
  BY <1>29, RollingEffect, OwesByPlace DEF RollbackRestic, Rolled, OthersStay
<1>30. ASSUME NEW k \in Session, MarkStarting(k) PROVE Owing'
  BY <1>30, MarkEffect, OwesByPlace DEF Moved, OthersStay
<1>31. ASSUME NEW k \in Session, StartServer(k) PROVE Owing'
  BY <1>31, GoneEffect, OwesByPlace DEF StartServer, Gone, OthersStay, NoAfter
<1>32. ASSUME NEW n \in Session, WatchdogFires(n) PROVE Owing'
  BY <1>32, OwesByPlace DEF WatchdogFires
<1>33. CASE UNCHANGED vars
  BY <1>33, OwesByPlace DEF vars
<1> QED
  BY <1>1, <1>2, <1>3, <1>4, <1>5, <1>6, <1>7, <1>8, <1>9, <1>10, <1>11, <1>12, <1>13,
     <1>14, <1>15, <1>16, <1>17, <1>18, <1>19, <1>20, <1>21, <1>22, <1>23, <1>24, <1>25,
     <1>26, <1>27, <1>28, <1>29, <1>30, <1>31, <1>32, <1>33
     DEF Next, WorkerStep, AfterStep

-----------------------------------------------------------------------------
(* While nothing surprises it, an after-stop thread works on a server that stays down, *)
LEMMA CalmAfterStep ==
  ASSUME Orderly, Slot!TypeOK, Core, Calm, [Next]_vars
  PROVE  \A m \in Session : CalmAfter(m)'
<1> USE DEF Core, TypeOK, HeldIffCurrent, EventMeansDown, Fresh, FreshAt, Started,
            WorkerPlaces, WorkerPlace, AfterPlaces, AfterPlace, OneAfter, CalmPlaces,
            CalmAfter, CalmWorker, StopComing, Unloaded, Working, AfterStop, Calm, Direct,
            Before, Phase, Slot!worldVars, Slot!threadVars, Slot!slotVars, Slot!pluginVars,
            Finish, FinishAny, Work, Left, flowVars, threads, worldVars, slotVars, envVars
<1> USE NoneApart
<1> SUFFICES ASSUME NEW m \in Session PROVE CalmAfter(m)'
  OBVIOUS
<1>1. CASE ApplyCheck
  BY <1>1 DEF ApplyCheck
<1>2. CASE ApplyTake
  <2>1. CASE UNCHANGED <<restoreHeld, current, session, worker, files>>
    BY <1>2, <2>1, TakeEffect
  <2>2. ASSUME NEW n \in Session, NEW kind \in RestoreKinds, Taken(n, kind) PROVE CalmAfter(m)'
    <3>1. current = None /\ \A k \in Session : after[k].at = "none"
      BY <2>2, TakenAlone
    <3>2. UNCHANGED <<after, watchdog, worldVars, stopping>> /\ executor = "restore"
      BY <1>2, TakeEffect
    <3> QED BY <2>2, <3>1, <3>2, RestoreAssumption DEF Taken
  <2> QED BY <1>2, <2>1, <2>2, TakeEffect
<1>3. CASE OnServerStartup
  BY <1>3 DEF OnServerStartup
<1>4. CASE OnServerStop
  <2>0. UNCHANGED <<world, lock, stopping, serverUp, saving, stopAsked, worker, watchdog, files>>
        /\ stopEvent /\ ~stopEvent'
    BY <1>4, StopEffect
  <2>1. CASE Phase = "STARTING" /\ FinishAny /\ UNCHANGED <<session, after>>
    BY <2>0, <2>1
  <2>2. CASE PhaseIs("RESTORING") /\ Moved(current, "spawned") /\ Phase = "STOPPING"
             /\ current \in Session /\ UNCHANGED <<current, restoreHeld>>
    BY <2>0, <2>2 DEF PhaseIs, ResultStays, Moved, OthersStay
  <2>3. CASE UNCHANGED <<current, session, after, restoreHeld>> /\ executor' \in {"free", "cancel"}
    BY <2>0, <2>3
  <2> QED BY <1>4, <2>1, <2>2, <2>3, StopEffect
<1>5. CASE Unload
  BY <1>5 DEF Unload, Slot!ShutdownBegin
<1>6. CASE ServerDown
  BY <1>6 DEF ServerDown, Slot!ServerDown
<1>7. CASE OperatorStart
  BY <1>7 DEF OperatorStart, Slot!ServerStarts
<1>8. CASE ExecutorCancels
  BY <1>8 DEF ExecutorCancels, Slot!CancelSet
<1>9. CASE SlotStep
  BY <1>9, SlotFrame, SlotSaving DEF SlotStep
<1>10. ASSUME NEW n \in Session, PreStopStart(n) PROVE CalmAfter(m)'
  BY <1>10 DEF PreStopStart
<1>11. ASSUME NEW n \in Session, PreStopAcquire(n) PROVE CalmAfter(m)'
  BY <1>11 DEF PreStopAcquire
<1>12. ASSUME NEW n \in Session, PreStopEnter(n) PROVE CalmAfter(m)'
  BY <1>12 DEF PreStopEnter
<1>13. ASSUME NEW n \in Session, SnapshotSaveOff(n) PROVE CalmAfter(m)'
  BY <1>13 DEF SnapshotSaveOff
<1>14. ASSUME NEW n \in Session, SnapshotDone(n) PROVE CalmAfter(m)'
  BY <1>14, SnapshotEffect DEF SnapshotDone, ResultStays
<1>15. ASSUME NEW n \in Session, SnapshotFails(n) PROVE CalmAfter(m)'
  BY <1>15 DEF SnapshotFails
<1>16. ASSUME NEW n \in Session, MarkStopping(n) PROVE CalmAfter(m)'
  BY <1>16, PhaseEffect DEF MarkStopping, Phases, PhaseIs, ResultStays
<1>17. ASSUME NEW n \in Session, StopCall(n) PROVE CalmAfter(m)'
  BY <1>17 DEF StopCall
<1>18. ASSUME NEW n \in Session, StopFailed(n) PROVE CalmAfter(m)'
  BY <1>18 DEF StopFailed
<1>19. ASSUME NEW n \in Session, PreStopFailed(n) PROVE CalmAfter(m)'
  BY <1>19 DEF PreStopFailed
<1>20. ASSUME NEW n \in Session, PreStopFinish(n) PROVE CalmAfter(m)'
  BY <1>20 DEF PreStopFinish
<1>21. ASSUME NEW n \in Session, PreStopClear(n) PROVE CalmAfter(m)'
  BY <1>21 DEF PreStopClear
<1>22. ASSUME NEW n \in Session, PreStopUnlock(n) PROVE CalmAfter(m)'
  BY <1>22 DEF PreStopUnlock
<1>23. ASSUME NEW n \in Session, DirectTask(n) PROVE CalmAfter(m)'
  BY <1>23, PhaseEffect DEF DirectTask, Phases, PhaseIs, ResultStays
<1>24. ASSUME NEW n \in Session, DirectRestic(n) PROVE CalmAfter(m)'
  BY <1>24 DEF DirectRestic
<1>25. ASSUME NEW k \in Session, AfterStopStart(k) PROVE CalmAfter(m)'
  BY <1>25, StartEffect DEF AfterStopStart, Gone, OthersStay, NoAfter
<1>26. ASSUME NEW k \in Session, AfterStopTask(k) PROVE CalmAfter(m)'
  BY <1>26, TaskEffect DEF AfterStopTask, Moved, Failed, OthersStay
<1>27. ASSUME NEW k \in Session, AfterStopRestic(k) PROVE CalmAfter(m)'
  BY <1>27, ResticEffect DEF AfterStopRestic, Moved, Failed, OthersStay
<1>28. ASSUME NEW k \in Session, RollbackStart(k) PROVE CalmAfter(m)'
  BY <1>28, RollbackEffect DEF RollbackStart, Moved, Rolled, OthersStay
<1>29. ASSUME NEW k \in Session, RollbackRestic(k) PROVE CalmAfter(m)'
  BY <1>29, RollingEffect DEF RollbackRestic, Rolled, OthersStay
<1>30. ASSUME NEW k \in Session, MarkStarting(k) PROVE CalmAfter(m)'
  BY <1>30, MarkEffect DEF Moved, OthersStay
<1>31. ASSUME NEW k \in Session, StartServer(k) PROVE CalmAfter(m)'
  BY <1>31, GoneEffect DEF StartServer, Gone, OthersStay, NoAfter
<1>32. ASSUME NEW n \in Session, WatchdogFires(n) PROVE CalmAfter(m)'
  BY <1>32 DEF WatchdogFires
<1>33. CASE UNCHANGED vars
  BY <1>33 DEF vars
<1> QED
  BY <1>1, <1>2, <1>3, <1>4, <1>5, <1>6, <1>7, <1>8, <1>9, <1>10, <1>11, <1>12, <1>13,
     <1>14, <1>15, <1>16, <1>17, <1>18, <1>19, <1>20, <1>21, <1>22, <1>23, <1>24, <1>25,
     <1>26, <1>27, <1>28, <1>29, <1>30, <1>31, <1>32, <1>33
     DEF Next, WorkerStep, AfterStep

(* a pre-stop or direct thread keeps its session until it has done its part, *)
LEMMA CalmWorkerStep ==
  ASSUME Orderly, Slot!TypeOK, Core, Calm, [Next]_vars
  PROVE  \A m \in Session : CalmWorker(m)'
<1> USE DEF Core, TypeOK, HeldIffCurrent, EventMeansDown, Fresh, FreshAt, Started,
            WorkerPlaces, WorkerPlace, AfterPlaces, AfterPlace, OneAfter, CalmPlaces,
            CalmAfter, CalmWorker, StopComing, Unloaded, Working, AfterStop, Calm, Direct,
            Before, Phase, Slot!worldVars, Slot!threadVars, Slot!slotVars, Slot!pluginVars,
            Finish, FinishAny, Work, Left, flowVars, threads, worldVars, slotVars, envVars
<1> USE NoneApart
<1> SUFFICES ASSUME NEW m \in Session PROVE CalmWorker(m)'
  OBVIOUS
<1>1. CASE ApplyCheck
  BY <1>1 DEF ApplyCheck
<1>2. CASE ApplyTake
  <2>1. CASE UNCHANGED <<restoreHeld, current, session, worker, files>>
    BY <1>2, <2>1, TakeEffect
  <2>2. ASSUME NEW n \in Session, NEW kind \in RestoreKinds, Taken(n, kind) PROVE CalmWorker(m)'
    <3>1. current = None /\ \A k \in Session : after[k].at = "none"
      BY <2>2, TakenAlone
    <3>2. UNCHANGED <<after, watchdog, worldVars, stopping>> /\ executor = "restore"
      BY <1>2, TakeEffect
    <3> QED BY <2>2, <3>1, <3>2, RestoreAssumption DEF Taken
  <2> QED BY <1>2, <2>1, <2>2, TakeEffect
<1>3. CASE OnServerStartup
  BY <1>3 DEF OnServerStartup
<1>4. CASE OnServerStop
  <2>0. UNCHANGED <<world, lock, stopping, serverUp, saving, stopAsked, worker, watchdog, files>>
        /\ stopEvent /\ ~stopEvent'
    BY <1>4, StopEffect
  <2>1. CASE Phase = "STARTING" /\ FinishAny /\ UNCHANGED <<session, after>>
    BY <2>0, <2>1
  <2>2. CASE PhaseIs("RESTORING") /\ Moved(current, "spawned") /\ Phase = "STOPPING"
             /\ current \in Session /\ UNCHANGED <<current, restoreHeld>>
    BY <2>0, <2>2 DEF PhaseIs, ResultStays, Moved, OthersStay
  <2>3. CASE UNCHANGED <<current, session, after, restoreHeld>> /\ executor' \in {"free", "cancel"}
    BY <2>0, <2>3
  <2> QED BY <1>4, <2>1, <2>2, <2>3, StopEffect
<1>5. CASE Unload
  BY <1>5 DEF Unload, Slot!ShutdownBegin
<1>6. CASE ServerDown
  BY <1>6 DEF ServerDown, Slot!ServerDown
<1>7. CASE OperatorStart
  BY <1>7 DEF OperatorStart, Slot!ServerStarts
<1>8. CASE ExecutorCancels
  BY <1>8 DEF ExecutorCancels, Slot!CancelSet
<1>9. CASE SlotStep
  BY <1>9, SlotFrame, SlotSaving DEF SlotStep
<1>10. ASSUME NEW n \in Session, PreStopStart(n) PROVE CalmWorker(m)'
  BY <1>10 DEF PreStopStart
<1>11. ASSUME NEW n \in Session, PreStopAcquire(n) PROVE CalmWorker(m)'
  BY <1>11 DEF PreStopAcquire
<1>12. ASSUME NEW n \in Session, PreStopEnter(n) PROVE CalmWorker(m)'
  BY <1>12 DEF PreStopEnter
<1>13. ASSUME NEW n \in Session, SnapshotSaveOff(n) PROVE CalmWorker(m)'
  BY <1>13 DEF SnapshotSaveOff
<1>14. ASSUME NEW n \in Session, SnapshotDone(n) PROVE CalmWorker(m)'
  BY <1>14, SnapshotEffect DEF SnapshotDone, ResultStays
<1>15. ASSUME NEW n \in Session, SnapshotFails(n) PROVE CalmWorker(m)'
  BY <1>15 DEF SnapshotFails
<1>16. ASSUME NEW n \in Session, MarkStopping(n) PROVE CalmWorker(m)'
  BY <1>16, PhaseEffect DEF MarkStopping, Phases, PhaseIs, ResultStays
<1>17. ASSUME NEW n \in Session, StopCall(n) PROVE CalmWorker(m)'
  BY <1>17 DEF StopCall
<1>18. ASSUME NEW n \in Session, StopFailed(n) PROVE CalmWorker(m)'
  BY <1>18 DEF StopFailed
<1>19. ASSUME NEW n \in Session, PreStopFailed(n) PROVE CalmWorker(m)'
  BY <1>19 DEF PreStopFailed
<1>20. ASSUME NEW n \in Session, PreStopFinish(n) PROVE CalmWorker(m)'
  BY <1>20 DEF PreStopFinish
<1>21. ASSUME NEW n \in Session, PreStopClear(n) PROVE CalmWorker(m)'
  BY <1>21 DEF PreStopClear
<1>22. ASSUME NEW n \in Session, PreStopUnlock(n) PROVE CalmWorker(m)'
  BY <1>22 DEF PreStopUnlock
<1>23. ASSUME NEW n \in Session, DirectTask(n) PROVE CalmWorker(m)'
  BY <1>23, PhaseEffect DEF DirectTask, Phases, PhaseIs, ResultStays
<1>24. ASSUME NEW n \in Session, DirectRestic(n) PROVE CalmWorker(m)'
  BY <1>24 DEF DirectRestic
<1>25. ASSUME NEW k \in Session, AfterStopStart(k) PROVE CalmWorker(m)'
  BY <1>25, StartEffect DEF AfterStopStart, Gone, OthersStay, NoAfter
<1>26. ASSUME NEW k \in Session, AfterStopTask(k) PROVE CalmWorker(m)'
  BY <1>26, TaskEffect DEF AfterStopTask, Moved, Failed, OthersStay
<1>27. ASSUME NEW k \in Session, AfterStopRestic(k) PROVE CalmWorker(m)'
  BY <1>27, ResticEffect DEF AfterStopRestic, Moved, Failed, OthersStay
<1>28. ASSUME NEW k \in Session, RollbackStart(k) PROVE CalmWorker(m)'
  BY <1>28, RollbackEffect DEF RollbackStart, Moved, Rolled, OthersStay
<1>29. ASSUME NEW k \in Session, RollbackRestic(k) PROVE CalmWorker(m)'
  BY <1>29, RollingEffect DEF RollbackRestic, Rolled, OthersStay
<1>30. ASSUME NEW k \in Session, MarkStarting(k) PROVE CalmWorker(m)'
  BY <1>30, MarkEffect DEF Moved, OthersStay
<1>31. ASSUME NEW k \in Session, StartServer(k) PROVE CalmWorker(m)'
  BY <1>31, GoneEffect DEF StartServer, Gone, OthersStay, NoAfter
<1>32. ASSUME NEW n \in Session, WatchdogFires(n) PROVE CalmWorker(m)'
  BY <1>32 DEF WatchdogFires
<1>33. CASE UNCHANGED vars
  BY <1>33 DEF vars
<1> QED
  BY <1>1, <1>2, <1>3, <1>4, <1>5, <1>6, <1>7, <1>8, <1>9, <1>10, <1>11, <1>12, <1>13,
     <1>14, <1>15, <1>16, <1>17, <1>18, <1>19, <1>20, <1>21, <1>22, <1>23, <1>24, <1>25,
     <1>26, <1>27, <1>28, <1>29, <1>30, <1>31, <1>32, <1>33
     DEF Next, WorkerStep, AfterStep

(* the server's stop is the one the current session waits for, *)
LEMMA StopComingStep ==
  ASSUME Orderly, Slot!TypeOK, Core, Calm, [Next]_vars PROVE StopComing'
<1> USE DEF Core, TypeOK, HeldIffCurrent, EventMeansDown, Fresh, FreshAt, Started,
            WorkerPlaces, WorkerPlace, AfterPlaces, AfterPlace, OneAfter, CalmPlaces,
            CalmAfter, CalmWorker, StopComing, Unloaded, Working, AfterStop, Calm, Direct,
            Before, Phase, Slot!worldVars, Slot!threadVars, Slot!slotVars, Slot!pluginVars,
            Finish, FinishAny, Work, Left, flowVars, threads, worldVars, slotVars, envVars
<1> USE NoneApart
<1>1. CASE ApplyCheck
  BY <1>1 DEF ApplyCheck
<1>2. CASE ApplyTake
  <2>1. CASE UNCHANGED <<restoreHeld, current, session, worker, files>>
    BY <1>2, <2>1, TakeEffect
  <2>2. ASSUME NEW n \in Session, NEW kind \in RestoreKinds, Taken(n, kind) PROVE StopComing'
    <3>1. current = None /\ \A k \in Session : after[k].at = "none"
      BY <2>2, TakenAlone
    <3>2. UNCHANGED <<after, watchdog, worldVars, stopping>> /\ executor = "restore"
      BY <1>2, TakeEffect
    <3> QED BY <2>2, <3>1, <3>2, RestoreAssumption DEF Taken
  <2> QED BY <1>2, <2>1, <2>2, TakeEffect
<1>3. CASE OnServerStartup
  BY <1>3 DEF OnServerStartup
<1>4. CASE OnServerStop
  <2>0. UNCHANGED <<world, lock, stopping, serverUp, saving, stopAsked, worker, watchdog, files>>
        /\ stopEvent /\ ~stopEvent'
    BY <1>4, StopEffect
  <2>1. CASE Phase = "STARTING" /\ FinishAny /\ UNCHANGED <<session, after>>
    BY <2>0, <2>1
  <2>2. CASE PhaseIs("RESTORING") /\ Moved(current, "spawned") /\ Phase = "STOPPING"
             /\ current \in Session /\ UNCHANGED <<current, restoreHeld>>
    BY <2>0, <2>2 DEF PhaseIs, ResultStays, Moved, OthersStay
  <2>3. CASE UNCHANGED <<current, session, after, restoreHeld>> /\ executor' \in {"free", "cancel"}
    BY <2>0, <2>3
  <2> QED BY <1>4, <2>1, <2>2, <2>3, StopEffect
<1>5. CASE Unload
  BY <1>5 DEF Unload, Slot!ShutdownBegin
<1>6. CASE ServerDown
  BY <1>6 DEF ServerDown, Slot!ServerDown
<1>7. CASE OperatorStart
  BY <1>7 DEF OperatorStart, Slot!ServerStarts
<1>8. CASE ExecutorCancels
  BY <1>8 DEF ExecutorCancels, Slot!CancelSet
<1>9. CASE SlotStep
  BY <1>9, SlotFrame, SlotSaving DEF SlotStep
<1>10. ASSUME NEW n \in Session, PreStopStart(n) PROVE StopComing'
  BY <1>10 DEF PreStopStart
<1>11. ASSUME NEW n \in Session, PreStopAcquire(n) PROVE StopComing'
  BY <1>11 DEF PreStopAcquire
<1>12. ASSUME NEW n \in Session, PreStopEnter(n) PROVE StopComing'
  BY <1>12 DEF PreStopEnter
<1>13. ASSUME NEW n \in Session, SnapshotSaveOff(n) PROVE StopComing'
  BY <1>13 DEF SnapshotSaveOff
<1>14. ASSUME NEW n \in Session, SnapshotDone(n) PROVE StopComing'
  BY <1>14, SnapshotEffect DEF SnapshotDone, ResultStays
<1>15. ASSUME NEW n \in Session, SnapshotFails(n) PROVE StopComing'
  BY <1>15 DEF SnapshotFails
<1>16. ASSUME NEW n \in Session, MarkStopping(n) PROVE StopComing'
  BY <1>16, PhaseEffect DEF MarkStopping, Phases, PhaseIs, ResultStays
<1>17. ASSUME NEW n \in Session, StopCall(n) PROVE StopComing'
  BY <1>17 DEF StopCall
<1>18. ASSUME NEW n \in Session, StopFailed(n) PROVE StopComing'
  BY <1>18 DEF StopFailed
<1>19. ASSUME NEW n \in Session, PreStopFailed(n) PROVE StopComing'
  BY <1>19 DEF PreStopFailed
<1>20. ASSUME NEW n \in Session, PreStopFinish(n) PROVE StopComing'
  BY <1>20 DEF PreStopFinish
<1>21. ASSUME NEW n \in Session, PreStopClear(n) PROVE StopComing'
  BY <1>21 DEF PreStopClear
<1>22. ASSUME NEW n \in Session, PreStopUnlock(n) PROVE StopComing'
  BY <1>22 DEF PreStopUnlock
<1>23. ASSUME NEW n \in Session, DirectTask(n) PROVE StopComing'
  BY <1>23, PhaseEffect DEF DirectTask, Phases, PhaseIs, ResultStays
<1>24. ASSUME NEW n \in Session, DirectRestic(n) PROVE StopComing'
  BY <1>24 DEF DirectRestic
<1>25. ASSUME NEW k \in Session, AfterStopStart(k) PROVE StopComing'
  BY <1>25, StartEffect DEF AfterStopStart, Gone, OthersStay, NoAfter
<1>26. ASSUME NEW k \in Session, AfterStopTask(k) PROVE StopComing'
  BY <1>26, TaskEffect DEF AfterStopTask, Moved, Failed, OthersStay
<1>27. ASSUME NEW k \in Session, AfterStopRestic(k) PROVE StopComing'
  BY <1>27, ResticEffect DEF AfterStopRestic, Moved, Failed, OthersStay
<1>28. ASSUME NEW k \in Session, RollbackStart(k) PROVE StopComing'
  BY <1>28, RollbackEffect DEF RollbackStart, Moved, Rolled, OthersStay
<1>29. ASSUME NEW k \in Session, RollbackRestic(k) PROVE StopComing'
  BY <1>29, RollingEffect DEF RollbackRestic, Rolled, OthersStay
<1>30. ASSUME NEW k \in Session, MarkStarting(k) PROVE StopComing'
  BY <1>30, MarkEffect DEF Moved, OthersStay
<1>31. ASSUME NEW k \in Session, StartServer(k) PROVE StopComing'
  BY <1>31, GoneEffect DEF StartServer, Gone, OthersStay, NoAfter
<1>32. ASSUME NEW n \in Session, WatchdogFires(n) PROVE StopComing'
  BY <1>32 DEF WatchdogFires
<1>33. CASE UNCHANGED vars
  BY <1>33 DEF vars
<1> QED
  BY <1>1, <1>2, <1>3, <1>4, <1>5, <1>6, <1>7, <1>8, <1>9, <1>10, <1>11, <1>12, <1>13,
     <1>14, <1>15, <1>16, <1>17, <1>18, <1>19, <1>20, <1>21, <1>22, <1>23, <1>24, <1>25,
     <1>26, <1>27, <1>28, <1>29, <1>30, <1>31, <1>32, <1>33
     DEF Next, WorkerStep, AfterStep

(* the unloaded plugin has no session and accepts none, *)
LEMMA UnloadedStep ==
  ASSUME Orderly, Slot!TypeOK, Core, Calm, [Next]_vars PROVE Unloaded'
<1> USE DEF Core, TypeOK, HeldIffCurrent, EventMeansDown, Fresh, FreshAt, Started,
            WorkerPlaces, WorkerPlace, AfterPlaces, AfterPlace, OneAfter, CalmPlaces,
            CalmAfter, CalmWorker, StopComing, Unloaded, Working, AfterStop, Calm, Direct,
            Before, Phase, Slot!worldVars, Slot!threadVars, Slot!slotVars, Slot!pluginVars,
            Finish, FinishAny, Work, Left, flowVars, threads, worldVars, slotVars, envVars
<1> USE NoneApart
<1>1. CASE ApplyCheck
  BY <1>1 DEF ApplyCheck
<1>2. CASE ApplyTake
  <2>1. CASE UNCHANGED <<restoreHeld, current, session, worker, files>>
    BY <1>2, <2>1, TakeEffect
  <2>2. ASSUME NEW n \in Session, NEW kind \in RestoreKinds, Taken(n, kind) PROVE Unloaded'
    <3>1. current = None /\ \A k \in Session : after[k].at = "none"
      BY <2>2, TakenAlone
    <3>2. UNCHANGED <<after, watchdog, worldVars, stopping>> /\ executor = "restore"
      BY <1>2, TakeEffect
    <3> QED BY <2>2, <3>1, <3>2, RestoreAssumption DEF Taken
  <2> QED BY <1>2, <2>1, <2>2, TakeEffect
<1>3. CASE OnServerStartup
  BY <1>3 DEF OnServerStartup
<1>4. CASE OnServerStop
  <2>0. UNCHANGED <<world, lock, stopping, serverUp, saving, stopAsked, worker, watchdog, files>>
        /\ stopEvent /\ ~stopEvent'
    BY <1>4, StopEffect
  <2>1. CASE Phase = "STARTING" /\ FinishAny /\ UNCHANGED <<session, after>>
    BY <2>0, <2>1
  <2>2. CASE PhaseIs("RESTORING") /\ Moved(current, "spawned") /\ Phase = "STOPPING"
             /\ current \in Session /\ UNCHANGED <<current, restoreHeld>>
    BY <2>0, <2>2 DEF PhaseIs, ResultStays, Moved, OthersStay
  <2>3. CASE UNCHANGED <<current, session, after, restoreHeld>> /\ executor' \in {"free", "cancel"}
    BY <2>0, <2>3
  <2> QED BY <1>4, <2>1, <2>2, <2>3, StopEffect
<1>5. CASE Unload
  BY <1>5 DEF Unload, Slot!ShutdownBegin
<1>6. CASE ServerDown
  BY <1>6 DEF ServerDown, Slot!ServerDown
<1>7. CASE OperatorStart
  BY <1>7 DEF OperatorStart, Slot!ServerStarts
<1>8. CASE ExecutorCancels
  BY <1>8 DEF ExecutorCancels, Slot!CancelSet
<1>9. CASE SlotStep
  BY <1>9, SlotFrame, SlotSaving DEF SlotStep
<1>10. ASSUME NEW n \in Session, PreStopStart(n) PROVE Unloaded'
  BY <1>10 DEF PreStopStart
<1>11. ASSUME NEW n \in Session, PreStopAcquire(n) PROVE Unloaded'
  BY <1>11 DEF PreStopAcquire
<1>12. ASSUME NEW n \in Session, PreStopEnter(n) PROVE Unloaded'
  BY <1>12 DEF PreStopEnter
<1>13. ASSUME NEW n \in Session, SnapshotSaveOff(n) PROVE Unloaded'
  BY <1>13 DEF SnapshotSaveOff
<1>14. ASSUME NEW n \in Session, SnapshotDone(n) PROVE Unloaded'
  BY <1>14, SnapshotEffect DEF SnapshotDone, ResultStays
<1>15. ASSUME NEW n \in Session, SnapshotFails(n) PROVE Unloaded'
  BY <1>15 DEF SnapshotFails
<1>16. ASSUME NEW n \in Session, MarkStopping(n) PROVE Unloaded'
  BY <1>16, PhaseEffect DEF MarkStopping, Phases, PhaseIs, ResultStays
<1>17. ASSUME NEW n \in Session, StopCall(n) PROVE Unloaded'
  BY <1>17 DEF StopCall
<1>18. ASSUME NEW n \in Session, StopFailed(n) PROVE Unloaded'
  BY <1>18 DEF StopFailed
<1>19. ASSUME NEW n \in Session, PreStopFailed(n) PROVE Unloaded'
  BY <1>19 DEF PreStopFailed
<1>20. ASSUME NEW n \in Session, PreStopFinish(n) PROVE Unloaded'
  BY <1>20 DEF PreStopFinish
<1>21. ASSUME NEW n \in Session, PreStopClear(n) PROVE Unloaded'
  BY <1>21 DEF PreStopClear
<1>22. ASSUME NEW n \in Session, PreStopUnlock(n) PROVE Unloaded'
  BY <1>22 DEF PreStopUnlock
<1>23. ASSUME NEW n \in Session, DirectTask(n) PROVE Unloaded'
  BY <1>23, PhaseEffect DEF DirectTask, Phases, PhaseIs, ResultStays
<1>24. ASSUME NEW n \in Session, DirectRestic(n) PROVE Unloaded'
  BY <1>24 DEF DirectRestic
<1>25. ASSUME NEW k \in Session, AfterStopStart(k) PROVE Unloaded'
  BY <1>25, StartEffect DEF AfterStopStart, Gone, OthersStay, NoAfter
<1>26. ASSUME NEW k \in Session, AfterStopTask(k) PROVE Unloaded'
  BY <1>26, TaskEffect DEF AfterStopTask, Moved, Failed, OthersStay
<1>27. ASSUME NEW k \in Session, AfterStopRestic(k) PROVE Unloaded'
  BY <1>27, ResticEffect DEF AfterStopRestic, Moved, Failed, OthersStay
<1>28. ASSUME NEW k \in Session, RollbackStart(k) PROVE Unloaded'
  BY <1>28, RollbackEffect DEF RollbackStart, Moved, Rolled, OthersStay
<1>29. ASSUME NEW k \in Session, RollbackRestic(k) PROVE Unloaded'
  BY <1>29, RollingEffect DEF RollbackRestic, Rolled, OthersStay
<1>30. ASSUME NEW k \in Session, MarkStarting(k) PROVE Unloaded'
  BY <1>30, MarkEffect DEF Moved, OthersStay
<1>31. ASSUME NEW k \in Session, StartServer(k) PROVE Unloaded'
  BY <1>31, GoneEffect DEF StartServer, Gone, OthersStay, NoAfter
<1>32. ASSUME NEW n \in Session, WatchdogFires(n) PROVE Unloaded'
  BY <1>32 DEF WatchdogFires
<1>33. CASE UNCHANGED vars
  BY <1>33 DEF vars
<1> QED
  BY <1>1, <1>2, <1>3, <1>4, <1>5, <1>6, <1>7, <1>8, <1>9, <1>10, <1>11, <1>12, <1>13,
     <1>14, <1>15, <1>16, <1>17, <1>18, <1>19, <1>20, <1>21, <1>22, <1>23, <1>24, <1>25,
     <1>26, <1>27, <1>28, <1>29, <1>30, <1>31, <1>32, <1>33
     DEF Next, WorkerStep, AfterStep

(* and a session left without a thread is left with a stop or a watchdog. *)
LEMMA SessionDrivenStep ==
  ASSUME Orderly, Slot!TypeOK, Core, Calm, [Next]_vars PROVE SessionDriven'
<1> USE DEF Core, SessionDriven, Slot!ForceSaveOn, Slot!ServerSeen, TypeOK, HeldIffCurrent,
            EventMeansDown, Fresh, FreshAt, Started, WorkerPlaces, WorkerPlace, AfterPlaces,
            AfterPlace, OneAfter, CalmPlaces, CalmAfter, CalmWorker, StopComing, Unloaded,
            Working, AfterStop, Calm, Direct, Before, Phase, Slot!worldVars,
            Slot!threadVars, Slot!slotVars, Slot!pluginVars, Finish, FinishAny, Work, Left,
            flowVars, threads, worldVars, slotVars, envVars
<1> USE NoneApart
<1>1. CASE ApplyCheck
  BY <1>1 DEF ApplyCheck
<1>2. CASE ApplyTake
  <2>1. CASE UNCHANGED <<restoreHeld, current, session, worker, files>>
    BY <1>2, <2>1, TakeEffect
  <2>2. ASSUME NEW n \in Session, NEW kind \in RestoreKinds, Taken(n, kind) PROVE SessionDriven'
    <3>1. current = None /\ \A k \in Session : after[k].at = "none"
      BY <2>2, TakenAlone
    <3>2. UNCHANGED <<after, watchdog, worldVars, stopping>> /\ executor = "restore"
      BY <1>2, TakeEffect
    <3> QED BY <2>2, <3>1, <3>2, RestoreAssumption DEF Taken
  <2> QED BY <1>2, <2>1, <2>2, TakeEffect
<1>3. CASE OnServerStartup
  BY <1>3 DEF OnServerStartup
<1>4. CASE OnServerStop
  <2>0. UNCHANGED <<world, lock, stopping, serverUp, saving, stopAsked, worker, watchdog, files>>
        /\ stopEvent /\ ~stopEvent'
    BY <1>4, StopEffect
  <2>1. CASE Phase = "STARTING" /\ FinishAny /\ UNCHANGED <<session, after>>
    BY <2>0, <2>1
  <2>2. CASE PhaseIs("RESTORING") /\ Moved(current, "spawned") /\ Phase = "STOPPING"
             /\ current \in Session /\ UNCHANGED <<current, restoreHeld>>
    BY <2>0, <2>2 DEF PhaseIs, ResultStays, Moved, OthersStay
  <2>3. CASE /\ Phase \notin {"STARTING", "STOPPING"} \/ stopping
             /\ UNCHANGED <<current, session, after, restoreHeld>>
             /\ executor' \in {"free", "cancel"}
    BY <2>0, <2>3
  <2> QED BY <1>4, <2>1, <2>2, <2>3, StopEffect
<1>5. CASE Unload
  BY <1>5 DEF Unload, Slot!ShutdownBegin
<1>6. CASE ServerDown
  BY <1>6 DEF ServerDown, Slot!ServerDown
<1>7. CASE OperatorStart
  BY <1>7 DEF OperatorStart, Slot!ServerStarts
<1>8. CASE ExecutorCancels
  BY <1>8 DEF ExecutorCancels, Slot!CancelSet
<1>9. CASE SlotStep
  BY <1>9, SlotFrame, SlotSaving DEF SlotStep
<1>10. ASSUME NEW n \in Session, PreStopStart(n) PROVE SessionDriven'
  BY <1>10 DEF PreStopStart
<1>11. ASSUME NEW n \in Session, PreStopAcquire(n) PROVE SessionDriven'
  BY <1>11 DEF PreStopAcquire
<1>12. ASSUME NEW n \in Session, PreStopEnter(n) PROVE SessionDriven'
  BY <1>12 DEF PreStopEnter
<1>13. ASSUME NEW n \in Session, SnapshotSaveOff(n) PROVE SessionDriven'
  BY <1>13 DEF SnapshotSaveOff
<1>14. ASSUME NEW n \in Session, SnapshotDone(n) PROVE SessionDriven'
  BY <1>14, SnapshotEffect DEF SnapshotDone, ResultStays
<1>15. ASSUME NEW n \in Session, SnapshotFails(n) PROVE SessionDriven'
  BY <1>15 DEF SnapshotFails
<1>16. ASSUME NEW n \in Session, MarkStopping(n) PROVE SessionDriven'
  BY <1>16, PhaseEffect DEF MarkStopping, Phases, PhaseIs, ResultStays
<1>17. ASSUME NEW n \in Session, StopCall(n) PROVE SessionDriven'
  BY <1>17 DEF StopCall
<1>18. ASSUME NEW n \in Session, StopFailed(n) PROVE SessionDriven'
  BY <1>18 DEF StopFailed
<1>19. ASSUME NEW n \in Session, PreStopFailed(n) PROVE SessionDriven'
  BY <1>19 DEF PreStopFailed
<1>20. ASSUME NEW n \in Session, PreStopFinish(n) PROVE SessionDriven'
  BY <1>20 DEF PreStopFinish
<1>21. ASSUME NEW n \in Session, PreStopClear(n) PROVE SessionDriven'
  BY <1>21 DEF PreStopClear
<1>22. ASSUME NEW n \in Session, PreStopUnlock(n) PROVE SessionDriven'
  BY <1>22 DEF PreStopUnlock
<1>23. ASSUME NEW n \in Session, DirectTask(n) PROVE SessionDriven'
  BY <1>23, PhaseEffect DEF DirectTask, Phases, PhaseIs, ResultStays
<1>24. ASSUME NEW n \in Session, DirectRestic(n) PROVE SessionDriven'
  BY <1>24 DEF DirectRestic
<1>25. ASSUME NEW k \in Session, AfterStopStart(k) PROVE SessionDriven'
  BY <1>25, StartEffect DEF AfterStopStart, Gone, OthersStay, NoAfter
<1>26. ASSUME NEW k \in Session, AfterStopTask(k) PROVE SessionDriven'
  BY <1>26, TaskEffect DEF AfterStopTask, Moved, Failed, OthersStay
<1>27. ASSUME NEW k \in Session, AfterStopRestic(k) PROVE SessionDriven'
  BY <1>27, ResticEffect DEF AfterStopRestic, Moved, Failed, OthersStay
<1>28. ASSUME NEW k \in Session, RollbackStart(k) PROVE SessionDriven'
  BY <1>28, RollbackEffect DEF RollbackStart, Moved, Rolled, OthersStay
<1>29. ASSUME NEW k \in Session, RollbackRestic(k) PROVE SessionDriven'
  BY <1>29, RollingEffect DEF RollbackRestic, Rolled, OthersStay
<1>30. ASSUME NEW k \in Session, MarkStarting(k) PROVE SessionDriven'
  BY <1>30, MarkEffect DEF Moved, OthersStay
<1>31. ASSUME NEW k \in Session, StartServer(k) PROVE SessionDriven'
  BY <1>31, GoneEffect DEF StartServer, Gone, OthersStay, NoAfter
<1>32. ASSUME NEW n \in Session, WatchdogFires(n) PROVE SessionDriven'
  BY <1>32 DEF WatchdogFires
<1>33. CASE UNCHANGED vars
  BY <1>33 DEF vars
<1> QED
  BY <1>1, <1>2, <1>3, <1>4, <1>5, <1>6, <1>7, <1>8, <1>9, <1>10, <1>11, <1>12, <1>13,
     <1>14, <1>15, <1>16, <1>17, <1>18, <1>19, <1>20, <1>21, <1>22, <1>23, <1>24, <1>25,
     <1>26, <1>27, <1>28, <1>29, <1>30, <1>31, <1>32, <1>33
     DEF Next, WorkerStep, AfterStep

-----------------------------------------------------------------------------
(* The restorer of BackupSlot, told from the pre-stop thread in the slot. *)
Stage(n) == IF worker[n] = "slotTaken" THEN "acquired"
            ELSE IF Inside(n) THEN "inside"
            ELSE IF worker[n] = "cleared" THEN "cleared" ELSE "away"

(* The restorer of BackupSlot follows from the stages of the sessions' threads. *)
LEMMA SameStages ==
  ASSUME \A n \in Session : Stage(n)' = Stage(n)
  PROVE  Restorer' = Restorer
<1>1. \A n \in Session : /\ Stage(n) = "acquired" <=> worker[n] = "slotTaken"
                         /\ Stage(n) = "inside" <=> Inside(n)
                         /\ Stage(n) = "cleared" <=> worker[n] = "cleared"
  BY DEF Stage, Inside
<1>2. \A n \in Session : /\ Stage(n)' = "acquired" <=> worker'[n] = "slotTaken"
                         /\ Stage(n)' = "inside" <=> Inside(n)'
                         /\ Stage(n)' = "cleared" <=> worker'[n] = "cleared"
  BY DEF Stage, Inside
<1> QED BY <1>1, <1>2 DEF Restorer

(* The one thread in the slot is the restorer, *)
LEMMA RestorerIs ==
  ASSUME OneInPlace, NEW n \in Session, InPlace(n)
  PROVE  Restorer = Stage(n)
BY DEF OneInPlace, InPlace, Stage, Inside, Restorer

(* and without one the restorer is away. *)
LEMMA RestorerAway ==
  ASSUME \A n \in Session : ~InPlace(n)
  PROVE  Restorer = "away"
BY DEF InPlace, Restorer

(* Only the four steps of the pre-stop thread at the lock move the restorer. *)
LEMMA StagesStay ==
  ASSUME TypeOK, Fresh, WorkerPlaces, [Next]_vars,
         ~(\E n \in Session : \/ PreStopAcquire(n) \/ PreStopEnter(n)
                              \/ PreStopClear(n) \/ PreStopUnlock(n))
  PROVE  \A m \in Session : Stage(m)' = Stage(m)
<1> USE DEF TypeOK, Fresh, FreshAt, Started, WorkerPlaces, WorkerPlace, SafeOnly, WorkerPC,
            Stage, Inside, Finish, FinishAny, Work, Left, flowVars, threads, worldVars,
            slotVars, envVars
<1> SUFFICES ASSUME NEW m \in Session PROVE Stage(m)' = Stage(m)
  OBVIOUS
<1>1. CASE ApplyCheck
  BY <1>1 DEF ApplyCheck
<1>2. CASE ApplyTake
  <2>1. CASE UNCHANGED <<session, worker>>
    BY <2>1
  <2>2. ASSUME NEW n \in Session, NEW kind \in RestoreKinds, Taken(n, kind)
        PROVE  Stage(m)' = Stage(m)
    <3>1. worker[n] = "none"
      BY <2>2 DEF Taken
    <3> QED BY <2>2, <3>1 DEF Taken
  <2> QED BY <1>2, <2>1, <2>2, TakeEffect
<1>3. CASE OnServerStartup
  BY <1>3 DEF OnServerStartup
<1>4. CASE OnServerStop
  <2>1. worker' = worker /\ \A n \in Session : session'[n].kind = session[n].kind
    BY <1>4, StopEffect DEF PhaseIs, ResultStays
  <2> QED BY <2>1
<1>5. CASE Unload
  BY <1>5 DEF Unload, Slot!ShutdownBegin
<1>6. CASE ServerDown
  BY <1>6 DEF ServerDown, Slot!ServerDown
<1>7. CASE OperatorStart
  BY <1>7 DEF OperatorStart, Slot!ServerStarts
<1>8. CASE ExecutorCancels
  BY <1>8 DEF ExecutorCancels, Slot!CancelSet
<1>9. CASE SlotStep
  BY <1>9 DEF SlotStep
<1>10. ASSUME NEW n \in Session, PreStopStart(n) PROVE Stage(m)' = Stage(m)
  BY <1>10 DEF PreStopStart
<1>11. ASSUME NEW n \in Session, PreStopAcquire(n) PROVE Stage(m)' = Stage(m)
  BY <1>11
<1>12. ASSUME NEW n \in Session, PreStopEnter(n) PROVE Stage(m)' = Stage(m)
  BY <1>12
<1>13. ASSUME NEW n \in Session, SnapshotSaveOff(n) PROVE Stage(m)' = Stage(m)
  BY <1>13 DEF SnapshotSaveOff
<1>14. ASSUME NEW n \in Session, SnapshotDone(n) PROVE Stage(m)' = Stage(m)
  BY <1>14, SnapshotEffect DEF SnapshotDone, ResultStays
<1>15. ASSUME NEW n \in Session, SnapshotFails(n) PROVE Stage(m)' = Stage(m)
  BY <1>15 DEF SnapshotFails
<1>16. ASSUME NEW n \in Session, MarkStopping(n) PROVE Stage(m)' = Stage(m)
  BY <1>16, PhaseEffect DEF MarkStopping, Phases, PhaseIs, ResultStays
<1>17. ASSUME NEW n \in Session, StopCall(n) PROVE Stage(m)' = Stage(m)
  BY <1>17 DEF StopCall
<1>18. ASSUME NEW n \in Session, StopFailed(n) PROVE Stage(m)' = Stage(m)
  BY <1>18 DEF StopFailed
<1>19. ASSUME NEW n \in Session, PreStopFailed(n) PROVE Stage(m)' = Stage(m)
  BY <1>19 DEF PreStopFailed
<1>20. ASSUME NEW n \in Session, PreStopFinish(n) PROVE Stage(m)' = Stage(m)
  BY <1>20 DEF PreStopFinish
<1>21. ASSUME NEW n \in Session, PreStopClear(n) PROVE Stage(m)' = Stage(m)
  BY <1>21
<1>22. ASSUME NEW n \in Session, PreStopUnlock(n) PROVE Stage(m)' = Stage(m)
  BY <1>22
<1>23. ASSUME NEW n \in Session, DirectTask(n) PROVE Stage(m)' = Stage(m)
  BY <1>23, PhaseEffect DEF DirectTask, Phases, PhaseIs, ResultStays
<1>24. ASSUME NEW n \in Session, DirectRestic(n) PROVE Stage(m)' = Stage(m)
  BY <1>24 DEF DirectRestic
<1>25. ASSUME NEW k \in Session, AfterStopStart(k) PROVE Stage(m)' = Stage(m)
  BY <1>25, StartEffect DEF AfterStopStart, Gone, OthersStay, NoAfter
<1>26. ASSUME NEW k \in Session, AfterStopTask(k) PROVE Stage(m)' = Stage(m)
  BY <1>26, TaskEffect DEF AfterStopTask, Moved, Failed, OthersStay
<1>27. ASSUME NEW k \in Session, AfterStopRestic(k) PROVE Stage(m)' = Stage(m)
  BY <1>27, ResticEffect DEF AfterStopRestic, Moved, Failed, OthersStay
<1>28. ASSUME NEW k \in Session, RollbackStart(k) PROVE Stage(m)' = Stage(m)
  BY <1>28, RollbackEffect DEF RollbackStart, Moved, Rolled, OthersStay
<1>29. ASSUME NEW k \in Session, RollbackRestic(k) PROVE Stage(m)' = Stage(m)
  BY <1>29, RollingEffect DEF RollbackRestic, Rolled, OthersStay
<1>30. ASSUME NEW k \in Session, MarkStarting(k) PROVE Stage(m)' = Stage(m)
  BY <1>30, MarkEffect DEF Moved, OthersStay
<1>31. ASSUME NEW k \in Session, StartServer(k) PROVE Stage(m)' = Stage(m)
  BY <1>31, GoneEffect DEF StartServer, Gone, OthersStay, NoAfter
<1>32. ASSUME NEW n \in Session, WatchdogFires(n) PROVE Stage(m)' = Stage(m)
  BY <1>32 DEF WatchdogFires
<1>33. CASE UNCHANGED vars
  BY <1>33 DEF vars
<1> QED
  BY <1>1, <1>2, <1>3, <1>4, <1>5, <1>6, <1>7, <1>8, <1>9, <1>10, <1>11, <1>12, <1>13,
     <1>14, <1>15, <1>16, <1>17, <1>18, <1>19, <1>20, <1>21, <1>22, <1>23, <1>24, <1>25,
     <1>26, <1>27, <1>28, <1>29, <1>30, <1>31, <1>32, <1>33
     DEF Next, WorkerStep, AfterStep

(* An end of the workflow that owes no save-on is a step of BackupSlot. *)
LEMMA MakesFinish ==
  ASSUME Core, restoreHeld \in BOOLEAN, Restorer' = Restorer,
         UNCHANGED <<slotVars, envVars, serverUp, stopEvent, saving>>,
         \/ FinishAny /\ current # None
         \/ \E n \in Session \union {None} : Finish(n)
         \/ UNCHANGED restoreHeld,
         current # None => ~RestoreOwes
  PROVE  Slot!RestoreFinish \/ UNCHANGED Slot!vars
<1>1. CASE UNCHANGED restoreHeld
  BY <1>1, Zenon DEF Slot!vars, Slot!threadVars, Slot!slotVars, Slot!worldVars, Slot!pluginVars,
                     slotVars, envVars
<1>2. CASE ~UNCHANGED restoreHeld
  <2>1. current # None /\ ~restoreHeld'
    BY <1>2 DEF Core, HeldIffCurrent, Finish, FinishAny
  <2>2. restoreHeld /\ (serverUp /\ saving = "off" => BackupOwes)
    BY <2>1 DEF Core, HeldIffCurrent, Owing
  <2>3. restoreHeld' = FALSE
    BY <1>2, <2>1 DEF Finish, FinishAny
  <2>4. Slot!EndsRestore
    BY <2>2, <2>3, Zenon DEF Slot!EndsRestore, BackupOwes
  <2> QED
    BY <2>4, Zenon DEF Slot!RestoreFinish, Slot!threadVars, Slot!slotVars, Slot!worldVars,
                       Slot!pluginVars, slotVars, envVars
<1> QED BY <1>1, <1>2

(* Each step of the workflow is a step of BackupSlot, or none at all. *)
LEMMA StepMaps ==
  ASSUME Core, OneInPlace', Slot!TypeOK, Slot!SlotExclusive, [Next]_vars
  PROVE  [Slot!Next]_(Slot!vars)
<1> USE DEF Slot!threadVars, Slot!slotVars, Slot!worldVars, Slot!pluginVars, slotVars,
            envVars, worldVars, Slot!vars
<1> DEFINE Others == ~(\E n \in Session : \/ PreStopAcquire(n) \/ PreStopEnter(n)
                                          \/ PreStopClear(n) \/ PreStopUnlock(n))
<1>a. restoreHeld \in BOOLEAN
  BY DEF Slot!TypeOK
<1>0. Others => Restorer' = Restorer
  BY StagesStay, SameStages DEF Core
<1> HIDE DEF Others
<1>b. ASSUME NEW n \in Session, InPlace(n), InPlace(n)'
      PROVE  Restorer = Stage(n) /\ Restorer' = Stage(n)'
  <2>1. Restorer = Stage(n)
    BY <1>b, RestorerIs DEF Core
  <2>2. Restorer' = Stage(n)'
    BY <1>b DEF OneInPlace, InPlace, Stage, Inside, Restorer
  <2> QED BY <2>1, <2>2
<1>1. CASE \E n \in Session : PreStopAcquire(n)
  <2> PICK n \in Session : PreStopAcquire(n)
    BY <1>1
  <2>1. worker[n] = "wantSlot" /\ current = n /\ restoreHeld
    BY NoneApart DEF PreStopAcquire, Core, WorkerPlaces, WorkerPlace, Before, HeldIffCurrent
  <2>2. CASE lock
    <3>1. \A m \in Session : Stage(m)' = Stage(m)
      BY <2>1, <2>2 DEF PreStopAcquire, Stage, Inside, Work, Core, TypeOK
    <3>2. Restorer' = Restorer
      BY <3>1, SameStages
    <3>3. Finish(n) /\ UNCHANGED <<slotVars, envVars, serverUp, stopEvent, saving>>
      BY <2>2 DEF PreStopAcquire
    <3>4. ~RestoreOwes
      BY <2>1 DEF RestoreOwes
    <3> QED BY <3>2, <3>3, <3>4, <1>a, MakesFinish DEF Slot!Next, Slot!RestoreStep
  <2>3. CASE ~lock
    <3>1. \A m \in Session : ~InPlace(m)
      BY <2>3, FreeSlot
    <3>2. Restorer = "away"
      BY <3>1, RestorerAway
    <3>3. worker'[n] = "slotTaken"
      BY <2>3 DEF PreStopAcquire, Work, Core, TypeOK
    <3>4. Restorer' = "acquired"
      BY <3>3 DEF Restorer
    <3>5. Slot!RestoreAcquire
      BY <2>1, <2>3, <3>2, <3>4, Zenon DEF PreStopAcquire, Slot!RestoreAcquire
    <3> QED BY <3>5 DEF Slot!Next, Slot!RestoreStep
  <2> QED BY <2>2, <2>3
<1>2. CASE \E n \in Session : PreStopEnter(n)
  <2> PICK n \in Session : PreStopEnter(n)
    BY <1>2
  <2>1. worker[n] = "slotTaken" /\ session[n].kind = "safe" /\ session' = session
    BY DEF PreStopEnter, Core, WorkerPlaces, WorkerPlace, SafeOnly
  <2>2. worker' = [worker EXCEPT ![n] = "snapshot"] /\ worker'[n] = "snapshot"
    BY DEF PreStopEnter, Work, Core, TypeOK
  <2>3. InPlace(n) /\ Stage(n) = "acquired" /\ InPlace(n)' /\ Stage(n)' = "inside"
    BY <2>1, <2>2 DEF InPlace, Inside, Stage
  <2>4. Restorer = "acquired" /\ Restorer' = "inside"
    BY <2>3, <1>b
  <2>5. Slot!RestoreEnter
    BY <2>4, Zenon DEF PreStopEnter, Slot!RestoreEnter
  <2> QED BY <2>5 DEF Slot!Next, Slot!RestoreStep
<1>3. CASE \E n \in Session : PreStopClear(n)
  <2> PICK n \in Session : PreStopClear(n)
    BY <1>3
  <2>1. worker[n] = "leaving" /\ session[n].kind = "safe" /\ session' = session
    BY DEF PreStopClear, Core, WorkerPlaces, WorkerPlace, SafeOnly
  <2>2. worker' = [worker EXCEPT ![n] = "cleared"] /\ worker'[n] = "cleared"
    BY DEF PreStopClear, Work, Core, TypeOK
  <2>3. InPlace(n) /\ Stage(n) = "inside" /\ InPlace(n)' /\ Stage(n)' = "cleared"
    BY <2>1, <2>2 DEF InPlace, Inside, Stage
  <2>4. Restorer = "inside" /\ Restorer' = "cleared"
    BY <2>3, <1>b
  <2>5. Slot!RestoreClear
    BY <2>4, Zenon DEF PreStopClear, Slot!RestoreClear
  <2> QED BY <2>5 DEF Slot!Next, Slot!RestoreStep
<1>4. CASE \E n \in Session : PreStopUnlock(n)
  <2> PICK n \in Session : PreStopUnlock(n)
    BY <1>4
  <2>1. worker[n] = "cleared" /\ InPlace(n) /\ Stage(n) = "cleared" /\ session' = session
    BY DEF PreStopUnlock, InPlace, Stage, Inside
  <2>2. worker'[n] = "none" /\ \A m \in Session : m # n => worker'[m] = worker[m]
    BY DEF PreStopUnlock, Work, Core, TypeOK
  <2>3. \A m \in Session : ~InPlace(m)'
    BY <2>1, <2>2 DEF InPlace, Inside, Core, OneInPlace
  <2>4. Restorer' = "away"
    BY <2>3 DEF InPlace, Restorer
  <2>5. Restorer = "cleared"
    BY <2>1, RestorerIs DEF Core
  <2>6. Slot!RestoreUnlock
    BY <2>4, <2>5, Zenon DEF PreStopUnlock, Slot!RestoreUnlock
  <2> QED BY <2>6 DEF Slot!Next, Slot!RestoreStep
<1>5. CASE Others
  <2>0. Restorer' = Restorer
    BY <1>0, <1>5
  <2>1. CASE ApplyCheck
    <3>1. Slot!RestoreCheck
      BY <2>0, <2>1, Zenon DEF ApplyCheck, Slot!RestoreCheck
    <3> QED BY <3>1 DEF Slot!Next, Slot!RestoreStep
  <2>2. CASE ApplyTake
    <3>1. Slot!RestoreTake
      BY <2>0, <2>2, Zenon DEF ApplyTake, Slot!RestoreTake
    <3> QED BY <3>1 DEF Slot!Next, Slot!RestoreStep
  <2>3. CASE OnServerStop
    <3>1. ~serverUp /\ stopEvent
      BY <2>3 DEF OnServerStop, Core, EventMeansDown
    <3>2. CASE Phase = "STARTING" /\ ~stopping /\ FinishAny /\ UNCHANGED executor
      <4>1. current # None
        BY <3>2 DEF Phase
      <4>2. restoreHeld /\ restoreHeld' = FALSE
        BY <1>a, <4>1, <3>2 DEF Core, HeldIffCurrent, FinishAny
      <4>3. Slot!EndsRestore
        BY <3>1, <4>2 DEF Slot!EndsRestore
      <4> QED BY <2>0, <2>3, <3>2, <4>3, Zenon
         DEF OnServerStop, Slot!OnServerStop, Slot!Next, Slot!PluginStep
    <3>3. CASE Phase = "STOPPING" /\ UNCHANGED <<restoreHeld, executor>>
      <4>1. restoreHeld
        BY <3>3, <1>a DEF Phase, Core, HeldIffCurrent
      <4> QED BY <2>0, <2>3, <3>3, <4>1, Zenon
         DEF OnServerStop, Slot!OnServerStop, Slot!Next, Slot!PluginStep
    <3>4. CASE executor' = (IF lock /\ ~stopping THEN "cancel" ELSE executor)
               /\ UNCHANGED restoreHeld
      BY <2>0, <2>3, <3>4, Zenon DEF OnServerStop, Slot!OnServerStop, Slot!Next, Slot!PluginStep
    <3> QED BY <2>3, <3>2, <3>3, <3>4, Zenon DEF OnServerStop
  <2>4. CASE Unload
    BY <2>4 DEF Unload, Slot!Next, Slot!PluginStep
  <2>5. CASE ServerDown
    BY <2>5 DEF ServerDown, Slot!Next, Slot!WorldStep
  <2>6. CASE OperatorStart
    BY <2>6 DEF OperatorStart, Slot!Next, Slot!WorldStep
  <2>7. CASE ExecutorCancels
    BY <2>7 DEF ExecutorCancels, Slot!Next, Slot!PluginStep
  <2>8. CASE SlotStep
    BY <2>8, Zenon DEF SlotStep, Slot!Next, Slot!PluginStep
  <2>9. ASSUME NEW n \in Session, SnapshotSaveOff(n) PROVE [Slot!Next]_(Slot!vars)
    <3>1. worker[n] = "snapshot" /\ session[n].kind = "safe" /\ restoreHeld
      BY <2>9, <1>a, NoneApart
         DEF SnapshotSaveOff, Core, WorkerPlaces, WorkerPlace, SafeOnly, Before,
                                   HeldIffCurrent
    <3>2. InPlace(n) /\ Stage(n) = "inside"
      BY <3>1 DEF InPlace, Inside, Stage
    <3>3. Restorer = "inside"
      BY <3>2, RestorerIs DEF Core
    <3>4. Slot!RestoreSaveOff
      BY <2>0, <2>9, <3>1, <3>3, Zenon DEF SnapshotSaveOff, Slot!RestoreSaveOff
    <3> QED BY <3>4 DEF Slot!Next, Slot!RestoreStep
  <2>10. ASSUME NEW n \in Session, StopFailed(n) \/ PreStopFailed(n) PROVE [Slot!Next]_(Slot!vars)
    <3>1. Slot!RestoreSaveOn
      BY <2>0, <2>10, Zenon DEF StopFailed, PreStopFailed, Slot!RestoreSaveOn
    <3> QED BY <3>1 DEF Slot!Next, Slot!RestoreStep
  <2>11. ASSUME NEW k \in Session, StartServer(k) PROVE [Slot!Next]_(Slot!vars)
    <3>1. CASE serverUp' = TRUE /\ ~serverUp
      <4>1. Slot!ServerStarts
        BY <2>0, <2>11, <3>1, Zenon DEF StartServer, Finish, Slot!ServerStarts
      <4> QED BY <4>1 DEF Slot!Next, Slot!WorldStep
    <3>2. CASE Finish(after[k].of) /\ UNCHANGED <<serverUp, saving>>
      <4>1. after[k].of = k /\ (current # None => ~RestoreOwes)
        BY <2>11 DEF StartServer, Core, AfterPlaces, AfterPlace, RestoreOwes
      <4>2. UNCHANGED <<slotVars, envVars, serverUp, stopEvent, saving>>
        BY <2>11, <3>2 DEF StartServer
      <4> QED BY <1>a, <2>0, <3>2, <4>1, <4>2, MakesFinish DEF Slot!Next, Slot!RestoreStep
    <3> QED BY <2>11, <3>1, <3>2, Zenon DEF StartServer
  <2>12. CASE OnServerStartup
    <3>1. UNCHANGED <<slotVars, envVars, serverUp, stopEvent, saving>>
      BY <2>12 DEF OnServerStartup
    <3>2. CASE UNCHANGED restoreHeld
      BY <2>0, <3>1, <3>2
    <3>3. CASE Phase = "STARTING" /\ FinishAny
      <4>1. current # None /\ ~RestoreOwes
        BY <3>3 DEF Phase, RestoreOwes
      <4> QED BY <1>a, <2>0, <3>1, <3>3, <4>1, MakesFinish DEF Slot!Next, Slot!RestoreStep
    <3> QED BY <2>12, <3>2, <3>3, Zenon DEF OnServerStartup
  <2>13. ASSUME NEW n \in Session, WatchdogFires(n) PROVE [Slot!Next]_(Slot!vars)
    <3>1. UNCHANGED <<slotVars, envVars, serverUp, stopEvent, saving>>
      BY <2>13 DEF WatchdogFires
    <3>2. CASE UNCHANGED restoreHeld
      BY <2>0, <3>1, <3>2
    <3>3. CASE Phase = "STARTING" /\ Finish(n)
      <4>1. ~RestoreOwes
        BY <3>3 DEF Phase, RestoreOwes
      <4> QED BY <1>a, <2>0, <3>1, <3>3, <4>1, MakesFinish DEF Slot!Next, Slot!RestoreStep
    <3> QED BY <2>13, <3>2, <3>3, Zenon DEF WatchdogFires
  <2>14. ASSUME NEW n \in Session, PreStopFinish(n) \/ DirectTask(n) \/ DirectRestic(n)
         PROVE  [Slot!Next]_(Slot!vars)
    <3>1. UNCHANGED <<slotVars, envVars, serverUp, stopEvent, saving>>
      BY <2>14 DEF PreStopFinish, DirectTask, DirectRestic
    <3>2. CASE UNCHANGED restoreHeld
      BY <2>0, <3>1, <3>2
    <3>3. CASE Finish(n)
      <4>1. worker[n] \in Direct \union {"finishing"}
        BY <2>14 DEF PreStopFinish, DirectTask, DirectRestic, Direct
      <4>2. CASE current = n
        <5>1. ~RestoreOwes
          BY <4>1, <4>2 DEF RestoreOwes, Direct
        <5> QED BY <1>a, <2>0, <3>1, <3>3, <5>1, MakesFinish DEF Slot!Next, Slot!RestoreStep
      <4>3. CASE current # n
        BY <2>0, <3>1, <3>3, <4>3 DEF Finish
      <4> QED BY <4>2, <4>3
    <3> QED BY <2>14, <3>2, <3>3, Zenon DEF PreStopFinish, DirectTask, DirectRestic
  <2>15. ASSUME NEW n \in Session, PreStopStart(n) PROVE [Slot!Next]_(Slot!vars)
    <3>1. current = n
      BY <2>15 DEF PreStopStart, Core, WorkerPlaces, WorkerPlace, Before
    <3>2. UNCHANGED restoreHeld
      BY <2>15, <3>1, NoneApart DEF PreStopStart
    <3> QED BY <2>0, <2>15, <3>2 DEF PreStopStart
  <2>16. ASSUME NEW k \in Session, AfterStopStart(k) PROVE [Slot!Next]_(Slot!vars)
    <3>1. UNCHANGED restoreHeld
      BY <1>a, <2>16 DEF AfterStopStart, FinishAny, Core, HeldIffCurrent
    <3> QED BY <2>0, <2>16, <3>1 DEF AfterStopStart
  <2>17. ASSUME NEW n \in Session,
                SnapshotDone(n) \/ SnapshotFails(n) \/ MarkStopping(n) \/ StopCall(n)
         PROVE  [Slot!Next]_(Slot!vars)
    BY <2>0, <2>17 DEF SnapshotDone, SnapshotFails, MarkStopping, StopCall
  <2>18. ASSUME NEW k \in Session,
                \/ AfterStopTask(k) \/ AfterStopRestic(k) \/ RollbackStart(k) \/ RollbackRestic(k)
                \/ MarkStarting(k)
         PROVE  [Slot!Next]_(Slot!vars)
    BY <2>0, <2>18
       DEF AfterStopTask, AfterStopRestic, RollbackStart, RollbackRestic, MarkStarting
  <2>19. CASE UNCHANGED vars
    BY <2>0, <2>19 DEF vars
  <2> QED BY <1>5, <2>1, <2>2, <2>3, <2>4, <2>5, <2>6, <2>7, <2>8, <2>9, <2>10, <2>11, <2>12, <2>13,
             <2>14, <2>15, <2>16, <2>17, <2>18, <2>19
          DEF Next, WorkerStep, AfterStep, Others
<1> QED BY <1>1, <1>2, <1>3, <1>4, <1>5 DEF Others

-----------------------------------------------------------------------------
(* BackupSlotProofs speaks of its own copy of the specification; the two copies *)
(* are the same.                                                                *)
LEMMA SlotThreads == SlotP!ThreadAssumption
BY SlotAssumption
   DEF SlotP!ThreadAssumption, Slot!ThreadAssumption, SlotP!Thread, Slot!Thread, SlotP!Backups,
       Slot!Backups, SlotP!Maintenance, Slot!Maintenance

LEMMA SameNext == [Slot!Next]_(Slot!vars) => [SlotP!Next]_(SlotP!vars)
<1> USE DEF SlotP!Backups, Slot!Backups, SlotP!Maintenance, Slot!Maintenance,
            SlotP!Starters, Slot!Starters, SlotP!Waiters, Slot!Waiters, SlotP!Thread,
            Slot!Thread, SlotP!threadVars, Slot!threadVars, SlotP!slotVars, Slot!slotVars,
            SlotP!worldVars, Slot!worldVars, SlotP!pluginVars, Slot!pluginVars, SlotP!vars,
            Slot!vars, SlotP!InSlot, Slot!InSlot, SlotP!RestorerInSlot, Slot!RestorerInSlot,
            SlotP!Holding, Slot!Holding, SlotP!OwesSaveOn, Slot!OwesSaveOn,
            SlotP!ServerSeen, Slot!ServerSeen, SlotP!LabelOf, Slot!LabelOf, SlotP!Goto,
            Slot!Goto, SlotP!End, Slot!End, SlotP!Enter, Slot!Enter, SlotP!ClearedOnEntry,
            Slot!ClearedOnEntry, SlotP!AfterRestic, Slot!AfterRestic, SlotP!ForceSaveOn,
            Slot!ForceSaveOn, SlotP!Aimed, Slot!Aimed, SlotP!SetCancel, Slot!SetCancel,
            SlotP!EndsRestore, Slot!EndsRestore
<1>1. ASSUME NEW t \in Slot!Thread, Slot!ThreadStep(t) PROVE SlotP!ThreadStep(t)
  BY <1>1
     DEF SlotP!CommandCheck, Slot!CommandCheck, SlotP!CommandAcquire, Slot!CommandAcquire,
         SlotP!StartThread, Slot!StartThread, SlotP!Trigger, Slot!Trigger,
         SlotP!WaiterCheck, Slot!WaiterCheck, SlotP!PollStopping, Slot!PollStopping,
         SlotP!PollAcquire, Slot!PollAcquire, SlotP!PollGiveUp, Slot!PollGiveUp,
         SlotP!TaskEnter, Slot!TaskEnter, SlotP!CommandEnter, Slot!CommandEnter,
         SlotP!BodyFails, Slot!BodyFails, SlotP!SaveOff, Slot!SaveOff,
         SlotP!StartRestic, Slot!StartRestic, SlotP!MaintenanceNext,
         Slot!MaintenanceNext, SlotP!ResticEnds, Slot!ResticEnds, SlotP!SaveOn,
         Slot!SaveOn, SlotP!ReleaseClear, Slot!ReleaseClear, SlotP!ReleaseUnlock,
         Slot!ReleaseUnlock, SlotP!Release, Slot!Release, SlotP!ThreadStep,
         Slot!ThreadStep
<1>2. Slot!PluginStep => SlotP!PluginStep
  BY DEF SlotP!CancelCheck, Slot!CancelCheck, SlotP!CancelSet, Slot!CancelSet,
         SlotP!OnServerStop, Slot!OnServerStop, SlotP!ShutdownBegin, Slot!ShutdownBegin,
         SlotP!ShutdownCheck, Slot!ShutdownCheck, SlotP!ShutdownCancel,
         Slot!ShutdownCancel, SlotP!ShutdownSaveOn, Slot!ShutdownSaveOn,
         SlotP!PluginStep, Slot!PluginStep
<1>3. Slot!WorldStep => SlotP!WorldStep
  BY DEF SlotP!ServerDown, Slot!ServerDown, SlotP!ServerStarts, Slot!ServerStarts,
         SlotP!WorldStep, Slot!WorldStep
<1>4. Slot!RestoreStep => SlotP!RestoreStep
  BY DEF SlotP!RestoreCheck, Slot!RestoreCheck, SlotP!RestoreTake, Slot!RestoreTake,
         SlotP!RestoreAcquire, Slot!RestoreAcquire, SlotP!RestoreEnter,
         Slot!RestoreEnter, SlotP!RestoreSaveOff, Slot!RestoreSaveOff,
         SlotP!RestoreSaveOn, Slot!RestoreSaveOn, SlotP!RestoreClear, Slot!RestoreClear,
         SlotP!RestoreUnlock, Slot!RestoreUnlock, SlotP!RestoreFinish,
         Slot!RestoreFinish, SlotP!RestoreStep, Slot!RestoreStep
<1> QED BY <1>1, <1>2, <1>3, <1>4 DEF SlotP!Next, Slot!Next

(* What BackupSlotProofs proves of each step, and what of it is used here. *)
LEMMA SlotKept == SlotP!IInv /\ [Slot!Next]_(Slot!vars) => SlotP!IInv'
<1> SUFFICES ASSUME SlotP!IInv, [SlotP!Next]_(SlotP!vars) PROVE SlotP!IInv'
  BY SameNext
<1>1. SlotP!TypeOK /\ SlotP!Safe
  BY DEF SlotP!IInv, SlotP!Safe
<1>2. SlotP!Safe'
  BY <1>1, SlotP!SafeStep, SlotThreads
<1>3. SlotP!Flags /\ SlotP!Data
  BY <1>1, SlotP!TypeSplit, SlotThreads
<1>4. SlotP!Flags' /\ SlotP!Data'
  BY <1>3, SlotP!FlagsStep, SlotP!DataStep, SlotThreads
<1>5. SlotP!TypeOK'
  BY <1>4 DEF SlotP!Flags, SlotP!Data, SlotP!TypeOK
<1> QED BY <1>2, <1>5 DEF SlotP!IInv, SlotP!Safe

LEMMA SlotGives == SlotP!IInv => Slot!TypeOK /\ Slot!SlotExclusive
BY DEF SlotP!IInv, SlotP!TypeOK, Slot!TypeOK, SlotP!PC, Slot!PC, SlotP!Outcomes, Slot!Outcomes,
       SlotP!Labels, Slot!Labels, SlotP!Executors, Slot!Executors, SlotP!Restorers,
       Slot!Restorers, SlotP!Shutdowns, Slot!Shutdowns, SlotP!Thread, Slot!Thread,
       SlotP!Backups, Slot!Backups, SlotP!Maintenance, Slot!Maintenance,
       SlotP!SlotExclusive, Slot!SlotExclusive, SlotP!InSlot, Slot!InSlot,
       SlotP!RestorerInSlot, Slot!RestorerInSlot, SlotP!Holding, Slot!Holding

LEMMA Start == Init => Core /\ SlotP!IInv
<1> SUFFICES ASSUME Init PROVE Core /\ SlotP!IInv
  OBVIOUS
<1> USE NoneApart
<1>1. Restorer = "away"
  BY DEF Init, Restorer, Inside
<1>2. SlotP!Init
  BY <1>1
     DEF Init, SlotP!Init, Slot!Init, SlotP!Thread, Slot!Thread, SlotP!Backups, Slot!Backups,
               SlotP!Maintenance, Slot!Maintenance
<1>3. SlotP!IInv
  BY <1>2, SlotP!InitInv, SlotThreads
<1>4. TypeOK
  BY DEF Init, TypeOK, Fields, Phases, Errors, WorkerPC, AfterPC, NoAfter
<1>5. HeldIffCurrent /\ EventMeansDown /\ Owing
  BY DEF Init, Slot!Init, HeldIffCurrent, EventMeansDown, Owing
<1>6. Fresh /\ WorkerPlaces /\ OneInPlace /\ AfterPlaces /\ OneAfter /\ Carried
  BY
     DEF Init, Fresh, FreshAt, Started, WorkerPlaces, WorkerPlace, Before, SafeOnly, Direct,
         OneInPlace,
         InPlace, Inside, AfterPlaces, AfterPlace, OneAfter, Carried, CarriedBy, NoAfter
<1>7. CalmPlaces /\ SessionDriven /\ ReportsTruth
  BY
     DEF Init, Slot!Init, CalmPlaces, CalmAfter, CalmWorker, StopComing, Unloaded, Working, Direct,
         SessionDriven, ReportsTruth, Phase, NoAfter
<1> QED BY <1>3, <1>4, <1>5, <1>6, <1>7 DEF Core

(* No step changes which surprises the behaviour has. *)
LEMMA WorldStays == [Next]_vars => world' = world
<1> SUFFICES ASSUME [Next]_vars PROVE world' = world
  OBVIOUS
<1>1. ASSUME NEW n \in Session, WorkerStep(n) PROVE world' = world
  BY <1>1, Zenon
     DEF WorkerStep, PreStopStart, PreStopAcquire, PreStopEnter, SnapshotSaveOff, SnapshotDone,
         SnapshotFails, MarkStopping, StopCall, StopFailed, PreStopFailed,
         PreStopFinish, PreStopClear, PreStopUnlock, DirectTask, DirectRestic
<1>2. ASSUME NEW k \in Session, AfterStep(k) PROVE world' = world
  BY <1>2, Zenon
     DEF AfterStep, AfterStopStart, AfterStopTask, AfterStopRestic, RollbackStart,
         RollbackRestic, MarkStarting, StartServer
<1> QED
  BY <1>1, <1>2, Zenon
     DEF Next, WatchdogFires, vars, ApplyCheck, ApplyTake, OnServerStartup, OnServerStop, Unload,
         ServerDown, OperatorStart, ExecutorCancels, SlotStep

(* The two halves together.  What Calm guards is kept because Calm stays. *)
LEMMA CoreStep == Orderly /\ Core /\ SlotP!IInv /\ [Next]_vars => Core' /\ SlotP!IInv'
<1> SUFFICES ASSUME Orderly, Core, SlotP!IInv, [Next]_vars PROVE Core' /\ SlotP!IInv'
  OBVIOUS
<1>1. /\ TypeOK /\ HeldIffCurrent /\ EventMeansDown /\ Fresh /\ WorkerPlaces /\ OneInPlace
      /\ AfterPlaces /\ OneAfter /\ Carried /\ Owing /\ CalmPlaces /\ SessionDriven /\ ReportsTruth
  BY DEF Core
<1>2. Slot!TypeOK /\ Slot!SlotExclusive
  BY SlotGives
<1>3. OfKnown
  BY <1>1 DEF OfKnown, AfterPlaces, AfterPlace
<1>4. TypeOK' /\ HeldIffCurrent' /\ EventMeansDown' /\ Fresh'
  BY <1>1, <1>2, <1>3, TypeStep, HeldStep, EventStep, FreshStep
<1>5. WorkerPlaces' /\ OneInPlace'
  BY <1>1, <1>2, WorkerStepKept, OneInPlaceStep
<1>6. AfterPlaces' /\ OneAfter'
  BY <1>1, AfterPlacesStep, OneAfterStep
<1>7. Carried' /\ ReportsTruth' /\ Owing'
  BY <1>1, <1>2, CarriedStep, ReportsStep, OwingStep
<1>8. CalmPlaces' /\ SessionDriven'
  <2>1. Calm' <=> Calm
    BY WorldStays DEF Calm
  <2>2. CASE Calm
    <3>1. \A m \in Session : CalmAfter(m)' /\ CalmWorker(m)'
      BY <1>2, <2>2, CalmAfterStep, CalmWorkerStep
    <3>2. StopComing' /\ Unloaded' /\ SessionDriven'
      BY <1>2, <2>2, StopComingStep, UnloadedStep, SessionDrivenStep
    <3> QED BY <3>1, <3>2 DEF CalmPlaces
  <2>3. CASE ~Calm
    BY <2>1, <2>3 DEF CalmPlaces, SessionDriven
  <2> QED BY <2>2, <2>3
<1>9. Core'
  BY <1>4, <1>5, <1>6, <1>7, <1>8 DEF Core
<1>10. SlotP!IInv'
  BY <1>2, <1>5, StepMaps, SlotKept
<1> QED BY <1>9, <1>10

(* In an orderly world the session, its threads, the server and the slot always *)
(* fit together.                                                                *)
LEMMA Inductive == Spec => [](Orderly => Core /\ SlotP!IInv)
<1>1. Init => (Orderly => Core /\ SlotP!IInv)
  BY Start
<1>2. (Orderly => Core /\ SlotP!IInv) /\ [Next]_vars => (Orderly => Core /\ SlotP!IInv)'
  <2> SUFFICES ASSUME Orderly => Core /\ SlotP!IInv, [Next]_vars, Orderly'
               PROVE  Core' /\ SlotP!IInv'
    OBVIOUS
  <2>1. Orderly
    BY WorldStays DEF Orderly, Calm
  <2> QED BY <2>1, CoreStep
<1> QED BY <1>1, <1>2, PTL DEF Spec
-----------------------------------------------------------------------------
(* No setter changes, and no end hits, a session that belongs to somebody else. *)
THEOREM SessionOwned == Spec => []ThreadsOwnSession
<1>1. (Orderly => Core /\ SlotP!IInv) => ThreadsOwnSession
  BY NoneApart
     DEF Orderly, Core, CalmPlaces, CalmAfter, CalmWorker, ThreadsOwnSession, AfterStop,
                   AfterPlaces, AfterPlace
<1> QED BY <1>1, Inductive, PTL

(* A current session always has somebody who will end it or drive it on. *)
THEOREM AlwaysDriven == Spec => []SessionDriven
<1>1. (Orderly => Core /\ SlotP!IInv) => SessionDriven
  BY DEF Orderly, Core, SessionDriven
<1> QED BY <1>1, Inductive, PTL

(* restic writes the world only while the server process is down. *)
THEOREM WritesToAStoppedWorld == Spec => []ServerOffDuringRestore
<1>1. (Orderly => Core /\ SlotP!IInv) => ServerOffDuringRestore
  BY DEF Orderly, Core, CalmPlaces, CalmAfter, ServerOffDuringRestore
<1> QED BY <1>1, Inductive, PTL

(* The plugin is unloaded only when no restore is under way. *)
THEOREM QuietlyUnloaded == Spec => []UnloadIsQuiet
<1>1. (Orderly => Core /\ SlotP!IInv) => UnloadIsQuiet
  BY NoneApart DEF Orderly, Core, CalmPlaces, CalmAfter, CalmWorker, Unloaded, HeldIffCurrent,
                   UnloadIsQuiet, QuietUnload, AfterStop, Slot!TypeOK
<1> QED BY <1>1, Inductive, PTL

(* What the users are told at the startup after a restore is true of the world, *)
(* also after a crash, an operator's start or MCDR's exit during the restore.   *)
THEOREM TruthReported == Spec /\ Orderly => []ReportsTruth
<1>1. Orderly /\ [Next]_vars => Orderly'
  BY WorldStays DEF Orderly, Calm
<1>2. Orderly /\ (Orderly => Core /\ SlotP!IInv) => ReportsTruth
  BY DEF Core
<1> QED BY <1>1, <1>2, Inductive, PTL DEF Spec

(* Every variable of the workflow keeps its type, in every world: no thread     *)
(* writes into a session that does not exist.                                   *)
THEOREM TypeCorrect == Spec => []TypeOK
<1>1. Init => TypeOK /\ OfKnown
  BY Start DEF Core, Init, OfKnown, NoAfter
<1>2. TypeOK /\ OfKnown /\ [Next]_vars => TypeOK' /\ OfKnown'
  BY TypeStep, OfKnownStep
<1> QED BY <1>1, <1>2, PTL DEF Spec
-----------------------------------------------------------------------------
(* The workflow implements BackupSlot: initial states map to initial states,   *)
(* every step to a step or a stutter.                                          *)
THEOREM RefinesSlot == Spec /\ Orderly => ImplementsSlot
<1>1. Init => Slot!Init
  BY DEF Init
<1>2. Orderly /\ [Next]_vars => Orderly'
  BY WorldStays DEF Orderly, Calm
<1>3. Orderly /\ (Orderly => Core /\ SlotP!IInv) /\ (Orderly => Core /\ SlotP!IInv)' /\ [Next]_vars
        => [Slot!Next]_(Slot!vars)
  <2> SUFFICES ASSUME Orderly, Core, SlotP!IInv, (Orderly => Core /\ SlotP!IInv)', [Next]_vars
               PROVE  [Slot!Next]_(Slot!vars)
    OBVIOUS
  <2>1. Core'
    BY <1>2
  <2>2. OneInPlace'
    BY <2>1 DEF Core
  <2> QED BY <2>2, SlotGives, StepMaps
<1> QED BY <1>1, <1>2, <1>3, Inductive, PTL DEF Spec, ImplementsSlot, Slot!Spec

(* No session's phase has moved back in this step. *)
PhasesForward == \A n \in Session : PhaseRank[session[n].phase] <= PhaseRank[session'[n].phase]

(* The phases in the order of a restore. *)
LEMMA Ranks ==
  /\ PhaseRank["NONE"] = 0 /\ PhaseRank["PRE_BACKUP"] = 1 /\ PhaseRank["STOPPING"] = 2
  /\ PhaseRank["RESTORING"] = 3 /\ PhaseRank["STARTING"] = 4
  /\ \A p \in Phases : PhaseRank[p] \in 0..4
BY DEF PhaseRank, Phases

(* No step moves a phase back. *)
LEMMA PhaseStep ==
  ASSUME Orderly, Core, [Next]_vars PROVE PhasesForward
<1> USE DEF PhasesForward
<1>1. TypeOK /\ \A m \in Session : session[m].phase \in Phases
  BY DEF Core, TypeOK, Fields
<1>2. CASE UNCHANGED session
  BY <1>1, <1>2, Ranks
<1>3. CASE ApplyTake
  <2>1. ASSUME NEW n \in Session, NEW kind \in RestoreKinds, Taken(n, kind) PROVE PhasesForward
    BY <1>1, <2>1, Ranks DEF Taken, Phases
  <2> QED BY <1>1, <1>2, <1>3, <2>1, TakeEffect
<1>4. CASE OnServerStop
  <2>1. CASE PhaseIs("RESTORING") /\ Phase = "STOPPING"
    BY <1>1, <2>1, Ranks, NoneApart DEF PhaseIs, Phase, Phases
  <2> QED BY <1>1, <1>2, <1>4, <2>1, StopEffect
<1>5. ASSUME NEW n \in Session, SnapshotDone(n) PROVE PhasesForward
  BY <1>1, <1>5, SnapshotEffect, Ranks
<1>6. ASSUME NEW n \in Session, MarkStopping(n) PROVE PhasesForward
  <2>1. current = n /\ session[n].phase = "PRE_BACKUP"
    BY <1>6 DEF MarkStopping, Core, WorkerPlaces, WorkerPlace, Before
  <2>2. PhaseIs("STOPPING")
    BY <1>1, <1>6, PhaseEffect DEF MarkStopping, Phases
  <2> QED BY <1>1, <2>1, <2>2, Ranks DEF PhaseIs
<1>7. ASSUME NEW n \in Session, DirectTask(n) PROVE PhasesForward
  <2>1. current = n /\ session[n].phase \in {"PRE_BACKUP", "RESTORING"}
    BY <1>7 DEF DirectTask, Core, WorkerPlaces, WorkerPlace, Direct
  <2>2. PhaseIs("RESTORING")
    BY <1>1, <1>7, PhaseEffect DEF DirectTask, Phases
  <2> QED BY <1>1, <2>1, <2>2, Ranks DEF PhaseIs
<1>8. ASSUME NEW k \in Session, MarkStarting(k) PROVE PhasesForward
  BY <1>1, <1>8, MarkEffect, Ranks DEF Phases
<1>9. ASSUME ~ApplyTake, ~OnServerStop,
             \A n \in Session : ~(\/ SnapshotDone(n) \/ MarkStopping(n)
                                 \/ DirectTask(n) \/ MarkStarting(n))
      PROVE  UNCHANGED session
  <2>1. ASSUME NEW n \in Session, WorkerStep(n) PROVE UNCHANGED session
    BY <1>9, <2>1, Zenon
       DEF WorkerStep, PreStopStart, PreStopAcquire, PreStopEnter, SnapshotSaveOff,
           SnapshotFails, StopCall, StopFailed, PreStopFailed, PreStopFinish,
           PreStopClear, PreStopUnlock, DirectRestic
  <2>2. ASSUME NEW k \in Session, AfterStep(k) PROVE UNCHANGED session
    BY <1>9, <2>2, Zenon
       DEF AfterStep, AfterStopStart, AfterStopTask, AfterStopRestic, RollbackStart,
           RollbackRestic, StartServer
  <2> QED BY <1>9, <2>1, <2>2, Zenon
       DEF Next, WatchdogFires, vars, flowVars, ApplyCheck, OnServerStartup, Unload, ServerDown,
           OperatorStart, ExecutorCancels, SlotStep
<1> QED BY <1>2, <1>3, <1>4, <1>5, <1>6, <1>7, <1>8, <1>9, Zenon

(* A session's phase only moves forward: one stop event starts one restore. *)
THEOREM PhaseMovesForward == Spec /\ Orderly => PhaseForward
<1>1. Orderly /\ [Next]_vars => Orderly'
  BY WorldStays DEF Orderly, Calm
<1>2. Orderly /\ (Orderly => Core /\ SlotP!IInv) /\ [Next]_vars
        => [\A n \in Session : PhaseRank[session[n].phase] <= PhaseRank[session'[n].phase]]_vars
  BY PhaseStep DEF PhasesForward
<1> QED BY <1>1, <1>2, Inductive, PTL DEF Spec, PhaseForward
=============================================================================
