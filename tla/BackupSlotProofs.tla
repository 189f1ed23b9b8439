-------------------------- MODULE BackupSlotProofs --------------------------
(***************************************************************************)
(* Proofs about BackupSlot, for every set of threads.  One inductive        *)
(* invariant carries all of them: the checked invariants and what they      *)
(* silently rely on, namely which kind of thread can be at which place, who *)
(* occupies the executor, and that only a thread inside the slot is asked.  *)
(***************************************************************************)
EXTENDS BackupSlot, TLAPS

(* Only a waiter waits and only a command is on the executor's way to the slot. *)
Kinds ==
  \A t \in Thread :
    /\ pc[t] \in {"spawned", "polling", "acquiring", "timedOut"} => t \in Waiters
    /\ pc[t] = "checked" => t \in Starters \union Commands
    /\ pc[t] = "starting" => t \in Starters

(* The thread whose code runs on the executor at the moment. *)
OnExecutor(t) == \/ pc[t] \in {"checked", "starting"}
                 \/ pc[t] = "entered" /\ t \in Commands

(* The executor runs one thing at a time, and a command it runs has seen the   *)
(* restore lock free.                                                          *)
ExecutorSerial ==
  /\ \A t \in Thread : OnExecutor(t) => executor = "command" /\ ~restoreHeld
  /\ \A t, u \in Thread : OnExecutor(t) /\ OnExecutor(u) => t = u
  /\ shutdown \in {"begun", "cancelling", "saving"} => executor = "shutdown"
  /\ executor = "restore" => \A t \in Starters \union Commands : ~Holding(t)

(* Only the thread in the slot is asked to cancel, and never a command that    *)
(* still occupies the executor the request has to come from.                   *)
AskedInside == \A t \in asked : Holding(t) /\ ~OnExecutor(t)

IInv == /\ TypeOK /\ SlotExclusive /\ CommandsExcludeRestore /\ SlotFields
        /\ CancelSticks /\ SavingOwed
        /\ Kinds /\ ExecutorSerial /\ AskedInside

(* TypeOK in two halves: each prover is at ease with one of them. *)
Flags == /\ lock \in BOOLEAN /\ cancel \in BOOLEAN /\ restoreHeld \in BOOLEAN
         /\ stopping \in BOOLEAN /\ serverUp \in BOOLEAN /\ stopEvent \in BOOLEAN
Data == /\ pc \in [Thread -> PC] /\ outcome \in [Thread -> Outcomes]
        /\ asked \subseteq Thread /\ label \in Labels /\ owner \in Thread \union {NoThread}
        /\ executor \in Executors /\ restorer \in Restorers /\ shutdown \in Shutdowns
        /\ saving \in {"on", "off", "stuck"}

USE ThreadAssumption DEF Thread, Backups, Maintenance, Starters, Waiters
-----------------------------------------------------------------------------
LEMMA TypeSplit == TypeOK <=> Flags /\ Data
BY DEF TypeOK, Flags, Data

LEMMA FlagsStep == Flags /\ [Next]_vars => Flags'
<1> SUFFICES ASSUME Flags, [Next]_vars PROVE Flags' OBVIOUS
<1> USE DEF Flags, threadVars, slotVars, worldVars, pluginVars, Enter, Goto, End,
            ForceSaveOn, SetCancel, ClearedOnEntry, EndsRestore
<1>1. ASSUME NEW t \in Thread, CommandCheck(t) PROVE Flags'
  BY <1>1, Zenon DEF CommandCheck
<1>2. ASSUME NEW t \in Thread, CommandAcquire(t) PROVE Flags'
  BY <1>2, Zenon DEF CommandAcquire
<1>3. ASSUME NEW t \in Thread, StartThread(t) PROVE Flags'
  BY <1>3, Zenon DEF StartThread
<1>4. ASSUME NEW t \in Thread, Trigger(t) PROVE Flags'
  BY <1>4, Zenon DEF Trigger
<1>5. ASSUME NEW t \in Thread, WaiterCheck(t) PROVE Flags'
  BY <1>5, Zenon DEF WaiterCheck
<1>6. ASSUME NEW t \in Thread, PollStopping(t) PROVE Flags'
  BY <1>6, Zenon DEF PollStopping
<1>7. ASSUME NEW t \in Thread, PollAcquire(t) PROVE Flags'
  BY <1>7, Zenon DEF PollAcquire
<1>8. ASSUME NEW t \in Thread, PollGiveUp(t) PROVE Flags'
  BY <1>8, Zenon DEF PollGiveUp
<1>9. ASSUME NEW t \in Thread, TaskEnter(t) PROVE Flags'
  BY <1>9, Zenon DEF TaskEnter
<1>10. ASSUME NEW t \in Thread, CommandEnter(t) PROVE Flags'
  BY <1>10, Zenon DEF CommandEnter
<1>11. ASSUME NEW t \in Thread, BodyFails(t) PROVE Flags'
  BY <1>11, Zenon DEF BodyFails
<1>12. ASSUME NEW t \in Thread, SaveOff(t) PROVE Flags'
  BY <1>12, Zenon DEF SaveOff
<1>13. ASSUME NEW t \in Thread, StartRestic(t) PROVE Flags'
  BY <1>13, Zenon DEF StartRestic
<1>14. ASSUME NEW t \in Thread, MaintenanceNext(t) PROVE Flags'
  BY <1>14, Zenon DEF MaintenanceNext
<1>15. ASSUME NEW t \in Thread, ResticEnds(t) PROVE Flags'
  BY <1>15, Zenon DEF ResticEnds
<1>16. ASSUME NEW t \in Thread, SaveOn(t) PROVE Flags'
  BY <1>16, Zenon DEF SaveOn
<1>17. ASSUME NEW t \in Thread, ReleaseClear(t) PROVE Flags'
  BY <1>17, Zenon DEF ReleaseClear
<1>18. ASSUME NEW t \in Thread, ReleaseUnlock(t) PROVE Flags'
  BY <1>18, Zenon DEF ReleaseUnlock
<1>19. CASE CancelCheck
  BY <1>19, Zenon DEF CancelCheck
<1>20. CASE CancelSet
  BY <1>20, Zenon DEF CancelSet
<1>21. CASE OnServerStop
  BY <1>21, Zenon DEF OnServerStop
<1>22. CASE ShutdownBegin
  BY <1>22, Zenon DEF ShutdownBegin
<1>23. CASE ShutdownCheck
  BY <1>23, Zenon DEF ShutdownCheck
<1>24. CASE ShutdownCancel
  BY <1>24, Zenon DEF ShutdownCancel
<1>25. CASE ShutdownSaveOn
  BY <1>25, Zenon DEF ShutdownSaveOn
<1>26. CASE ServerDown
  BY <1>26, Zenon DEF ServerDown
<1>27. CASE ServerStarts
  BY <1>27, Zenon DEF ServerStarts
<1>28. CASE RestoreCheck
  BY <1>28, Zenon DEF RestoreCheck
<1>29. CASE RestoreTake
  BY <1>29, Zenon DEF RestoreTake
<1>30. CASE RestoreAcquire
  BY <1>30, Zenon DEF RestoreAcquire
<1>31. CASE RestoreEnter
  BY <1>31, Zenon DEF RestoreEnter
<1>32. CASE RestoreSaveOff
  BY <1>32, Zenon DEF RestoreSaveOff
<1>33. CASE RestoreSaveOn
  BY <1>33, Zenon DEF RestoreSaveOn
<1>34. CASE RestoreClear
  BY <1>34, Zenon DEF RestoreClear
<1>35. CASE RestoreUnlock
  BY <1>35, Zenon DEF RestoreUnlock
<1>36. CASE RestoreFinish
  BY <1>36, Zenon DEF RestoreFinish
<1>37. CASE UNCHANGED vars
  BY <1>37, Zenon DEF vars
<1> QED BY <1>1, <1>2, <1>3, <1>4, <1>5, <1>6, <1>7, <1>8, <1>9, <1>10, <1>11,
        <1>12, <1>13, <1>14, <1>15, <1>16, <1>17, <1>18, <1>19, <1>20, <1>21,
        <1>22, <1>23, <1>24, <1>25, <1>26, <1>27, <1>28, <1>29, <1>30, <1>31,
        <1>32, <1>33, <1>34, <1>35, <1>36, <1>37
           DEF Next, ThreadStep, PluginStep, WorldStep, RestoreStep, Release

LEMMA DataStep == Data /\ [Next]_vars => Data'
<1> SUFFICES ASSUME Data, [Next]_vars PROVE Data' OBVIOUS
<1> USE DEF Data, PC, Outcomes, Labels, Executors, Restorers, Shutdowns, Goto, End, Enter,
            threadVars, slotVars, worldVars, pluginVars, LabelOf, AfterRestic,
            ForceSaveOn, Aimed, SetCancel, EndsRestore
<1>1. ASSUME NEW t \in Thread, CommandCheck(t) PROVE Data'
  BY <1>1 DEF CommandCheck
<1>2. ASSUME NEW t \in Thread, CommandAcquire(t) PROVE Data'
  BY <1>2 DEF CommandAcquire
<1>3. ASSUME NEW t \in Thread, StartThread(t) PROVE Data'
  BY <1>3 DEF StartThread
<1>4. ASSUME NEW t \in Thread, Trigger(t) PROVE Data'
  BY <1>4 DEF Trigger
<1>5. ASSUME NEW t \in Thread, WaiterCheck(t) PROVE Data'
  BY <1>5 DEF WaiterCheck
<1>6. ASSUME NEW t \in Thread, PollStopping(t) PROVE Data'
  BY <1>6 DEF PollStopping
<1>7. ASSUME NEW t \in Thread, PollAcquire(t) PROVE Data'
  BY <1>7 DEF PollAcquire
<1>8. ASSUME NEW t \in Thread, PollGiveUp(t) PROVE Data'
  BY <1>8 DEF PollGiveUp
<1>9. ASSUME NEW t \in Thread, TaskEnter(t) PROVE Data'
  BY <1>9 DEF TaskEnter
<1>10. ASSUME NEW t \in Thread, CommandEnter(t) PROVE Data'
  BY <1>10 DEF CommandEnter
<1>11. ASSUME NEW t \in Thread, BodyFails(t) PROVE Data'
  BY <1>11 DEF BodyFails
<1>12. ASSUME NEW t \in Thread, SaveOff(t) PROVE Data'
  BY <1>12 DEF SaveOff
<1>13. ASSUME NEW t \in Thread, StartRestic(t) PROVE Data'
  BY <1>13 DEF StartRestic
<1>14. ASSUME NEW t \in Thread, MaintenanceNext(t) PROVE Data'
  BY <1>14 DEF MaintenanceNext
<1>15. ASSUME NEW t \in Thread, ResticEnds(t) PROVE Data'
  BY <1>15 DEF ResticEnds
<1>16. ASSUME NEW t \in Thread, SaveOn(t) PROVE Data'
  BY <1>16 DEF SaveOn
<1>17. ASSUME NEW t \in Thread, ReleaseClear(t) PROVE Data'
  BY <1>17 DEF ReleaseClear
<1>18. ASSUME NEW t \in Thread, ReleaseUnlock(t) PROVE Data'
  BY <1>18 DEF ReleaseUnlock
<1>19. CASE CancelCheck
  BY <1>19 DEF CancelCheck
<1>20. CASE CancelSet
  BY <1>20 DEF CancelSet
<1>21. CASE OnServerStop
  BY <1>21 DEF OnServerStop
<1>22. CASE ShutdownBegin
  BY <1>22 DEF ShutdownBegin
<1>23. CASE ShutdownCheck
  BY <1>23 DEF ShutdownCheck
<1>24. CASE ShutdownCancel
  BY <1>24 DEF ShutdownCancel
<1>25. CASE ShutdownSaveOn
  BY <1>25 DEF ShutdownSaveOn
<1>26. CASE ServerDown
  BY <1>26 DEF ServerDown
<1>27. CASE ServerStarts
  BY <1>27 DEF ServerStarts
<1>28. CASE RestoreCheck
  BY <1>28 DEF RestoreCheck
<1>29. CASE RestoreTake
  BY <1>29 DEF RestoreTake
<1>30. CASE RestoreAcquire
  BY <1>30 DEF RestoreAcquire
<1>31. CASE RestoreEnter
  BY <1>31 DEF RestoreEnter
<1>32. CASE RestoreSaveOff
  BY <1>32 DEF RestoreSaveOff
<1>33. CASE RestoreSaveOn
  BY <1>33 DEF RestoreSaveOn
<1>34. CASE RestoreClear
  BY <1>34 DEF RestoreClear
<1>35. CASE RestoreUnlock
  BY <1>35 DEF RestoreUnlock
<1>36. CASE RestoreFinish
  BY <1>36 DEF RestoreFinish
<1>37. CASE UNCHANGED vars
  BY <1>37 DEF vars
<1> QED BY <1>1, <1>2, <1>3, <1>4, <1>5, <1>6, <1>7, <1>8, <1>9, <1>10, <1>11,
        <1>12, <1>13, <1>14, <1>15, <1>16, <1>17, <1>18, <1>19, <1>20, <1>21,
        <1>22, <1>23, <1>24, <1>25, <1>26, <1>27, <1>28, <1>29, <1>30, <1>31,
        <1>32, <1>33, <1>34, <1>35, <1>36, <1>37
           DEF Next, ThreadStep, PluginStep, WorldStep, RestoreStep, Release

(* Every variable keeps its type, whatever the threads, users and server do. *)
THEOREM TypeCorrect == Spec => []TypeOK
<1>1. Init => TypeOK
  BY DEF Init, TypeOK, PC, Outcomes, Labels, Executors, Restorers, Shutdowns
<1>2. TypeOK /\ [Next]_vars => TypeOK'
  <2>1. (Flags /\ Data)' <=> TypeOK'
    BY DEF TypeOK, Flags, Data
  <2> QED BY <2>1, TypeSplit, FlagsStep, DataStep
<1> QED BY <1>1, <1>2, PTL DEF Spec
-----------------------------------------------------------------------------
LEMMA InitInv == Init => IInv
BY DEF Init, IInv, TypeOK, SlotExclusive, CommandsExcludeRestore, SlotFields, CancelSticks,
   SavingOwed, Kinds, ExecutorSerial, AskedInside, OnExecutor, Holding, InSlot, RestorerInSlot,
   PC, Outcomes, Labels, Executors, Restorers, Shutdowns

(* The part of the inductive invariant beyond the types. *)
Safe == /\ SlotExclusive /\ CommandsExcludeRestore /\ SlotFields /\ CancelSticks /\ SavingOwed
        /\ Kinds /\ ExecutorSerial /\ AskedInside

LEMMA SafeStep == TypeOK /\ Safe /\ [Next]_vars => Safe'
<1> SUFFICES ASSUME TypeOK, Safe, [Next]_vars PROVE Safe' OBVIOUS
<1> USE DEF TypeOK, Safe, SlotExclusive, CommandsExcludeRestore, SlotFields, CancelSticks,
            SavingOwed, Kinds, ExecutorSerial, AskedInside, OnExecutor, Holding, InSlot,
            RestorerInSlot, OwesSaveOn, PC, Outcomes, Labels, Executors, Restorers,
            Shutdowns, Goto, End, Enter, ServerSeen, threadVars, slotVars, worldVars,
            pluginVars, LabelOf, ClearedOnEntry, AfterRestic, ForceSaveOn, Aimed, SetCancel, EndsRestore
<1>1. ASSUME NEW t \in Thread, CommandCheck(t) PROVE Safe'
  BY <1>1 DEF CommandCheck
<1>2. ASSUME NEW t \in Thread, CommandAcquire(t) PROVE Safe'
  <2>1. SlotExclusive'
    BY <1>2 DEF CommandAcquire
  <2>2. CommandsExcludeRestore' /\ SlotFields'
    BY <1>2 DEF CommandAcquire
  <2>3. CancelSticks' /\ SavingOwed'
    BY <1>2 DEF CommandAcquire
  <2>4. Kinds' /\ ExecutorSerial' /\ AskedInside'
    BY <1>2 DEF CommandAcquire
  <2> QED BY <2>1, <2>2, <2>3, <2>4
<1>3. ASSUME NEW t \in Thread, StartThread(t) PROVE Safe'
  BY <1>3 DEF StartThread
<1>4. ASSUME NEW t \in Thread, Trigger(t) PROVE Safe'
  BY <1>4 DEF Trigger
<1>5. ASSUME NEW t \in Thread, WaiterCheck(t) PROVE Safe'
  BY <1>5 DEF WaiterCheck
<1>6. ASSUME NEW t \in Thread, PollStopping(t) PROVE Safe'
  BY <1>6 DEF PollStopping
<1>7. ASSUME NEW t \in Thread, PollAcquire(t) PROVE Safe'
  <2>1. SlotExclusive'
    BY <1>7 DEF PollAcquire
  <2>2. CommandsExcludeRestore' /\ SlotFields'
    BY <1>7 DEF PollAcquire
  <2>3. CancelSticks' /\ SavingOwed'
    BY <1>7 DEF PollAcquire
  <2>4. Kinds' /\ ExecutorSerial' /\ AskedInside'
    BY <1>7 DEF PollAcquire
  <2> QED BY <2>1, <2>2, <2>3, <2>4
<1>8. ASSUME NEW t \in Thread, PollGiveUp(t) PROVE Safe'
  BY <1>8 DEF PollGiveUp
<1>9. ASSUME NEW t \in Thread, TaskEnter(t) PROVE Safe'
  <2>1. SlotExclusive'
    BY <1>9 DEF TaskEnter
  <2>2. CommandsExcludeRestore' /\ SlotFields'
    BY <1>9 DEF TaskEnter
  <2>3. CancelSticks' /\ SavingOwed'
    BY <1>9 DEF TaskEnter
  <2>4. Kinds' /\ ExecutorSerial' /\ AskedInside'
    BY <1>9 DEF TaskEnter
  <2> QED BY <2>1, <2>2, <2>3, <2>4
<1>10. ASSUME NEW t \in Thread, CommandEnter(t) PROVE Safe'
  <2>1. SlotExclusive'
    BY <1>10 DEF CommandEnter
  <2>2. CommandsExcludeRestore' /\ SlotFields'
    BY <1>10 DEF CommandEnter
  <2>3. CancelSticks' /\ SavingOwed'
    BY <1>10 DEF CommandEnter
  <2>4. Kinds' /\ ExecutorSerial' /\ AskedInside'
    BY <1>10 DEF CommandEnter
  <2> QED BY <2>1, <2>2, <2>3, <2>4
<1>11. ASSUME NEW t \in Thread, BodyFails(t) PROVE Safe'
  BY <1>11 DEF BodyFails
<1>12. ASSUME NEW t \in Thread, SaveOff(t) PROVE Safe'
  BY <1>12 DEF SaveOff
<1>13. ASSUME NEW t \in Thread, StartRestic(t) PROVE Safe'
  BY <1>13 DEF StartRestic
<1>14. ASSUME NEW t \in Thread, MaintenanceNext(t) PROVE Safe'
  BY <1>14 DEF MaintenanceNext
<1>15. ASSUME NEW t \in Thread, ResticEnds(t) PROVE Safe'
  BY <1>15 DEF ResticEnds
<1>16. ASSUME NEW t \in Thread, SaveOn(t) PROVE Safe'
  BY <1>16 DEF SaveOn
<1>17. ASSUME NEW t \in Thread, ReleaseClear(t) PROVE Safe'
  <2>1. SlotExclusive'
    BY <1>17 DEF ReleaseClear
  <2>2. CommandsExcludeRestore' /\ SlotFields'
    BY <1>17 DEF ReleaseClear
  <2>3. CancelSticks' /\ SavingOwed'
    BY <1>17 DEF ReleaseClear
  <2>4. Kinds' /\ ExecutorSerial' /\ AskedInside'
    BY <1>17 DEF ReleaseClear
  <2> QED BY <2>1, <2>2, <2>3, <2>4
<1>18. ASSUME NEW t \in Thread, ReleaseUnlock(t) PROVE Safe'
  <2>1. SlotExclusive'
    BY <1>18 DEF ReleaseUnlock
  <2>2. CommandsExcludeRestore' /\ SlotFields'
    BY <1>18 DEF ReleaseUnlock
  <2>3. CancelSticks' /\ SavingOwed'
    BY <1>18 DEF ReleaseUnlock
  <2>4. Kinds' /\ ExecutorSerial' /\ AskedInside'
    BY <1>18 DEF ReleaseUnlock
  <2> QED BY <2>1, <2>2, <2>3, <2>4
<1>19. CASE CancelCheck
  BY <1>19 DEF CancelCheck
<1>20. CASE CancelSet
  BY <1>20 DEF CancelSet
<1>21. CASE OnServerStop
  BY <1>21 DEF OnServerStop
<1>22. CASE ShutdownBegin
  BY <1>22 DEF ShutdownBegin
<1>23. CASE ShutdownCheck
  BY <1>23 DEF ShutdownCheck
<1>24. CASE ShutdownCancel
  BY <1>24 DEF ShutdownCancel
<1>25. CASE ShutdownSaveOn
  BY <1>25 DEF ShutdownSaveOn
<1>26. CASE ServerDown
  BY <1>26 DEF ServerDown
<1>27. CASE ServerStarts
  BY <1>27 DEF ServerStarts
<1>28. CASE RestoreCheck
  BY <1>28 DEF RestoreCheck
<1>29. CASE RestoreTake
  BY <1>29 DEF RestoreTake
<1>30. CASE RestoreAcquire
  BY <1>30 DEF RestoreAcquire
<1>31. CASE RestoreEnter
  <2>1. SlotExclusive'
    BY <1>31 DEF RestoreEnter
  <2>2. CommandsExcludeRestore' /\ SlotFields'
    BY <1>31 DEF RestoreEnter
  <2>3. CancelSticks' /\ SavingOwed'
    BY <1>31 DEF RestoreEnter
  <2>4. Kinds' /\ ExecutorSerial' /\ AskedInside'
    BY <1>31 DEF RestoreEnter
  <2> QED BY <2>1, <2>2, <2>3, <2>4
<1>32. CASE RestoreSaveOff
  BY <1>32 DEF RestoreSaveOff
<1>33. CASE RestoreSaveOn
  BY <1>33 DEF RestoreSaveOn
<1>34. CASE RestoreClear
  <2>1. SlotExclusive'
    BY <1>34 DEF RestoreClear
  <2>2. CommandsExcludeRestore' /\ SlotFields'
    BY <1>34 DEF RestoreClear
  <2>3. CancelSticks' /\ SavingOwed'
    BY <1>34 DEF RestoreClear
  <2>4. Kinds' /\ ExecutorSerial' /\ AskedInside'
    BY <1>34 DEF RestoreClear
  <2> QED BY <2>1, <2>2, <2>3, <2>4
<1>35. CASE RestoreUnlock
  <2>1. SlotExclusive'
    BY <1>35 DEF RestoreUnlock
  <2>2. CommandsExcludeRestore' /\ SlotFields'
    BY <1>35 DEF RestoreUnlock
  <2>3. CancelSticks' /\ SavingOwed'
    BY <1>35 DEF RestoreUnlock
  <2>4. Kinds' /\ ExecutorSerial' /\ AskedInside'
    BY <1>35 DEF RestoreUnlock
  <2> QED BY <2>1, <2>2, <2>3, <2>4
<1>36. CASE RestoreFinish
  <2>1. SlotExclusive'
    BY <1>36 DEF RestoreFinish
  <2>2. CommandsExcludeRestore' /\ SlotFields'
    BY <1>36 DEF RestoreFinish
  <2>3. CancelSticks' /\ SavingOwed'
    BY <1>36 DEF RestoreFinish
  <2>4. Kinds' /\ ExecutorSerial' /\ AskedInside'
    BY <1>36 DEF RestoreFinish
  <2> QED BY <2>1, <2>2, <2>3, <2>4
<1>37. CASE UNCHANGED vars
  BY <1>37 DEF vars
<1> QED BY <1>1, <1>2, <1>3, <1>4, <1>5, <1>6, <1>7, <1>8, <1>9, <1>10, <1>11,
        <1>12, <1>13, <1>14, <1>15, <1>16, <1>17, <1>18, <1>19, <1>20, <1>21,
        <1>22, <1>23, <1>24, <1>25, <1>26, <1>27, <1>28, <1>29, <1>30, <1>31,
        <1>32, <1>33, <1>34, <1>35, <1>36, <1>37
           DEF Next, ThreadStep, PluginStep, WorldStep, RestoreStep, Release

LEMMA Inductive == Spec => []IInv
<1>1. TypeOK /\ Safe /\ [Next]_vars => Safe'
  BY SafeStep
<1>2. IInv <=> TypeOK /\ Safe
  BY DEF IInv, Safe
<1> QED BY <1>1, <1>2, InitInv, TypeCorrect, PTL DEF Spec

(* At most one task is in the slot, and the lock is held exactly while one is. *)
THEOREM Exclusive == Spec => []SlotExclusive
BY Inductive, PTL DEF IInv

(* No task started by a command overlaps a restore workflow. *)
THEOREM RestoreExclusion == Spec => []CommandsExcludeRestore
BY Inductive, PTL DEF IInv

(* Label and registered thread always describe the task inside the slot. *)
THEOREM FieldsDescribeTask == Spec => []SlotFields
BY Inductive, PTL DEF IInv

(* A cancel request reaches the task it was aimed at. *)
THEOREM RequestSticks == Spec => []CancelSticks
BY Inductive, PTL DEF IInv

(* World autosave is never left off with nobody on the way to save-on. *)
THEOREM AutosaveReturns == Spec => []SavingOwed
BY Inductive, PTL DEF IInv
=============================================================================
