------------------------- MODULE RuntimeStateProofs -------------------------
(***************************************************************************)
(* Proofs about RuntimeState, for every set of backup threads, players and  *)
(* samplers.  The mirror is never behind, whatever disturbs.  The status is *)
(* truthful, a visit leaves its flag, the switch on disk is the one in      *)
(* memory and the count settles as long as the disturbances that these      *)
(* properties name stay away: each proof follows one calm behaviour, whose  *)
(* world never changes.                                                     *)
(***************************************************************************)
EXTENDS RuntimeState, FiniteSetTheorems, TLAPS

USE DEF dataVars, slotVars, worldVars, vars
-----------------------------------------------------------------------------
LEMMA WorldFixed == [Next]_vars => world' = world
BY DEF Next

LEMMA SavedMirror == \A record, written : Save(record, written) => mirror' = runtime'
BY DEF Save

LEMMA MirrorStep == MirrorCurrent /\ [Next]_vars => MirrorCurrent'
<1> SUFFICES ASSUME MirrorCurrent, [Next]_vars PROVE MirrorCurrent' OBVIOUS
<1> USE DEF MirrorCurrent
<1>1. ASSUME NEW b \in Backups, BackupStep(b) PROVE MirrorCurrent'
  BY <1>1, SavedMirror DEF BackupStep, BackupEnters, RecordStarted, RecordFinished,
                           BackupLeaves, SaveIfPossible
<1>2. ASSUME NEW s \in Samplers, Sample(s) \/ RecordSample(s) PROVE MirrorCurrent'
  BY <1>2, SavedMirror DEF Sample, RecordSample, PersistPlayers, SaveIfPossible
<1>3. CASE PlayerEvent
  BY <1>3, SavedMirror DEF PlayerEvent, PersistPlayers, SaveIfPossible
<1>4. CASE ServerStopped \/ CheckActivity \/ TriggerEnds \/ ThirtySecondsPass
  BY <1>4, SavedMirror DEF ServerStopped, CheckActivity, TriggerEnds, ThirtySecondsPass,
                           SaveIfPossible
<1>5. CASE LoadRead \/ LoadInstall \/ SetEnabled \/ Restart
  BY <1>5, SavedMirror DEF LoadRead, LoadInstall, SetEnabled, Restart, SaveIfPossible
<1>6. CASE GameStep
  BY <1>6 DEF GameStep, PlayerJoins, PlayerLeaves, ServerEnds, ServerStarts
<1>7. CASE UNCHANGED vars BY <1>7
<1> QED BY <1>1, <1>2, <1>3, <1>4, <1>5, <1>6, <1>7 DEF Next

(* A configuration snapshot and the next backup record never start from an old  *)
(* state: every writer, and every failed or throttled write, leaves the mirror  *)
(* equal to the record.                                                         *)
THEOREM MirrorNeverLags == Spec => []MirrorCurrent
<1>1. Init => MirrorCurrent BY DEF Init, MirrorCurrent
<1> QED BY <1>1, MirrorStep, PTL DEF Spec
-----------------------------------------------------------------------------
LEMMA Counted == \A names \in SUBSET Players : Cardinality(names) \in Nat
BY RuntimeAssumption, FS_CardinalityType, FS_Subset

LEMMA JoinedType == \A record \in Record, p \in Players : Joined(record, p) \in Record
<1> SUFFICES ASSUME NEW record \in Record, NEW p \in Players
             PROVE Joined(record, p) \in Record
    OBVIOUS
<1> DEFINE known == record.known \union {p}
           more  == IF p \in record.known THEN 0 ELSE 1
<1>1. known \in SUBSET Players BY DEF Record
<1>2. Cardinality(known) \in Nat BY <1>1, Counted
<1>3. record.online + more \in Nat BY DEF Record
<1>4. Larger(Cardinality(known), record.online + more) \in Nat
  <2> HIDE DEF known, more
  <2> QED BY <1>2, <1>3 DEF Larger
<1> QED BY <1>1, <1>4 DEF Joined, Record

LEMMA LeftType == \A record \in Record, p \in Players : Left(record, p) \in Record
<1> SUFFICES ASSUME NEW record \in Record, NEW p \in Players
             PROVE Left(record, p) \in Record
    OBVIOUS
<1> DEFINE known == record.known \ {p}
           less  == IF p \in record.known \/ record.online > 0 THEN 1 ELSE 0
<1>1. known \in SUBSET Players BY DEF Record
<1>2. Cardinality(known) \in Nat BY <1>1, Counted
<1>3. record.online - less \in Int BY DEF Record
<1>4. Larger(Cardinality(known), record.online - less) \in Nat
  <2> HIDE DEF known, less
  <2> QED BY <1>2, <1>3 DEF Larger
<1> QED BY <1>1, <1>4 DEF Left, Record

LEMMA SaveType ==
  ASSUME NEW record \in Record, NEW written, file \in Record, Save(record, written)
  PROVE  runtime' \in Record /\ mirror' \in Record /\ file' \in Record
BY DEF Save

LEMMA PersistType ==
  ASSUME NEW record \in Record, file \in Record, throttled \in BOOLEAN, PersistPlayers(record)
  PROVE  /\ runtime' \in Record /\ mirror' \in Record /\ file' \in Record
         /\ throttled' \in BOOLEAN
BY SaveType DEF PersistPlayers, SaveIfPossible

LEMMA TypeStep == TypeOK /\ [Next]_vars => TypeOK'
<1> SUFFICES ASSUME TypeOK, [Next]_vars PROVE TypeOK' OBVIOUS
<1>0. world' \in Worlds BY WorldFixed DEF TypeOK
<1> USE <1>0 DEF TypeOK
<1>1. ASSUME NEW b \in Backups, BackupEnters(b) PROVE TypeOK'
  BY <1>1 DEF BackupEnters
<1>2. ASSUME NEW b \in Backups, RecordStarted(b) PROVE TypeOK'
  <2>1. [mirror EXCEPT !.status = "running"] \in Record BY DEF Record, Statuses
  <2>2. runtime' \in Record /\ mirror' \in Record /\ file' \in Record
    BY <1>2, <2>1, SaveType DEF RecordStarted
  <2> QED BY <1>2, <2>2 DEF RecordStarted
<1>3. ASSUME NEW b \in Backups, RecordFinished(b) PROVE TypeOK'
  <2>1. \A status \in Final : [mirror EXCEPT !.status = status] \in Record
    BY DEF Record, Statuses
  <2>2. runtime' \in Record /\ mirror' \in Record /\ file' \in Record
    BY <1>3, <2>1, SaveType DEF RecordFinished, SaveIfPossible
  <2> QED BY <1>3, <2>2 DEF RecordFinished
<1>4. ASSUME NEW b \in Backups, BackupLeaves(b) PROVE TypeOK'
  BY <1>4 DEF BackupLeaves
<1>5. ASSUME NEW s \in Samplers, Sample(s) PROVE TypeOK'
  BY <1>5 DEF Sample
<1>6. ASSUME NEW s \in Samplers, RecordSample(s) PROVE TypeOK'
  <2>1. samples[s] \in SUBSET Players BY <1>6 DEF RecordSample
  <2>2. Cardinality(samples[s]) \in Nat BY <2>1, Counted
  <2>3. [runtime EXCEPT !.known = samples[s], !.online = Cardinality(samples[s])] \in Record
    BY <2>1, <2>2 DEF Record
  <2> QED BY <1>6, <2>3, PersistType DEF RecordSample
<1>7. CASE PlayerEvent
  <2>1. Head(events) \in Events /\ Tail(events) \in Seq(Events) BY <1>7 DEF PlayerEvent
  <2>2. Head(events)[2] \in Players BY <1>7, <2>1 DEF PlayerEvent, Events
  <2>3. Joined(runtime, Head(events)[2]) \in Record /\ Left(runtime, Head(events)[2]) \in Record
    BY <2>2, JoinedType, LeftType
  <2>4. \E record \in Record : PersistPlayers(record) BY <1>7, <2>3 DEF PlayerEvent
  <2>5. visited' \in {"no", "loose", "kept"} BY <1>7 DEF PlayerEvent, Noted
  <2> QED BY <1>7, <2>1, <2>4, <2>5, PersistType DEF PlayerEvent
<1>8. CASE ServerStopped
  <2>1. [runtime EXCEPT !.known = {}, !.online = 0] \in Record BY DEF Record
  <2>2. runtime' \in Record /\ mirror' \in Record /\ file' \in Record
    BY <1>8, <2>1, SaveType DEF ServerStopped, SaveIfPossible
  <2>3. Tail(events) \in Seq(Events) BY <1>8 DEF ServerStopped
  <2>4. visited' \in {"no", "loose", "kept"} BY <1>8 DEF ServerStopped, Noted
  <2> QED BY <1>8, <2>2, <2>3, <2>4 DEF ServerStopped
<1>9. CASE CheckActivity
  <2>1. [runtime EXCEPT !.joined = FALSE, !.left = FALSE] \in Record BY DEF Record
  <2>2. runtime' \in Record /\ mirror' \in Record /\ file' \in Record
    BY <1>9, <2>1, SaveType DEF CheckActivity
  <2>3. visited' \in {"no", "loose", "kept"} BY <1>9 DEF CheckActivity
  <2> QED BY <1>9, <2>2, <2>3 DEF CheckActivity
<1>10. CASE TriggerEnds \/ ThirtySecondsPass \/ LoadRead
  <2>1. CASE TriggerEnds BY <2>1 DEF TriggerEnds
  <2>2. CASE ThirtySecondsPass BY <2>2 DEF ThirtySecondsPass
  <2>3. CASE LoadRead
    <3>1. loading' \in [state: Record, enabled: BOOLEAN] BY <2>3 DEF LoadRead, Switch
    <3> QED BY <2>3, <3>1 DEF LoadRead
  <2> QED BY <1>10, <2>1, <2>2, <2>3
<1>11. CASE LoadInstall
  <2>1. loading.state \in Record /\ loading.enabled \in BOOLEAN BY <1>11 DEF LoadInstall
  <2>2. ResetStale(loading.state) \in Record BY <2>1 DEF ResetStale, Record, Statuses
  <2>3. runtime' \in Record /\ mirror' \in Record /\ file' \in Record
    BY <1>11, <2>2, SaveType DEF LoadInstall, SaveIfPossible
  <2> QED BY <1>11, <2>1, <2>3 DEF LoadInstall, Switch
<1>12. CASE SetEnabled
  <2>1. runtime' \in Record /\ mirror' \in Record /\ file' \in Record
    BY <1>12, SaveType DEF SetEnabled, SaveIfPossible
  <2>2. enabled' \in Switch
    BY <1>12, RuntimeAssumption DEF SetEnabled, Written, Switch
  <2> QED BY <1>12, <2>1, <2>2 DEF SetEnabled
<1>13. CASE Restart
  <2>1. (IF file.status = "running" THEN [file EXCEPT !.status = "interrupted"] ELSE file) \in Record
    BY DEF Record, Statuses
  <2>2. runtime' \in Record /\ mirror' \in Record /\ file' \in Record
    BY <1>13, <2>1, SaveType DEF Restart
  <2>3. events' \in Seq(Events) BY <1>13 DEF Restart
  <2>4. visited' \in {"no", "loose", "kept"} BY <1>13 DEF Restart, Noted
  <2> QED BY <1>13, <2>2, <2>3, <2>4 DEF Restart, Switch
<1>14. CASE GameStep
  <2>1. ASSUME NEW p \in Players, PlayerJoins(p) PROVE TypeOK'
    BY <2>1 DEF PlayerJoins, Queue, Events
  <2>2. ASSUME NEW p \in Players, PlayerLeaves(p) PROVE TypeOK'
    BY <2>2 DEF PlayerLeaves, Queue, Events
  <2>3. CASE ServerEnds
    <3>1. <<"stopped", inGame>> \in Events BY DEF Events
    <3>2. events' \in Seq(Events) BY <2>3, <3>1 DEF ServerEnds, Queue
    <3> QED BY <2>3, <3>2 DEF ServerEnds
  <2>4. CASE ServerStarts BY <2>4 DEF ServerStarts
  <2> QED BY <1>14, <2>1, <2>2, <2>3, <2>4 DEF GameStep
<1>15. CASE UNCHANGED vars BY <1>15
<1> QED BY <1>1, <1>2, <1>3, <1>4, <1>5, <1>6, <1>7, <1>8, <1>9, <1>10, <1>11, <1>12,
           <1>13, <1>14, <1>15 DEF Next, BackupStep

LEMMA TypeInit == Init => TypeOK
<1> SUFFICES ASSUME Init PROVE TypeOK OBVIOUS
<1>1. runtime \in Record /\ mirror \in Record /\ file \in Record
  BY DEF Init, Fresh, Record, Statuses
<1>2. enabled \in Switch BY DEF Init, Switch
<1>3. events \in Seq(Events) BY DEF Init
<1> QED BY <1>1, <1>2, <1>3 DEF Init, TypeOK

(* Every variable keeps its type: the count of online players never falls below *)
(* zero and an installed configuration is complete, whatever is lost on the way. *)
THEOREM RuntimeTypes == Spec => []TypeOK
BY TypeInit, TypeStep, PTL DEF Spec
-----------------------------------------------------------------------------
(* What the status rests on: one thread holds the slot, running is shown exactly *)
(* between the two records of that thread, and the file says what memory says.   *)
StatusInv ==
  /\ TypeOK /\ MirrorCurrent /\ loading = NoRecord
  /\ file.status = runtime.status
  /\ \A b \in Backups : worker[b] # "out" <=> owner = b
  /\ runtime.status = "running" <=> \E b \in Backups : worker[b] = "running"

(* A run in which every write of state.yml succeeds and nobody reloads. *)
WritesLast == "writeFails" \notin world /\ "reload" \notin world

LEMMA StatusUntouched ==
  ASSUME StatusInv, TypeOK', MirrorCurrent', runtime'.status = runtime.status,
         file'.status = file.status, UNCHANGED <<worker, owner, loading>>
  PROVE  StatusInv'
BY DEF StatusInv

LEMMA PersistedStatus ==
  ASSUME NEW record \in Record, StatusInv, PersistPlayers(record), record.status = runtime.status
  PROVE  runtime'.status = runtime.status /\ file'.status = file.status
BY DEF PersistPlayers, SaveIfPossible, Save, StatusInv

LEMMA StatusStep ==
  ASSUME WritesLast, StatusInv, [Next]_vars
  PROVE  StatusInv'
<1>1. TypeOK' /\ MirrorCurrent' BY TypeStep, MirrorStep DEF StatusInv
<1>2. Written = {TRUE} BY DEF WritesLast, Written
<1>3. ASSUME NEW b \in Backups, BackupEnters(b) PROVE StatusInv'
  BY <1>1, <1>3, RuntimeAssumption DEF BackupEnters, StatusInv, TypeOK
<1>4. ASSUME NEW b \in Backups, RecordStarted(b) PROVE StatusInv'
  <2>1. runtime' = [mirror EXCEPT !.status = "running"] /\ file' = runtime'
    BY <1>2, <1>4 DEF RecordStarted, Save
  <2>2. runtime'.status = "running" BY <2>1 DEF StatusInv, TypeOK, Record
  <2>3. worker' = [worker EXCEPT ![b] = "running"] BY <1>2, <1>4 DEF RecordStarted
  <2> QED BY <1>1, <1>4, <2>1, <2>2, <2>3 DEF RecordStarted, StatusInv, TypeOK
<1>5. ASSUME NEW b \in Backups, RecordFinished(b) PROVE StatusInv'
  <2>1. PICK status \in Final : runtime' = [mirror EXCEPT !.status = status] /\ file' = runtime'
    BY <1>2, <1>5 DEF RecordFinished, SaveIfPossible, Save
  <2>2. runtime'.status # "running" BY <2>1 DEF StatusInv, TypeOK, Record, Final
  <2>3. \A c \in Backups : worker[c] # "out" => c = b
    BY <1>5 DEF RecordFinished, StatusInv
  <2>4. \A c \in Backups : worker'[c] # "running"
    BY <1>5, <2>3 DEF RecordFinished, StatusInv, TypeOK
  <2>5. \A c \in Backups : worker'[c] # "out" <=> owner' = c
    BY <1>5 DEF RecordFinished, StatusInv, TypeOK
  <2> QED BY <1>1, <1>5, <2>1, <2>2, <2>4, <2>5 DEF RecordFinished, StatusInv
<1>6. ASSUME NEW b \in Backups, BackupLeaves(b) PROVE StatusInv'
  <2>1. owner = b /\ \A c \in Backups : worker[c] # "out" => c = b
    BY <1>6 DEF BackupLeaves, StatusInv
  <2>2. \A c \in Backups : worker'[c] = "out" BY <1>6, <2>1 DEF BackupLeaves, StatusInv, TypeOK
  <2>3. runtime.status # "running" BY <1>6, <2>1 DEF BackupLeaves, StatusInv
  <2> QED BY <1>1, <1>6, <2>2, <2>3, RuntimeAssumption DEF BackupLeaves, StatusInv
<1>7. ASSUME NEW s \in Samplers, Sample(s) PROVE StatusInv'
  BY <1>1, <1>7, StatusUntouched DEF Sample
<1>8. ASSUME NEW s \in Samplers, RecordSample(s) PROVE StatusInv'
  <2> DEFINE record == [runtime EXCEPT !.known = samples[s], !.online = Cardinality(samples[s])]
  <2>1. samples[s] \in SUBSET Players BY <1>8 DEF RecordSample, StatusInv, TypeOK
  <2>2. record \in Record /\ record.status = runtime.status
    BY <2>1, Counted DEF StatusInv, TypeOK, Record
  <2>3. PersistPlayers(record) BY <1>8 DEF RecordSample
  <2> HIDE DEF record
  <2> QED BY <1>1, <1>8, <2>2, <2>3, PersistedStatus, StatusUntouched DEF RecordSample
<1>9. CASE PlayerEvent
  <2> DEFINE p == Head(events)[2]
             record == IF Head(events)[1] = "joined" THEN Joined(runtime, p) ELSE Left(runtime, p)
  <2>1. Head(events) \in Events BY <1>9 DEF PlayerEvent, StatusInv, TypeOK
  <2>2. p \in Players BY <1>9, <2>1 DEF PlayerEvent, Events
  <2>3. record \in Record BY <2>2, JoinedType, LeftType DEF StatusInv, TypeOK
  <2>4. record.status = runtime.status BY DEF Joined, Left, StatusInv, TypeOK, Record
  <2>5. PersistPlayers(record) BY <1>9 DEF PlayerEvent
  <2> HIDE DEF record
  <2> QED BY <1>1, <1>9, <2>3, <2>4, <2>5, PersistedStatus, StatusUntouched DEF PlayerEvent
<1>10. CASE ServerStopped
  <2>1. runtime' = [runtime EXCEPT !.known = {}, !.online = 0] /\ file' = runtime'
    BY <1>2, <1>10 DEF ServerStopped, SaveIfPossible, Save
  <2>2. runtime'.status = runtime.status /\ file'.status = file.status
    BY <2>1 DEF StatusInv, TypeOK, Record
  <2> QED BY <1>1, <1>10, <2>2, StatusUntouched DEF ServerStopped
<1>11. CASE CheckActivity
  <2>1. runtime' = [runtime EXCEPT !.joined = FALSE, !.left = FALSE] /\ file' = runtime'
    BY <1>2, <1>11 DEF CheckActivity, Save
  <2>2. runtime'.status = runtime.status /\ file'.status = file.status
    BY <2>1 DEF StatusInv, TypeOK, Record
  <2> QED BY <1>1, <1>11, <2>2, StatusUntouched DEF CheckActivity
<1>12. CASE TriggerEnds \/ ThirtySecondsPass
  BY <1>1, <1>12, StatusUntouched DEF TriggerEnds, ThirtySecondsPass
<1>13. CASE LoadRead \/ LoadInstall
  BY <1>13 DEF LoadRead, LoadInstall, StatusInv, WritesLast
<1>14. CASE SetEnabled
  <2>1. runtime' = runtime /\ file'.status = file.status
    BY <1>2, <1>14 DEF SetEnabled, SaveIfPossible, Save, StatusInv
  <2> QED BY <1>1, <1>14, <2>1, StatusUntouched DEF SetEnabled
<1>15. CASE Restart
  <2>1. runtime' = IF file.status = "running" THEN [file EXCEPT !.status = "interrupted"] ELSE file
    BY <1>15 DEF Restart, Save
  <2>2. runtime'.status # "running" BY <2>1 DEF StatusInv, TypeOK, Record
  <2>3. file' = runtime' BY <1>15 DEF Restart, Save
  <2>4. \A b \in Backups : worker'[b] = "out" /\ owner' # b
    BY <1>15, RuntimeAssumption DEF Restart
  <2> QED BY <1>1, <1>15, <2>2, <2>3, <2>4 DEF Restart, StatusInv
<1>16. CASE GameStep
  BY <1>1, <1>16, StatusUntouched DEF GameStep, PlayerJoins, PlayerLeaves, ServerEnds, ServerStarts
<1>17. CASE UNCHANGED vars BY <1>1, <1>17, StatusUntouched
<1> QED BY <1>3, <1>4, <1>5, <1>6, <1>7, <1>8, <1>9, <1>10, <1>11, <1>12, <1>13, <1>14,
           <1>15, <1>16, <1>17 DEF Next, BackupStep

LEMMA StatusInit == Init => StatusInv
<1> SUFFICES ASSUME Init PROVE StatusInv OBVIOUS
<1>1. TypeOK BY TypeInit
<1> QED BY <1>1, RuntimeAssumption DEF Init, StatusInv, MirrorCurrent, Fresh

LEMMA StatusAlways == Spec => [](WritesLast => StatusInv)
<1>1. Init => (WritesLast => StatusInv) BY StatusInit
<1>2. (WritesLast => StatusInv) /\ [Next]_vars => (WritesLast => StatusInv)'
  BY StatusStep, WorldFixed DEF WritesLast
<1> QED BY <1>1, <1>2, PTL DEF Spec

(* With writes that succeed and no reload, across kills of the process and crashes *)
(* of the server, running is shown while a backup runs and only while one holds    *)
(* the slot.                                                                       *)
THEOREM StatusProved == Spec => []StatusTruthful
<1>1. (WritesLast => StatusInv) => StatusTruthful
  BY RuntimeAssumption DEF StatusInv, StatusTruthful, RunningIsReal, WritesLast, Undisturbed
<1> QED BY <1>1, StatusAlways, PTL

LEMMA OutcomeStep ==
  ASSUME WritesLast, StatusInv, [Next]_vars, runtime.status \in Final,
         runtime'.status # runtime.status
  PROVE  \E b \in Backups : worker[b] = "entered"
<1> SUFFICES ASSUME \A b \in Backups : worker[b] # "entered" PROVE FALSE OBVIOUS
<1>1. Written = {TRUE} BY DEF WritesLast, Written
<1>2. \A b \in Backups : worker[b] # "running" BY DEF StatusInv, Final
<1>3. \A record \in Record : PersistPlayers(record) /\ record.status = runtime.status
                               => runtime'.status = runtime.status
  BY PersistedStatus
<1>4. ASSUME NEW b \in Backups, BackupStep(b) PROVE FALSE
  BY <1>2, <1>4 DEF BackupStep, BackupEnters, RecordStarted, RecordFinished, BackupLeaves
<1>5. ASSUME NEW s \in Samplers, Sample(s) \/ RecordSample(s) PROVE FALSE
  <2>1. CASE Sample(s) BY <2>1 DEF Sample
  <2>2. CASE RecordSample(s)
    <3>1. runtime' = [runtime EXCEPT !.known = samples[s], !.online = Cardinality(samples[s])]
      BY <2>2 DEF RecordSample, PersistPlayers, SaveIfPossible, Save
    <3> QED BY <3>1 DEF StatusInv, TypeOK, Record
  <2> QED BY <1>5, <2>1, <2>2
<1>6. CASE PlayerEvent
  <2>1. \E p : runtime' = Joined(runtime, p) \/ runtime' = Left(runtime, p)
    BY <1>6 DEF PlayerEvent, PersistPlayers, SaveIfPossible, Save
  <2> QED BY <2>1 DEF Joined, Left, StatusInv, TypeOK, Record
<1>7. CASE ServerStopped
  <2>1. runtime' = [runtime EXCEPT !.known = {}, !.online = 0]
    BY <1>7 DEF ServerStopped, SaveIfPossible, Save
  <2> QED BY <2>1 DEF StatusInv, TypeOK, Record
<1>8. CASE CheckActivity
  <2>1. runtime' = [runtime EXCEPT !.joined = FALSE, !.left = FALSE]
    BY <1>8 DEF CheckActivity, Save
  <2> QED BY <2>1 DEF StatusInv, TypeOK, Record
<1>9. CASE TriggerEnds \/ ThirtySecondsPass \/ LoadRead \/ GameStep
  BY <1>9 DEF TriggerEnds, ThirtySecondsPass, LoadRead, GameStep, PlayerJoins, PlayerLeaves,
              ServerEnds, ServerStarts
<1>10. CASE LoadInstall BY <1>10 DEF LoadInstall, StatusInv
<1>11. CASE SetEnabled BY <1>11 DEF SetEnabled, SaveIfPossible, Save
<1>12. CASE Restart
  <2>1. file.status # "running" BY DEF StatusInv, Final
  <2> QED BY <1>12, <2>1 DEF Restart, Save, StatusInv
<1>13. CASE UNCHANGED vars BY <1>13
<1> QED BY <1>4, <1>5, <1>6, <1>7, <1>8, <1>9, <1>10, <1>11, <1>12, <1>13 DEF Next

(* Under the same condition the outcome of a run stays recorded until the next  *)
(* one begins, also through a restart of the process in between.                *)
THEOREM OutcomesLast == Spec => OutcomeKept
<1>1. (WritesLast => StatusInv) /\ [Next]_vars
        => [Undisturbed({"reload", "writeFails"}) /\ OutcomeLost
              => \E b \in Backups : worker[b] = "entered"]_vars
  BY OutcomeStep DEF WritesLast, Undisturbed, OutcomeLost
<1> QED BY <1>1, StatusAlways, PTL DEF Spec, OutcomeKept
-----------------------------------------------------------------------------
(* No stop in the queue took players along. *)
CalmEvent(event) == event[1] = "stopped" => event[2] = {}
Calm(queue) == \A i \in 1 .. Len(queue) : CalmEvent(queue[i])

LEMMA CalmTail ==
  ASSUME NEW queue \in Seq(Events), queue # <<>>, Calm(queue)
  PROVE  Calm(Tail(queue)) /\ CalmEvent(Head(queue))
BY DEF Calm

LEMMA CalmAppend ==
  ASSUME NEW queue \in Seq(Events), NEW event \in Events, Calm(queue), CalmEvent(event)
  PROVE  Calm(Append(queue, event))
<1> SUFFICES ASSUME NEW i \in 1 .. Len(Append(queue, event))
             PROVE  CalmEvent(Append(queue, event)[i])
    BY DEF Calm
<1>1. CASE i = Len(queue) + 1 BY <1>1
<1>2. CASE i # Len(queue) + 1
  <2>1. i \in 1 .. Len(queue) BY <1>2
  <2>2. Append(queue, event)[i] = queue[i] BY <2>1
  <2> QED BY <2>1, <2>2 DEF Calm
<1> QED BY <1>1, <1>2

(* What the verdict of the scheduler rests on.  A visit whose event was written  *)
(* has left a flag in the file and in memory; any other has left one in memory,  *)
(* unless a kill or a crash may have come in between.  Without a crash no stop   *)
(* takes players along.                                                          *)
Flagged(record) == record.joined \/ record.left
VisitInv ==
  /\ TypeOK /\ MirrorCurrent /\ loading = NoRecord
  /\ "crash" \notin world => Calm(events)
  /\ visited = "kept" => Flagged(runtime) /\ Flagged(file)
  /\ visited = "loose" => Flagged(runtime) \/ ~Undisturbed({"kill", "crash"})

(* A run in which writes succeed and nobody reloads. *)
FlagsLast == Undisturbed({"reload", "writeFails"})

(* A record that leaves the flags and the history alone may be written or not. *)
LEMMA FlagsUntouched ==
  ASSUME VisitInv, TypeOK', MirrorCurrent', world' = world,
         UNCHANGED <<visited, loading>>, events' = events \/ ("crash" \notin world => Calm(events')),
         Flagged(runtime') <=> Flagged(runtime),
         file' = file \/ file' = runtime'
  PROVE  VisitInv'
BY DEF VisitInv, Undisturbed

(* What is saved goes to the file as it is, or not at all. *)
LEMMA SavedAsItIs ==
  ASSUME NEW record, PersistPlayers(record) \/ SaveIfPossible(record)
  PROVE  runtime' = record /\ (file' = file \/ file' = runtime')
BY DEF PersistPlayers, SaveIfPossible, Save

LEMMA VisitStep ==
  ASSUME FlagsLast, VisitInv, [Next]_vars
  PROVE  VisitInv'
<1>1. TypeOK' /\ MirrorCurrent' /\ world' = world
  BY TypeStep, MirrorStep, WorldFixed DEF VisitInv
<1>2. Written = {TRUE} BY DEF FlagsLast, Undisturbed, Written
<1>3. ASSUME UNCHANGED <<dataVars, events, visited, loading>> PROVE VisitInv'
  BY <1>1, <1>3, FlagsUntouched
<1>4. ASSUME NEW b \in Backups, BackupStep(b) PROVE VisitInv'
  <2>1. CASE BackupEnters(b) \/ BackupLeaves(b) BY <1>3, <2>1 DEF BackupEnters, BackupLeaves
  <2>2. CASE RecordStarted(b) \/ RecordFinished(b)
    <3>1. /\ UNCHANGED <<events, visited, loading>>
          /\ file' = file \/ file' = runtime'
          /\ \E status : runtime' = [mirror EXCEPT !.status = status]
      BY <2>2 DEF RecordStarted, RecordFinished, SaveIfPossible, Save
    <3>2. Flagged(runtime') <=> Flagged(runtime)
      BY <3>1 DEF Flagged, VisitInv, MirrorCurrent, TypeOK, Record
    <3> QED BY <1>1, <3>1, <3>2, FlagsUntouched
  <2> QED BY <1>4, <2>1, <2>2 DEF BackupStep
<1>5. ASSUME NEW s \in Samplers, Sample(s) PROVE VisitInv'
  BY <1>3, <1>5 DEF Sample
<1>6. ASSUME NEW s \in Samplers, RecordSample(s) PROVE VisitInv'
  <2>1. /\ runtime' = [runtime EXCEPT !.known = samples[s], !.online = Cardinality(samples[s])]
        /\ file' = file \/ file' = runtime'
    BY <1>6, SavedAsItIs DEF RecordSample
  <2>2. Flagged(runtime') <=> Flagged(runtime) BY <2>1 DEF Flagged, VisitInv, TypeOK, Record
  <2> QED BY <1>1, <1>6, <2>1, <2>2, FlagsUntouched DEF RecordSample
<1>7. CASE PlayerEvent
  <2>1. \E p : runtime' = Joined(runtime, p) \/ runtime' = Left(runtime, p)
    BY <1>7, SavedAsItIs DEF PlayerEvent
  <2>2. Flagged(runtime') BY <2>1 DEF Joined, Left, VisitInv, TypeOK, Record, Flagged
  <2>3. file' = file \/ file' = runtime' BY <1>7, SavedAsItIs DEF PlayerEvent
  <2>4. visited' = "kept" => Flagged(file')
    BY <1>7, <2>2, <2>3 DEF PlayerEvent, Noted, VisitInv
  <2>5. "crash" \notin world => Calm(events')
    BY <1>7, CalmTail DEF PlayerEvent, VisitInv, TypeOK
  <2> QED BY <1>1, <1>7, <2>2, <2>4, <2>5 DEF PlayerEvent, VisitInv
<1>8. CASE ServerStopped
  <2>1. /\ runtime' = [runtime EXCEPT !.known = {}, !.online = 0]
        /\ file' = file \/ file' = runtime'
    BY <1>8, SavedAsItIs DEF ServerStopped
  <2>2. Flagged(runtime') <=> Flagged(runtime) BY <2>1 DEF Flagged, VisitInv, TypeOK, Record
  <2>3. "crash" \notin world => Calm(events') /\ Head(events)[2] = {}
    BY <1>8, CalmTail DEF ServerStopped, VisitInv, TypeOK, CalmEvent
  <2>4. CASE visited' = visited
    BY <1>1, <1>8, <2>1, <2>2, <2>3, <2>4, FlagsUntouched DEF ServerStopped
  <2>5. CASE visited' # visited
    <3>1. visited' = "loose" /\ Head(events)[2] # {}
      BY <1>8, <2>5 DEF ServerStopped, Noted
    <3>2. ~Undisturbed({"kill", "crash"})' BY <1>1, <2>3, <3>1 DEF Undisturbed
    <3> QED BY <1>1, <1>8, <2>3, <3>1, <3>2 DEF ServerStopped, VisitInv
  <2> QED BY <2>4, <2>5
<1>9. CASE CheckActivity
  <2>1. visited' = "no" BY <1>2, <1>9 DEF CheckActivity
  <2> QED BY <1>1, <1>9, <2>1 DEF CheckActivity, VisitInv
<1>10. CASE TriggerEnds \/ ThirtySecondsPass
  BY <1>3, <1>10 DEF TriggerEnds, ThirtySecondsPass
<1>11. CASE LoadRead \/ LoadInstall
  BY <1>11 DEF LoadRead, LoadInstall, VisitInv, FlagsLast, Undisturbed
<1>12. CASE SetEnabled
  <2>1. runtime' = runtime /\ (file' = file \/ file' = runtime')
    BY <1>12 DEF SetEnabled, SaveIfPossible, Save
  <2> QED BY <1>1, <1>12, <2>1, FlagsUntouched DEF SetEnabled
\* What the file has survives, the rest is loose in a world of kills.
<1>13. CASE Restart
  <2>1. /\ loading' = NoRecord /\ events' = <<>> /\ ~Undisturbed({"kill", "crash"})'
        /\ Flagged(runtime') <=> Flagged(file)
        /\ file' = runtime'
    BY <1>1, <1>13 DEF Restart, Save, Flagged, VisitInv, TypeOK, Record, Undisturbed
  <2>2. visited' = "kept" => visited = "kept" BY <1>13 DEF Restart, Noted
  <2>3. Calm(events') BY <2>1 DEF Calm
  <2> QED BY <1>1, <2>1, <2>2, <2>3 DEF VisitInv
<1>14. CASE GameStep
  <2>1. UNCHANGED <<dataVars, visited, loading>>
    BY <1>14 DEF GameStep, PlayerJoins, PlayerLeaves, ServerEnds, ServerStarts
  <2>2. \/ UNCHANGED events
        \/ \E event \in Events : /\ events' = Append(events, event)
                                 /\ "crash" \notin world => CalmEvent(event)
    <3>1. ASSUME NEW p \in Players, PlayerJoins(p) \/ PlayerLeaves(p) PROVE <2>2
      <4>1. <<"joined", p>> \in Events /\ <<"left", p>> \in Events BY DEF Events
      <4> QED BY <3>1, <4>1 DEF PlayerJoins, PlayerLeaves, Queue, CalmEvent
    <3>2. CASE ServerEnds
      <4>1. <<"stopped", inGame>> \in Events BY DEF Events, VisitInv, TypeOK
      <4> QED BY <3>2, <4>1 DEF ServerEnds, Queue, CalmEvent
    <3>3. CASE ServerStarts BY <3>3 DEF ServerStarts
    <3> QED BY <1>14, <3>1, <3>2, <3>3 DEF GameStep
  <2>3. "crash" \notin world => Calm(events') BY <2>2, CalmAppend DEF VisitInv, TypeOK
  <2> QED BY <1>1, <2>1, <2>3, FlagsUntouched
<1>15. CASE UNCHANGED vars BY <1>3, <1>15
<1> QED BY <1>4, <1>5, <1>6, <1>7, <1>8, <1>9, <1>10, <1>11, <1>12, <1>13, <1>14, <1>15 DEF Next

(* As long as writes succeed and nobody reloads, a period in which a player     *)
(* joined or left is judged idle only if MCDR may be killed or the server may    *)
(* crash, and then only if no event of the visit had reached state.yml: stale    *)
(* samples, throttled writes and backups that record their status in between     *)
(* lose nothing.                                                                 *)
THEOREM VisitsAreSeen == Spec => VisitSeen
<1>1. Init => (FlagsLast => VisitInv)
  BY TypeInit DEF Init, VisitInv, MirrorCurrent, Calm
<1>2. (FlagsLast => VisitInv) /\ [Next]_vars => (FlagsLast => VisitInv)'
  BY VisitStep, WorldFixed DEF FlagsLast, Undisturbed
<1>3. (FlagsLast => VisitInv) /\ [Next]_vars
        => [Undisturbed({"reload", "writeFails"}) /\ Idle
              => visited = "no" \/ (visited = "loose" /\ ~Undisturbed({"kill", "crash"}))]_vars
  <2> SUFFICES ASSUME FlagsLast => VisitInv, Next, FlagsLast, checked = "none", checked' = "skip"
               PROVE  visited = "no" \/ (visited = "loose" /\ ~Undisturbed({"kill", "crash"}))
      BY DEF FlagsLast, Idle
  <2>1. CheckActivity
    BY DEF Next, BackupStep, BackupEnters, RecordStarted, RecordFinished, BackupLeaves, Sample,
           RecordSample, PlayerEvent, ServerStopped, TriggerEnds, ThirtySecondsPass, LoadRead,
           LoadInstall, SetEnabled, Restart, GameStep, PlayerJoins, PlayerLeaves, ServerEnds,
           ServerStarts
  <2>2. ~Flagged(runtime) BY <2>1 DEF CheckActivity, Active, Flagged
  <2> QED BY <2>2 DEF VisitInv, TypeOK
<1> QED BY <1>1, <1>2, <1>3, PTL DEF Spec, VisitSeen
-----------------------------------------------------------------------------
(* The switch that a load has read is the one in config.yml until it is         *)
(* installed: the executor runs no command in between.                          *)
SwitchInv ==
  /\ TypeOK
  /\ IF loading = NoRecord THEN enabled.memory = enabled.file ELSE loading.enabled = enabled.file

(* A run in which every write succeeds and the executor is never rebuilt. *)
SwitchLasts == "writeFails" \notin world /\ "rebuiltExecutor" \notin world

LEMMA SwitchStep ==
  ASSUME SwitchLasts, SwitchInv, [Next]_vars
  PROVE  SwitchInv'
<1>1. TypeOK' BY TypeStep DEF SwitchInv
<1>2. ASSUME UNCHANGED <<enabled, loading>> PROVE SwitchInv'
  BY <1>1, <1>2 DEF SwitchInv
<1>3. CASE LoadRead BY <1>1, <1>3 DEF LoadRead, SwitchInv
<1>4. CASE LoadInstall
  <2>1. enabled'.memory = loading.enabled /\ enabled'.file = enabled.file
    BY <1>4 DEF LoadInstall, SwitchInv, TypeOK, Switch
  <2> QED BY <1>1, <1>4, <2>1 DEF LoadInstall, SwitchInv
<1>5. CASE SetEnabled
  BY <1>1, <1>5 DEF SetEnabled, ExecutorFree, Written, SwitchLasts, SwitchInv
<1>6. CASE Restart
  <2>1. enabled'.memory = enabled.file /\ enabled'.file = enabled.file
    BY <1>6 DEF Restart, SwitchInv, TypeOK, Switch
  <2> QED BY <1>1, <1>6, <2>1 DEF Restart, SwitchInv
<1>7. CASE \/ \E b \in Backups : BackupStep(b)
           \/ \E s \in Samplers : Sample(s) \/ RecordSample(s)
  BY <1>2, <1>7 DEF BackupStep, BackupEnters, RecordStarted, RecordFinished, BackupLeaves,
                    Sample, RecordSample
<1>8. CASE \/ PlayerEvent \/ ServerStopped \/ CheckActivity \/ TriggerEnds \/ ThirtySecondsPass
           \/ GameStep \/ UNCHANGED vars
  BY <1>2, <1>8 DEF PlayerEvent, ServerStopped, CheckActivity, TriggerEnds, ThirtySecondsPass,
                    GameStep, PlayerJoins, PlayerLeaves, ServerEnds, ServerStarts
<1> QED BY <1>3, <1>4, <1>5, <1>6, <1>7, <1>8 DEF Next

(* With writes that succeed and MCDR's own executor, no interleaving of reloads,  *)
(* restarts and commands leaves the switch in memory other than the one on disk. *)
THEOREM SwitchStays == Spec => []SwitchAgrees
<1>1. Init => (SwitchLasts => SwitchInv)
  BY TypeInit DEF Init, SwitchInv
<1>2. (SwitchLasts => SwitchInv) /\ [Next]_vars => (SwitchLasts => SwitchInv)'
  BY SwitchStep, WorldFixed DEF SwitchLasts
<1>3. (SwitchLasts => SwitchInv) => SwitchAgrees
  BY DEF SwitchLasts, SwitchInv, SwitchAgrees, Undisturbed
<1> QED BY <1>1, <1>2, <1>3, PTL DEF Spec
-----------------------------------------------------------------------------
(* Whether p is inside once the queue has been handled: its last event about p  *)
(* decides, and the record where there is none.                                  *)
About(event, p) == event[1] = "stopped" \/ event[2] = p
Predicts(queue, known, p, inside) ==
  \/ /\ \A i \in 1 .. Len(queue) : ~About(queue[i], p)
     /\ p \in inside <=> p \in known
  \/ \E i \in 1 .. Len(queue) :
       /\ About(queue[i], p) /\ \A j \in i + 1 .. Len(queue) : ~About(queue[j], p)
       /\ p \in inside <=> queue[i][1] = "joined"

(* The count is that of the known names, and these and the waiting events        *)
(* together predict who is in the game.                                          *)
CountInv ==
  /\ TypeOK /\ MirrorCurrent /\ loading = NoRecord /\ \A s \in Samplers : samples[s] = NoRecord
  /\ runtime.online = Cardinality(runtime.known)
  /\ \A p \in Players : Predicts(events, runtime.known, p, inGame)

(* A run without reload, restart and samples. *)
OnlyEvents == world \cap {"reload", "kill", "rcon"} = {}
LEMMA PredictsTail ==
  ASSUME NEW queue \in Seq(Events), queue # <<>>, NEW p, NEW inside, NEW known, NEW now,
         Predicts(queue, known, p, inside),
         About(Head(queue), p) => (p \in now <=> Head(queue)[1] = "joined"),
         ~About(Head(queue), p) => (p \in now <=> p \in known)
  PROVE  Predicts(Tail(queue), now, p, inside)
<1> DEFINE rest == Tail(queue)
<1>1. /\ Len(queue) \in Nat \ {0} /\ Len(rest) = Len(queue) - 1 /\ queue[1] = Head(queue)
      /\ \A i \in 1 .. Len(rest) : rest[i] = queue[i + 1]
  OBVIOUS
<1> HIDE DEF rest
<1>2. CASE \A i \in 2 .. Len(queue) : ~About(queue[i], p)
  <2>1. \A i \in 1 .. Len(rest) : ~About(rest[i], p)
    BY <1>1, <1>2
  <2>2. p \in inside <=> p \in now
    <3>1. CASE About(queue[1], p)
      <4>1. PICK i \in 1 .. Len(queue) : About(queue[i], p) /\ (p \in inside <=> queue[i][1] = "joined")
        BY <1>1, <3>1 DEF Predicts
      <4>2. i = 1 BY <1>1, <1>2, <4>1
      <4> QED BY <1>1, <3>1, <4>1, <4>2
    <3>2. CASE ~About(queue[1], p)
      <4>1. \A i \in 1 .. Len(queue) : ~About(queue[i], p) BY <1>1, <1>2, <3>2
      <4> QED BY <1>1, <3>2, <4>1 DEF Predicts
    <3> QED BY <3>1, <3>2
  <2> QED BY <2>1, <2>2 DEF Predicts, rest
<1>3. ASSUME NEW k \in 2 .. Len(queue), About(queue[k], p) PROVE Predicts(rest, now, p, inside)
  <2>1. PICK i \in 1 .. Len(queue) :
            /\ About(queue[i], p) /\ \A j \in i + 1 .. Len(queue) : ~About(queue[j], p)
            /\ p \in inside <=> queue[i][1] = "joined"
    BY <1>1, <1>3 DEF Predicts
  <2>2. i >= 2 BY <1>1, <1>3, <2>1
  <2>3. i - 1 \in 1 .. Len(rest) /\ rest[i - 1] = queue[i] BY <1>1, <2>2
  <2>4. \A j \in (i - 1) + 1 .. Len(rest) : ~About(rest[j], p) BY <1>1, <2>1, <2>2
  <2> QED BY <2>1, <2>3, <2>4 DEF Predicts
<1> QED BY <1>2, <1>3 DEF rest

LEMMA PredictsAppend ==
  ASSUME NEW queue \in Seq(Events), NEW event \in Events, NEW p, NEW known, NEW inside, NEW now,
         Predicts(queue, known, p, inside),
         About(event, p) => (p \in now <=> event[1] = "joined"),
         ~About(event, p) => (p \in now <=> p \in inside)
  PROVE  Predicts(Append(queue, event), known, p, now)
<1> DEFINE more == Append(queue, event)
<1>1. /\ Len(queue) \in Nat /\ Len(more) = Len(queue) + 1 /\ more[Len(queue) + 1] = event
      /\ \A i \in 1 .. Len(queue) : more[i] = queue[i]
  OBVIOUS
<1> HIDE DEF more
<1>2. CASE About(event, p)
  <2>1. Len(more) \in 1 .. Len(more) /\ more[Len(more)] = event BY <1>1
  <2>2. \A j \in Len(more) + 1 .. Len(more) : ~About(more[j], p) BY <1>1
  <2> QED BY <1>2, <2>1, <2>2 DEF Predicts, more
<1>3. CASE ~About(event, p)
  <2>1. CASE \A i \in 1 .. Len(queue) : ~About(queue[i], p)
    <3>1. \A i \in 1 .. Len(more) : ~About(more[i], p)
      <4> SUFFICES ASSUME NEW i \in 1 .. Len(more) PROVE ~About(more[i], p) OBVIOUS
      <4>1. CASE i = Len(queue) + 1 BY <1>1, <1>3, <4>1
      <4>2. CASE i # Len(queue) + 1
        <5>1. i \in 1 .. Len(queue) BY <1>1, <4>2
        <5> QED BY <1>1, <2>1, <5>1
      <4> QED BY <4>1, <4>2
    <3>2. p \in now <=> p \in known BY <1>3, <2>1 DEF Predicts
    <3> QED BY <3>1, <3>2 DEF Predicts, more
  <2>2. ASSUME NEW k \in 1 .. Len(queue), About(queue[k], p) PROVE Predicts(more, known, p, now)
    <3>1. PICK i \in 1 .. Len(queue) :
              /\ About(queue[i], p) /\ \A j \in i + 1 .. Len(queue) : ~About(queue[j], p)
              /\ p \in inside <=> queue[i][1] = "joined"
      BY <2>2 DEF Predicts
    <3>2. i \in 1 .. Len(more) /\ more[i] = queue[i] BY <1>1
    <3>3. \A j \in i + 1 .. Len(more) : ~About(more[j], p)
      <4> SUFFICES ASSUME NEW j \in i + 1 .. Len(more) PROVE ~About(more[j], p) OBVIOUS
      <4>1. CASE j = Len(queue) + 1 BY <1>1, <1>3, <4>1
      <4>2. CASE j # Len(queue) + 1
        <5>1. j \in 1 .. Len(queue) /\ j \in i + 1 .. Len(queue) BY <1>1, <4>2
        <5> QED BY <1>1, <3>1, <5>1
      <4> QED BY <4>1, <4>2
    <3> QED BY <1>3, <3>1, <3>2, <3>3 DEF Predicts
  <2> QED BY <2>1, <2>2 DEF more
<1> QED BY <1>2, <1>3

(* A join or a leave makes the name known or forgotten and counts it only then. *)
LEMMA JoinedCount ==
  ASSUME NEW record \in Record, NEW p \in Players, record.online = Cardinality(record.known)
  PROVE  /\ Joined(record, p).known = record.known \union {p}
         /\ Joined(record, p).online = Cardinality(record.known \union {p})
<1>1. IsFiniteSet(record.known) BY RuntimeAssumption, FS_Subset DEF Record
<1>2. Cardinality(record.known \union {p})
        = IF p \in record.known THEN record.online ELSE record.online + 1
  BY <1>1, FS_AddElement
<1>3. record.online \in Nat BY DEF Record
<1> QED BY <1>2, <1>3 DEF Joined, Larger, Record

LEMMA LeftCount ==
  ASSUME NEW record \in Record, NEW p \in Players, record.online = Cardinality(record.known)
  PROVE  /\ Left(record, p).known = record.known \ {p}
         /\ Left(record, p).online = Cardinality(record.known \ {p})
<1>1. IsFiniteSet(record.known) BY RuntimeAssumption, FS_Subset DEF Record
<1>2. Cardinality(record.known \ {p})
        = IF p \in record.known THEN record.online - 1 ELSE record.online
  BY <1>1, FS_RemoveElement
<1>3. record.online \in Nat BY DEF Record
<1> QED BY <1>2, <1>3 DEF Left, Larger, Record

LEMMA CountStep ==
  ASSUME OnlyEvents, CountInv, [Next]_vars
  PROVE  CountInv'
<1>1. TypeOK' /\ MirrorCurrent' BY TypeStep, MirrorStep DEF CountInv
<1> DEFINE Names == runtime'.known = runtime.known /\ runtime'.online = runtime.online
<1>2. ASSUME Names, UNCHANGED <<loading, samples, events, inGame>> PROVE CountInv'
  BY <1>1, <1>2 DEF CountInv
<1>3. ASSUME NEW b \in Backups, BackupStep(b) PROVE CountInv'
  <2>1. CASE BackupEnters(b) \/ BackupLeaves(b) BY <1>2, <2>1 DEF BackupEnters, BackupLeaves
  <2>2. CASE RecordStarted(b)
    <3>1. runtime' = [mirror EXCEPT !.status = "running"] BY <2>2 DEF RecordStarted, Save
    <3>2. Names BY <3>1 DEF CountInv, MirrorCurrent, TypeOK, Record
    <3> QED BY <1>2, <2>2, <3>2 DEF RecordStarted
  <2>3. CASE RecordFinished(b)
    <3>1. \E status : runtime' = [mirror EXCEPT !.status = status]
      BY <2>3 DEF RecordFinished, SaveIfPossible, Save
    <3>2. Names BY <3>1 DEF CountInv, MirrorCurrent, TypeOK, Record
    <3> QED BY <1>2, <2>3, <3>2 DEF RecordFinished
  <2> QED BY <1>3, <2>1, <2>2, <2>3 DEF BackupStep
<1>4. ASSUME NEW s \in Samplers, Sample(s) \/ RecordSample(s) PROVE FALSE
  BY <1>4 DEF Sample, RecordSample, OnlyEvents, CountInv
<1>5. CASE PlayerEvent
  <2> DEFINE e == Head(events)
  <2>1. e \in Events /\ e[1] # "stopped" /\ events # <<>> /\ events \in Seq(Events)
    BY <1>5 DEF PlayerEvent, CountInv, TypeOK
  <2>2. e[1] \in {"joined", "left"} /\ e[2] \in Players BY <2>1 DEF Events
  <2>3. runtime' = IF e[1] = "joined" THEN Joined(runtime, e[2]) ELSE Left(runtime, e[2])
    BY <1>5 DEF PlayerEvent, PersistPlayers, SaveIfPossible, Save
  <2>4. UNCHANGED <<loading, samples, inGame>> /\ events' = Tail(events)
    BY <1>5 DEF PlayerEvent
  <2>5. runtime \in Record /\ runtime.online = Cardinality(runtime.known) BY DEF CountInv, TypeOK
  <2> HIDE DEF e
  <2>6. /\ runtime'.known = IF e[1] = "joined" THEN runtime.known \union {e[2]}
                                               ELSE runtime.known \ {e[2]}
        /\ runtime'.online = Cardinality(runtime'.known)
    <3>1. CASE e[1] = "joined"
      <4>1. runtime' = Joined(runtime, e[2]) BY <2>3, <3>1
      <4> QED BY <2>2, <2>5, <3>1, <4>1, JoinedCount
    <3>2. CASE e[1] # "joined"
      <4>1. runtime' = Left(runtime, e[2]) BY <2>3, <3>2
      <4> QED BY <2>2, <2>5, <3>2, <4>1, LeftCount
    <3> QED BY <3>1, <3>2
  <2>7. ASSUME NEW p \in Players PROVE Predicts(events', runtime'.known, p, inGame)
    <3>1. Predicts(events, runtime.known, p, inGame) BY DEF CountInv
    <3>2. /\ About(e, p) => (p \in runtime'.known <=> e[1] = "joined")
          /\ ~About(e, p) => (p \in runtime'.known <=> p \in runtime.known)
      BY <2>1, <2>2, <2>6 DEF About
    <3> QED BY <2>1, <2>4, <3>1, <3>2, PredictsTail DEF e
  <2> QED BY <1>1, <2>4, <2>6, <2>7 DEF CountInv
<1>6. CASE ServerStopped
  <2>1. /\ Head(events)[1] = "stopped" /\ events # <<>> /\ events \in Seq(Events)
        /\ runtime' = [runtime EXCEPT !.known = {}, !.online = 0]
        /\ UNCHANGED <<loading, samples, inGame>> /\ events' = Tail(events)
    BY <1>6 DEF ServerStopped, SaveIfPossible, Save, CountInv, TypeOK
  <2>2. runtime'.known = {} /\ runtime'.online = 0 BY <2>1 DEF CountInv, TypeOK, Record
  <2>3. runtime'.online = Cardinality(runtime'.known) BY <2>2, FS_EmptySet
  <2>4. ASSUME NEW p \in Players PROVE Predicts(events', runtime'.known, p, inGame)
    <3>1. Predicts(events, runtime.known, p, inGame) BY DEF CountInv
    <3>2. About(Head(events), p) /\ p \notin runtime'.known BY <2>1, <2>2 DEF About
    <3> QED BY <2>1, <3>1, <3>2, PredictsTail
  <2> QED BY <1>1, <2>1, <2>3, <2>4 DEF CountInv
<1>7. CASE CheckActivity
  <2>1. runtime' = [runtime EXCEPT !.joined = FALSE, !.left = FALSE]
    BY <1>7 DEF CheckActivity, Save
  <2>2. Names BY <2>1 DEF CountInv, TypeOK, Record
  <2> QED BY <1>2, <1>7, <2>2 DEF CheckActivity
<1>8. CASE TriggerEnds \/ ThirtySecondsPass
  BY <1>2, <1>8 DEF TriggerEnds, ThirtySecondsPass
<1>9. CASE LoadRead \/ LoadInstall \/ Restart
  BY <1>9 DEF LoadRead, LoadInstall, Restart, CountInv, OnlyEvents
<1>10. CASE SetEnabled
  <2>1. runtime' = runtime BY <1>10 DEF SetEnabled, SaveIfPossible, Save
  <2> QED BY <1>2, <1>10, <2>1 DEF SetEnabled
<1>11. CASE GameStep
  <2>1. UNCHANGED <<runtime, loading, samples>>
    BY <1>11 DEF GameStep, PlayerJoins, PlayerLeaves, ServerEnds, ServerStarts
  <2>2. ASSUME NEW event \in Events, events' = Append(events, event),
               \A p \in Players : /\ About(event, p) => (p \in inGame' <=> event[1] = "joined")
                                  /\ ~About(event, p) => (p \in inGame' <=> p \in inGame)
        PROVE  CountInv'
    <3>1. ASSUME NEW p \in Players PROVE Predicts(events', runtime.known, p, inGame')
      BY <2>2, PredictsAppend DEF CountInv, TypeOK
    <3> QED BY <1>1, <2>1, <3>1 DEF CountInv
  <2>3. ASSUME NEW p \in Players, PlayerJoins(p) PROVE CountInv'
    <3>1. <<"joined", p>> \in Events BY DEF Events
    <3> QED BY <2>2, <2>3, <3>1 DEF PlayerJoins, Queue, About
  <2>4. ASSUME NEW p \in Players, PlayerLeaves(p) PROVE CountInv'
    <3>1. <<"left", p>> \in Events BY DEF Events
    <3> QED BY <2>2, <2>4, <3>1 DEF PlayerLeaves, Queue, About
  <2>5. CASE ServerEnds
    <3>1. <<"stopped", inGame>> \in Events BY DEF Events, CountInv, TypeOK
    <3> QED BY <2>2, <2>5, <3>1 DEF ServerEnds, Queue, About
  <2>6. CASE ServerStarts BY <1>2, <2>1, <2>6 DEF ServerStarts
  <2> QED BY <1>11, <2>3, <2>4, <2>5, <2>6 DEF GameStep
<1>12. CASE UNCHANGED vars BY <1>2, <1>12
<1> QED BY <1>3, <1>4, <1>5, <1>6, <1>7, <1>8, <1>9, <1>10, <1>11, <1>12 DEF Next

(* Events alone keep the count right: throttled and failed writes, backups that   *)
(* record their status in between and crashes of the server leave no player       *)
(* counted who has gone and none uncounted who is there.                          *)
THEOREM CountsSettle == Spec => []CountSettles
<1>1. Init => CountInv
  <2> SUFFICES ASSUME Init PROVE CountInv OBVIOUS
  <2>1. TypeOK BY TypeInit
  <2> QED BY <2>1, FS_EmptySet DEF Init, CountInv, MirrorCurrent, Fresh, Predicts
<1>2. (OnlyEvents => CountInv) /\ [Next]_vars => (OnlyEvents => CountInv)'
  BY CountStep, WorldFixed DEF OnlyEvents
<1>3. (OnlyEvents => CountInv) => CountSettles
  <2> SUFFICES ASSUME CountInv, events = <<>>
               PROVE  runtime.online = Cardinality(inGame) /\ runtime.known = inGame
      BY DEF OnlyEvents, CountSettles, Undisturbed
  <2>1. \A p \in Players : p \in inGame <=> p \in runtime.known
    BY DEF CountInv, Predicts
  <2>2. inGame \subseteq Players /\ runtime.known \subseteq Players
    BY DEF CountInv, TypeOK, Record
  <2>3. inGame = runtime.known BY <2>1, <2>2
  <2> QED BY <2>3 DEF CountInv
<1> QED BY <1>1, <1>2, <1>3, PTL DEF Spec
=============================================================================
