------------------------- MODULE RestoreQueueProofs -------------------------
(***************************************************************************)
(* Proofs about RestoreQueue, for any set of repositories and any number of *)
(* tasks.  The apply command reads the queue long before its end clears it; *)
(* the invariant says that whatever is queued for a copy's repository in    *)
(* the meantime is still in the copy, was restored from it, or came later.  *)
(***************************************************************************)
EXTENDS RestoreQueue, WellFoundedInduction, TLAPS

(* An id names one task, in the table and in every list still on a screen. *)
Known  == queue \union seen
OneId  == \A t, u \in Known : t.id = u.id => t = u
IdsUsed == \A t \in Known : t.id <= lastId

(* Accounted(key, tasks): of the rows queued for key, each is one of the tasks, *)
(* was restored or was added after those tasks had been read.                    *)
Serials(tasks) == {t.serial : t \in tasks}
Accounted(key, tasks) == Serials(Queued(key)) \subseteq Serials(tasks) \union done \union late

(* A copy keeps account of its repository's queue from the moment it is read    *)
(* until the queue is cleared; clearing begins when none of the tasks is left.   *)
CopyAccounts == copy # NoCopy => Accounted(copy.key, copy.tasks)
SessionAccounts == /\ session.at \in {"running", "clearing"} => Accounted(session.key, session.tasks)
                   /\ session.at = "clearing" => session.tasks = {}

IInv == TypeOK /\ OneId /\ IdsUsed /\ CopyAccounts /\ SessionAccounts /\ ErasedWereRun
-----------------------------------------------------------------------------
(* ORDER BY id ASC takes one of the tasks that are left. *)
LEMMA FollowingIsLeft ==
  ASSUME NEW tasks, tasks \subseteq Tasks, tasks # {}
  PROVE  Following(tasks) \in tasks
<1> DEFINE ids == {t.id : t \in tasks}
<1>1. ids \subseteq Nat /\ ids # {}
  BY DEF Tasks
<1>2. PICK n \in ids : \A m \in ids : ~(<<m, n>> \in OpToRel(<, Nat))
  <2> HIDE DEF ids
  <2> QED BY <1>1, NatLessThanWellFounded, WFMin
<1>3. \A m \in ids : ~(m < n)
  <2> HIDE DEF ids
  <2> QED BY <1>1, <1>2, Zenon DEF OpToRel
<1>4. \E t \in tasks : \A u \in tasks : t.id <= u.id
  <2>1. PICK t \in tasks : t.id = n
    OBVIOUS
  <2>2. \A u \in tasks : u.id \in ids /\ u.id \in Nat
    BY <1>1
  <2> HIDE DEF ids
  <2> QED BY <1>3, <2>1, <2>2
<1> QED BY <1>4 DEF Following

LEMMA InitHolds == Init => IInv
  BY DEF Init, IInv, TypeOK, OneId, IdsUsed, Known, CopyAccounts, SessionAccounts, ErasedWereRun,
         NoCopy, NoSession

(* Every list on a screen afterwards is the old one or one of the table's rows. *)
LEMMA KnownStep ==
  ASSUME TypeOK, OneId, IdsUsed, [Next]_vars
  PROVE  OneId' /\ IdsUsed'
<1> USE DEF table, record
<1>1. CASE Add
  <2> DEFINE row == [id |-> lastId + 1, serial |-> adds + 1, key |-> config]
  <2>1. Known' \subseteq Known \union {row} /\ lastId' = lastId + 1
    BY <1>1 DEF Add, NextId, Replies, Known
  <2>2. row.id = lastId + 1 /\ lastId \in Nat /\ \A t \in Known : t.id \in Nat /\ t.id <= lastId
    BY DEF TypeOK, IdsUsed, Known, Tasks
  <2> HIDE DEF row
  <2>3. \A t \in Known' : t.id <= lastId'
    BY <2>1, <2>2
  <2>4. ASSUME NEW t \in Known', NEW u \in Known', t.id = u.id PROVE t = u
    BY <2>1, <2>2, <2>4 DEF OneId
  <2> QED BY <2>3, <2>4 DEF OneId, IdsUsed
<1>2. CASE ~Add
  <2>1. Known' \subseteq Known /\ lastId' = lastId
    <3>1. CASE Show \/ DeleteAll \/ Crash \/ \E id \in 1..MaxAdds : Delete(id)
      BY <3>1 DEF Show, DeleteAll, Crash, Delete, Replies, Known, Queued
    <3>2. CASE Reconfigure \/ Read \/ Reject \/ Start \/ RunTask \/ Fail \/ Succeed \/ Finish
      BY <3>2 DEF Reconfigure, Read, Reject, Start, RunTask, Fail, Succeed, Finish, Known
    <3>3. CASE Clear
      BY <3>3 DEF Clear, Known
    <3>4. CASE UNCHANGED vars
      BY <3>4 DEF vars, Known
    <3> QED BY <1>2, <3>1, <3>2, <3>3, <3>4 DEF Next
  <2> QED BY <2>1 DEF OneId, IdsUsed
<1> QED BY <1>1, <1>2

LEMMA TypeStep ==
  ASSUME TypeOK, [Next]_vars
  PROVE  TypeOK'
<1> USE DEF table, record, TypeOK
<1>1. CASE Add
  <2>1. [id |-> NextId, serial |-> adds + 1, key |-> config] \in Tasks
    BY DEF Tasks, NextId
  <2> QED BY <1>1, <2>1 DEF Add, NextId, Replies
<1>2. CASE Show \/ DeleteAll \/ \E id \in 1..MaxAdds : Delete(id)
  BY <1>2 DEF Show, DeleteAll, Delete, Replies, Queued
<1>3. CASE Read \/ Reject
  <2>1. /\ NoCopy \in [key : Keys \union {"none"}, tasks : SUBSET Tasks]
        /\ Queued(config) \in SUBSET Tasks
    BY DEF NoCopy, Queued
  <2>2. copy' \in {NoCopy, [key |-> config, tasks |-> Queued(config)]}
        /\ UNCHANGED <<config, queue, lastId, adds, seen, session, done, erased, late>>
    BY <1>3 DEF Read, Reject
  <2> QED BY <2>1, <2>2
<1>4. CASE Start \/ Fail \/ Succeed \/ Finish \/ Crash
  BY <1>4 DEF Start, Fail, Succeed, Finish, Crash, NoSession, NoCopy
<1>5. CASE RunTask
  <2> DEFINE t == Following(session.tasks)
  <2>1. t \in Tasks
    BY <1>5, FollowingIsLeft DEF RunTask
  <2>2. t.serial \in Nat
    BY <2>1 DEF Tasks
  <2>3. /\ done' = done \union {t.serial} /\ session' = [session EXCEPT !.tasks = @ \ {t}]
        /\ UNCHANGED <<config, table, seen, copy, erased, late>>
    BY <1>5 DEF RunTask
  <2> HIDE DEF t
  <2> QED BY <2>2, <2>3
<1>6. CASE Clear
  <2>1. {u.serial : u \in Cleared} \subseteq Nat
    BY DEF Cleared, Queued, Tasks
  <2> QED BY <1>6, <2>1 DEF Clear
<1>7. CASE Reconfigure
  BY <1>7 DEF Reconfigure
<1>8. CASE UNCHANGED vars
  BY <1>8 DEF vars
<1> QED BY <1>1, <1>2, <1>3, <1>4, <1>5, <1>6, <1>7, <1>8 DEF Next

(* What one step leaves of an account: the same tasks, no row that is not       *)
(* already queued or too late for the account, and no record taken back.         *)
Grows == done \subseteq done' /\ late \subseteq late'
NoNewRow(key) == \A t \in Queued(key)' : t \in Queued(key) \/ t.serial \in late'

LEMMA CopyKept ==
  ASSUME CopyAccounts, Grows, copy' = copy, copy # NoCopy => NoNewRow(copy.key)
  PROVE  CopyAccounts'
BY DEF CopyAccounts, Accounted, Serials, Grows, NoNewRow, Queued

LEMMA SessionKept ==
  ASSUME SessionAccounts, Grows, session' = session,
         session.at # "none" => NoNewRow(session.key)
  PROVE  SessionAccounts'
BY DEF SessionAccounts, Accounted, Serials, Grows, NoNewRow, Queued

LEMMA AccountsStep ==
  ASSUME TypeOK, CopyAccounts, SessionAccounts, [Next]_vars
  PROVE  CopyAccounts' /\ SessionAccounts'
<1> USE DEF table, record
<1>1. CASE Add
  <2>1. Grows /\ copy' = copy /\ session' = session
    BY <1>1 DEF Add, Grows
  <2>2. NoNewRow(copy.key) /\ NoNewRow(session.key)
    BY <1>1 DEF Add, NoNewRow, Queued
  <2> QED BY <2>1, <2>2, CopyKept, SessionKept
<1>2. ASSUME queue' \subseteq queue, UNCHANGED <<copy, session, done, late>>
      PROVE  CopyAccounts' /\ SessionAccounts'
  <2>1. Grows /\ copy' = copy /\ session' = session
    BY <1>2 DEF Grows
  <2>2. NoNewRow(copy.key) /\ NoNewRow(session.key)
    BY <1>2 DEF NoNewRow, Queued
  <2> QED BY <2>1, <2>2, CopyKept, SessionKept
<1>3. CASE Show \/ DeleteAll \/ Reconfigure \/ (\E id \in 1..MaxAdds : Delete(id)) \/ UNCHANGED vars
  BY <1>2, <1>3 DEF Show, DeleteAll, Reconfigure, Delete, vars
<1>4. CASE Read
  <2>1. UNCHANGED <<queue, session, done, late>> /\ copy' = [key |-> config, tasks |-> Queued(config)]
    BY <1>4 DEF Read
  <2>2. CopyAccounts'
    BY <2>1 DEF CopyAccounts, Accounted, Serials, Queued
  <2>3. SessionAccounts'
    BY <2>1, SessionKept DEF Grows, NoNewRow, Queued
  <2> QED BY <2>2, <2>3
<1>5. CASE Reject
  <2>1. UNCHANGED <<queue, session, done, late>> /\ copy' = NoCopy
    BY <1>5 DEF Reject
  <2>2. SessionAccounts'
    BY <2>1, SessionKept DEF Grows, NoNewRow, Queued
  <2> QED BY <2>1, <2>2 DEF CopyAccounts
<1>6. CASE Start
  <2>1. /\ UNCHANGED <<queue, done, late>> /\ copy' = NoCopy /\ copy # NoCopy
        /\ session' = [at |-> "running", key |-> copy.key, tasks |-> copy.tasks]
    BY <1>6 DEF Start, NoCopy
  <2>2. SessionAccounts'
    BY <2>1 DEF CopyAccounts, SessionAccounts, Accounted, Serials, Queued
  <2> QED BY <2>1, <2>2 DEF CopyAccounts
<1>7. CASE RunTask
  <2> DEFINE t == Following(session.tasks)
  <2>1. /\ session.at = "running" /\ UNCHANGED <<queue, copy, late>>
        /\ done' = done \union {t.serial} /\ session' = [session EXCEPT !.tasks = @ \ {t}]
    BY <1>7 DEF RunTask
  <2> HIDE DEF t
  <2>2. CopyAccounts'
    BY <2>1, CopyKept DEF Grows, NoNewRow, Queued
  <2>3. /\ session'.at = "running" /\ session'.key = session.key
        /\ session'.tasks = session.tasks \ {t}
    BY <2>1 DEF TypeOK
  <2>4. SessionAccounts'
    BY <2>1, <2>3 DEF SessionAccounts, Accounted, Serials, Queued
  <2> QED BY <2>2, <2>4
<1>8. CASE Succeed
  <2>1. /\ session.at = "running" /\ session.tasks = {} /\ UNCHANGED <<queue, copy, done, late>>
        /\ session' = [session EXCEPT !.at = "clearing"]
    BY <1>8 DEF Succeed
  <2>2. CopyAccounts'
    BY <2>1, CopyKept DEF Grows, NoNewRow, Queued
  <2>3. session'.tasks = session.tasks /\ session'.key = session.key
    BY <2>1 DEF TypeOK
  <2>4. SessionAccounts'
    BY <2>1, <2>3 DEF SessionAccounts, Accounted, Serials, Queued
  <2> QED BY <2>2, <2>4
<1>9. CASE Clear
  <2>1. queue' \subseteq queue /\ UNCHANGED <<copy, done, late>> /\ session'.at = "finishing"
    BY <1>9 DEF Clear, TypeOK
  <2>2. CopyAccounts'
    BY <2>1, CopyKept DEF Grows, NoNewRow, Queued
  <2> QED BY <2>1, <2>2 DEF SessionAccounts
<1>10. CASE Fail \/ Finish \/ Crash
  <2>1. UNCHANGED <<queue, done, late>> /\ session' = NoSession /\ copy' \in {copy, NoCopy}
    BY <1>10 DEF Fail, Finish, Crash
  <2>2. CopyAccounts'
    BY <2>1, CopyKept DEF Grows, NoNewRow, Queued, CopyAccounts
  <2> QED BY <2>1, <2>2 DEF SessionAccounts, NoSession
<1> QED BY <1>1, <1>3, <1>4, <1>5, <1>6, <1>7, <1>8, <1>9, <1>10 DEF Next

(* Only the end of a restore erases, when its account has no task left. *)
LEMMA ErasedStep ==
  ASSUME SessionAccounts, ErasedWereRun, [Next]_vars
  PROVE  ErasedWereRun'
<1> USE DEF table, record
<1>1. CASE Clear
  <2>1. Serials(Cleared) \subseteq done \union late
    BY <1>1 DEF Clear, SessionAccounts, Accounted, Serials, Cleared
  <2> QED BY <1>1, <2>1 DEF Clear, ErasedWereRun, Serials
<1>2. ASSUME erased' = erased, done \subseteq done', late \subseteq late'
      PROVE  ErasedWereRun'
  BY <1>2 DEF ErasedWereRun
<1>3. CASE Add \/ RunTask
  BY <1>2, <1>3 DEF Add, RunTask
<1>4. CASE Show \/ DeleteAll \/ Reconfigure \/ Read \/ Reject \/ Start \/ Fail \/ Succeed \/ Finish
           \/ Crash \/ (\E id \in 1..MaxAdds : Delete(id)) \/ UNCHANGED vars
  BY <1>2, <1>4 DEF Show, DeleteAll, Reconfigure, Read, Reject, Start, Fail, Succeed, Finish,
                    Crash, Delete, vars
<1> QED BY <1>1, <1>3, <1>4 DEF Next
-----------------------------------------------------------------------------
(* The invariant of every proof here. *)
THEOREM Inductive == Spec => []IInv
<1>1. IInv /\ [Next]_vars => IInv'
  BY TypeStep, KnownStep, AccountsStep, ErasedStep DEF IInv
<1> QED BY InitHolds, <1>1, PTL DEF Spec

(* The table, the lists, the copies and the record keep their types. *)
THEOREM TypeCorrect == Spec => []TypeOK
<1>1. IInv => TypeOK
  BY DEF IInv
<1> QED BY <1>1, Inductive, PTL

(* A successful restore takes from the queue only what it has restored, or what *)
(* was added behind its back.                                                    *)
THEOREM NothingLost == Spec => []ErasedWereRun
<1>1. IInv => ErasedWereRun
  BY DEF IInv
<1> QED BY <1>1, Inductive, PTL

(* unrestore <id> deletes the task that the administrator read there, or none. *)
THEOREM SeenIsDeleted == Spec => DeletesWhatWasSeen
<1> DEFINE OnlySeen == \A id \in 1..MaxAdds :
                         Delete(id) => queue \ queue' \subseteq {t \in seen : t.id = id}
<1>1. IInv => OnlySeen
  <2> SUFFICES ASSUME IInv, NEW id \in 1..MaxAdds, Delete(id), NEW t \in queue \ queue'
               PROVE  t \in seen /\ t.id = id
    BY Zenon DEF OnlySeen
  <2>1. t \in queue /\ t.id = id
    BY DEF Delete
  <2>2. PICK s \in seen : s.id = id
    BY DEF Delete
  <2> QED BY <2>1, <2>2 DEF IInv, OneId, Known
<1>2. IInv => [OnlySeen]_vars
  BY <1>1
<1> QED BY <1>2, Inductive, PTL DEF DeletesWhatWasSeen
=============================================================================
