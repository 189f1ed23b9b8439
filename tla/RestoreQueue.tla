---------------------------- MODULE RestoreQueue ----------------------------
(***************************************************************************)
(* The queue of restore tasks: a table that the commands add to, show and   *)
(* delete from, for the repository configured at that moment, and that a    *)
(* restore copies when it is applied and clears when it has succeeded.  The *)
(* restore works on its copy in a thread of its own; the commands go on.    *)
(* Where the restore gets to with the server is RestoreWorkflow's subject.  *)
(***************************************************************************)
EXTENDS Naturals, FiniteSets

CONSTANTS Keys,      \* cache keys: configurations of restic
          MaxAdds    \* bound: tasks added

ASSUME QueueAssumption == Keys # {} /\ MaxAdds \in Nat

VARIABLES
  config,    \* cache key of the configuration in force
  queue,     \* restore_tasks: rows [id, serial, key]
  lastId,    \* AUTOINCREMENT: the highest id ever given
  adds,      \* tasks added so far; the serial of the last one
  seen,      \* the list that one of the administrators has been shown last
  copy,      \* tasks that an apply command has read, and their key
  session,   \* the restore that holds the restore lock
  done,      \* history: serials of tasks that have been restored
  erased,    \* history: serials that the end of a restore removed from the queue
  late       \* history: serials added while a copy of their queue was in use

table  == <<queue, lastId, adds>>
record == <<done, erased, late>>
vars   == <<config, table, seen, copy, session, record>>

NoCopy    == [key |-> "none", tasks |-> {}]
NoSession == [at |-> "none", key |-> "none", tasks |-> {}]
Tasks     == [id : Nat, serial : Nat, key : Keys]

Init == /\ config \in Keys /\ queue = {} /\ lastId = 0 /\ adds = 0 /\ seen = {}
        /\ copy = NoCopy /\ session = NoSession
        /\ done = {} /\ erased = {} /\ late = {}
-----------------------------------------------------------------------------
(* list_restore_tasks *)
Queued(key) == {t \in queue : t.key = key}

Highest(S) == IF S = {} THEN 0 ELSE CHOOSE n \in S : \A m \in S : m <= n

(* Mistake: a plain rowid, which takes up the ids of deleted tasks again. *)
RowId == Highest({t.id : t \in queue}) + 1

(* INTEGER PRIMARY KEY AUTOINCREMENT *)
NextId == lastId + 1

(* Every reply lists the queue, to the administrator who asked. *)
Replies == seen' \in {seen, {t \in queue' : t.key = config}}

(* restore add.  A snapshot, path or target that is not accepted, or an error *)
(* of the database, leaves the queue as it is.                                  *)
Add ==
  /\ adds < MaxAdds /\ adds' = adds + 1 /\ lastId' = NextId
  /\ queue' = queue \union {[id |-> NextId, serial |-> adds + 1, key |-> config]}
  /\ Replies
  /\ late' = IF config \in {copy.key, session.key} THEN late \union {adds + 1} ELSE late
  /\ UNCHANGED <<config, copy, session, done, erased>>

Show ==
  /\ seen' = Queued(config)
  /\ UNCHANGED <<config, table, copy, session, record>>

(* unrestore <task_id>: the administrator names an id that was shown. *)
Delete(id) ==
  /\ \E t \in seen : t.id = id
  /\ queue' = {t \in queue : ~(t.id = id /\ t.key = config)}
  /\ Replies
  /\ UNCHANGED <<config, lastId, adds, copy, session, record>>

(* unrestore all *)
DeleteAll ==
  /\ queue' = queue \ Queued(config) /\ Replies
  /\ UNCHANGED <<config, lastId, adds, copy, session, record>>

(* A reload of another configuration. *)
Reconfigure ==
  /\ config' \in Keys /\ config' # config
  /\ UNCHANGED <<table, seen, copy, session, record>>
-----------------------------------------------------------------------------
(* restore apply reads the queue first *)
Read ==
  /\ copy = NoCopy /\ copy' = [key |-> config, tasks |-> Queued(config)]
  /\ UNCHANGED <<config, table, seen, session, record>>

(* and then finds nothing to do, a restore or a backup running, or a server    *)
(* that is not ready; a thread that cannot be started takes all of it back.     *)
Reject ==
  /\ copy # NoCopy /\ copy' = NoCopy
  /\ UNCHANGED <<config, table, seen, session, record>>

(* or takes the restore lock. *)
Start ==
  /\ copy.tasks # {} /\ session = NoSession
  /\ session' = [at |-> "running", key |-> copy.key, tasks |-> copy.tasks]
  /\ copy' = NoCopy
  /\ UNCHANGED <<config, table, seen, record>>

(* ORDER BY id ASC *)
Following(tasks) == CHOOSE t \in tasks : \A u \in tasks : t.id <= u.id

(* execute_restore_tasks, of the copy. *)
RunTask ==
  /\ session.at = "running" /\ session.tasks # {}
  /\ LET t == Following(session.tasks)
     IN done' = done \union {t.serial} /\ session' = [session EXCEPT !.tasks = @ \ {t}]
  /\ UNCHANGED <<config, table, seen, copy, erased, late>>

(* A cancel, a target that is no longer allowed or a failed restic ends it all; *)
(* the queue stays.                                                              *)
Fail ==
  /\ session.at = "running" /\ session.tasks # {} /\ session' = NoSession
  /\ UNCHANGED <<config, table, seen, copy, record>>

(* Mistake: the queue is cleared before the last task has been restored. *)
SucceedEarly ==
  /\ session.at = "running" /\ Cardinality(session.tasks) <= 1
  /\ session' = [session EXCEPT !.at = "clearing"]
  /\ UNCHANGED <<config, table, seen, copy, record>>

Succeed ==
  /\ session.at = "running" /\ session.tasks = {}
  /\ session' = [session EXCEPT !.at = "clearing"]
  /\ UNCHANGED <<config, table, seen, copy, record>>

(* clear_completed_restore_tasks: all that is queued for the session's key. *)
Cleared == Queued(session.key)

Clear ==
  /\ session.at = "clearing" /\ session' = [session EXCEPT !.at = "finishing"]
  /\ \/ queue' = queue \ Cleared /\ erased' = erased \union {t.serial : t \in Cleared}
     \/ UNCHANGED <<queue, erased>>          \* the database's error is a warning
  /\ UNCHANGED <<config, lastId, adds, seen, copy, done, late>>

Finish ==
  /\ session.at = "finishing" /\ session' = NoSession
  /\ UNCHANGED <<config, table, seen, copy, record>>

(* The server process dies; the table stays. *)
Crash ==
  /\ session # NoSession \/ copy # NoCopy
  /\ session' = NoSession /\ copy' = NoCopy /\ seen' = {}
  /\ UNCHANGED <<config, table, record>>
-----------------------------------------------------------------------------
Next == \/ Add \/ Show \/ DeleteAll \/ Reconfigure \/ Read \/ Reject \/ Start
        \/ RunTask \/ Fail \/ Succeed \/ Clear \/ Finish \/ Crash
        \/ \E id \in 1..MaxAdds : Delete(id)

Spec == Init /\ [][Next]_vars
-----------------------------------------------------------------------------
TypeOK ==
  /\ config \in Keys /\ queue \subseteq Tasks /\ lastId \in Nat /\ adds \in Nat
  /\ seen \subseteq Tasks
  /\ copy \in [key : Keys \union {"none"}, tasks : SUBSET Tasks]
  /\ session \in [at : {"none", "running", "clearing", "finishing"},
                  key : Keys \union {"none"}, tasks : SUBSET Tasks]
  /\ done \subseteq Nat /\ erased \subseteq Nat /\ late \subseteq Nat

(* What the end of a restore takes from the queue was restored, or was added    *)
(* after the restore had read the queue: a task that failed, was never reached  *)
(* or waits for another repository (the configuration may change its key while  *)
(* a restore works) is still there for the next apply.                           *)
ErasedWereRun == erased \subseteq done \union late

(* The id that an administrator reads in the list and gives to unrestore is     *)
(* still that task's when the command runs, or nobody's, whatever was deleted,   *)
(* cleared and added in between.                                                *)
DeletesWhatWasSeen ==
  [][\A id \in 1..MaxAdds : Delete(id) => queue \ queue' \subseteq {t \in seen : t.id = id}]_vars

(* docs/restore.md:251: the tasks that succeeded are removed from the queue.    *)
OnlyRestoredAreErased == erased \subseteq done

(* docs/restore.md:251, too: a task whose restore succeeded is not queued any   *)
(* more and so is not restored again.                                            *)
ErasedStayDone ==
  [][session = NoSession /\ session' # NoSession =>
       \A t \in session'.tasks : t.serial \notin erased]_vars
=============================================================================
