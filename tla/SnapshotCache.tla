--------------------------- MODULE SnapshotCache ---------------------------
(***************************************************************************)
(* The snapshot list of the status command: rows of an SQLite file that a   *)
(* viewer refreshes from `restic snapshots --json` when the file says they  *)
(* are not valid, and that the holder of the backup slot marks invalid      *)
(* after each of its commands that changed the repository.                  *)
(*                                                                          *)
(* A refresh imports the listing under a key of its own, in a transaction   *)
(* that holds the database's write lock from the first row on, and swaps it *)
(* in at the end.  A repository is its version; a listing is the version it *)
(* was taken of.  Two configurations, and so two cache keys, may alternate. *)
(***************************************************************************)
EXTENDS Naturals

CONSTANTS Viewers,      \* threads that show the status
          Keys,         \* cache keys: configurations of restic
          Changing,     \* keys whose repository the plugin works on
          MaxVersion,   \* bound: changes of a repository
          MaxCrashes,   \* bound: times the server process dies
          SameSecond    \* two marks of the same text may be of one second

ASSUME CacheAssumption == /\ Changing \subseteq Keys /\ SameSecond \in BOOLEAN
                          /\ MaxVersion \in Nat /\ MaxCrashes \in Nat

VARIABLES
  repo,       \* repo[k]: version of the repository behind k
  meta,       \* snapshot_meta: the row of k, or None; version is that of a valid list
  rows,       \* rows[k]: the listing stored under k, or NoRows
  tasked,     \* keys that restore_tasks refer to
  worker,     \* the slot's holder: where it is and its key
  announced,  \* history: announced[k] is the last version marked invalid
  queryLock,  \* query_lock: its holder, or nobody
  writer,     \* the viewer whose import holds the database's write lock, or nobody
  view,       \* view[v]: where viewer v is, its key and the meta it read
  restic,     \* the refresh's process
  listing,    \* what that process has listed
  temp,       \* viewers with committed rows under their temporary key
  leftover,   \* temporary keys that nobody owns any more
  crashes

vars == <<repo, meta, rows, tasked, worker, announced, queryLock, writer, view,
          restic, listing, temp, leftover, crashes>>

repository == <<repo, worker, announced>>
tables     == <<meta, rows, tasked>>
refresh    == <<queryLock, writer, restic, listing, temp>>

Nobody == "nobody"      \* queryLock is free: no name of a thread
ASSUME NobodyAssumption == Nobody \notin Viewers
NoKey  == "none"
None   == [version |-> 0, invalid |-> TRUE, reason |-> 0, row |-> FALSE]
NoRows == 0
Meta   == [version : Nat, invalid : BOOLEAN, reason : Nat, row : BOOLEAN]
AView  == [at : {"idle", "check", "lock", "start", "import", "exit", "swap", "fail",
                 "record", "clean"},
           key : Keys \union {NoKey}, before : Meta]
Idle == [at |-> "idle", key |-> NoKey, before |-> None]
NotAtWork == [at |-> "idle", key |-> NoKey]

Init == /\ repo = [k \in Keys |-> 1] /\ announced = [k \in Keys |-> 0]
        /\ meta = [k \in Keys |-> None] /\ rows = [k \in Keys |-> NoRows] /\ tasked = {}
        /\ worker = NotAtWork /\ view = [v \in Viewers |-> Idle]
        /\ queryLock = Nobody /\ writer = Nobody /\ restic = "none" /\ listing = 0
        /\ temp = {} /\ leftover = 0 /\ crashes = 0
-----------------------------------------------------------------------------
(* The slot's holder.  A command changes the repository. *)
Change(k) ==
  /\ worker.at = "idle" /\ repo[k] < MaxVersion
  /\ repo' = [repo EXCEPT ![k] = @ + 1]
  /\ worker' = [worker EXCEPT !.at = "changed", !.key = k]
  /\ UNCHANGED <<announced, tables, refresh, view, leftover, crashes>>

(* Only a backup, a maintenance command or an init that restic reported as good  *)
(* marks the cache; one that failed after its change, or an exec, does not.      *)
EndsUnannounced ==
  /\ worker.at = "changed" /\ worker' = NotAtWork
  /\ UNCHANGED <<repo, announced, tables, refresh, view, leftover, crashes>>

(* mark_snapshot_cache_invalid.  What it keeps of the row's former text is only   *)
(* shown; the reason it writes ends in the second of the day.                     *)
Reasons(k) == {repo[k]} \union (IF SameSecond THEN {announced[k]} ELSE {})

Marks ==
  LET k == worker.key IN
  /\ worker.at = "changed" /\ writer = Nobody
  /\ \E why \in Reasons(k) :
       meta' = [meta EXCEPT ![k] = [version |-> 0, invalid |-> TRUE, reason |-> why, row |-> TRUE]]
  /\ announced' = [announced EXCEPT ![k] = repo[k]]
  /\ worker' = NotAtWork
  /\ UNCHANGED <<repo, rows, tasked, refresh, view, leftover, crashes>>

(* The write lock is waited for ten seconds; the error goes to the debug log. *)
MarkFails ==
  /\ worker.at = "changed" /\ writer # Nobody
  /\ worker' = NotAtWork
  /\ UNCHANGED <<repo, announced, tables, refresh, view, leftover, crashes>>

(* restore add, unrestore and the end of a restore change what restore_tasks has. *)
QueueChanges(k) ==
  /\ writer = Nobody
  /\ tasked' = IF k \in tasked THEN tasked \ {k} ELSE tasked \union {k}
  /\ UNCHANGED <<repository, meta, rows, refresh, view, leftover, crashes>>
-----------------------------------------------------------------------------
(* A viewer: load_snapshot_status_page. *)
Returns(v) == view' = [view EXCEPT ![v] = Idle]
Goes(v, at) == view' = [view EXCEPT ![v].at = at]

Asks(v, k) ==
  /\ view[v].at = "idle"
  /\ view' = [view EXCEPT ![v] = [at |-> "check", key |-> k, before |-> None]]
  /\ UNCHANGED <<repository, tables, refresh, leftover, crashes>>

(* is_snapshot_cache_valid *)
FindsValid(v) ==
  /\ view[v].at = "check" /\ ~meta[view[v].key].invalid
  /\ Returns(v) /\ UNCHANGED <<repository, tables, refresh, leftover, crashes>>

FindsInvalid(v) ==
  /\ view[v].at = "check" /\ meta[view[v].key].invalid
  /\ Goes(v, "lock") /\ UNCHANGED <<repository, tables, refresh, leftover, crashes>>

(* The lock is tried once: beside a running refresh the stored rows are shown. *)
FindsRunning(v) ==
  /\ view[v].at = "lock" /\ queryLock # Nobody
  /\ Returns(v) /\ UNCHANGED <<repository, tables, refresh, leftover, crashes>>

StartsRefresh(v) ==
  /\ view[v].at = "lock" /\ queryLock = Nobody
  /\ queryLock' = v /\ Goes(v, "start")
  /\ UNCHANGED <<repository, tables, writer, restic, listing, temp, leftover, crashes>>

(* meta_before_refresh is read, and then restic is started. *)
StartsRestic(v) ==
  /\ view[v].at = "start"
  /\ \/ /\ restic' = "running"
        /\ view' = [view EXCEPT ![v].at = "import", ![v].before = meta[view[v].key]]
     \/ restic' = "none" /\ Goes(v, "fail")
  /\ UNCHANGED <<repository, tables, queryLock, writer, listing, temp, leftover, crashes>>

(* The first row opens the transaction; every hundredth row commits it. *)
InsertsRow(v) ==
  /\ view[v].at = "import" /\ listing > 0
  /\ writer' = v
  /\ UNCHANGED <<repository, tables, view, queryLock, restic, listing, temp, leftover, crashes>>

CommitsRows(v) ==
  /\ view[v].at = "import" /\ writer = v
  /\ writer' = Nobody /\ temp' = temp \union {v}
  /\ UNCHANGED <<repository, tables, view, queryLock, restic, listing, leftover, crashes>>

(* The array is complete, and restic is waited for with the transaction open. *)
ArrayEnds(v) ==
  /\ view[v].at = "import" /\ listing > 0 /\ Goes(v, "exit")
  /\ UNCHANGED <<repository, tables, refresh, leftover, crashes>>

(* The stream ends in the middle of the array, or what it holds cannot be parsed. *)
StreamBreaks(v) ==
  /\ view[v].at = "import" /\ (restic = "bad" \/ listing > 0)
  /\ Goes(v, "fail") /\ restic' = "none"
  /\ UNCHANGED <<repository, tables, queryLock, writer, listing, temp, leftover, crashes>>

ResticDone(v) ==
  /\ view[v].at = "exit" /\ restic # "running"
  /\ IF restic = "good"
     THEN /\ Goes(v, "swap") /\ writer' = Nobody
          /\ temp' = temp \union {v}
     ELSE Goes(v, "fail") /\ UNCHANGED <<writer, temp>>
  /\ restic' = "none"
  /\ UNCHANGED <<repository, tables, queryLock, listing, leftover, crashes>>

(* Mistake: a mark made during the refresh is dropped. *)
NeverStale(existing, before) == FALSE

(* refreshed_meta_invalidation_state *)
StillInvalid(existing, before) ==
  existing.row /\ existing.invalid /\ (~before.row \/ existing # before)

(* Mistake: keys with restore tasks are pruned too. *)
EveryOther(k) == Keys \ {k}

(* prune_orphan_snapshot_cache_keys: what neither a task nor this refresh needs. *)
Orphans(k) == (Keys \ {k}) \ tasked

(* Mistake: of an orphan only the rows are deleted. *)
NoMeta(k) == {}

MetaDeleted(k) == Orphans(k)

Swap(v) ==
  LET k == view[v].key
      mark == StillInvalid(meta[k], view[v].before)
  IN
  /\ view[v].at = "swap"
  /\ rows' = [q \in Keys |-> IF q = k THEN listing ELSE IF q \in Orphans(k) THEN NoRows ELSE rows[q]]
  /\ meta' = [q \in Keys |->
                IF q = k THEN [version |-> IF mark THEN 0 ELSE listing, invalid |-> mark, row |-> TRUE,
                               reason |-> IF mark THEN meta[k].reason ELSE 0]
                ELSE IF q \in MetaDeleted(k) THEN None ELSE meta[q]]
  /\ temp' = temp \ {v} /\ Goes(v, "clean")
  /\ UNCHANGED <<repository, tasked, queryLock, writer, restic, listing, leftover, crashes>>

(* Mistake: a listing that was cut short is left where it is. *)
FailureKeepsRows(v) ==
  /\ view[v].at = "fail" /\ Goes(v, "clean") /\ queryLock' = Nobody /\ writer' = Nobody
  /\ UNCHANGED <<repository, tables, restic, listing, temp, leftover, crashes>>

(* record_snapshot_refresh_failure: the row is read and then written. *)
FailureReads(v) ==
  /\ view[v].at = "fail"
  /\ view' = [view EXCEPT ![v].at = "record", ![v].before = meta[view[v].key]]
  /\ UNCHANGED <<repository, tables, refresh, leftover, crashes>>

FailureWrites(v) ==
  LET k == view[v].key
      was == view[v].before
  IN
  /\ view[v].at = "record" /\ Goes(v, "clean")
  /\ meta' = [meta EXCEPT ![k] = [was EXCEPT !.invalid = TRUE, !.row = TRUE]]
  /\ temp' = temp \ {v} /\ writer' = Nobody
  /\ UNCHANGED <<repository, rows, tasked, queryLock, restic, listing, leftover, crashes>>

(* Mistake: the lock of a refresh that did not help is not released. *)
CleansIfGood(v) ==
  /\ view[v].at = "clean" /\ Returns(v)
  /\ queryLock' = IF meta[view[v].key].invalid THEN queryLock ELSE Nobody
  /\ temp' = temp \ {v} /\ listing' = 0
  /\ UNCHANGED <<repository, tables, writer, restic, leftover, crashes>>

(* The temporary rows go, and then the lock. *)
Cleans(v) ==
  /\ view[v].at = "clean" /\ Returns(v)
  /\ queryLock' = Nobody /\ temp' = temp \ {v} /\ listing' = 0
  /\ UNCHANGED <<repository, tables, writer, restic, leftover, crashes>>
-----------------------------------------------------------------------------
(* restic snapshots *)
Lists ==
  /\ restic = "running" /\ listing = 0
  /\ \E v \in Viewers : queryLock = v /\ listing' = repo[view[v].key]
  /\ UNCHANGED <<repository, tables, view, queryLock, writer, restic, temp, leftover, crashes>>

Completes ==
  /\ restic = "running" /\ listing > 0 /\ restic' = "good"
  /\ UNCHANGED <<repository, tables, view, queryLock, writer, listing, temp, leftover, crashes>>

(* It fails, or query_timeout_seconds have passed and the timer terminates it. *)
Fails ==
  /\ restic = "running" /\ restic' = "bad"
  /\ UNCHANGED <<repository, tables, view, queryLock, writer, listing, temp, leftover, crashes>>

(* The server process dies; the file keeps what was committed. *)
Crash ==
  /\ crashes < MaxCrashes /\ crashes' = crashes + 1
  /\ worker' = NotAtWork
  /\ view' = [v \in Viewers |-> Idle]
  /\ queryLock' = Nobody /\ writer' = Nobody /\ restic' = "none" /\ listing' = 0
  /\ leftover' = IF temp # {} THEN leftover + 1 ELSE leftover
  /\ temp' = {}
  /\ UNCHANGED <<repo, announced, tables>>
-----------------------------------------------------------------------------
Rows(v) == InsertsRow(v) \/ CommitsRows(v)

Refreshing(v) ==
  \/ FindsValid(v) \/ FindsInvalid(v) \/ FindsRunning(v) \/ StartsRefresh(v) \/ StartsRestic(v)
  \/ ArrayEnds(v) \/ StreamBreaks(v) \/ ResticDone(v) \/ Swap(v)
  \/ FailureReads(v) \/ FailureWrites(v) \/ Cleans(v)

Next == \/ \E k \in Changing : Change(k)
        \/ \E k \in Keys : QueueChanges(k)
        \/ EndsUnannounced \/ Marks \/ MarkFails
        \/ \E v \in Viewers : Refreshing(v) \/ Rows(v) \/ \E k \in Keys : Asks(v, k)
        \/ Lists \/ Completes \/ Fails \/ Crash

Spec == Init /\ [][Next]_vars

(* A viewer's thread goes on, a listing ends, the timer fires and a terminated restic is gone. *)
FairSpec == Spec /\ WF_vars(Fails) /\ \A v \in Viewers : WF_vars(Refreshing(v))
-----------------------------------------------------------------------------
TypeOK ==
  /\ repo \in [Keys -> Nat] /\ announced \in [Keys -> Nat]
  /\ meta \in [Keys -> Meta] /\ rows \in [Keys -> Nat] /\ tasked \subseteq Keys
  /\ worker \in [at : {"idle", "changed"}, key : Keys \union {NoKey}] /\ view \in [Viewers -> AView]
  /\ queryLock \in Viewers \union {Nobody} /\ writer \in Viewers \union {Nobody}
  /\ restic \in {"none", "running", "good", "bad"} /\ listing \in Nat
  /\ temp \subseteq Viewers /\ leftover \in Nat /\ crashes \in Nat

(* docstring at snapshot_db.py:233: a list that is shown as valid has every      *)
(* change whose mark was written, also one marked while the list was being read. *)
AnnouncedIsShown == \A k \in Keys : ~meta[k].invalid => rows[k] >= announced[k]

(* A row of snapshot_meta that says valid describes the rows that are stored,    *)
(* whatever was pruned, marked from an older row or cut off by a crash.          *)
ValidHasRows == \A k \in Keys : ~meta[k].invalid => rows[k] > 0 /\ rows[k] = meta[k].version

(* Rows under a temporary key belong to the refresh that holds query_lock; only  *)
(* a crash leaves some behind (prune_orphan_snapshot_cache_keys passes them by). *)
TempRowsOwned ==
  /\ leftover <= crashes
  /\ \A v \in temp : queryLock = v

(* The rows of a repository that queued restore tasks refer to are never pruned, *)
(* though the queue changes beside the refreshes of another repository.          *)
KeepsTasked == [][\A k \in tasked : rows[k] # NoRows => rows'[k] # NoRows]_vars

(* A refresh gives query_lock back even if restic hangs: until then every other  *)
(* status only says that a refresh is running.                                   *)
RefreshEnds == \A v \in Viewers : queryLock = v ~> queryLock # v

(* docs/restore.md:58: a status asked for after the plugin has worked on the     *)
(* repository refreshes the list, so no valid list is older than the repository. *)
OperatedIsRefreshed ==
  worker.at = "idle" => \A k \in Keys : ~meta[k].invalid => rows[k] = repo[k]
=============================================================================
