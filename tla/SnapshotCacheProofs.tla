------------------------ MODULE SnapshotCacheProofs ------------------------
(***************************************************************************)
(* Proofs about SnapshotCache, for any number of viewers, configurations,   *)
(* changes and crashes.  One refresh runs at a time; the invariant says     *)
(* what it knows of the row it is about to replace: either nobody wrote it  *)
(* since the refresh read it, and then the listing has every marked change, *)
(* or a mark was written, and then the row shows it.                        *)
(***************************************************************************)
EXTENDS SnapshotCache, TLAPS

Holding == {"start", "import", "exit", "swap", "fail", "record", "clean"}
Listing == {"import", "exit", "swap"}

(* query_lock is held from the start of a refresh to its clean-up; restic runs, *)
(* rows are listed and temporary rows exist only for its holder.                *)
KeysKnown == /\ worker.at = "changed" => worker.key \in Keys
             /\ \A v \in Viewers : view[v].at # "idle" => view[v].key \in Keys
OneRefresh ==
  /\ \A v \in Viewers : /\ view[v].at \in Holding <=> queryLock = v
                        /\ view[v].at \in {"exit", "swap"} => listing > 0
                        /\ view[v].at = "start" => listing = 0
                        /\ restic # "none" /\ queryLock = v => view[v].at \in {"import", "exit"}
  /\ queryLock = Nobody => listing = 0 /\ restic = "none"

(* Marks follow changes, and every mark has a reason of its own. *)
MarksInOrder ==
  /\ \A k \in Keys : announced[k] <= repo[k] /\ meta[k].reason <= announced[k] /\ repo[k] > 0
  /\ worker.at = "changed" => announced[worker.key] < repo[worker.key]

(* What the refresh of v knows of the row that it will replace. *)
Current(v) ==
  LET k == view[v].key
      b == view[v].before
  IN  \/ meta[k] = b /\ (listing > 0 => listing >= announced[k])
      \/ meta[k].row /\ meta[k].invalid /\ meta[k].reason > b.reason
RefreshKnows ==
  \A v \in Viewers : /\ view[v].at \in Listing => Current(v)
                     /\ view[v].at \in Listing \union {"record"} =>
                          view[v].before.reason <= announced[view[v].key]

Owned == TypeOK /\ KeysKnown /\ OneRefresh /\ TempRowsOwned /\ ValidHasRows
Marked == MarksInOrder /\ RefreshKnows /\ AnnouncedIsShown
IInv == Owned /\ (~SameSecond => Marked)
-----------------------------------------------------------------------------
(* What a step does to the viewers and to the row it writes, field by field. *)
Ats == {"idle", "check", "lock", "start", "import", "exit", "swap", "fail", "record", "clean"}

Alone(v) == view' \in [Viewers -> AView] /\ \A u \in Viewers : u # v => view'[u] = view[u]
Went(v, a) == /\ Alone(v) /\ view'[v].at = a
              /\ view'[v].key = view[v].key /\ view'[v].before = view[v].before
Noted(v, a) == /\ Alone(v) /\ view'[v].at = a
               /\ view'[v].key = view[v].key /\ view'[v].before = meta[view[v].key]
Left(v) == Alone(v) /\ view'[v] = Idle

LEMMA GoEffect ==
  ASSUME TypeOK, NEW v \in Viewers, NEW a \in Ats, Goes(v, a)
  PROVE  Went(v, a)
BY DEF TypeOK, AView, Ats, Goes, Went, Alone

LEMMA NoteEffect ==
  ASSUME TypeOK, NEW v \in Viewers, NEW a \in Ats, view[v].key \in Keys,
         view' = [view EXCEPT ![v].at = a, ![v].before = meta[view[v].key]]
  PROVE  Noted(v, a)
<1>1. meta[view[v].key] \in Meta
  BY DEF TypeOK
<1> QED BY <1>1 DEF TypeOK, AView, Ats, Noted, Alone

LEMMA ReturnEffect ==
  ASSUME TypeOK, NEW v \in Viewers, Returns(v)
  PROVE  Left(v)
<1>1. Idle \in AView
  BY DEF Idle, AView, None, Meta
<1> QED BY <1>1 DEF TypeOK, Returns, Left, Alone

LEMMA AskEffect ==
  ASSUME TypeOK, NEW v \in Viewers, NEW k \in Keys, Asks(v, k)
  PROVE  Alone(v) /\ view'[v].at = "check" /\ view'[v].key = k
<1> DEFINE a == [at |-> "check", key |-> k, before |-> None]
<1>1. a \in AView /\ a.at = "check" /\ a.key = k
  BY DEF AView, None, Meta
<1>2. view' = [view EXCEPT ![v] = a]
  BY DEF Asks
<1> HIDE DEF a
<1> QED BY <1>1, <1>2 DEF TypeOK, Alone

LEMMA MarkEffect ==
  ASSUME TypeOK, Marks, worker.key \in Keys
  PROVE  LET k == worker.key IN
         /\ meta' \in [Keys -> Meta] /\ announced' \in [Keys -> Nat]
         /\ \A q \in Keys : q # k => meta'[q] = meta[q] /\ announced'[q] = announced[q]
         /\ announced'[k] = repo[k] /\ meta'[k].row /\ meta'[k].invalid
         /\ meta'[k].reason \in Reasons(k) /\ worker' = NotAtWork
         /\ UNCHANGED <<repo, rows, tasked, refresh, view, leftover, crashes>>
<1> DEFINE k == worker.key
           row(why) == [version |-> 0, invalid |-> TRUE, reason |-> why, row |-> TRUE]
<1>1. PICK why \in Reasons(k) : meta' = [meta EXCEPT ![k] = row(why)]
  BY DEF Marks
<1>2. why \in Nat
  BY DEF Reasons, TypeOK
<1>3. row(why) \in Meta /\ row(why).reason = why /\ row(why).row /\ row(why).invalid
  BY <1>2 DEF Meta
<1> HIDE DEF row
<1>4. /\ meta' \in [Keys -> Meta] /\ meta'[k] = row(why)
      /\ \A q \in Keys : q # k => meta'[q] = meta[q]
  BY <1>1, <1>3 DEF TypeOK
<1>5. /\ announced' \in [Keys -> Nat] /\ announced'[k] = repo[k]
      /\ \A q \in Keys : q # k => announced'[q] = announced[q]
  BY DEF Marks, TypeOK
<1>6. worker' = NotAtWork /\ UNCHANGED <<repo, rows, tasked, refresh, view, leftover, crashes>>
  BY DEF Marks
<1> QED BY <1>1, <1>3, <1>4, <1>5, <1>6

(* A refresh replaces the row of its key and forgets some others. *)
LEMMA SwapEffect ==
  ASSUME TypeOK, NEW v \in Viewers, view[v].key \in Keys, Swap(v)
  PROVE  LET k == view[v].key
             mark == StillInvalid(meta[k], view[v].before)
         IN /\ meta' \in [Keys -> Meta] /\ rows' \in [Keys -> Nat] /\ Went(v, "clean")
            /\ rows'[k] = listing /\ meta'[k].row /\ meta'[k].invalid = mark
            /\ ~mark => meta'[k].version = listing /\ meta'[k].reason = 0
            /\ mark => meta'[k].reason = meta[k].reason
            /\ \A q \in Keys : q # k =>
                 \/ q \notin tasked /\ meta'[q] = None
                 \/ meta'[q] = meta[q] /\ rows'[q] = rows[q]
            /\ UNCHANGED <<repository, tasked, queryLock, writer, restic, listing, leftover,
                           crashes>>
            /\ temp' = temp \ {v}
<1> DEFINE k == view[v].key
           mark == StillInvalid(meta[k], view[v].before)
           new == [version |-> IF mark THEN 0 ELSE listing, invalid |-> mark, row |-> TRUE,
                   reason |-> IF mark THEN meta[k].reason ELSE 0]
<1>1. meta[k] \in Meta /\ view[v].before \in Meta /\ listing \in Nat
  BY DEF TypeOK, AView
<1>2. mark \in BOOLEAN
  BY <1>1 DEF StillInvalid, Meta
<1>3. /\ new \in Meta /\ new.row /\ new.invalid = mark
      /\ ~mark => new.version = listing /\ new.reason = 0
      /\ mark => new.reason = meta[k].reason
  BY <1>1, <1>2 DEF Meta
<1>4. None \in Meta
  BY DEF None, Meta
<1>5. /\ rows' = [q \in Keys |->
                   IF q = k THEN listing ELSE IF q \in Orphans(k) THEN NoRows ELSE rows[q]]
      /\ meta' = [q \in Keys |-> IF q = k THEN new ELSE IF q \in Orphans(k) THEN None ELSE meta[q]]
  BY DEF Swap, MetaDeleted
<1> HIDE DEF new, mark
<1>6. /\ meta' \in [Keys -> Meta] /\ meta'[k] = new
      /\ \A q \in Keys : q # k => meta'[q] = IF q \in Orphans(k) THEN None ELSE meta[q]
  BY <1>3, <1>4, <1>5 DEF TypeOK
<1>7. /\ rows' \in [Keys -> Nat] /\ rows'[k] = listing
      /\ \A q \in Keys : q # k => rows'[q] = IF q \in Orphans(k) THEN NoRows ELSE rows[q]
  BY <1>1, <1>5 DEF TypeOK, NoRows
<1>8. \A q \in Orphans(k) : q \notin tasked
  BY DEF Orphans
<1>9. /\ Went(v, "clean") /\ temp' = temp \ {v}
      /\ UNCHANGED <<repository, tasked, queryLock, writer, restic, listing, leftover, crashes>>
  BY GoEffect DEF Swap, Ats
<1> QED BY <1>3, <1>6, <1>7, <1>8, <1>9 DEF mark

(* A failed refresh writes the row it has read, as an invalid one. *)
LEMMA FailureEffect ==
  ASSUME TypeOK, NEW v \in Viewers, view[v].key \in Keys, FailureWrites(v)
  PROVE  LET k == view[v].key IN
         /\ meta' \in [Keys -> Meta] /\ Went(v, "clean")
         /\ meta'[k].invalid /\ meta'[k].reason = view[v].before.reason
         /\ \A q \in Keys : q # k => meta'[q] = meta[q]
         /\ UNCHANGED <<repository, rows, tasked, queryLock, restic, listing, leftover, crashes>>
         /\ temp' = temp \ {v} /\ writer' = Nobody
<1> DEFINE k == view[v].key
           new == [view[v].before EXCEPT !.invalid = TRUE, !.row = TRUE]
<1>1. view[v].before \in Meta
  BY DEF TypeOK, AView
<1>2. new \in Meta /\ new.invalid /\ new.reason = view[v].before.reason
  BY <1>1 DEF Meta
<1>3. meta' = [meta EXCEPT ![k] = new]
  BY DEF FailureWrites
<1> HIDE DEF new
<1>4. meta' \in [Keys -> Meta] /\ meta'[k] = new /\ \A q \in Keys : q # k => meta'[q] = meta[q]
  BY <1>2, <1>3 DEF TypeOK
<1>5. /\ Went(v, "clean") /\ temp' = temp \ {v} /\ writer' = Nobody
      /\ UNCHANGED <<repository, rows, tasked, queryLock, restic, listing, leftover, crashes>>
  BY GoEffect DEF FailureWrites, Ats
<1> QED BY <1>2, <1>4, <1>5
-----------------------------------------------------------------------------
(* No step takes a variable out of its type. *)
LEMMA TypeStep ==
  ASSUME TypeOK, KeysKnown, OneRefresh, [Next]_vars
  PROVE  TypeOK'
<1> USE DEF TypeOK, KeysKnown, NotAtWork, repository, tables, refresh, Went, Noted, Left,
            Alone, Idle, Ats
<1>1. CASE EndsUnannounced
  BY <1>1 DEF EndsUnannounced
<1>2. CASE Marks
  BY <1>2, MarkEffect DEF Marks
<1>3. CASE MarkFails
  BY <1>3 DEF MarkFails
<1>4. CASE Lists
  <2>1. listing' \in Nat
    BY <1>4 DEF Lists, OneRefresh, Holding
  <2> QED BY <1>4, <2>1 DEF Lists
<1>5. CASE Completes
  BY <1>5 DEF Completes
<1>6. CASE Fails
  BY <1>6 DEF Fails
<1>7. CASE Crash
  BY <1>7 DEF Crash, AView, None, Meta
<1>8. ASSUME NEW k \in Keys, Change(k) PROVE TypeOK'
  <2>1. repo' \in [Keys -> Nat] /\ worker' = [worker EXCEPT !.at = "changed", !.key = k]
    BY <1>8 DEF Change
  <2>2. worker' \in [at : {"idle", "changed"}, key : Keys \union {NoKey}]
    BY <2>1
  <2> QED BY <1>8, <2>1, <2>2 DEF Change
<1>9. ASSUME NEW k \in Keys, QueueChanges(k) PROVE TypeOK'
  BY <1>9 DEF QueueChanges
<1>10. ASSUME NEW v \in Viewers, NEW k \in Keys, Asks(v, k) PROVE TypeOK'
  BY <1>10, AskEffect DEF Asks
<1>11. ASSUME NEW v \in Viewers, FindsValid(v) PROVE TypeOK'
  BY <1>11, ReturnEffect DEF FindsValid
<1>12. ASSUME NEW v \in Viewers, FindsInvalid(v) PROVE TypeOK'
  BY <1>12, GoEffect DEF FindsInvalid
<1>13. ASSUME NEW v \in Viewers, FindsRunning(v) PROVE TypeOK'
  BY <1>13, ReturnEffect DEF FindsRunning
<1>14. ASSUME NEW v \in Viewers, StartsRefresh(v) PROVE TypeOK'
  BY <1>14, GoEffect DEF StartsRefresh
<1>15. ASSUME NEW v \in Viewers, StartsRestic(v) PROVE TypeOK'
  BY <1>15, GoEffect, NoteEffect DEF StartsRestic
<1>16. ASSUME NEW v \in Viewers, InsertsRow(v) PROVE TypeOK'
  BY <1>16 DEF InsertsRow
<1>17. ASSUME NEW v \in Viewers, CommitsRows(v) PROVE TypeOK'
  BY <1>17 DEF CommitsRows
<1>18. ASSUME NEW v \in Viewers, ArrayEnds(v) PROVE TypeOK'
  BY <1>18, GoEffect DEF ArrayEnds
<1>19. ASSUME NEW v \in Viewers, StreamBreaks(v) PROVE TypeOK'
  BY <1>19, GoEffect DEF StreamBreaks
<1>20. ASSUME NEW v \in Viewers, ResticDone(v) PROVE TypeOK'
  BY <1>20, GoEffect DEF ResticDone
<1>21. ASSUME NEW v \in Viewers, Swap(v) PROVE TypeOK'
  BY <1>21, SwapEffect DEF Swap
<1>22. ASSUME NEW v \in Viewers, FailureReads(v) PROVE TypeOK'
  BY <1>22, NoteEffect DEF FailureReads
<1>23. ASSUME NEW v \in Viewers, FailureWrites(v) PROVE TypeOK'
  BY <1>23, FailureEffect DEF FailureWrites
<1>24. ASSUME NEW v \in Viewers, Cleans(v) PROVE TypeOK'
  BY <1>24, ReturnEffect DEF Cleans
<1>25. CASE UNCHANGED vars
  BY <1>25 DEF vars
<1> QED
  BY <1>1, <1>2, <1>3, <1>4, <1>5, <1>6, <1>7, <1>8, <1>9, <1>10, <1>11, <1>12, <1>13,
     <1>14, <1>15, <1>16, <1>17, <1>18, <1>19, <1>20, <1>21, <1>22, <1>23, <1>24, <1>25,
     CacheAssumption
     DEF Next, Refreshing, Rows

(* Whoever is at work knows the key it works on. *)
LEMMA KeysStep ==
  ASSUME TypeOK, KeysKnown, [Next]_vars
  PROVE  KeysKnown'
<1> USE DEF TypeOK, KeysKnown, NotAtWork, repository, tables, refresh, Went, Noted, Left,
            Alone, Idle, Ats
<1>1. CASE EndsUnannounced
  BY <1>1 DEF EndsUnannounced
<1>2. CASE Marks
  BY <1>2, MarkEffect DEF Marks
<1>3. CASE MarkFails
  BY <1>3 DEF MarkFails
<1>4. CASE Lists
  BY <1>4 DEF Lists
<1>5. CASE Completes
  BY <1>5 DEF Completes
<1>6. CASE Fails
  BY <1>6 DEF Fails
<1>7. CASE Crash
  BY <1>7 DEF Crash
<1>8. ASSUME NEW k \in Keys, Change(k) PROVE KeysKnown'
  BY <1>8 DEF Change
<1>9. ASSUME NEW k \in Keys, QueueChanges(k) PROVE KeysKnown'
  BY <1>9 DEF QueueChanges
<1>10. ASSUME NEW v \in Viewers, NEW k \in Keys, Asks(v, k) PROVE KeysKnown'
  BY <1>10, AskEffect DEF Asks
<1>11. ASSUME NEW v \in Viewers, FindsValid(v) PROVE KeysKnown'
  BY <1>11, ReturnEffect DEF FindsValid
<1>12. ASSUME NEW v \in Viewers, FindsInvalid(v) PROVE KeysKnown'
  BY <1>12, GoEffect DEF FindsInvalid
<1>13. ASSUME NEW v \in Viewers, FindsRunning(v) PROVE KeysKnown'
  BY <1>13, ReturnEffect DEF FindsRunning
<1>14. ASSUME NEW v \in Viewers, StartsRefresh(v) PROVE KeysKnown'
  BY <1>14, GoEffect DEF StartsRefresh
<1>15. ASSUME NEW v \in Viewers, StartsRestic(v) PROVE KeysKnown'
  <2>1. view[v].key \in Keys /\ view[v].at = "start"
    BY <1>15 DEF StartsRestic
  <2>2. UNCHANGED <<repository, tables, queryLock, writer, listing, temp, leftover, crashes>>
    BY <1>15 DEF StartsRestic
  <2>3. \/ restic' = "running" /\ Noted(v, "import")
        \/ restic' = "none" /\ Went(v, "fail")
    BY <1>15, <2>1, GoEffect, NoteEffect DEF StartsRestic
  <2> QED BY <2>1, <2>2, <2>3
<1>16. ASSUME NEW v \in Viewers, InsertsRow(v) PROVE KeysKnown'
  BY <1>16 DEF InsertsRow
<1>17. ASSUME NEW v \in Viewers, CommitsRows(v) PROVE KeysKnown'
  BY <1>17 DEF CommitsRows
<1>18. ASSUME NEW v \in Viewers, ArrayEnds(v) PROVE KeysKnown'
  BY <1>18, GoEffect DEF ArrayEnds
<1>19. ASSUME NEW v \in Viewers, StreamBreaks(v) PROVE KeysKnown'
  BY <1>19, GoEffect DEF StreamBreaks
<1>20. ASSUME NEW v \in Viewers, ResticDone(v) PROVE KeysKnown'
  BY <1>20, GoEffect DEF ResticDone
<1>21. ASSUME NEW v \in Viewers, Swap(v) PROVE KeysKnown'
  <2>1. view[v].key \in Keys /\ view[v].at = "swap"
    BY <1>21 DEF Swap
  <2>2. Went(v, "clean") /\ UNCHANGED <<worker, queryLock, restic, listing>>
    BY <1>21, <2>1, SwapEffect
  <2> QED BY <2>1, <2>2
<1>22. ASSUME NEW v \in Viewers, FailureReads(v) PROVE KeysKnown'
  BY <1>22, NoteEffect DEF FailureReads
<1>23. ASSUME NEW v \in Viewers, FailureWrites(v) PROVE KeysKnown'
  <2>1. view[v].key \in Keys /\ view[v].at = "record"
    BY <1>23 DEF FailureWrites
  <2>2. Went(v, "clean") /\ UNCHANGED <<worker, queryLock, restic, listing>>
    BY <1>23, <2>1, FailureEffect
  <2> QED BY <2>1, <2>2
<1>24. ASSUME NEW v \in Viewers, Cleans(v) PROVE KeysKnown'
  BY <1>24, ReturnEffect DEF Cleans
<1>25. CASE UNCHANGED vars
  BY <1>25 DEF vars
<1> QED
  BY <1>1, <1>2, <1>3, <1>4, <1>5, <1>6, <1>7, <1>8, <1>9, <1>10, <1>11, <1>12, <1>13,
     <1>14, <1>15, <1>16, <1>17, <1>18, <1>19, <1>20, <1>21, <1>22, <1>23, <1>24, <1>25,
     CacheAssumption
     DEF Next, Refreshing, Rows

(* At most one refresh runs, and what it uses is its own. *)
LEMMA LockStep ==
  ASSUME TypeOK, KeysKnown, OneRefresh, [Next]_vars
  PROVE  OneRefresh'
<1> USE DEF TypeOK, KeysKnown, OneRefresh, Holding, repository, tables, refresh, Went,
            Noted, Left, Alone, Idle, Ats
<1> USE NobodyAssumption
<1>1. CASE EndsUnannounced
  BY <1>1 DEF EndsUnannounced
<1>2. CASE Marks
  BY <1>2, MarkEffect DEF Marks
<1>3. CASE MarkFails
  BY <1>3 DEF MarkFails
<1>4. CASE Lists
  BY <1>4 DEF Lists
<1>5. CASE Completes
  BY <1>5 DEF Completes
<1>6. CASE Fails
  BY <1>6 DEF Fails
<1>7. CASE Crash
  BY <1>7 DEF Crash
<1>8. ASSUME NEW k \in Keys, Change(k) PROVE OneRefresh'
  BY <1>8 DEF Change
<1>9. ASSUME NEW k \in Keys, QueueChanges(k) PROVE OneRefresh'
  BY <1>9 DEF QueueChanges
<1>10. ASSUME NEW v \in Viewers, NEW k \in Keys, Asks(v, k) PROVE OneRefresh'
  BY <1>10, AskEffect DEF Asks
<1>11. ASSUME NEW v \in Viewers, FindsValid(v) PROVE OneRefresh'
  BY <1>11, ReturnEffect DEF FindsValid
<1>12. ASSUME NEW v \in Viewers, FindsInvalid(v) PROVE OneRefresh'
  BY <1>12, GoEffect DEF FindsInvalid
<1>13. ASSUME NEW v \in Viewers, FindsRunning(v) PROVE OneRefresh'
  BY <1>13, ReturnEffect DEF FindsRunning
<1>14. ASSUME NEW v \in Viewers, StartsRefresh(v) PROVE OneRefresh'
  BY <1>14, GoEffect DEF StartsRefresh
<1>15. ASSUME NEW v \in Viewers, StartsRestic(v) PROVE OneRefresh'
  <2>1. view[v].key \in Keys /\ view[v].at = "start"
    BY <1>15 DEF StartsRestic
  <2>2. UNCHANGED <<repository, tables, queryLock, writer, listing, temp, leftover, crashes>>
    BY <1>15 DEF StartsRestic
  <2>3. \/ restic' = "running" /\ Noted(v, "import")
        \/ restic' = "none" /\ Went(v, "fail")
    BY <1>15, <2>1, GoEffect, NoteEffect DEF StartsRestic
  <2> QED BY <2>1, <2>2, <2>3
<1>16. ASSUME NEW v \in Viewers, InsertsRow(v) PROVE OneRefresh'
  BY <1>16 DEF InsertsRow
<1>17. ASSUME NEW v \in Viewers, CommitsRows(v) PROVE OneRefresh'
  BY <1>17 DEF CommitsRows
<1>18. ASSUME NEW v \in Viewers, ArrayEnds(v) PROVE OneRefresh'
  BY <1>18, GoEffect DEF ArrayEnds
<1>19. ASSUME NEW v \in Viewers, StreamBreaks(v) PROVE OneRefresh'
  BY <1>19, GoEffect DEF StreamBreaks
<1>20. ASSUME NEW v \in Viewers, ResticDone(v) PROVE OneRefresh'
  BY <1>20, GoEffect DEF ResticDone
<1>21. ASSUME NEW v \in Viewers, Swap(v) PROVE OneRefresh'
  <2>1. view[v].key \in Keys /\ view[v].at = "swap"
    BY <1>21 DEF Swap
  <2>2. Went(v, "clean") /\ UNCHANGED <<worker, queryLock, restic, listing>>
    BY <1>21, <2>1, SwapEffect
  <2> QED BY <2>1, <2>2
<1>22. ASSUME NEW v \in Viewers, FailureReads(v) PROVE OneRefresh'
  <2>1. view[v].key \in Keys /\ view[v].at = "fail"
    BY <1>22 DEF FailureReads
  <2>2. Noted(v, "record") /\ UNCHANGED <<worker, queryLock, restic, listing>>
    BY <1>22, <2>1, NoteEffect DEF FailureReads
  <2> QED BY <2>1, <2>2
<1>23. ASSUME NEW v \in Viewers, FailureWrites(v) PROVE OneRefresh'
  <2>1. view[v].key \in Keys /\ view[v].at = "record"
    BY <1>23 DEF FailureWrites
  <2>2. Went(v, "clean") /\ UNCHANGED <<worker, queryLock, restic, listing>>
    BY <1>23, <2>1, FailureEffect
  <2> QED BY <2>1, <2>2
<1>24. ASSUME NEW v \in Viewers, Cleans(v) PROVE OneRefresh'
  BY <1>24, ReturnEffect DEF Cleans
<1>25. CASE UNCHANGED vars
  BY <1>25 DEF vars
<1> QED
  BY <1>1, <1>2, <1>3, <1>4, <1>5, <1>6, <1>7, <1>8, <1>9, <1>10, <1>11, <1>12, <1>13,
     <1>14, <1>15, <1>16, <1>17, <1>18, <1>19, <1>20, <1>21, <1>22, <1>23, <1>24, <1>25,
     CacheAssumption
     DEF Next, Refreshing, Rows

(* Temporary rows go with the refresh that wrote them. *)
LEMMA TempStep ==
  ASSUME TypeOK, KeysKnown, OneRefresh, TempRowsOwned, [Next]_vars
  PROVE  TempRowsOwned'
<1> USE DEF TypeOK, KeysKnown, OneRefresh, TempRowsOwned, Holding, repository, tables,
            refresh
<1> USE NobodyAssumption
<1>1. CASE EndsUnannounced
  BY <1>1 DEF EndsUnannounced
<1>2. CASE Marks
  BY <1>2, MarkEffect DEF Marks
<1>3. CASE MarkFails
  BY <1>3 DEF MarkFails
<1>4. CASE Lists
  BY <1>4 DEF Lists
<1>5. CASE Completes
  BY <1>5 DEF Completes
<1>6. CASE Fails
  BY <1>6 DEF Fails
<1>7. CASE Crash
  BY <1>7 DEF Crash
<1>8. ASSUME NEW k \in Keys, Change(k) PROVE TempRowsOwned'
  BY <1>8 DEF Change
<1>9. ASSUME NEW k \in Keys, QueueChanges(k) PROVE TempRowsOwned'
  BY <1>9 DEF QueueChanges
<1>10. ASSUME NEW v \in Viewers, NEW k \in Keys, Asks(v, k) PROVE TempRowsOwned'
  BY <1>10, AskEffect DEF Asks
<1>11. ASSUME NEW v \in Viewers, FindsValid(v) PROVE TempRowsOwned'
  BY <1>11, ReturnEffect DEF FindsValid
<1>12. ASSUME NEW v \in Viewers, FindsInvalid(v) PROVE TempRowsOwned'
  BY <1>12, GoEffect DEF FindsInvalid
<1>13. ASSUME NEW v \in Viewers, FindsRunning(v) PROVE TempRowsOwned'
  BY <1>13, ReturnEffect DEF FindsRunning
<1>14. ASSUME NEW v \in Viewers, StartsRefresh(v) PROVE TempRowsOwned'
  BY <1>14, GoEffect DEF StartsRefresh
<1>15. ASSUME NEW v \in Viewers, StartsRestic(v) PROVE TempRowsOwned'
  BY <1>15, GoEffect, NoteEffect DEF StartsRestic
<1>16. ASSUME NEW v \in Viewers, InsertsRow(v) PROVE TempRowsOwned'
  BY <1>16 DEF InsertsRow
<1>17. ASSUME NEW v \in Viewers, CommitsRows(v) PROVE TempRowsOwned'
  BY <1>17 DEF CommitsRows
<1>18. ASSUME NEW v \in Viewers, ArrayEnds(v) PROVE TempRowsOwned'
  BY <1>18, GoEffect DEF ArrayEnds
<1>19. ASSUME NEW v \in Viewers, StreamBreaks(v) PROVE TempRowsOwned'
  BY <1>19, GoEffect DEF StreamBreaks
<1>20. ASSUME NEW v \in Viewers, ResticDone(v) PROVE TempRowsOwned'
  BY <1>20, GoEffect DEF ResticDone
<1>21. ASSUME NEW v \in Viewers, Swap(v) PROVE TempRowsOwned'
  BY <1>21, SwapEffect DEF Swap
<1>22. ASSUME NEW v \in Viewers, FailureReads(v) PROVE TempRowsOwned'
  BY <1>22, NoteEffect DEF FailureReads
<1>23. ASSUME NEW v \in Viewers, FailureWrites(v) PROVE TempRowsOwned'
  BY <1>23, FailureEffect DEF FailureWrites
<1>24. ASSUME NEW v \in Viewers, Cleans(v) PROVE TempRowsOwned'
  BY <1>24, ReturnEffect DEF Cleans
<1>25. CASE UNCHANGED vars
  BY <1>25 DEF vars
<1> QED
  BY <1>1, <1>2, <1>3, <1>4, <1>5, <1>6, <1>7, <1>8, <1>9, <1>10, <1>11, <1>12, <1>13,
     <1>14, <1>15, <1>16, <1>17, <1>18, <1>19, <1>20, <1>21, <1>22, <1>23, <1>24, <1>25,
     CacheAssumption
     DEF Next, Refreshing, Rows

(* A row becomes valid only together with the rows it describes. *)
LEMMA ValidStep ==
  ASSUME TypeOK, KeysKnown, OneRefresh, ValidHasRows, [Next]_vars
  PROVE  ValidHasRows'
<1> USE DEF TypeOK, KeysKnown, OneRefresh, ValidHasRows, NoRows, None, repository, tables,
            refresh
<1> USE NobodyAssumption
<1>1. CASE EndsUnannounced
  BY <1>1 DEF EndsUnannounced
<1>2. CASE Marks
  BY <1>2, MarkEffect DEF Marks
<1>3. CASE MarkFails
  BY <1>3 DEF MarkFails
<1>4. CASE Lists
  BY <1>4 DEF Lists
<1>5. CASE Completes
  BY <1>5 DEF Completes
<1>6. CASE Fails
  BY <1>6 DEF Fails
<1>7. CASE Crash
  BY <1>7 DEF Crash
<1>8. ASSUME NEW k \in Keys, Change(k) PROVE ValidHasRows'
  BY <1>8 DEF Change
<1>9. ASSUME NEW k \in Keys, QueueChanges(k) PROVE ValidHasRows'
  BY <1>9 DEF QueueChanges
<1>10. ASSUME NEW v \in Viewers, NEW k \in Keys, Asks(v, k) PROVE ValidHasRows'
  BY <1>10, AskEffect DEF Asks
<1>11. ASSUME NEW v \in Viewers, FindsValid(v) PROVE ValidHasRows'
  BY <1>11, ReturnEffect DEF FindsValid
<1>12. ASSUME NEW v \in Viewers, FindsInvalid(v) PROVE ValidHasRows'
  BY <1>12, GoEffect DEF FindsInvalid
<1>13. ASSUME NEW v \in Viewers, FindsRunning(v) PROVE ValidHasRows'
  BY <1>13, ReturnEffect DEF FindsRunning
<1>14. ASSUME NEW v \in Viewers, StartsRefresh(v) PROVE ValidHasRows'
  BY <1>14, GoEffect DEF StartsRefresh
<1>15. ASSUME NEW v \in Viewers, StartsRestic(v) PROVE ValidHasRows'
  BY <1>15, GoEffect, NoteEffect DEF StartsRestic
<1>16. ASSUME NEW v \in Viewers, InsertsRow(v) PROVE ValidHasRows'
  BY <1>16 DEF InsertsRow
<1>17. ASSUME NEW v \in Viewers, CommitsRows(v) PROVE ValidHasRows'
  BY <1>17 DEF CommitsRows
<1>18. ASSUME NEW v \in Viewers, ArrayEnds(v) PROVE ValidHasRows'
  BY <1>18, GoEffect DEF ArrayEnds
<1>19. ASSUME NEW v \in Viewers, StreamBreaks(v) PROVE ValidHasRows'
  BY <1>19, GoEffect DEF StreamBreaks
<1>20. ASSUME NEW v \in Viewers, ResticDone(v) PROVE ValidHasRows'
  BY <1>20, GoEffect DEF ResticDone
<1>21. ASSUME NEW v \in Viewers, Swap(v) PROVE ValidHasRows'
  <2>1. view[v].key \in Keys /\ listing > 0
    BY <1>21 DEF Swap
  <2> DEFINE k == view[v].key
  <2>2. /\ rows'[k] = listing /\ (~meta'[k].invalid => meta'[k].version = listing)
        /\ \A q \in Keys : q # k => meta'[q] = None \/ (meta'[q] = meta[q] /\ rows'[q] = rows[q])
    BY <1>21, <2>1, SwapEffect
  <2> HIDE DEF k
  <2> QED BY <2>1, <2>2
<1>22. ASSUME NEW v \in Viewers, FailureReads(v) PROVE ValidHasRows'
  BY <1>22, NoteEffect DEF FailureReads
<1>23. ASSUME NEW v \in Viewers, FailureWrites(v) PROVE ValidHasRows'
  BY <1>23, FailureEffect DEF FailureWrites
<1>24. ASSUME NEW v \in Viewers, Cleans(v) PROVE ValidHasRows'
  BY <1>24, ReturnEffect DEF Cleans
<1>25. CASE UNCHANGED vars
  BY <1>25 DEF vars
<1> QED
  BY <1>1, <1>2, <1>3, <1>4, <1>5, <1>6, <1>7, <1>8, <1>9, <1>10, <1>11, <1>12, <1>13,
     <1>14, <1>15, <1>16, <1>17, <1>18, <1>19, <1>20, <1>21, <1>22, <1>23, <1>24, <1>25,
     CacheAssumption
     DEF Next, Refreshing, Rows
-----------------------------------------------------------------------------
(* Every mark has a reason that is later than all earlier ones. *)
LEMMA MarksStep ==
  ASSUME TypeOK, KeysKnown, OneRefresh, MarksInOrder, RefreshKnows, ~SameSecond, [Next]_vars
  PROVE  MarksInOrder'
<1> USE DEF TypeOK, KeysKnown, MarksInOrder, Meta, None, NotAtWork, repository, tables,
            refresh
<1>1. CASE EndsUnannounced
  BY <1>1 DEF EndsUnannounced
<1>2. CASE Marks
  <2>1. worker.key \in Keys
    BY <1>2 DEF Marks
  <2> DEFINE k == worker.key
  <2>2. /\ announced' \in [Keys -> Nat] /\ announced'[k] = repo[k] /\ meta'[k].reason = repo[k]
        /\ meta'[k].row /\ meta'[k].invalid /\ worker'.at = "idle"
        /\ \A q \in Keys : q # k => meta'[q] = meta[q] /\ announced'[q] = announced[q]
        /\ UNCHANGED <<repo, rows, queryLock, restic, listing, view>>
    BY <1>2, <2>1, MarkEffect DEF Reasons, NotAtWork, refresh
  <2>3. announced[k] < repo[k]
    BY <1>2 DEF Marks, MarksInOrder
  <2> HIDE DEF k
  <2> QED BY <2>1, <2>2, <2>3
<1>3. CASE MarkFails
  BY <1>3 DEF MarkFails
<1>4. CASE Lists
  BY <1>4 DEF Lists
<1>5. CASE Completes
  BY <1>5 DEF Completes
<1>6. CASE Fails
  BY <1>6 DEF Fails
<1>7. CASE Crash
  BY <1>7 DEF Crash
<1>8. ASSUME NEW k \in Keys, Change(k) PROVE MarksInOrder'
  <2>1. /\ repo' \in [Keys -> Nat] /\ repo'[k] = repo[k] + 1
        /\ \A q \in Keys : q # k => repo'[q] = repo[q]
        /\ UNCHANGED <<announced, meta>> /\ worker'.key = k
    BY <1>8 DEF Change
  <2> QED BY <2>1
<1>9. ASSUME NEW k \in Keys, QueueChanges(k) PROVE MarksInOrder'
  BY <1>9 DEF QueueChanges
<1>10. ASSUME NEW v \in Viewers, NEW k \in Keys, Asks(v, k) PROVE MarksInOrder'
  BY <1>10, AskEffect DEF Asks
<1>11. ASSUME NEW v \in Viewers, FindsValid(v) PROVE MarksInOrder'
  BY <1>11, ReturnEffect DEF FindsValid
<1>12. ASSUME NEW v \in Viewers, FindsInvalid(v) PROVE MarksInOrder'
  BY <1>12, GoEffect DEF FindsInvalid
<1>13. ASSUME NEW v \in Viewers, FindsRunning(v) PROVE MarksInOrder'
  BY <1>13, ReturnEffect DEF FindsRunning
<1>14. ASSUME NEW v \in Viewers, StartsRefresh(v) PROVE MarksInOrder'
  BY <1>14, GoEffect DEF StartsRefresh
<1>15. ASSUME NEW v \in Viewers, StartsRestic(v) PROVE MarksInOrder'
  BY <1>15, GoEffect, NoteEffect DEF StartsRestic
<1>16. ASSUME NEW v \in Viewers, InsertsRow(v) PROVE MarksInOrder'
  BY <1>16 DEF InsertsRow
<1>17. ASSUME NEW v \in Viewers, CommitsRows(v) PROVE MarksInOrder'
  BY <1>17 DEF CommitsRows
<1>18. ASSUME NEW v \in Viewers, ArrayEnds(v) PROVE MarksInOrder'
  BY <1>18, GoEffect DEF ArrayEnds
<1>19. ASSUME NEW v \in Viewers, StreamBreaks(v) PROVE MarksInOrder'
  BY <1>19, GoEffect DEF StreamBreaks
<1>20. ASSUME NEW v \in Viewers, ResticDone(v) PROVE MarksInOrder'
  BY <1>20, GoEffect DEF ResticDone
<1>21. ASSUME NEW v \in Viewers, Swap(v) PROVE MarksInOrder'
  <2>1. view[v].key \in Keys /\ view[v].at = "swap" /\ queryLock = v
    BY <1>21 DEF Swap, OneRefresh, Holding
  <2> DEFINE k == view[v].key
             mark == StillInvalid(meta[k], view[v].before)
  <2>2. /\ meta'[k].reason \in {0, meta[k].reason} /\ meta' \in [Keys -> Meta]
        /\ rows'[k] = listing /\ meta'[k].invalid = mark /\ Went(v, "clean")
        /\ \A q \in Keys : q # k => meta'[q] = None \/ (meta'[q] = meta[q] /\ rows'[q] = rows[q])
        /\ UNCHANGED <<repo, announced, worker, queryLock, listing>>
    BY <1>21, <2>1, SwapEffect DEF StillInvalid
  <2> HIDE DEF k, mark
  <2>3. \A q \in Keys : meta'[q].reason <= announced[q]
    BY <2>2
  <2> QED BY <2>2, <2>3
<1>22. ASSUME NEW v \in Viewers, FailureReads(v) PROVE MarksInOrder'
  BY <1>22, NoteEffect DEF FailureReads
<1>23. ASSUME NEW v \in Viewers, FailureWrites(v) PROVE MarksInOrder'
  <2>1. view[v].key \in Keys /\ view[v].at = "record" /\ queryLock = v
    BY <1>23 DEF FailureWrites, OneRefresh, Holding
  <2> DEFINE k == view[v].key
  <2>2. /\ meta'[k].reason = view[v].before.reason /\ meta'[k].invalid /\ Went(v, "clean")
        /\ meta' \in [Keys -> Meta] /\ \A q \in Keys : q # k => meta'[q] = meta[q]
        /\ UNCHANGED <<repo, announced, worker, rows, queryLock, listing>>
    BY <1>23, <2>1, FailureEffect
  <2>3. meta'[k].reason <= announced[k]
    BY <2>1, <2>2 DEF RefreshKnows
  <2> HIDE DEF k
  <2> QED BY <2>2, <2>3
<1>24. ASSUME NEW v \in Viewers, Cleans(v) PROVE MarksInOrder'
  BY <1>24, ReturnEffect DEF Cleans
<1>25. CASE UNCHANGED vars
  BY <1>25 DEF vars
<1> QED
  BY <1>1, <1>2, <1>3, <1>4, <1>5, <1>6, <1>7, <1>8, <1>9, <1>10, <1>11, <1>12, <1>13,
     <1>14, <1>15, <1>16, <1>17, <1>18, <1>19, <1>20, <1>21, <1>22, <1>23, <1>24, <1>25,
     CacheAssumption
     DEF Next, Refreshing, Rows

(* The refresh that holds query_lock knows what became of its row. *)
LEMMA KnowsStep ==
  ASSUME TypeOK, KeysKnown, OneRefresh, MarksInOrder, RefreshKnows, ~SameSecond, [Next]_vars
  PROVE  RefreshKnows'
<1> USE DEF TypeOK, KeysKnown, OneRefresh, MarksInOrder, RefreshKnows, Current, Holding,
            Listing, AView, Meta, None, repository, tables, refresh, Went, Noted, Left,
            Alone, Idle, Ats
<1> USE NobodyAssumption
<1> DEFINE Knows(u) == /\ view[u].at \in Listing => Current(u)
                       /\ view[u].at \in Listing \union {"record"} =>
                            view[u].before.reason <= announced[view[u].key]
<1> SUFFICES ASSUME NEW u \in Viewers PROVE Knows(u)'
  OBVIOUS
<1>1. CASE EndsUnannounced
  BY <1>1 DEF EndsUnannounced
<1>2. CASE Marks
  <2>1. worker.key \in Keys
    BY <1>2 DEF Marks
  <2> DEFINE k == worker.key
  <2>2. /\ announced' \in [Keys -> Nat] /\ announced'[k] = repo[k] /\ meta'[k].reason = repo[k]
        /\ meta'[k].row /\ meta'[k].invalid /\ worker'.at = "idle"
        /\ \A q \in Keys : q # k => meta'[q] = meta[q] /\ announced'[q] = announced[q]
        /\ UNCHANGED <<repo, rows, queryLock, restic, listing, view>>
    BY <1>2, <2>1, MarkEffect DEF Reasons, NotAtWork, refresh
  <2>3. announced[k] < repo[k]
    BY <1>2 DEF Marks, MarksInOrder
  <2> HIDE DEF k
  <2>4. ASSUME view[u].at \in Listing PROVE Current(u)'
    BY <2>1, <2>2, <2>3, <2>4
  <2> QED BY <2>1, <2>2, <2>3, <2>4
<1>3. CASE MarkFails
  BY <1>3 DEF MarkFails
<1>4. CASE Lists
  <2>1. PICK v \in Viewers : queryLock = v /\ listing' = repo[view[v].key]
    BY <1>4 DEF Lists
  <2>2. view[v].key \in Keys /\ listing' >= announced[view[v].key]
    BY <2>1
  <2>3. UNCHANGED <<repository, meta, view>>
    BY <1>4 DEF Lists
  <2>4. view[u].at \in Listing => u = v
    BY <2>1
  <2> QED BY <2>2, <2>3, <2>4
<1>5. CASE Completes
  BY <1>5 DEF Completes
<1>6. CASE Fails
  BY <1>6 DEF Fails
<1>7. CASE Crash
  BY <1>7 DEF Crash
<1>8. ASSUME NEW k \in Keys, Change(k) PROVE Knows(u)'
  BY <1>8 DEF Change
<1>9. ASSUME NEW k \in Keys, QueueChanges(k) PROVE Knows(u)'
  BY <1>9 DEF QueueChanges
<1>10. ASSUME NEW v \in Viewers, NEW k \in Keys, Asks(v, k) PROVE Knows(u)'
  BY <1>10, AskEffect DEF Asks
<1>11. ASSUME NEW v \in Viewers, FindsValid(v) PROVE Knows(u)'
  <2>1. Left(v) /\ UNCHANGED <<repository, tables, refresh>>
    BY <1>11, ReturnEffect DEF FindsValid
  <2>2. view'[v].at = "idle" /\ (u # v => view'[u] = view[u])
    BY <2>1
  <2>3. CASE u = v
    BY <2>2, <2>3
  <2>4. CASE u # v
    BY <2>1, <2>2, <2>4
  <2> QED BY <2>3, <2>4
<1>12. ASSUME NEW v \in Viewers, FindsInvalid(v) PROVE Knows(u)'
  BY <1>12, GoEffect DEF FindsInvalid
<1>13. ASSUME NEW v \in Viewers, FindsRunning(v) PROVE Knows(u)'
  <2>1. Left(v) /\ UNCHANGED <<repository, tables, refresh>>
    BY <1>13, ReturnEffect DEF FindsRunning
  <2>2. view'[v].at = "idle" /\ (u # v => view'[u] = view[u])
    BY <2>1
  <2>3. CASE u = v
    BY <2>2, <2>3
  <2>4. CASE u # v
    BY <2>1, <2>2, <2>4
  <2> QED BY <2>3, <2>4
<1>14. ASSUME NEW v \in Viewers, StartsRefresh(v) PROVE Knows(u)'
  BY <1>14, GoEffect DEF StartsRefresh
<1>15. ASSUME NEW v \in Viewers, StartsRestic(v) PROVE Knows(u)'
  <2>1. view[v].key \in Keys /\ view[v].at = "start" /\ listing = 0
    BY <1>15 DEF StartsRestic, OneRefresh
  <2>2. UNCHANGED <<repository, tables, queryLock, listing>>
    BY <1>15 DEF StartsRestic
  <2>3. Noted(v, "import") \/ Went(v, "fail")
    BY <1>15, <2>1, GoEffect, NoteEffect DEF StartsRestic
  <2> QED BY <2>1, <2>2, <2>3
<1>16. ASSUME NEW v \in Viewers, InsertsRow(v) PROVE Knows(u)'
  BY <1>16 DEF InsertsRow
<1>17. ASSUME NEW v \in Viewers, CommitsRows(v) PROVE Knows(u)'
  BY <1>17 DEF CommitsRows
<1>18. ASSUME NEW v \in Viewers, ArrayEnds(v) PROVE Knows(u)'
  BY <1>18, GoEffect DEF ArrayEnds
<1>19. ASSUME NEW v \in Viewers, StreamBreaks(v) PROVE Knows(u)'
  BY <1>19, GoEffect DEF StreamBreaks
<1>20. ASSUME NEW v \in Viewers, ResticDone(v) PROVE Knows(u)'
  BY <1>20, GoEffect DEF ResticDone
<1>21. ASSUME NEW v \in Viewers, Swap(v) PROVE Knows(u)'
  <2>1. view[v].key \in Keys /\ view[v].at = "swap" /\ queryLock = v
    BY <1>21 DEF Swap, OneRefresh, Holding
  <2> DEFINE k == view[v].key
             mark == StillInvalid(meta[k], view[v].before)
  <2>2. /\ meta'[k].reason \in {0, meta[k].reason} /\ meta' \in [Keys -> Meta]
        /\ rows'[k] = listing /\ meta'[k].invalid = mark /\ Went(v, "clean")
        /\ \A q \in Keys : q # k => meta'[q] = None \/ (meta'[q] = meta[q] /\ rows'[q] = rows[q])
        /\ UNCHANGED <<repo, announced, worker, queryLock, listing>>
    BY <1>21, <2>1, SwapEffect DEF StillInvalid
  <2>3. view'[u].at \notin Listing \union {"record"}
    BY <2>1, <2>2
  <2> QED BY <2>3
<1>22. ASSUME NEW v \in Viewers, FailureReads(v) PROVE Knows(u)'
  <2>1. view[v].key \in Keys /\ view[v].at = "fail"
    BY <1>22 DEF FailureReads
  <2>2. Noted(v, "record") /\ UNCHANGED <<repository, meta>>
    BY <1>22, <2>1, NoteEffect DEF FailureReads
  <2> QED BY <2>1, <2>2
<1>23. ASSUME NEW v \in Viewers, FailureWrites(v) PROVE Knows(u)'
  <2>1. view[v].key \in Keys /\ view[v].at = "record" /\ queryLock = v
    BY <1>23 DEF FailureWrites, OneRefresh, Holding
  <2> DEFINE k == view[v].key
  <2>2. /\ meta'[k].reason = view[v].before.reason /\ meta'[k].invalid /\ Went(v, "clean")
        /\ meta' \in [Keys -> Meta] /\ \A q \in Keys : q # k => meta'[q] = meta[q]
        /\ UNCHANGED <<repo, announced, worker, rows, queryLock, listing>>
    BY <1>23, <2>1, FailureEffect
  <2>3. view'[u].at \notin Listing \union {"record"}
    BY <2>1, <2>2
  <2> QED BY <2>3
<1>24. ASSUME NEW v \in Viewers, Cleans(v) PROVE Knows(u)'
  BY <1>24, ReturnEffect DEF Cleans
<1>25. CASE UNCHANGED vars
  BY <1>25 DEF vars
<1> QED
  BY <1>1, <1>2, <1>3, <1>4, <1>5, <1>6, <1>7, <1>8, <1>9, <1>10, <1>11, <1>12, <1>13,
     <1>14, <1>15, <1>16, <1>17, <1>18, <1>19, <1>20, <1>21, <1>22, <1>23, <1>24, <1>25,
     CacheAssumption
     DEF Next, Refreshing, Rows

(* A valid row has every marked change. *)
LEMMA ShownStep ==
  ASSUME TypeOK, KeysKnown, OneRefresh, MarksInOrder, RefreshKnows, ~SameSecond,
         AnnouncedIsShown, [Next]_vars
  PROVE  AnnouncedIsShown'
<1> USE DEF TypeOK, KeysKnown, OneRefresh, AnnouncedIsShown, Listing, None, NotAtWork,
            repository, tables, refresh
<1>1. CASE EndsUnannounced
  BY <1>1 DEF EndsUnannounced
<1>2. CASE Marks
  <2>1. worker.key \in Keys
    BY <1>2 DEF Marks
  <2> DEFINE k == worker.key
  <2>2. /\ announced' \in [Keys -> Nat] /\ announced'[k] = repo[k] /\ meta'[k].reason = repo[k]
        /\ meta'[k].row /\ meta'[k].invalid /\ worker'.at = "idle"
        /\ \A q \in Keys : q # k => meta'[q] = meta[q] /\ announced'[q] = announced[q]
        /\ UNCHANGED <<repo, rows, queryLock, restic, listing, view>>
    BY <1>2, <2>1, MarkEffect DEF Reasons, NotAtWork, refresh
  <2>3. announced[k] < repo[k]
    BY <1>2 DEF Marks, MarksInOrder
  <2> HIDE DEF k
  <2> QED BY <2>1, <2>2, <2>3
<1>3. CASE MarkFails
  BY <1>3 DEF MarkFails
<1>4. CASE Lists
  BY <1>4 DEF Lists
<1>5. CASE Completes
  BY <1>5 DEF Completes
<1>6. CASE Fails
  BY <1>6 DEF Fails
<1>7. CASE Crash
  BY <1>7 DEF Crash
<1>8. ASSUME NEW k \in Keys, Change(k) PROVE AnnouncedIsShown'
  BY <1>8 DEF Change
<1>9. ASSUME NEW k \in Keys, QueueChanges(k) PROVE AnnouncedIsShown'
  BY <1>9 DEF QueueChanges
<1>10. ASSUME NEW v \in Viewers, NEW k \in Keys, Asks(v, k) PROVE AnnouncedIsShown'
  BY <1>10, AskEffect DEF Asks
<1>11. ASSUME NEW v \in Viewers, FindsValid(v) PROVE AnnouncedIsShown'
  BY <1>11, ReturnEffect DEF FindsValid
<1>12. ASSUME NEW v \in Viewers, FindsInvalid(v) PROVE AnnouncedIsShown'
  BY <1>12, GoEffect DEF FindsInvalid
<1>13. ASSUME NEW v \in Viewers, FindsRunning(v) PROVE AnnouncedIsShown'
  BY <1>13, ReturnEffect DEF FindsRunning
<1>14. ASSUME NEW v \in Viewers, StartsRefresh(v) PROVE AnnouncedIsShown'
  BY <1>14, GoEffect DEF StartsRefresh
<1>15. ASSUME NEW v \in Viewers, StartsRestic(v) PROVE AnnouncedIsShown'
  BY <1>15, GoEffect, NoteEffect DEF StartsRestic
<1>16. ASSUME NEW v \in Viewers, InsertsRow(v) PROVE AnnouncedIsShown'
  BY <1>16 DEF InsertsRow
<1>17. ASSUME NEW v \in Viewers, CommitsRows(v) PROVE AnnouncedIsShown'
  BY <1>17 DEF CommitsRows
<1>18. ASSUME NEW v \in Viewers, ArrayEnds(v) PROVE AnnouncedIsShown'
  BY <1>18, GoEffect DEF ArrayEnds
<1>19. ASSUME NEW v \in Viewers, StreamBreaks(v) PROVE AnnouncedIsShown'
  BY <1>19, GoEffect DEF StreamBreaks
<1>20. ASSUME NEW v \in Viewers, ResticDone(v) PROVE AnnouncedIsShown'
  BY <1>20, GoEffect DEF ResticDone
<1>21. ASSUME NEW v \in Viewers, Swap(v) PROVE AnnouncedIsShown'
  <2>1. view[v].key \in Keys /\ view[v].at = "swap" /\ queryLock = v
    BY <1>21 DEF Swap, OneRefresh, Holding
  <2> DEFINE k == view[v].key
             mark == StillInvalid(meta[k], view[v].before)
  <2>2. /\ meta'[k].reason \in {0, meta[k].reason} /\ meta' \in [Keys -> Meta]
        /\ rows'[k] = listing /\ meta'[k].invalid = mark /\ Went(v, "clean")
        /\ \A q \in Keys : q # k => meta'[q] = None \/ (meta'[q] = meta[q] /\ rows'[q] = rows[q])
        /\ UNCHANGED <<repo, announced, worker, queryLock, listing>>
    BY <1>21, <2>1, SwapEffect DEF StillInvalid
  <2>3. listing > 0 /\ Current(v)
    BY <2>1 DEF RefreshKnows
  <2>0. view[v].before \in Meta /\ meta[k] \in Meta
    BY <2>1 DEF TypeOK, AView
  <2>4. ASSUME ~mark PROVE listing >= announced[k]
    <3>1. CASE meta[k] = view[v].before /\ (listing > 0 => listing >= announced[k])
      BY <2>3, <3>1
    <3>2. CASE meta[k].row /\ meta[k].invalid /\ meta[k].reason > view[v].before.reason
      <4>1. meta[k] # view[v].before
        BY <2>0, <3>2 DEF Meta
      <4> QED BY <2>4, <3>2, <4>1 DEF StillInvalid
    <3> QED BY <2>3, <3>1, <3>2 DEF Current
  <2> HIDE DEF k, mark
  <2> QED BY <2>2, <2>4
<1>22. ASSUME NEW v \in Viewers, FailureReads(v) PROVE AnnouncedIsShown'
  BY <1>22, NoteEffect DEF FailureReads
<1>23. ASSUME NEW v \in Viewers, FailureWrites(v) PROVE AnnouncedIsShown'
  <2>1. view[v].key \in Keys /\ view[v].at = "record" /\ queryLock = v
    BY <1>23 DEF FailureWrites, OneRefresh, Holding
  <2> DEFINE k == view[v].key
  <2>2. /\ meta'[k].reason = view[v].before.reason /\ meta'[k].invalid /\ Went(v, "clean")
        /\ meta' \in [Keys -> Meta] /\ \A q \in Keys : q # k => meta'[q] = meta[q]
        /\ UNCHANGED <<repo, announced, worker, rows, queryLock, listing>>
    BY <1>23, <2>1, FailureEffect
  <2> HIDE DEF k
  <2> QED BY <2>2
<1>24. ASSUME NEW v \in Viewers, Cleans(v) PROVE AnnouncedIsShown'
  BY <1>24, ReturnEffect DEF Cleans
<1>25. CASE UNCHANGED vars
  BY <1>25 DEF vars
<1> QED
  BY <1>1, <1>2, <1>3, <1>4, <1>5, <1>6, <1>7, <1>8, <1>9, <1>10, <1>11, <1>12, <1>13,
     <1>14, <1>15, <1>16, <1>17, <1>18, <1>19, <1>20, <1>21, <1>22, <1>23, <1>24, <1>25,
     CacheAssumption
     DEF Next, Refreshing, Rows
-----------------------------------------------------------------------------
LEMMA Start == Init => IInv
<1> SUFFICES ASSUME Init PROVE IInv
  OBVIOUS
<1> USE NobodyAssumption DEF Init
<1>1. TypeOK
  BY DEF TypeOK, AView, Idle, NotAtWork, None, Meta, NoRows
<1>2. KeysKnown /\ OneRefresh /\ TempRowsOwned
  BY DEF KeysKnown, OneRefresh, TempRowsOwned, Idle, NotAtWork, Holding
<1>3. ValidHasRows /\ AnnouncedIsShown
  BY DEF ValidHasRows, AnnouncedIsShown, None
<1>4. MarksInOrder /\ RefreshKnows
  BY DEF MarksInOrder, RefreshKnows, Listing, Idle, NotAtWork, None
<1> QED BY <1>1, <1>2, <1>3, <1>4 DEF IInv, Owned, Marked

LEMMA Inductive == Spec => []IInv
<1>1. IInv /\ [Next]_vars => IInv'
  <2> SUFFICES ASSUME IInv, [Next]_vars PROVE IInv'
    OBVIOUS
  <2>1. Owned'
    BY TypeStep, KeysStep, LockStep, TempStep, ValidStep DEF IInv, Owned
  <2>2. ~SameSecond => Marked'
    BY MarksStep, KnowsStep, ShownStep DEF IInv, Owned, Marked
  <2> QED BY <2>1, <2>2 DEF IInv
<1> QED BY Start, <1>1, PTL DEF Spec

(* Every variable keeps its type. *)
THEOREM TypeCorrect == Spec => []TypeOK
<1>1. IInv => TypeOK
  BY DEF IInv, Owned
<1> QED BY <1>1, Inductive, PTL

(* A list that is shown as valid has every change whose mark was written, also  *)
(* one marked while the list was being read, unless two marks of the same text  *)
(* fall into one second.                                                         *)
THEOREM MarksAreShown == ASSUME ~SameSecond PROVE Spec => []AnnouncedIsShown
<1>1. IInv => AnnouncedIsShown
  BY DEF IInv, Marked
<1> QED BY <1>1, Inductive, PTL

(* A row that says valid describes rows that are stored. *)
THEOREM ValidRowsExist == Spec => []ValidHasRows
<1>1. IInv => ValidHasRows
  BY DEF IInv, Owned
<1> QED BY <1>1, Inductive, PTL

(* Temporary rows belong to the refresh that holds query_lock. *)
THEOREM TemporaryRowsOwned == Spec => []TempRowsOwned
<1>1. IInv => TempRowsOwned
  BY DEF IInv, Owned
<1> QED BY <1>1, Inductive, PTL

(* The rows of a repository with queued restore tasks are never pruned. *)
THEOREM TaskedAreKept == Spec => KeepsTasked
<1> DEFINE Kept == \A k \in tasked : rows[k] # NoRows => rows'[k] # NoRows
<1>1. ASSUME IInv, [Next]_vars PROVE Kept \/ UNCHANGED vars
  <2> USE DEF repository, tables, refresh
  <2>1. CASE UNCHANGED rows
    BY <2>1
  <2>2. ASSUME NEW v \in Viewers, Swap(v) PROVE Kept
    <3>1. TypeOK /\ view[v].key \in Keys /\ listing > 0
      BY <1>1, <2>2 DEF IInv, Owned, KeysKnown, OneRefresh, Swap
    <3> DEFINE k == view[v].key
    <3>2. rows'[k] = listing /\ \A q \in Keys : q # k => q \notin tasked \/ rows'[q] = rows[q]
      BY <2>2, <3>1, SwapEffect
    <3> HIDE DEF k
    <3> QED BY <3>1, <3>2 DEF NoRows, TypeOK
  <2>3. ASSUME NEW v \in Viewers, Refreshing(v), ~Swap(v) PROVE UNCHANGED rows
    BY <2>3, Zenon
       DEF Refreshing, FindsValid, FindsInvalid, FindsRunning, StartsRefresh, StartsRestic,
           ArrayEnds, StreamBreaks, ResticDone, FailureReads, FailureWrites, Cleans
  <2>4. ASSUME NEW v \in Viewers, Rows(v) \/ \E k \in Keys : Asks(v, k) PROVE UNCHANGED rows
    BY <2>4, Zenon DEF Rows, InsertsRow, CommitsRows, Asks
  <2>5. ASSUME NEW k \in Keys, Change(k) \/ QueueChanges(k) PROVE UNCHANGED rows
    BY <2>5, Zenon DEF Change, QueueChanges
  <2>6. CASE EndsUnannounced \/ Marks \/ MarkFails \/ Lists \/ Completes \/ Fails \/ Crash
    BY <2>1, <2>6, Zenon DEF EndsUnannounced, Marks, MarkFails, Lists, Completes, Fails, Crash
  <2> QED BY <1>1, <2>1, <2>2, <2>3, <2>4, <2>5, <2>6, CacheAssumption DEF Next
<1>2. IInv /\ [Next]_vars => [Kept]_vars
  BY <1>1
<1> QED BY <1>2, Inductive, PTL DEF Spec, KeepsTasked
=============================================================================
