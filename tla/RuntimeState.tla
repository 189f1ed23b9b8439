---------------------------- MODULE RuntimeState ----------------------------
(***************************************************************************)
(* The plugin's runtime state: the record config_state.config["runtime"]    *)
(* in memory, its mirror config_state.state that configuration snapshots    *)
(* are built from, and the file state.yml that a reload or a restart reads  *)
(* back.  It holds the status of the last backup and what is known of the   *)
(* players: who is online, how many, and whether anybody joined or left     *)
(* since the scheduler last looked.                                         *)
(*                                                                          *)
(* Writers are the backup thread, the executor with the player and server   *)
(* events in their order, the threads that sample the online list by RCON,  *)
(* the schedule thread that looks at the activity, and load_config.  Each   *)
(* holds config_state.lock for one action; load_config reads the file       *)
(* before it takes the lock, and a sample is taken before it is recorded.   *)
(***************************************************************************)
EXTENDS Integers, Sequences, FiniteSets

CONSTANTS Backups,      \* threads of BackupRunner; one holds the slot at a time
          Players,
          Samplers,     \* threads that sample the online list by RCON
          NoThread,
          NoRecord,
          Worlds,       \* sets of what may go wrong; one of them holds for a behaviour
          Switches,     \* the values !!m2r start / stop may set enabled to
          MaxEvents     \* bound of the executor's queue of player and server events

(* MCDR dies and restarts, !!m2r reload, a write of state.yml or config.yml     *)
(* fails, the server crashes, RCON is sampled, MCDR rebuilds its executor.      *)
Disturbances == {"kill", "reload", "writeFails", "crash", "rcon", "rebuiltExecutor"}

ASSUME RuntimeAssumption ==
       /\ NoThread \notin Backups
       /\ Worlds \subseteq SUBSET Disturbances
       /\ IsFiniteSet(Players)
       /\ Switches \subseteq BOOLEAN
       /\ MaxEvents \in Nat \ {0}

VARIABLES
  runtime,   \* config_state.config["runtime"]
  mirror,    \* config_state.state["runtime"]
  file,      \* state.yml
  enabled,   \* config_state.config["enabled"] and the line in config.yml
  throttled, \* the last player-state write is less than 30 s old
  worker,    \* worker[b]: where backup thread b is
  owner,     \* backup.thread
  loading,   \* what load_config has read and not yet installed
  samples,   \* samples[s]: the online list RCON gave sampler s
  checked,   \* the schedule thread's last verdict on player activity
  serverUp, inGame, \* the server and who is really in the game
  events,    \* player and server events waiting for the executor
  world,     \* what may go wrong in this behaviour
  visited    \* history: a player joined or left since the last check that gave a
             \* verdict; "kept" once an event of such a visit is in state.yml

dataVars  == <<runtime, mirror, file>>
slotVars  == <<worker, owner>>
worldVars == <<serverUp, inGame, events>>
vars == <<dataVars, enabled, throttled, slotVars, loading, samples, checked, worldVars, world, visited>>

Final    == {"success", "failed", "canceled"}
Statuses == {"never", "running", "interrupted"} \union Final
Record   == [status: Statuses, known: SUBSET Players, online: Nat, joined: BOOLEAN, left: BOOLEAN]
Fresh    == [status |-> "never", known |-> {}, online |-> 0, joined |-> FALSE, left |-> FALSE]
Switch   == [memory: BOOLEAN, file: BOOLEAN]
Events   == ({"joined", "left"} \X Players) \union ({"stopped"} \X SUBSET Players)
Larger(m, n) == IF m > n THEN m ELSE n

Init == /\ runtime = Fresh /\ mirror = Fresh /\ file = Fresh
        /\ enabled = [memory |-> TRUE, file |-> TRUE] /\ throttled = FALSE
        /\ worker = [b \in Backups |-> "out"] /\ owner = NoThread
        /\ loading = NoRecord /\ samples = [s \in Samplers |-> NoRecord] /\ checked = "none"
        /\ serverUp = TRUE /\ inGame = {} /\ events = <<>> /\ visited = "no"
        /\ world \in Worlds
-----------------------------------------------------------------------------
(* save_config_unlocked: the mirror first, then the atomic replacement of the *)
(* file, which may fail and then leaves the old file.                         *)
Written == IF "writeFails" \in world THEN BOOLEAN ELSE {TRUE}
Save(record, written) ==
  /\ runtime' = record /\ mirror' = record
  /\ file' = IF written THEN record ELSE file
SaveIfPossible(record) == \E written \in Written : Save(record, written)

(* Mistake: a throttled write skips the mirror as well. *)
PersistPlayersLazily(record) ==
  /\ IF throttled THEN runtime' = record /\ UNCHANGED <<mirror, file, throttled>>
     ELSE SaveIfPossible(record) /\ throttled' = TRUE

(* persist_player_state: the mirror every time, the file at most every 30 s. *)
PersistPlayers(record) ==
  /\ IF throttled THEN Save(record, FALSE) /\ UNCHANGED throttled
     ELSE SaveIfPossible(record) /\ throttled' = TRUE

(* Events and commands wait for a reload on the executor, unless MCDR's        *)
(* watchdog has rebuilt it meanwhile (docs/faq.md:277).                        *)
ExecutorFree == loading = NoRecord \/ "rebuiltExecutor" \in world

(* A visit is noted. Only a check that gives a verdict forgets it, no failure. *)
Noted(kept) == IF kept THEN "kept" ELSE IF visited = "no" THEN "loose" ELSE visited

ThirtySecondsPass ==
  /\ throttled /\ throttled' = FALSE
  /\ UNCHANGED <<dataVars, enabled, slotVars, loading, samples, checked, worldVars, visited>>
-----------------------------------------------------------------------------
(* reset_stale_backup_running_status: only when no backup thread is alive. *)
ResetStale(record) ==
  IF record.status = "running" /\ owner = NoThread
    THEN [record EXCEPT !.status = "interrupted"] ELSE record

(* BackupRunner: the slot is taken and the thread registered. *)
BackupEnters(b) ==
  /\ worker[b] = "out" /\ owner = NoThread
  /\ owner' = b /\ worker' = [worker EXCEPT ![b] = "entered"]
  /\ UNCHANGED <<dataVars, enabled, throttled, loading, samples, checked, worldVars, visited>>

(* Both records start from the mirror (ensure_runtime with the state). A write  *)
(* that fails ends the run without a further record.                            *)
RecordStarted(b) ==
  /\ worker[b] = "entered"
  /\ \E written \in Written :
       /\ Save([mirror EXCEPT !.status = "running"], written)
       /\ worker' = [worker EXCEPT ![b] = IF written THEN "running" ELSE "leaving"]
  /\ UNCHANGED <<enabled, throttled, owner, loading, samples, checked, worldVars, visited>>

RecordFinished(b) ==
  /\ worker[b] = "running"
  /\ \E status \in Final : SaveIfPossible([mirror EXCEPT !.status = status])
  /\ worker' = [worker EXCEPT ![b] = "leaving"]
  /\ UNCHANGED <<enabled, throttled, owner, loading, samples, checked, worldVars, visited>>

(* Mistake: the thread gives up the slot before it has recorded the outcome. *)
BackupLeavesEarly(b) ==
  /\ worker[b] \in {"leaving", "running"}
  /\ owner' = NoThread /\ worker' = [worker EXCEPT ![b] = "out"]
  /\ UNCHANGED <<dataVars, enabled, throttled, loading, samples, checked, worldVars, visited>>

(* The notifications are over: release_backup_slot. *)
BackupLeaves(b) ==
  /\ worker[b] = "leaving"
  /\ owner' = NoThread /\ worker' = [worker EXCEPT ![b] = "out"]
  /\ UNCHANGED <<dataVars, enabled, throttled, loading, samples, checked, worldVars, visited>>
-----------------------------------------------------------------------------
(* handle_player_joined: a player already known (from a sample) adds nothing. *)
Joined(record, p) ==
  LET known == record.known \union {p}
      more  == IF p \in record.known THEN 0 ELSE 1
  IN [record EXCEPT !.known = known,
                    !.online = Larger(Cardinality(known), @ + more),
                    !.joined = TRUE]

(* Mistake: a leave is counted whoever left. *)
LeftUnbounded(record, p) ==
  [record EXCEPT !.known = @ \ {p}, !.online = @ - 1, !.left = TRUE]

(* handle_player_left: the count falls to what is known, never below. *)
Left(record, p) ==
  LET known == record.known \ {p}
      less  == IF p \in record.known \/ record.online > 0 THEN 1 ELSE 0
  IN [record EXCEPT !.known = known,
                    !.online = Larger(Cardinality(known), @ - less),
                    !.left = TRUE]

PlayerEvent ==
  /\ ExecutorFree /\ events # <<>> /\ Head(events)[1] # "stopped" /\ events' = Tail(events)
  /\ PersistPlayers(IF Head(events)[1] = "joined" THEN Joined(runtime, Head(events)[2])
                                                  ELSE Left(runtime, Head(events)[2]))
  /\ visited' = Noted(file' = runtime')
  /\ UNCHANGED <<enabled, slotVars, loading, samples, checked, serverUp, inGame>>

(* Mistake: only the count is reset when the server stops. *)
ServerStoppedKeepsNames ==
  /\ ExecutorFree /\ events # <<>> /\ Head(events)[1] = "stopped" /\ events' = Tail(events)
  /\ SaveIfPossible([runtime EXCEPT !.online = 0])
  /\ visited' = IF Head(events)[2] # {} THEN Noted(FALSE) ELSE visited
  /\ UNCHANGED <<enabled, throttled, slotVars, loading, samples, checked, serverUp, inGame>>

(* record_server_stopped: nobody is online any more; the flags stay. *)
ServerStopped ==
  /\ ExecutorFree /\ events # <<>> /\ Head(events)[1] = "stopped" /\ events' = Tail(events)
  /\ SaveIfPossible([runtime EXCEPT !.known = {}, !.online = 0])
  /\ visited' = IF Head(events)[2] # {} THEN Noted(FALSE) ELSE visited
  /\ UNCHANGED <<enabled, throttled, slotVars, loading, samples, checked, serverUp, inGame>>

(* query_online_players: RCON answers with the online list, or fails (no step). *)
Sample(s) ==
  /\ "rcon" \in world /\ samples[s] = NoRecord /\ serverUp
  /\ samples' = [samples EXCEPT ![s] = inGame]
  /\ UNCHANGED <<dataVars, enabled, throttled, slotVars, loading, checked, worldVars, visited>>

(* record_online_sample: the list replaces what the events had said. *)
RecordSample(s) ==
  /\ samples[s] # NoRecord
  /\ PersistPlayers([runtime EXCEPT !.known = samples[s], !.online = Cardinality(samples[s])])
  /\ samples' = [samples EXCEPT ![s] = NoRecord]
  /\ UNCHANGED <<enabled, slotVars, loading, checked, worldVars, visited>>

Active(record) == record.online > 0 \/ record.joined \/ record.left

(* Mistake: somebody online is enough, joins and leaves are not looked at. *)
CheckActivityOnlineOnly ==
  /\ checked = "none"
  /\ \E written \in Written :
       /\ Save([runtime EXCEPT !.joined = FALSE, !.left = FALSE], written)
       /\ checked' = IF ~written THEN "error" ELSE IF runtime.online > 0 THEN "backup" ELSE "skip"
       /\ visited' = IF written THEN "no" ELSE visited
  /\ UNCHANGED <<enabled, throttled, slotVars, loading, samples, worldVars>>

(* should_skip_for_no_player_activity: read the flags and reset them under one  *)
(* lock. The write may fail; then the flags are reset in memory all the same,   *)
(* the trigger ends with an exception and the visit has led to no backup.       *)
CheckActivity ==
  /\ checked = "none"
  /\ \E written \in Written :
       /\ Save([runtime EXCEPT !.joined = FALSE, !.left = FALSE], written)
       /\ checked' = IF ~written THEN "error" ELSE IF Active(runtime) THEN "backup" ELSE "skip"
       /\ visited' = IF written THEN "no" ELSE visited
  /\ UNCHANGED <<enabled, throttled, slotVars, loading, samples, worldVars>>

(* The schedule thread acts on the verdict and waits for its next time. *)
TriggerEnds ==
  /\ checked # "none" /\ checked' = "none"
  /\ UNCHANGED <<dataVars, enabled, throttled, slotVars, loading, samples, worldVars, visited>>
-----------------------------------------------------------------------------
(* load_config reads config.yml and state.yml, *)
LoadRead ==
  /\ "reload" \in world /\ loading = NoRecord
  /\ loading' = [state |-> file, enabled |-> enabled.file]
  /\ UNCHANGED <<dataVars, enabled, throttled, slotVars, samples, checked, worldVars, visited>>

(* and then installs both under the lock. *)
LoadInstall ==
  /\ loading # NoRecord /\ loading' = NoRecord
  /\ SaveIfPossible(ResetStale(loading.state))
  /\ enabled' = [enabled EXCEPT !.memory = loading.enabled]
  /\ UNCHANGED <<throttled, slotVars, samples, checked, worldVars, visited>>

(* Mistake: the command runs in a thread of its own, beside a load. *)
SetEnabledBesideLoad ==
  /\ \E on \in Switches, written \in Written :
       /\ enabled' = [memory |-> on, file |-> IF written THEN on ELSE enabled.file]
       /\ IF written THEN SaveIfPossible(runtime) ELSE UNCHANGED dataVars
  /\ UNCHANGED <<throttled, slotVars, loading, samples, checked, worldVars, visited>>

(* !!m2r start / stop: memory, config.yml and state.yml under the lock, in this *)
(* order.                                                                        *)
SetEnabled ==
  /\ ExecutorFree
  /\ \E on \in Switches, written \in Written :
       /\ enabled' = [memory |-> on, file |-> IF written THEN on ELSE enabled.file]
       /\ IF written THEN SaveIfPossible(runtime) ELSE UNCHANGED dataVars
  /\ UNCHANGED <<throttled, slotVars, loading, samples, checked, worldVars, visited>>

(* Mistake: whatever the file says, the run before the restart was interrupted. *)
RestartMarksAll ==
  /\ "kill" \in world
  /\ worker' = [b \in Backups |-> "out"] /\ owner' = NoThread
  /\ Save([file EXCEPT !.status = "interrupted"], TRUE)
  /\ enabled' = [enabled EXCEPT !.memory = enabled.file] /\ throttled' = FALSE
  /\ loading' = NoRecord /\ samples' = [s \in Samplers |-> NoRecord] /\ checked' = "none"
  /\ serverUp' = FALSE /\ inGame' = {} /\ events' = <<>>
  /\ visited' = IF inGame # {} \/ events # <<>> THEN Noted(FALSE) ELSE visited

(* The MCDR process dies and starts again: the threads are gone, the server is *)
(* down with its players, and load_config reads what the files say.  Visits    *)
(* are not forgotten with it, and the players it takes along and the events     *)
(* that nobody has handled are visits too.                                      *)
Restart ==
  /\ "kill" \in world
  /\ worker' = [b \in Backups |-> "out"] /\ owner' = NoThread
  /\ Save(IF file.status = "running" THEN [file EXCEPT !.status = "interrupted"] ELSE file, TRUE)
  /\ enabled' = [enabled EXCEPT !.memory = enabled.file] /\ throttled' = FALSE
  /\ loading' = NoRecord /\ samples' = [s \in Samplers |-> NoRecord] /\ checked' = "none"
  /\ serverUp' = FALSE /\ inGame' = {} /\ events' = <<>>
  /\ visited' = IF inGame # {} \/ events # <<>> THEN Noted(FALSE) ELSE visited
-----------------------------------------------------------------------------
Queue(event) == Len(events) < MaxEvents /\ events' = Append(events, event)

PlayerJoins(p) == /\ serverUp /\ p \notin inGame /\ inGame' = inGame \union {p}
                  /\ Queue(<<"joined", p>>)
                  /\ UNCHANGED <<dataVars, enabled, throttled, slotVars, loading, samples, checked, serverUp, visited>>

PlayerLeaves(p) == /\ p \in inGame /\ inGame' = inGame \ {p}
                   /\ Queue(<<"left", p>>)
                   /\ UNCHANGED <<dataVars, enabled, throttled, slotVars, loading, samples, checked, serverUp, visited>>

(* A server that stops sees its players off; one that crashes does not. The    *)
(* players it takes along are not in the program's event, only in the history. *)
ServerEnds == /\ serverUp /\ serverUp' = FALSE
              /\ inGame = {} \/ "crash" \in world
              /\ Queue(<<"stopped", inGame>>) /\ inGame' = {}
              /\ UNCHANGED <<dataVars, enabled, throttled, slotVars, loading, samples, checked, visited>>

ServerStarts == /\ ~serverUp /\ serverUp' = TRUE
                /\ UNCHANGED <<dataVars, enabled, throttled, slotVars, loading, samples, checked, inGame, events, visited>>
-----------------------------------------------------------------------------
BackupStep(b) == BackupEnters(b) \/ RecordStarted(b) \/ RecordFinished(b) \/ BackupLeaves(b)
GameStep == \/ \E p \in Players : PlayerJoins(p) \/ PlayerLeaves(p)
             \/ ServerEnds \/ ServerStarts

Next == /\ world' = world
        /\ \/ \E b \in Backups : BackupStep(b)
           \/ \E s \in Samplers : Sample(s) \/ RecordSample(s)
           \/ PlayerEvent \/ ServerStopped \/ CheckActivity \/ TriggerEnds \/ ThirtySecondsPass
           \/ LoadRead \/ LoadInstall \/ SetEnabled \/ Restart
           \/ GameStep

Spec == Init /\ [][Next]_vars
-----------------------------------------------------------------------------
(* Every variable keeps its type. *)
TypeOK ==
  /\ runtime \in Record /\ mirror \in Record /\ file \in Record
  /\ enabled \in Switch /\ throttled \in BOOLEAN
  /\ worker \in [Backups -> {"out", "entered", "running", "leaving"}]
  /\ owner \in Backups \union {NoThread}
  /\ loading \in [state: Record, enabled: BOOLEAN] \union {NoRecord}
  /\ samples \in [Samplers -> (SUBSET Players) \union {NoRecord}]
  /\ checked \in {"none", "backup", "skip", "error"}
  /\ serverUp \in BOOLEAN /\ inGame \in SUBSET Players
  /\ events \in Seq(Events) /\ visited \in {"no", "loose", "kept"} /\ world \in Worlds

(* The mirror never lags behind the record, also when the file write was        *)
(* throttled or failed: a snapshot or the next backup record, which both start  *)
(* from the mirror, would bring an old state back (sync_state_unlocked).        *)
MirrorCurrent == mirror = runtime

Undisturbed(causes) == world \cap causes = {}

(* The status says running only while a backup holds the slot ("would get stuck *)
(* at running", backup_runner.py:146), *)
RunningIsReal == runtime.status = "running" => owner # NoThread

(* and always while one runs: across the process's death and the server's crash,  *)
(* as long as every write succeeds and nobody reloads.                          *)
StatusTruthful ==
  Undisturbed({"reload", "writeFails"})
    => /\ RunningIsReal
       /\ \A b \in Backups : worker[b] = "running" => runtime.status = "running"

(* Under the same condition the outcome of a run stays recorded until the next  *)
(* run begins, also through a restart of the process.                           *)
OutcomeLost == runtime.status \in Final /\ runtime'.status # runtime.status
OutcomeKept == [][Undisturbed({"reload", "writeFails"}) /\ OutcomeLost
                    => \E b \in Backups : worker[b] = "entered"]_vars

Idle == checked = "none" /\ checked' = "skip"

(* A period in which a player joined or left is never judged idle (docs/        *)
(* configuration.md:95): whatever happens in it, no visit falls through.        *)
VisitNotSkipped == [][Idle => visited = "no"]_vars

(* What of it is true.  As long as writes succeed and nobody reloads, events,    *)
(* samples, throttled writes, the records of backups and the reset of the flags  *)
(* interleave without a loss.  A kill of MCDR or a crash of the server may drop  *)
(* a visit, but none whose event had been written to state.yml before.  (A write *)
(* that fails in the check itself, or a reload, may drop any.)                   *)
VisitSeen ==
  [][Undisturbed({"reload", "writeFails"}) /\ Idle
       => visited = "no" \/ (visited = "loose" /\ ~Undisturbed({"kill", "crash"}))]_vars

(* When every event has been handled, the count the player gate falls back on   *)
(* is the number of players in the game, also after crashes and failed writes;  *)
(* a stale sample, a reload or a restart may put it wrong.                      *)
CountSettles ==
  Undisturbed({"reload", "kill", "rcon"}) /\ events = <<>>
    => runtime.online = Cardinality(inGame) /\ runtime.known = inGame

(* The enabled switch in memory and the one in config.yml agree whenever no     *)
(* load is under way (the exclusion config_loader.py:46 asks for, P1-9): the    *)
(* executor runs a reload and !!m2r stop one after the other.                   *)
SwitchAgrees ==
  Undisturbed({"writeFails", "rebuiltExecutor"}) /\ loading = NoRecord
    => enabled.memory = enabled.file
=============================================================================
