# MCDR2restic: a TLA+ verification project

MCDR2restic is an MCDReforged plugin that backs a Minecraft server up with restic:
scheduled and manual backups, repository maintenance, and a restore workflow that
stops the server, restores a snapshot and starts the server again. Its difficulty is
not in any one function. It is in a dozen threads (three schedule threads, one per
backup, maintenance run or restore stage, a startup watchdog, monitors, the MCDR task
executor, the console reader) that share one lock, one cancel event and a handful of
unprotected fields, on a server that may stop or crash at any moment.

This directory models that control: which thread may do what, in which order, and what
every early return, error path, cancel request and shutdown leaves behind.

    tlc -workers 2 -config BackupSlot.cfg MCBackupSlot.tla
    tlapm BackupSlotProofs.tla       # and RestoreWorkflowProofs (seven minutes),
                                     # RuntimeStateProofs, ScheduleProofs,
                                     # ResticProofs, BackupBodyProofs,
                                     # SnapshotCacheProofs, RestoreQueueProofs

## Inventory

| component | state | operations | hard behaviour |
|---|---|---|---|
| backup slot (`core/runtime.py`, `backup/backup_runner.py`, `restic/maintenance_runner.py`) | `backup.lock`, `backup.label`, `backup.thread`, `backup.cancel` | `start_thread`, `run_locked`, `run_waiting`, `acquire_backup_slot_waiting`, `release_backup_slot`, the bodies of backup, maintenance and manual restic commands | the fields are not protected by the lock; checks and takes are separate steps; the cancel event is shared by every task |
| restore workflow (`restore/restore_workflow.py`, `commands/restore_commands.py`) | `restore.lock`, `restore.session` (phase, safety snapshot, errors, exit-after-stop) | `restore apply`, pre-stop stage, after-stop stage, rollback, startup, startup watchdog, completion | several threads and two server events drive one session; the server may stop or start by itself at any phase |
| plugin lifecycle (`core/plugin.py`) | `service.stopping`, the service objects | `on_load`, `on_unload`, `on_server_startup`, `on_server_stop`, `shutdown_runtime` | unload waits for a restore; shutdown joins with timeouts, so old threads outlive it |
| commands (`commands/*`) | none of their own | `backup`, `cancel`, `stop`, `start`, `reload`, `status`, `init`, `unlock`, `exec`, `restore ...` | run on the MCDR executor, except that MCDR replaces a blocked one |
| scheduler (`backup/backup_scheduler.py`, `scheduling.py`, `cron.py`) | stop event, one wakeup event per thread | the loop, the three triggers, `wakeup`, `stop`, next-run arithmetic | wakeups racing the reading of the configuration; cron edge cases |
| player activity and gate (`minecraft/player_*`) | activity period, throttled mirror in `state.yml`, gate monitor | `record_*`, the skip predicate, wait before and monitor during a backup | the period is reset when it is looked at; late interrupts |
| save-flush watcher (`minecraft/save_flush_watcher.py`) | armed flag, saved event | `arm`, `notify`, `wait`, `disarm` | console reader against backup thread |
| restic process (`restic/restic_runner.py`, `restic_termination.py`) | `restic.current_process` | run, pump output, terminate, kill | one process field for concurrent runs |
| restic service and lock recovery (`restic_service.py`, `restic_lock_recovery.py`) | none | save-off, flush, backup, forget, prune, unlock-and-retry | what a failure in the middle leaves behind |
| configuration and state store (`config/config_loader.py`, `state_store.py`) | configuration, `state.yml`, its mirror | load, persist, atomic replace | reads outside the lock, reload against a running backup |
| snapshots (`snapshots/*`) | `snapshot_meta` and `snapshots` rows in SQLite, `query_lock` | invalidate, refresh, import, swap, prune, page | a change announced while the older list is being read; a kill between two transactions |
| restore queue (`restore_task_repository.py`, `restore_commands.py`) | rows of `restore_tasks` | add, list, unrestore, apply, clear | the queue is edited while a restore works on a copy of it |
| notifications (`notifications/*`) | dispatcher queue, WebSocket client | send, reconnect | lost and late sends |
| update check, restic download (`update/*`, `restic_download.py`) | the installed restic, its temporary file | daily check; probe, download, verify, unpack, rename | mirrors that cut off, forge or drip; a kill during the installation |
| texts, presentation, defaults, configuration schema and migration | none | formatting | none |

What makes each of them correct, in one line: *the slot* has one task at a time, its
fields describe that task, a cancel reaches the task it was meant for, and autosave comes
back; *the restore* never touches files under a running server, ends, reports the truth
and leaves the slot and the session clean; *the lifecycle* leaves no thread of an old
plugin instance at work; *the scheduler* neither loses a wakeup nor runs a disabled
schedule, and waits for the very next time that its schedule names; *a restic call* ends
when it is told to, is judged with its whole output and never repeated after it worked;
*the flush* a backup waits for is its own; *the snapshot list* shows what was announced;
*the queue* loses no task that was not run; *the installed restic* always runs; *the state
store* shows a running backup if and only if one runs.
`PROJECT.json` lists the hazards line by line, with the property that covers each. Where the
code does not stand up to a hazard no property that holds can cover it; the note then says
which configuration shows it, or which property names it as an exception.

## The modules

### BackupSlot

`PluginRuntime.backup` and every thread that competes for it. A thread of one of five
kinds (manual backup, scheduled backup, manual maintenance, scheduled maintenance,
manual restic command) goes round its code path; `pc[t]` says where it is:

    command:    idle -> checked -> starting -> entered -> ...
    scheduled:  idle -> spawned -> polling -> acquiring -> entered -> ...
                                   ^---- timedOut <---'
    backup:     entered -> labelled -> paused -> restic -> ended -> releasing -> cleared -> idle
    maintenance: entered -> labelled <-> restic ... -> releasing -> cleared -> idle
    restic cmd: entered -> restic -> releasing -> cleared -> idle

A step is what a thread does between two looks at shared state: the test of the restore
lock, the test of the stop event, `lock.acquire`, the entry that writes label, thread and
cancel event, each test of the cancel event, and the two halves of `release_backup_slot`
are steps of their own, because another thread can come in between. What the thread does
with restic is an outcome (`ResticEnds`), and the texts it sends are left out.

`executor` is the MCDR task executor, which runs commands and server events one at a
time. A manual restic command blocks it, but MCDR's watchdog then builds a new one
(`docs/faq.md:277`), so `CommandEnter` frees it. `saving` is the world's autosave;
`"stuck"` says that save-on was sent and refused. `asked` is a history variable: the
threads at which a cancel request was aimed during their present stay in the slot.

The restore workflow appears as an *abstract* client (the actions `Restore...`): it takes
its own lock on the executor, may hold the slot once, may toggle autosave and must not
leave it off when it ends.

### RestoreWorkflow

The detailed restore: the session and its phases, the pre-stop thread (safety snapshot,
then stop), the direct thread (restore without stopping), the after-stop thread (restore
tasks, rollback, start), the startup watchdogs, the two server events, the completion
report, the plugin's unload. Every thread carries the number of the session it was
started for, as the code's `expected_session` does. `RestoreWorkflow` instantiates
`BackupSlot` with the refinement mapping `restorer <- Restorer` and composes its own steps
with the slot's; `ImplementsSlot == Slot!Spec` says that whatever the threads of a restore
do, the slot sees only what `BackupSlot` allows. That is what makes the slot's theorems
apply to the program with the real restore workflow in it.

`Disturbances` is a set of sets of surprises, of which a behaviour is given one (`world`):
`"crash"` (the server stops unasked), `"operatorStart"` (somebody else starts it),
`"mcdrStop"` (MCDR exits) and `"again"` (a second restore is applied after the first).

### RuntimeState

What `config_state` remembers: the record `config["runtime"]` (status of the last backup,
known and counted players, the two flags the activity check looks at), its mirror that
configuration snapshots are made from, and `state.yml`. Every writer is an action that
holds `config_state.lock` once: the two records of a backup run, player events and server
stops in the order the executor takes them from its queue, RCON samples, the scheduler's
check, the start/stop switch, and `load_config` - which is two actions, because it reads
the files before it takes the lock. So is a sample: what RCON answered is recorded later.
`Save` sets mirror and file together and fails or not; `PersistPlayers` writes the file at
most every 30 s, of which `throttled` keeps only whether they are over.

`inGame` is the truth about the players; `visited` is a history variable: somebody joined
or left, or went down with the server or with MCDR, since the last check that gave a verdict
(a check whose write fails gives none). It forgets nothing at a kill, a crash or a reload.
`"kept"` says of a visit that the file was written with an event of it, `"loose"` that none
of its events has got there yet. `world` is what may go wrong
in a behaviour, chosen once from `Worlds`: `"kill"` (MCDR dies and starts again),
`"reload"`, `"writeFails"` (of state.yml or config.yml), `"crash"` (the server takes its
players along), `"rcon"` (the online list is sampled, maybe too late) and
`"rebuiltExecutor"` (MCDR runs commands beside a reload that blocks the executor). A
property that some disturbance refutes says so itself: `Undisturbed({...}) => ...`. RCON
is taken to list names with the count; the listing without names, the maximal counts and
the texts are left out.

### ScheduleLoop

The three schedule threads. Each goes round

    top -> wait -> waiting -> due -> [gate <-> counting ->] launching -> top

where maintenance goes from due into a second wait, the grace, and from there into
`maintaining`. Time is a choice: a wait may end whenever it is not over. The hard part is
`_wait`: it takes a pending wakeup and clears the event (`BeginWait`), sleeps, wakes
(`Wake`) and clears it again in a step of its own (`ClearEvent`), while commands change the
configuration (`Change`) and only later wake everybody (`WakeAll`). `outdated[t]` remembers
that the configuration was changed after `t` computed its time. A command whose write
fails never reaches `WakeAll`; it stays in `commanding`, and the properties speak of
`commanding = {}`. `shutdown` follows `service.stopping` and the scheduler's `stop()`. The
gate reads the configuration and counts the players in two steps, because the count may
take an RCON query.

What the count is, and what the runners do with the trigger, belongs to `RuntimeState` and
`BackupSlot`. The next time itself is an outcome here and the subject of `ScheduleClock`.

### ScheduleClock

One timed thread - a schedule thread or the daily update check - against the clock: `ReadClock`
computes the next time, `Measure` reads the clock again and sets the wait, `Fire` comes
when it is over, `Woken` breaks it off. `NextAfter` is `cron.py`'s search: the candidate
days within the horizon, and on each the hours, minutes and seconds that are left. A
field is a set of parts with their stars, ranges and steps; splitting the text is left out,
but a part out of bounds, a range the wrong way round and a step of zero are refused as in
the code. Half seconds are counted, because the code cuts fractions off. `Promised` is the
reference: it judges one instant by what the expression says and knows no search.

### ResticProcess

One call of `run_restic_command` after another, as a task makes them: the start, two reader
threads that pump the output into one queue, the worker that takes an item or waits for a
moment and between two looks at cancel and deadline, terminate and kill with their waits,
the join, and the judgement (`Canceled`, `Verdicts`). `attempt` tells a command from the
unlock and the rerun of lock recovery. Cancellers look whether the slot is held, set the
event and only then terminate the process they find (`Look`, `Request`, `Strike`), so each
of the three may find another task than the one before. `ReleaseSlot` clears the event; an
event that is set by the time a backup or maintenance starts is kept and ends it at its
next look (P1-7), a manual command clears it (`TaskStarts`). A request whose event the task
does not have is `stray`: its signal may still strike. restic writes, hangs, ignores signals
and exits as it likes.

### BackupBody

What a task does between taking and leaving the slot (`run_backup_body`,
`run_maintenance_body`), with the two parts that other threads drive: the save-flush
watcher, whose `arm`, `notify_output` and two-step `disarm` interleave with the console
reader, and the player gate's monitor threads, which sample, interrupt and may outlive the
body that started them, because `stop` joins for five seconds only. The cancel event is
cleared with the slot and not at the entry, so what an old monitor sets between two tasks
cancels the later one. `line` and `event` say under which arming a line was handed to
`notify_output`; `heldUp` is the one case in which the reader had an older line in its hands
when the watcher was armed. A line that the server printed before the arming and that still
waits in MCDR's queue (`plugin.py:165`) counts as one of this arming: nothing in the plugin
could tell them apart.

### SnapshotCache

The list of snapshots that players page through. A repository is a version, a listing the
version it was read at. `Change` and `Marks` are a backup and the invalidation after it;
`Refreshing(v)` is a viewer's way through `ensure_snapshot_cache_fresh`: look, lock, start
restic, import under a temporary key, swap in one transaction or record the failure.
`writer` is SQLite's write lock, which an import holds from its first row to its commit;
`MarkFails` is an invalidation that meets it for longer than SQLite waits. `Crash` kills
the process at any step and keeps what was committed. An import that was killed leaves its
temporary rows for good: `leftover` counts them, since nothing deletes them later.

### RestoreQueue

The rows of `restore_tasks` under the commands that add, list and delete them, an apply
that reads them before it takes the restore lock (`Read`, then `Start` or `Reject`), the
restore that runs them one by one from its copy, and the clearing at its end by the key
that it began with, while the configuration may name another. Histories remember which
tasks were run (`done`), erased and added late.

### ResticInstall

`ensure` of the default restic: probe and compare the version, try the mirrors in turn,
verify, unpack beside the target and rename over it. `content` is per file and not per
name, so a rename moves what another thread may still be writing. A mirror answers with
the release, a part, something else, or drips; the process dies at any step.

## Runs

| run | cfg | what it shows |
|---|---|---|
| slot | `BackupSlot` | exclusion, truthful fields, effective cancels, owed save-on, and under fairness that a cancelled task leaves and a stopping plugin empties the queue of waiters |
| restore_flow | `RestoreFlow` | two restores in a row on a server that stops only when asked, or one on a server that may crash: sessions, threads, lock and server stay in step, no file is restored under a running server, and the restore ends |
| restore_slot | `RestoreSlot` | one restore beside a scheduled backup under crashes, foreign starts and an MCDR exit: the refinement, the phase order and the truth of the report |
| runtime | `Runtime` | four worlds - samples alone; kills and crashes beside samples; reloads; failing writes on a crashing server - and in each the status, the outcomes, the visits, the count and the switch, as far as the property does not except the world; a kill or a crash loses no visit that had reached `state.yml` |
| schedule | `Schedule` | one schedule thread of each kind, commands and a shutdown at any moment: no wakeup is lost, the threads end |
| schedule_clock | `ScheduleClock` | 124 schedules at every half second of six short days: the next time is the first that the schedule names; no early and no double trigger |
| restic_process | `ResticProcess` | every race of output, exit, cancel, deadline and rerun: results rest on the whole output, nothing runs twice, nobody survives; a task struck by a cancel meant for it ends as cancelled, but for the outcomes that `InterruptedIsCanceled` names; a cancel or the deadline ends the call |
| backup_body | `BackupBody` | the flush is the one waited for, a cancelled body ends, a monitor ends after its backup |
| snapshots | `SnapshotCache` | two viewers, two repositories, a kill: no valid list without an announced change, valid rows are whole, temporary rows have an owner, queued snapshots keep their rows |
| queue | `RestoreQueue` | three tasks, two repositories: what a restore erases it has run, or it was added after the restore had read the queue |
| install | `ResticInstall` | two mirrors, two kills: the installed file runs, is never downgraded, the command goes on |

The twelfth run is a disagreement between the code and what the repository says of it
(`findings` in `PROJECT.json` has the quotes):

| run | disagreement |
|---|---|
| restore_cancel_rollback | cancelling a restore cancels its rollback as well |

More of them have a configuration that shows the counterexample, in the same manner:

| cfg | module | what the code does | what speaks against it |
|---|---|---|---|
| `BackupSlotRestoreOverlap` | BackupSlot | a scheduled task that began to wait before the restore runs beside it | `lang/en_us.json:21` |
| `BackupSlotForeignCancel` | BackupSlot | a cancel request ends the task after the one it was aimed at | `docs/commands.md:105` |
| `BackupSlotGiveUp` | BackupSlot | a scheduled backup gives up behind maintenance as if it were a backup | `lang/en_us.json:26` |
| `BackupSlotLateTask` | BackupSlot | a waiter takes the slot after the plugin has been shut down | comment `runtime.py:76` |
| `RestoreUnloadCrash` | RestoreWorkflow | after a crash the plugin may be unloaded with a restore thread at work | comment `plugin.py:111` |
| `RestoreRequestKept` | RestoreWorkflow | a cancel request made during the server stop is erased | `docs/commands.md:108` |
| `RestoreAgainCrash` | RestoreWorkflow | a second restore after a crash meets the first one's after-stop thread; its pre-stop thread dies outside the `try` and the restore lock stays taken | `restore_workflow.py:363` |
| `RuntimeReloadVisit` | RuntimeState | a reload forgets a join or a leave whose write was throttled; with `Worlds` of `{"kill"}`, `{"crash"}` or `{"writeFails"}` it shows that these lose a visit, too | `docs/configuration.md:97` |
| `ScheduleGateStop` | MCScheduleLoop | a backup that waits in the player gate is launched after `!!m2r stop` | `docs/commands.md:93` |
| `ResticFinished` | ResticProcess | a command that exited with 0 is reported as cancelled | comment `restic_runner.py:157` |
| `BackupBodyMonitor` | BackupBody | a monitor that outlived its backup interrupts the next task | docstring `player_gate_service.py:136` |
| `SnapshotSameSecond` | MCSnapshotCache | two marks of one second read alike, and the second is taken for the first | docstring `snapshot_db.py:233` |
| `SnapshotOperated` | MCSnapshotCache | a command that changed the repository and then failed announces nothing | `docs/restore.md:58` |
| `RestoreQueueLate` | MCRestoreQueue | a task added during a restore is cleared with the others without having been run | `docs/restore.md:251` |
| `RestoreQueueTwice` | MCRestoreQueue | an apply that read the queue before another restore cleared it runs the tasks again | `restore_commands.py:288` |
| `ResticInstallShared` | MCResticInstall | two threads write the same temporary file, and a half-written one is renamed over the target | comment `restic_download.py:567` |

The exceptions named in `RuntimeState`'s properties are of this kind too: a reload can hide
a backup that starts meanwhile, a failing write at the start leaves the status at running,
players who went down with a crash count as nobody, and with a rebuilt executor a `stop`
during a reload is undone in memory. So the promise that a period with a visit is backed up
(`VisitNotSkipped`, `docs/configuration.md:95`) is true in the world of samples only; what
`VisitSeen` says for the others is that a kill or a crash spares every visit of which one
event was written. A throttled event stays unwritten until something else is saved, so more
than its 30 s may be lost. And of `ResticProcess`: a cancel whose restic outlives its output
by five seconds is reported as a problem and not as cancelled (`restic_runner.py:384`). `CronStep` (MCScheduleClock) shows a surprise that no
document rules out: `*/2` in a day field counts as a plain `*`, so together with `*` for
the weekday every day matches (`cron.py:103-113`).

Configurations that pass and are kept for depth: `BackupSlotSafety` (MCBackupSlot; a second
scheduled backup, a manual maintenance, and the inductive invariant `IInv`),
`BackupSlotLive` (BackupSlot), `SnapshotLive` (MCSnapshotCache: `RefreshEnds`, a refresh ends
even if restic hangs) and `RestoreQueueIds` (MCRestoreQueue: an id is never given twice, so
unrestore deletes the task that was seen).

**Bounds.** One thread of each kind suffices for every pairwise race of the slot; the
second scheduled backup adds the exchange of holders while a third party polls, and is
interchangeable with the first (symmetry, used in the safety run only). A restore
run numbers its sessions up to `MaxRestores`: two are enough for a thread or a watchdog of
one session to meet the next, and the refinement run uses one. In `RuntimeState`
`MaxEvents` bounds the queue of events nobody has handled yet: two suffice for a leave to
wait behind a join or a stop; one player suffices because the count is compared with the
set of known names; two backups, because a third meets the same slot. The four worlds
leave out what needs a disturbance of each pair that none of them combines, such as a kill
during a reload; the theorems allow any combination. In `ScheduleLoop` one thread of each
kind suffices, since the threads meet only through the configuration and the events, and
one commander, since a command whose write failed may be followed by another. No other
counter exists. The theorems below hold for any sets of threads.

`ScheduleClock` scales the clock down: a day of two hours of two minutes of two seconds, a
fortnight with every weekday twice and four months of two to five days, so that a search
crosses every kind of boundary; it starts at each half second of six days and looks ahead
fourteen (the code 1830), after which the calendar repeats. In `ResticProcess` one line
in each pipe and two in the queue suffice, since a line carries nothing but its presence;
one canceller acts repeatedly, and each of its three steps may fall into a later task. `BackupBody` needs two
monitors for an old one to meet the next task. In `SnapshotCache` two changes let one be
announced while the other is listed, two viewers meet at `query_lock`, and one of two
repositories changes while the other is only pruned. `RestoreQueue` has three tasks: one
run, one failing, one late. `ResticInstall` has two candidates, since a third is tried as
the second is, and versions of different lengths on both sides of the trusted one; their
parts lie below `Base`, which serves only to weigh them.

**Deadlock.** The runs of the slot and of the restore say `CHECK_DEADLOCK FALSE`: after the
shutdown, or with the sessions used up, the system really stops; so does `ScheduleClock`,
whose clock stops at its bound. The others check for it.

**Fairness.** Every thread that can take a step eventually does (weak fairness of
each worker, of the executor's second half of a command, of the shutdown, of the watchdog).
Users, schedules and the server need never act. restic may run for ever, unless it sees
the cancel event: its output loop polls it (`restic_runner.py:307`). In the restore runs
the server obeys `stop`, restic ends eventually and the executor eventually handles a
queued stop event although other commands compete for it (strong fairness). In
`ScheduleLoop` the threads and `stop()` go on, but no wait need ever time out: the end of
the threads rests on the wakeup, not on the thirty seconds after which `_wait` looks again.
A maintenance run ends: its restic is cancelled by the same shutdown.
In `ResticProcess` only the worker's thread must go on: `InterruptEnds` needs neither restic
nor its readers, because the worker never blocks on the queue. In `BackupBody` the body and
the monitors go on (RCON has a timeout), and a restic call that is cancelled ends, which is
what `InterruptEnds` shows. In `SnapshotLive` the timer of a hanging restic fires. In
`ResticInstall` an installer goes on: a download that drips is ended by the deadline, though
only between two reads of 256 KiB (`restic_download.py:457`), so much later than 300 s.

## What is proved

`BackupSlotProofs.tla` proves, for arbitrary disjoint finite or infinite sets of threads
and from `ThreadAssumption` alone:

- `TypeCorrect`, `Exclusive`, `RestoreExclusion`, `FieldsDescribeTask`, `RequestSticks`
  and `AutosaveReturns`: the type invariant and the five safety invariants of the run
  `slot`.

None of the five is inductive by itself. `IInv` is their conjunction with three facts:
each place of a code path is reached only by threads of the right kind (`Kinds`), the
executor's state says which single command is between its check and its take
(`ExecutorSerial`, what `CommandsExcludeRestore` rests on), and a thread that was
asked to cancel is inside the slot (`AskedInside`). Exclusion comes first, because every other part
needs "the thread that releases is the thread inside". The proof has one step per action;
`BackupSlotSafety.cfg` checks
`IInv` itself.

`RuntimeStateProofs.tla` proves, for any threads and any finite set of players
(`RuntimeAssumption`), first without any condition:

- `MirrorNeverLags` and `RuntimeTypes`, under every disturbance; neither `MirrorCurrent`
  nor `TypeOK` needs strengthening, but the second rests on lemmas about `Joined`, `Left`
  and `PersistPlayers`;

and then, each under the absence of the two disturbances that its statement names:

- `StatusProved` and `OutcomesLast` (no failing write, no reload). `StatusInv` adds that
  the slot's owner is the one thread inside, that no load is under way, that the file has
  the status of the record (what a restart reads), and that running is shown exactly
  between the two records;
- `VisitsAreSeen` (no failing write, no reload). `VisitInv` says that a visit has left a
  flag in the record, and a kept one also in the file, unless it is loose in a world of
  kills or crashes. Backups need `MirrorCurrent` here: their records start from the mirror;
- `SwitchStays` (no failing write, no rebuilt executor). `SwitchInv` adds that what a load
  has read is what `config.yml` says until it is installed;
- `CountsSettle` (no reload, no kill, no samples). `CountInv` relates the record to the
  queue: for each player the last waiting event about that player, and the known names
  where there is none, say whether the player is in the game; and the count is that of the
  known names. `PredictsTail` and `PredictsAppend` are what a queue owes to this without
  any induction over it.

The world never changes, so each of these is proved for a behaviour that is calm
(`WritesLast`, `FlagsLast`) and follows at once for any other.

`ScheduleProofs.tla` extends both schedule modules, whose variables are disjoint. It proves,
for any threads, commanders and configurations of `ScheduleLoop`:

- `ScheduleTypes`, inductive as it stands;
- `WakeupsArrive`: `NoLostWakeup` speaks of sleeping threads only, and becomes inductive as
  `Notified`: an outdated thread anywhere but at the head of its loop has a wakeup pending
  or coming. The two steps that clear the event lead to the head, and the one that leaves
  the head reads the configuration;

and of `ScheduleClock`, for any schedules, any calendar and any number of seconds, minutes
and hours, so for those of the real clock, too:

- `NextTimeIsLeast`: an instant and its day, hour, minute and second determine each other
  (`AtParts`, `PartsOfAt`), and a later instant is later in the first part that differs
  (`LaterParts`). So the nested search, which cuts off the past part by part, finds exactly
  what the expression names between its start and its horizon (`CandidateIsNamed`,
  `NamedIsCandidate`); `DaysAgree` says that the code's test of a day is the promised one
  unless a star has a step, and `DailyIsLeast` does the same for a time of day;
- `TriggersOnce`, by `ClockInv`: the time a thread waits for lies after its last trigger,
  and `now` and what is left of the wait together never fall short of it.

`SchedulesAssumption` says what parsing guarantees: numbers, a star that spans its field, an
hour and a minute that exist. What parsing refuses is not assumed away: an expression out
of bounds is a schedule of the model, and its time is `Never`.

`ResticProofs.tla` extends both restic modules. It proves of `ResticProcess`, for any
cancellers, bounds and deadlines:

- `TypesHold`, inductive as it stands;
- `NeverTwice`, by `Tally`: during a task `applied` is one exactly if the present call is no
  unlock and its process exited well, so a retry can only follow a call that did not;
- `NobodyLeftBehind`, by `Survivors`: the two places after the reading are reached with a
  live process only through both signals, or from a failing sink;
- `CancelsAreReported`, by `Requests`: while the slot is held, a request that is not stray
  has its event set, so a call that was struck on request is judged with the event. Three
  outcomes are excepted by the statement and each is needed (TLC refutes it without any of
  them): restic exited with 0, it stayed five seconds after its output, the sink failed;
- `ResultsAreWhole`: `SuccessIsWhole` needs to know where the sentinels are. `Sentinels` says
  that `active_streams` counts the readers at work and the ends still in the queue, and that
  a reader ends with its pipe drained, so that after the last end nothing follows; `Ending`
  that a call which ends by itself has taken both;

and of `ResticInstall`, for any versions, candidates and number of ends of the process:

- `InstallTypes`, for any number of installers, with `Trying`: whoever goes on from a
  candidate is not past the last one;
- `TargetAlwaysRuns`, `OnlyOlderReplaced` and `NothingDowngraded`, while one thread installs
  at a time (`OneInstaller`; `ResticInstallShared.cfg` shows that two break the first). They
  rest on `Whole`: the file beside the target is another file, complete when it is renamed,
  and whoever has begun to replace the target found it older. `NothingDowngraded` weighs
  versions of up to three parts, as restic's are; `OnlyOlderReplaced` says the same of any
  version by the code's own comparison, which `LessWeighs` shows to agree with the weight.

`BackupBodyProofs.tla` proves, for any monitors, `BodyTypes` and `FlushIsOwn`. `NoFalseFlush`
becomes inductive as `FlushInv`: while the watcher is armed an old line in the reader's
hands, and an event an old line has set, mean that the reader was held up; and nothing is
judged before the wait.

`RestoreWorkflowProofs.tla` proves, for any number of restores and any threads of the slot:

- `RefinesSlot`: the workflow implements `BackupSlot`; every step of a restore is, under
  `restorer <- Restorer`, a step of the slot or leaves it alone;
- `SessionOwned`, `AlwaysDriven`, `WritesToAStoppedWorld` and `QuietlyUnloaded`, the
  invariants of `restore_flow`, which speak of a server that stops only when asked;
- `TruthReported` and `PhaseMovesForward`, under crashes, foreign starts and MCDR's exit too;
- `TypeCorrect`.

None of them stands alone. The slot's invariant and the workflow's are proved in one
induction: a step refines the slot only because the workflow keeps its threads apart
(`OneInPlace`), and the workflow's threads keep apart only because the slot is exclusive.
`BackupSlotProofs` is instantiated and its `IInv` carried along, so that its theorems are
used and not repeated. `Core` says of each thread which session it works for and in which
phase (`WorkerPlaces`, `AfterPlaces`), what it carries (`Carried`: an after-stop thread that
marks the server as starting without an error has restored the files), that at most one
pre-stop thread is in the slot and one after-stop thread anywhere, who still owes save-on
(`Owing`), and, on a calm server, that a stop is coming for every session that waits for
one (`StopComing`).

The condition `Orderly` excludes one thing: a crash and a second restore in the same
behaviour. It is necessary: `RestoreAgainCrash.cfg` is the counterexample, a defect of the
code, in which an after-stop thread of the first session meets the second. `restore_flow` and
`restore_slot` check worlds that are all orderly. `SlotAssumption` restates `BackupSlot`'s
assumption for the instance; TLC evaluates it.

`SnapshotCacheProofs.tla` proves, for any viewers, configurations, changes and kills:

- `TypeCorrect`, `ValidRowsExist`, `TemporaryRowsOwned` and `TaskedAreKept`, by `Owned`: the
  holder of `query_lock` is the one viewer between the start of its refresh and its
  clean-up, and restic, the listing and the temporary rows are its own;
- `MarksAreShown`, if no two marks fall into one second (`SnapshotSameSecond.cfg` shows that
  it is false otherwise). `RefreshKnows` is what makes it inductive: either the row is
  still the one that the refresh read, and then the listing has every marked change, or a
  mark was written meanwhile, and then the row is invalid for a newer reason, which the
  swap notices.

`RestoreQueueProofs.tla` proves, for any repositories and any number of tasks, `TypeCorrect`,
`NothingLost` and `SeenIsDeleted`. The command reads the queue long before the restore's end
clears it; `CopyAccounts` and `SessionAccounts` say that in the meantime every row queued for
the copy's repository is still in the copy, was restored or came later. `SeenIsDeleted`
rests on `OneId`: an id names one task in the table and in every list still on a screen,
since none is given twice.

Only model-checked: the violations, of course; liveness (`CancelEnds`, `StoppingEndsWaiting`,
`RestoreEnds`, `StopEnds`, `InterruptEnds`, `BodyEnds`, `MonitorsEnd`, `EnsureEnds`: tlapm does
neither fairness nor `ENABLED`). Every other property of a passing run is a theorem, under the
conditions named above.

## Plan

The model covers the parts whose control is worth it, and every invariant and action
property of a passing run is proved. What could still be shown, in this order:

1. that the body of `BackupBody` implements the holder's part of `BackupSlot`, as
   `RestoreWorkflow` does for the restore: `ImplementsSlot` has a counterpart there
2. that a call of `ResticProcess` implements the one step that `BackupBody` makes of it

## Not modelled

Texts, formatting, configuration templates and their migration (run once, before any thread
starts), notifications and webhooks (their failures are logged and change nothing else), the
release query of the update check, reading a page of valid snapshot rows, the cleanup of
restore target directories, the tools and tests. Errors of SQLite other than a lock held too
long (a full disk in the middle of an import, say) are not modelled; they would leave
temporary rows as a kill does. Two plugin instances at once (a reload whose join timed out)
are listed as a hazard and not modelled. Thread start failures are modelled for backups, not
for restore stages. The clock is not adjusted in `ScheduleClock`:
the code waits by the monotonic clock and has no answer to that. A wakeup just before a
schedule's time that is handled just after it loses that run, which the next time makes up
for. Every component with its status is in `PROJECT.json`.
