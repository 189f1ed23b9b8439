--------------------------- MODULE ResticProcess ---------------------------
(***************************************************************************)
(* The holder of the backup slot runs a restic command: it starts the       *)
(* process, two reader threads pump its output into one queue, the worker   *)
(* takes the lines and looks at the cancel event and at the deadline        *)
(* between two of them, and terminates the process when either says so.  A  *)
(* command that found the repository locked by a dead process of this host  *)
(* is run once more after `restic unlock`.                                  *)
(*                                                                          *)
(* Cancellers (a cancel command, the player gate's monitor, the unload) set *)
(* the event and then terminate the process they find registered.  What     *)
(* restic does with its time is its own affair: it may write, exit with any *)
(* code, ignore SIGTERM or hang for ever.                                   *)
(***************************************************************************)
EXTENDS Naturals, Sequences

CONSTANTS Cancellers,   \* threads that may ask for a cancel
          MaxPipe,      \* bound: lines restic has written and nobody has read, per stream
          MaxQueue,     \* bound: items in the output queue
          HasDeadline   \* restic.timeout_seconds is set

ASSUME ProcessAssumption == MaxPipe \in Nat /\ MaxQueue \in Nat /\ HasDeadline \in BOOLEAN

VARIABLES
  pc,        \* where the worker is: "free" while nobody holds the slot, "idle" while
             \* its holder has no call under way
  attempt,   \* which call of run_restic_command: the command, its unlock or its rerun
  why,       \* what ended the reading before the streams did
  result,    \* how the last task ended
  applied,   \* history: runs of the task's command that have exited well
  finished,  \* history: one of them before anybody asked for a cancel
  proc,      \* the process of the current call: running, or how it exited
  signals,   \* of that process: "none", "termed", "killed" or "refused"
  pipe,      \* pipe[s]: lines of stream s that its reader has not read
  reader,    \* reader[s]: the thread that reads s
  queue,     \* output_queue
  active,    \* active_streams
  cancel,    \* backup.cancel
  expired,   \* the deadline has passed
  request,   \* request[c]: where canceller c is
  stray,     \* stray[c]: c's request was meant for an earlier task
  hit        \* history: whose signal reached the process of the current call

tally   == <<applied, finished>>
worker  == <<pc, attempt, why, result, applied, finished>>
process == <<proc, signals, hit>>
output  == <<pipe, reader, queue, active>>
callers == <<cancel, expired, request, stray>>
vars    == <<worker, process, output, callers>>

Streams  == {"stdout", "stderr"}
Places   == {"free", "idle", "ready", "loop", "take", "terminating", "exitWait", "unwind", "assess"}
Attempts == {"command", "unlock", "rerun"}
Good     == {"ok", "okLocked"}                  \* exit code 0, without and with the lock's text
Exits    == Good \union {"locked", "failed"}    \* "locked": by a dead process of this host
Signals  == {"none", "termed", "killed", "refused"}

Init == /\ pc = "free" /\ attempt = "command" /\ why = "none" /\ result = "none" /\ applied = 0
        /\ finished = FALSE
        /\ proc = "none" /\ signals = "none" /\ hit = "nobody"
        /\ pipe = [s \in Streams |-> 0] /\ reader = [s \in Streams |-> "off"]
        /\ queue = <<>> /\ active = 0
        /\ cancel = FALSE /\ expired = FALSE
        /\ request = [c \in Cancellers |-> "idle"] /\ stray = [c \in Cancellers |-> FALSE]
-----------------------------------------------------------------------------
(* release_backup_slot: the event is cleared with the slot. *)
ReleaseSlot ==
  /\ pc = "idle" /\ pc' = "free" /\ cancel' = FALSE
  /\ UNCHANGED <<attempt, why, result, tally, process, output, expired, request, stray>>

(* A task takes the slot and sets a new deadline.  A backup or maintenance keeps *)
(* an event that is set already (P1-7) and ends at its next look; a manual       *)
(* command clears it.  Whoever is still busy with a request that the event does  *)
(* not show is a stray for this task.                                            *)
TaskStarts ==
  /\ pc = "free" /\ attempt' = "command"
  /\ cancel' \in {cancel, FALSE}
  /\ IF cancel' THEN pc' = "idle" /\ result' = "canceled" ELSE pc' = "ready" /\ result' = "none"
  /\ why' = "none" /\ applied' = 0 /\ finished' = FALSE /\ expired' = FALSE
  /\ stray' = [c \in Cancellers |-> request[c] # "idle" /\ ~cancel']
  /\ hit' = "nobody"
  /\ UNCHANGED <<proc, signals, output, request>>

(* Its next command, as in maintenance, if nobody has asked for a cancel.  *)
NextCommand ==
  /\ pc = "idle" /\ result = "success" /\ ~cancel
  /\ pc' = "ready" /\ attempt' = "command"
  /\ why' = "none" /\ result' = "none" /\ applied' = 0 /\ finished' = FALSE
  /\ hit' = "nobody"
  /\ UNCHANGED <<proc, signals, output, callers>>

(* A process that is still running is nobody's from here on. *)
TaskEnds(how) == /\ pc' = "idle" /\ result' = how
                 /\ proc' = IF proc = "running" THEN "none" ELSE proc
                 /\ UNCHANGED <<attempt, why>>

(* No process is started once the deadline has passed; the start itself may     *)
(* fail.  From here on backup.current_process is the new process.               *)
StartFails ==
  /\ pc = "ready" /\ TaskEnds("problem")
  /\ UNCHANGED <<tally, signals, hit, output, callers>>

StartProcess ==
  /\ pc = "ready" /\ ~expired
  /\ pc' = "loop" /\ why' = "none"
  /\ proc' = "running" /\ signals' = "none" /\ hit' = "nobody"
  /\ pipe' = [s \in Streams |-> 0] /\ reader' = [s \in Streams |-> "reading"]
  /\ queue' = <<>> /\ active' = 2
  /\ UNCHANGED <<attempt, result, tally, callers>>

(* One round of consume_restic_output: first the cancel event, then the deadline. *)
Terminate(reason) ==
  /\ pc' = "terminating" /\ why' = reason
  /\ signals' = IF proc = "running" /\ signals = "none" THEN "termed" ELSE signals
  /\ UNCHANGED <<attempt, result, tally, proc, hit>>

Poll ==
  /\ pc = "loop" /\ active > 0
  /\ \/ cancel /\ Terminate("cancel")
     \/ ~cancel /\ expired /\ Terminate("deadline")
     \/ /\ ~cancel /\ ~expired /\ pc' = "take"
        /\ UNCHANGED <<attempt, why, result, tally, process>>
  /\ UNCHANGED <<output, callers>>

StreamsEnded ==
  /\ pc = "loop" /\ active = 0 /\ pc' = "exitWait"
  /\ UNCHANGED <<attempt, why, result, tally, process, output, callers>>

(* Mistake: a line of one stream ends the reading of both. *)
TakeItemOfOne ==
  /\ pc = "take" /\ queue # <<>> /\ queue' = Tail(queue)
  /\ active' = IF Head(queue) = "end" THEN 0 ELSE active
  /\ pc' = "loop"
  /\ UNCHANGED <<attempt, why, result, tally, process, pipe, reader, callers>>

TakeItem ==
  /\ pc = "take" /\ queue # <<>> /\ queue' = Tail(queue)
  /\ active' = IF Head(queue) = "end" THEN active - 1 ELSE active
  /\ pc' = "loop"
  /\ UNCHANGED <<attempt, why, result, tally, process, pipe, reader, callers>>

(* Mistake: the queue is read without a timeout. *)
BlocksOnQueue ==
  /\ pc = "take" /\ queue # <<>> /\ UNCHANGED vars

(* The queue is read with a timeout of a second at most. *)
NothingTaken ==
  /\ pc = "take" /\ queue = <<>> /\ pc' = "loop"
  /\ UNCHANGED <<attempt, why, result, tally, process, output, callers>>

(* exec hands each line to a sink that replies to the player; if that raises,  *)
(* the reading ends and nobody terminates the process.                         *)
SinkFails ==
  /\ pc = "take" /\ queue # <<>> /\ Head(queue) = "line"
  /\ pc' = "unwind" /\ why' = "sink" /\ queue' = Tail(queue)
  /\ UNCHANGED <<attempt, result, tally, process, pipe, reader, active, callers>>

(* terminate_process: ten seconds after SIGTERM comes SIGKILL, whose effect is  *)
(* not awaited; either signal may be refused.                                   *)
AfterTermination == IF why = "deadline" THEN "exitWait" ELSE "unwind"

TerminationSeen ==
  /\ pc = "terminating" /\ proc # "running" /\ pc' = AfterTermination
  /\ UNCHANGED <<attempt, why, result, tally, process, output, callers>>

TerminationForced ==
  /\ pc = "terminating" /\ proc = "running" /\ pc' = AfterTermination
  /\ signals' \in {"killed", IF signals = "killed" THEN "killed" ELSE "refused"}
  /\ UNCHANGED <<attempt, why, result, tally, proc, hit, output, callers>>

(* wait_for_restic_exit: five seconds, then the process is terminated. *)
ExitSeen ==
  /\ pc = "exitWait" /\ proc # "running" /\ pc' = "unwind"
  /\ UNCHANGED <<attempt, why, result, tally, process, output, callers>>

(* Mistake: the process that is still running is left to itself. *)
ExitNotWaited ==
  /\ pc = "exitWait" /\ proc = "running" /\ pc' = "unwind" /\ why' = "late"
  /\ UNCHANGED <<attempt, result, tally, process, output, callers>>

ExitTooLate ==
  /\ pc = "exitWait" /\ proc = "running" /\ Terminate("late")
  /\ UNCHANGED <<output, callers>>

(* The readers are joined for two seconds each, then current_process is None:   *)
(* a canceller that holds the process has nothing more to do with what follows. *)
Unwind ==
  /\ pc = "unwind" /\ pc' = "assess"
  /\ request' = [c \in Cancellers |-> IF request[c] = "waiting" THEN "idle" ELSE request[c]]
  /\ UNCHANGED <<attempt, why, result, tally, process, output, cancel, expired, stray>>
-----------------------------------------------------------------------------
(* Mistake: a result is a result, whoever asked for a cancel. *)
OnlyIfNoticed == why = "cancel"

(* assert_restic_process_completed and what lock recovery makes of the result.   *)
Canceled == \/ why = "cancel"
            \/ why \in {"none", "deadline"} /\ cancel /\ (why = "deadline" \/ proc \notin Good)

(* Mistake: the text alone decides, not the exit code. *)
LockedByText == proc \in {"locked", "okLocked"}

Recoverable == proc = "locked"

(* assert_restic_success: a good exit may still have printed something suspicious. *)
Verdicts == IF proc \in Good THEN {"success", "suspect"} ELSE {"failed"}

Retry(as) == pc' = "ready" /\ attempt' = as /\ UNCHANGED <<why, result, proc>>

(* A call that was neither cancelled nor cut short.  A failed unlock returns the *)
(* result of the first attempt; a manual command has no lock recovery.           *)
Recover ==
  \/ attempt = "command" /\ Recoverable /\ ~cancel /\ Retry("unlock")
  \/ attempt = "unlock" /\ "success" \in Verdicts /\ Retry("rerun")
  \/ attempt = "unlock" /\ Verdicts # {"success"} /\ TaskEnds("locked")
  \/ attempt # "unlock" /\ \E verdict \in Verdicts : TaskEnds(verdict)

Assess ==
  /\ pc = "assess"
  /\ \/ Canceled /\ TaskEnds("canceled")
     \/ ~Canceled /\ why \in {"deadline", "late"} /\ TaskEnds("problem")
     \/ ~Canceled /\ why = "sink" /\ TaskEnds("broken")
     \/ ~Canceled /\ why = "none" /\ Recover
  /\ hit' = IF pc' = "ready" THEN "nobody" ELSE hit
  /\ UNCHANGED <<tally, signals, output, callers>>

Work == \/ StartFails \/ StartProcess \/ Poll \/ StreamsEnded \/ TakeItem \/ NothingTaken \/ SinkFails
        \/ TerminationSeen \/ TerminationForced \/ ExitSeen \/ ExitTooLate \/ Unwind \/ Assess
-----------------------------------------------------------------------------
(* restic and its readers. *)
Write(s) ==
  /\ proc = "running" /\ reader[s] = "reading" /\ pipe[s] < MaxPipe
  /\ pipe' = [pipe EXCEPT ![s] = @ + 1]
  /\ UNCHANGED <<worker, process, reader, queue, active, callers>>

Exit(code) ==
  /\ proc = "running" /\ (signals = "killed" => code = "failed")
  /\ proc' = code
  /\ applied' = IF attempt # "unlock" /\ code \in Good THEN applied + 1 ELSE applied
  /\ finished' = (finished \/ (attempt # "unlock" /\ code \in Good /\ ~cancel))
  /\ UNCHANGED <<pc, attempt, why, result, signals, hit, output, callers>>

ReadLine(s) ==
  /\ reader[s] = "reading" /\ pipe[s] > 0 /\ Len(queue) < MaxQueue
  /\ pipe' = [pipe EXCEPT ![s] = @ - 1] /\ queue' = Append(queue, "line")
  /\ UNCHANGED <<worker, process, reader, active, callers>>

(* The end of a stream: restic has exited or closed it. *)
ReadEnd(s) ==
  /\ reader[s] = "reading" /\ pipe[s] = 0 /\ Len(queue) < MaxQueue
  /\ reader' = [reader EXCEPT ![s] = "ended"] /\ queue' = Append(queue, "end")
  /\ UNCHANGED <<worker, process, pipe, active, callers>>

DeadlinePasses ==
  /\ HasDeadline /\ pc # "free" /\ ~expired /\ expired' = TRUE
  /\ UNCHANGED <<worker, process, output, cancel, request, stray>>
-----------------------------------------------------------------------------
(* A canceller looks whether the slot is held (is_backup_running), ... *)
Look(c) ==
  /\ request[c] = "idle" /\ pc # "free"
  /\ request' = [request EXCEPT ![c] = "looked"]
  /\ UNCHANGED <<worker, process, output, cancel, expired, stray>>

(* ... and calls request_cancel_current_process, whoever holds it by now.  The  *)
(* event first: a task that is at work then sees it, though another was meant.   *)
Request(c) ==
  /\ request[c] = "looked"
  /\ cancel' = TRUE
  /\ request' = [request EXCEPT ![c] = "flagged"] /\ stray' = [stray EXCEPT ![c] = FALSE]
  /\ UNCHANGED <<worker, process, output, expired>>

(* then the process, if one is registered and has not ended; SIGTERM to it. *)
CurrentProcess == IF pc \in {"loop", "take", "terminating", "exitWait", "unwind"} THEN proc ELSE "none"

Strike(c) ==
  /\ request[c] = "flagged"
  /\ IF CurrentProcess = "running"
     THEN /\ request' = [request EXCEPT ![c] = "waiting"]
          /\ signals' = IF signals = "none" THEN "termed" ELSE signals
          /\ hit' = IF stray[c] /\ hit # "asked" THEN "stray" ELSE "asked"
     ELSE request' = [request EXCEPT ![c] = "idle"] /\ UNCHANGED <<signals, hit>>
  /\ UNCHANGED <<worker, proc, output, cancel, expired, stray>>

StrikeSeen(c) ==
  /\ request[c] = "waiting" /\ proc # "running"
  /\ request' = [request EXCEPT ![c] = "idle"]
  /\ UNCHANGED <<worker, process, output, cancel, expired, stray>>

StrikeForced(c) ==
  /\ request[c] = "waiting" /\ proc = "running"
  /\ signals' \in {"killed", IF signals = "killed" THEN "killed" ELSE "refused"}
  /\ request' = [request EXCEPT ![c] = "idle"]
  /\ UNCHANGED <<worker, proc, hit, output, cancel, expired, stray>>
-----------------------------------------------------------------------------
Next == \/ ReleaseSlot \/ TaskStarts \/ NextCommand \/ Work \/ DeadlinePasses
        \/ \E s \in Streams : Write(s) \/ ReadLine(s) \/ ReadEnd(s)
        \/ \E code \in Exits : Exit(code)
        \/ \E c \in Cancellers : Look(c) \/ Request(c) \/ Strike(c) \/ StrikeSeen(c) \/ StrikeForced(c)

Spec == Init /\ [][Next]_vars

(* The worker's thread goes on.  restic, its readers and the cancellers need not. *)
FairSpec == Spec /\ WF_vars(Work)
-----------------------------------------------------------------------------
TypeOK ==
  /\ pc \in Places /\ attempt \in Attempts /\ why \in {"none", "cancel", "deadline", "late", "sink"}
  /\ result \in {"none", "success", "failed", "canceled", "problem", "broken", "suspect", "locked"}
  /\ applied \in Nat /\ finished \in BOOLEAN
  /\ proc \in {"none", "running"} \union Exits /\ signals \in Signals
  /\ hit \in {"nobody", "asked", "stray"}
  /\ pipe \in [Streams -> Nat] /\ reader \in [Streams -> {"off", "reading", "ended"}]
  /\ queue \in Seq({"line", "end"}) /\ active \in 0..2 /\ (pc = "take" => active > 0)
  /\ cancel \in BOOLEAN /\ expired \in BOOLEAN
  /\ request \in [Cancellers -> {"idle", "looked", "flagged", "waiting"}] /\ stray \in [Cancellers -> BOOLEAN]

(* A result that lock recovery or the caller judges by exit code and output was *)
(* judged with all of the output: both streams read to their ends, nothing in a *)
(* pipe or in the queue (consume_restic_output counts the two sentinels).       *)
SuccessIsWhole ==
  pc = "assess" /\ why = "none" =>
    /\ proc \in Exits /\ queue = <<>> /\ \A s \in Streams : pipe[s] = 0 /\ reader[s] = "ended"

(* However unlock and rerun interleave with cancels and deadlines, a command   *)
(* that succeeded is never run a second time (recoverable_stale_lock_info).     *)
AtMostOnce == applied <= 1

(* restic outlives its call only if it was sent SIGKILL, refused both signals,  *)
(* or belonged to an exec whose output could not be delivered.                  *)
NoSurvivor ==
  pc = "assess" /\ proc = "running" => signals \in {"killed", "refused"} \/ why = "sink"

(* A task whose restic was struck by a cancel meant for it ends as cancelled,    *)
(* though the event, the signal, the exit and the judgement are steps of two     *)
(* threads.  What the code excepts is named: restic exited with 0 all the same    *)
(* and is judged by what it did (P5-1); it outlived its output by five seconds,  *)
(* which wait_for_restic_exit reports as a problem whoever asked for what         *)
(* (restic_runner.py:384); exec's sink failed.  A request whose event the task   *)
(* does not have, because it came too late for its own task, is no cancel of it.  *)
InterruptedIsCanceled ==
  pc = "idle" /\ hit = "asked" /\ result # "canceled"
    => \/ why = "none" /\ proc \in Good
       \/ why = "late" /\ result = "problem"
       \/ why = "sink" /\ result = "broken"

(* comment at restic_runner.py:157: a command that exited with code 0 is not   *)
(* reported as cancelled because a request came in only then.                   *)
FinishedIsNotCanceled == pc = "idle" /\ result = "canceled" => ~finished

(* A cancel request ends the task it finds at work, and so does the deadline,  *)
(* even if restic hangs and cannot be killed.                                   *)
InterruptEnds == (cancel \/ expired) /\ pc \notin {"free", "idle"} ~> pc = "idle"
=============================================================================
