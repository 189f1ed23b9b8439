---------------------------- MODULE ResticProofs ----------------------------
(***************************************************************************)
(* What the two restic modules promise for every value of the constants.    *)
(*                                                                          *)
(* ResticProcess, whatever the cancellers, the bounds and the deadline are: *)
(* TypeOK is inductive; each safety property speaks of one place of the     *)
(* worker and becomes inductive when the steps that lead there are taken    *)
(* in, for the whole output also what the queue holds.                      *)
(*                                                                          *)
(* ResticInstall, whatever the versions and the list of candidates are and  *)
(* wherever an installation is cut off, as long as one thread installs at a *)
(* time: the file beside the target is another one, and complete when it is *)
(* renamed (Whole).                                                         *)
(***************************************************************************)
EXTENDS ResticProcess, ResticInstall, FiniteSetTheorems, TLAPS

Calling == pc \in {"loop", "take", "terminating", "exitWait", "unwind", "assess"}

(* A process that exits well counts once, and only the last call of a task has *)
(* one: lock recovery goes on only after a first attempt that did not.         *)
Tally ==
  /\ pc \in {"free", "idle"} => applied <= 1 /\ proc # "running"
  /\ pc = "ready" => applied = 0 /\ proc # "running"
  /\ Calling => applied = IF attempt # "unlock" /\ proc \in Good THEN 1 ELSE 0

(* Whoever leaves the reading with a process at work has used both signals. *)
Survivors ==
  pc \in {"unwind", "assess"} /\ proc = "running" => signals \in {"killed", "refused"} \/ why = "sink"

(* A request keeps its event set until its task ends, so a process that was *)
(* struck on request is judged with the event set; a new call starts unhit.  *)
Requests ==
  /\ \A c \in Cancellers :
       request[c] \in {"flagged", "waiting"} /\ ~stray[c] /\ pc # "free" => cancel
  /\ Calling /\ hit = "asked" => cancel
  /\ pc = "ready" => hit = "nobody"
  /\ InterruptedIsCanceled

(* Nothing is running at first. *)
LEMMA TypeInit == Init => TypeOK
<1> SUFFICES ASSUME Init PROVE TypeOK
  OBVIOUS
<1>1. queue \in Seq({"line", "end"})
  BY DEF Init
<1>2. active \in 0..2 /\ (pc = "take" => active > 0) /\ applied \in Nat
  BY DEF Init
<1> QED
  BY <1>1, <1>2 DEF Init, TypeOK, Places, Attempts, Signals, Exits, Good

(* Each step of the worker, the readers, restic and the cancellers keeps the types. *)
LEMMA TypeStep == ASSUME TypeOK, [Next]_vars, ProcessAssumption PROVE TypeOK'
<1> USE DEF TypeOK, Places, Attempts, Signals, Exits, Good, worker, tally, process, output, callers
<1>1. CASE TaskStarts BY <1>1 DEF TaskStarts
<1>2. CASE NextCommand BY <1>2 DEF NextCommand
<1>3. CASE StartFails BY <1>3 DEF StartFails, TaskEnds
<1>4. CASE StartProcess BY <1>4 DEF StartProcess
<1>5. CASE Poll BY <1>5 DEF Poll, Terminate
<1>6. CASE StreamsEnded BY <1>6 DEF StreamsEnded
<1>7. CASE TakeItem BY <1>7 DEF TakeItem
<1>8. CASE NothingTaken BY <1>8 DEF NothingTaken
<1>9. CASE SinkFails BY <1>9 DEF SinkFails
<1>10. CASE TerminationSeen BY <1>10 DEF TerminationSeen, AfterTermination
<1>11. CASE TerminationForced BY <1>11 DEF TerminationForced, AfterTermination
<1>12. CASE ExitSeen BY <1>12 DEF ExitSeen
<1>13. CASE ExitTooLate BY <1>13 DEF ExitTooLate, Terminate
<1>14. CASE Unwind BY <1>14 DEF Unwind
<1>15. CASE Assess BY <1>15 DEF Assess, TaskEnds, Recover, Retry, Verdicts
<1>16. CASE DeadlinePasses BY <1>16 DEF DeadlinePasses
<1>17. ASSUME NEW s \in Streams, Write(s) PROVE TypeOK' BY <1>17 DEF Write
<1>18. ASSUME NEW s \in Streams, ReadLine(s) PROVE TypeOK' BY <1>18 DEF ReadLine
<1>19. ASSUME NEW s \in Streams, ReadEnd(s) PROVE TypeOK' BY <1>19 DEF ReadEnd
<1>20. ASSUME NEW code \in Exits, Exit(code) PROVE TypeOK' BY <1>20 DEF Exit
<1>21. ASSUME NEW c \in Cancellers, Request(c) PROVE TypeOK' BY <1>21 DEF Request
<1>22. ASSUME NEW c \in Cancellers, Strike(c) PROVE TypeOK' BY <1>22 DEF Strike
<1>23. ASSUME NEW c \in Cancellers, StrikeSeen(c) PROVE TypeOK' BY <1>23 DEF StrikeSeen
<1>24. ASSUME NEW c \in Cancellers, StrikeForced(c) PROVE TypeOK' BY <1>24 DEF StrikeForced
<1>25. ASSUME NEW c \in Cancellers, Look(c) PROVE TypeOK' BY <1>25 DEF Look
<1>26. CASE ReleaseSlot
  <2>1. pc' = "free" /\ UNCHANGED <<attempt, why, result, tally, process, output, expired, request, stray>>
    BY <1>26 DEF ReleaseSlot
  <2>2. cancel' \in BOOLEAN
    BY <1>26, Zenon DEF ReleaseSlot
  <2> QED BY <2>1, <2>2
<1>27. CASE UNCHANGED vars BY <1>27 DEF vars
<1> QED
  BY <1>1, <1>2, <1>3, <1>4, <1>5, <1>6, <1>7, <1>8, <1>9, <1>10, <1>11, <1>12, <1>13, <1>14, <1>15,
     <1>16, <1>17, <1>18, <1>19, <1>20, <1>21, <1>22, <1>23, <1>24, <1>25, <1>26, <1>27 DEF Next, Work

IInv == TypeOK /\ Tally /\ Survivors /\ Requests

(* Every variable keeps its type, for any bounds and cancellers: the worker takes *)
(* an item only while a stream is open (consume_restic_output).                    *)
THEOREM TypesHold == Spec => []TypeOK
<1>1. TypeOK /\ [Next]_vars => TypeOK'
  BY TypeStep, ProcessAssumption
<1> QED
  BY TypeInit, <1>1, PTL DEF Spec

(* Only the exit of restic counts a run. *)
LEMMA TallyStep == ASSUME TypeOK, Tally, [Next]_vars PROVE Tally'
<1> USE DEF TypeOK, Tally, Calling, Attempts, Exits, Good, worker, tally, process, output, callers
<1>1. CASE TaskStarts
  <2>1. pc' \in {"idle", "ready"} /\ applied' = 0 /\ proc' = proc /\ proc # "running"
    BY <1>1 DEF TaskStarts
  <2> QED BY <2>1
<1>13. CASE ReleaseSlot \/ NextCommand BY <1>13 DEF ReleaseSlot, NextCommand
<1>2. CASE StartFails BY <1>2 DEF StartFails, TaskEnds
<1>3. CASE StartProcess BY <1>3 DEF StartProcess
<1>4. CASE Poll \/ ExitTooLate BY <1>4 DEF Poll, Terminate, ExitTooLate
<1>5. CASE StreamsEnded \/ TakeItem \/ NothingTaken \/ SinkFails
  BY <1>5 DEF StreamsEnded, TakeItem, NothingTaken, SinkFails
<1>6. CASE TerminationSeen \/ TerminationForced \/ ExitSeen \/ Unwind
  BY <1>6 DEF TerminationSeen, TerminationForced, AfterTermination, ExitSeen, Unwind
<1>7. CASE Assess BY <1>7 DEF Assess, TaskEnds, Recover, Recoverable, Retry, Verdicts
<1>8. CASE DeadlinePasses BY <1>8 DEF DeadlinePasses
<1>9. ASSUME NEW s \in Streams, Write(s) \/ ReadLine(s) \/ ReadEnd(s) PROVE Tally'
  BY <1>9 DEF Write, ReadLine, ReadEnd
<1>10. ASSUME NEW code \in Exits, Exit(code) PROVE Tally' BY <1>10 DEF Exit, Places
<1>11. ASSUME NEW c \in Cancellers, Look(c) \/ Request(c) \/ Strike(c) \/ StrikeSeen(c) \/ StrikeForced(c)
       PROVE Tally'
  BY <1>11 DEF Look, Request, Strike, StrikeSeen, StrikeForced
<1>12. CASE UNCHANGED vars BY <1>12 DEF vars
<1> QED
  BY <1>1, <1>2, <1>3, <1>4, <1>5, <1>6, <1>7, <1>8, <1>9, <1>10, <1>11, <1>12, <1>13 DEF Next, Work

(* Nobody leaves the reading without both signals but a failing sink. *)
LEMMA SurvivorsStep == ASSUME TypeOK, Tally, Survivors, [Next]_vars PROVE Survivors'
<1> USE DEF TypeOK, Tally, Survivors, Signals, Exits, Good, worker, tally, process, output, callers
<1>1. CASE ReleaseSlot \/ TaskStarts \/ NextCommand \/ StartFails \/ StartProcess
  BY <1>1 DEF ReleaseSlot, TaskStarts, NextCommand, StartFails, StartProcess, TaskEnds
<1>2. CASE Poll \/ ExitTooLate BY <1>2 DEF Poll, Terminate, ExitTooLate
<1>3. CASE StreamsEnded \/ TakeItem \/ NothingTaken \/ SinkFails
  BY <1>3 DEF StreamsEnded, TakeItem, NothingTaken, SinkFails
<1>4. CASE TerminationSeen \/ TerminationForced \/ ExitSeen \/ Unwind
  BY <1>4 DEF TerminationSeen, TerminationForced, AfterTermination, ExitSeen, Unwind
<1>5. CASE Assess BY <1>5 DEF Assess, TaskEnds, Recover, Retry
<1>6. CASE DeadlinePasses BY <1>6 DEF DeadlinePasses
<1>7. ASSUME NEW s \in Streams, Write(s) \/ ReadLine(s) \/ ReadEnd(s) PROVE Survivors'
  BY <1>7 DEF Write, ReadLine, ReadEnd
<1>8. ASSUME NEW code \in Exits, Exit(code) PROVE Survivors' BY <1>8 DEF Exit
<1>9. ASSUME NEW c \in Cancellers, Look(c) \/ Request(c) \/ Strike(c) \/ StrikeSeen(c) \/ StrikeForced(c)
      PROVE Survivors'
  BY <1>9 DEF Look, Request, Strike, StrikeSeen, StrikeForced
<1>10. CASE UNCHANGED vars BY <1>10 DEF vars
<1> QED
  BY <1>1, <1>2, <1>3, <1>4, <1>5, <1>6, <1>7, <1>8, <1>9, <1>10 DEF Next, Work

(* Only a new task clears the event under a request, which is then not its own. *)
LEMMA RequestsStep == ASSUME TypeOK, Requests, [Next]_vars PROVE Requests'
<1> USE DEF TypeOK, Requests, InterruptedIsCanceled, Calling, worker, tally, process, output, callers
<1>1. CASE ReleaseSlot \/ TaskStarts \/ NextCommand BY <1>1 DEF ReleaseSlot, TaskStarts, NextCommand
<1>2. CASE StartFails \/ StartProcess BY <1>2 DEF StartFails, StartProcess, TaskEnds
<1>3. CASE Poll \/ ExitTooLate BY <1>3 DEF Poll, Terminate, ExitTooLate
<1>4. CASE StreamsEnded \/ TakeItem \/ NothingTaken \/ SinkFails
  BY <1>4 DEF StreamsEnded, TakeItem, NothingTaken, SinkFails
<1>5. CASE TerminationSeen \/ TerminationForced \/ ExitSeen
  BY <1>5 DEF TerminationSeen, TerminationForced, AfterTermination, ExitSeen
<1>6. CASE Unwind BY <1>6 DEF Unwind
\* A failed verdict on a process that exited badly: nobody had asked for a cancel.
<1>7. CASE Assess
  <2>1. pc = "assess" /\ pc' \in {"idle", "ready"} /\ UNCHANGED <<request, stray, cancel>>
    BY <1>7 DEF Assess, TaskEnds, Recover, Retry
  <2>2. pc' = "ready" => hit' = "nobody"
    BY <1>7 DEF Assess
  <2>3. InterruptedIsCanceled'
    <3> SUFFICES ASSUME pc' = "idle", hit' = "asked", result' # "canceled"
                 PROVE  \/ why' = "none" /\ proc' \in Good
                        \/ why' = "late" /\ result' = "problem"
                        \/ why' = "sink" /\ result' = "broken"
      OBVIOUS
    <3>1. cancel /\ ~Canceled /\ why' = why
      BY <1>7 DEF Assess, TaskEnds, Recover, Retry
    <3>2. CASE why = "none"
      <4>1. proc \in Good
        BY <3>1, <3>2 DEF Canceled
      <4>2. proc' = proc
        BY <1>7, <4>1 DEF Assess, TaskEnds, Recover, Retry, Good
      <4> QED BY <3>1, <3>2, <4>1, <4>2
    <3>3. CASE why = "late"
      BY <1>7, <3>1, <3>3 DEF Assess, TaskEnds
    <3>4. CASE why = "sink"
      BY <1>7, <3>1, <3>4 DEF Assess, TaskEnds
    <3> QED BY <3>1, <3>2, <3>3, <3>4 DEF Canceled
  <2> QED BY <2>1, <2>2, <2>3
<1>8. CASE DeadlinePasses BY <1>8 DEF DeadlinePasses
<1>9. ASSUME NEW s \in Streams, Write(s) \/ ReadLine(s) \/ ReadEnd(s) PROVE Requests'
  BY <1>9 DEF Write, ReadLine, ReadEnd
<1>10. ASSUME NEW code \in Exits, Exit(code) PROVE Requests' BY <1>10 DEF Exit, Good
<1>11. ASSUME NEW c \in Cancellers, Look(c) \/ Request(c) PROVE Requests' BY <1>11 DEF Look, Request
<1>12. ASSUME NEW c \in Cancellers, Strike(c) PROVE Requests' BY <1>12 DEF Strike, CurrentProcess
<1>13. ASSUME NEW c \in Cancellers, StrikeSeen(c) \/ StrikeForced(c) PROVE Requests'
  BY <1>13 DEF StrikeSeen, StrikeForced
<1>14. CASE UNCHANGED vars BY <1>14 DEF vars
<1> QED
  BY <1>1, <1>2, <1>3, <1>4, <1>5, <1>6, <1>7, <1>8, <1>9, <1>10, <1>11, <1>12, <1>13, <1>14
     DEF Next, Work

(* The three together are inductive. *)
LEMMA Inductive == Spec => []IInv
<1>1. Init => IInv
  BY TypeInit DEF Init, IInv, Tally, Survivors, Requests, InterruptedIsCanceled, Calling, Good
<1>2. IInv /\ [Next]_vars => IInv'
  BY TypeStep, TallyStep, SurvivorsStep, RequestsStep, ProcessAssumption DEF IInv
<1> QED
  BY <1>1, <1>2, PTL DEF Spec

(* No command that succeeded is run again. *)
THEOREM NeverTwice == Spec => []AtMostOnce
<1>1. IInv => AtMostOnce
  BY DEF IInv, TypeOK, Places, Tally, Calling, AtMostOnce
<1> QED
  BY Inductive, <1>1, PTL

(* restic survives its call only where it must. *)
THEOREM NobodyLeftBehind == Spec => []NoSurvivor
<1>1. IInv => NoSurvivor
  BY DEF IInv, Survivors, NoSurvivor
<1> QED
  BY Inductive, <1>1, PTL

(* A call that a cancel struck is reported as cancelled, unless restic exited with *)
(* 0 all the same, stayed on five seconds after its output, or exec's sink failed  *)
(* (assert_restic_process_completed, restic_runner.py:384).                        *)
THEOREM CancelsAreReported == Spec => []InterruptedIsCanceled
<1>1. IInv => InterruptedIsCanceled
  BY DEF IInv, Requests
<1> QED
  BY Inductive, <1>1, PTL
-----------------------------------------------------------------------------
(* How many ends of a stream a queue holds; there are never more than two. *)
NoEnd(q) == \A i \in 1..Len(q) : q[i] # "end"
OneEnd(q) == \E i \in 1..Len(q) : \A j \in 1..Len(q) : q[j] = "end" <=> j = i
TwoEnds(q) == \E i, k \in 1..Len(q) : i # k /\ \A j \in 1..Len(q) : q[j] = "end" <=> j \in {i, k}

Items == Seq({"line", "end"})

(* A line at either side of the queue leaves its ends as they are. *)
LEMMA LineApart ==
  ASSUME NEW q \in Items
  PROVE  /\ NoEnd(q) => NoEnd(Append(q, "line"))
         /\ OneEnd(q) => OneEnd(Append(q, "line"))
         /\ TwoEnds(q) => TwoEnds(Append(q, "line"))
<1> DEFINE r == Append(q, "line")
<1>1. /\ Len(r) = Len(q) + 1 /\ Len(q) \in Nat
      /\ \A i \in 1..Len(q) : r[i] = q[i]
      /\ r[Len(q) + 1] = "line"
  BY DEF Items
<1> HIDE DEF r
<1>2. NoEnd(q) => NoEnd(r)
  BY <1>1 DEF NoEnd
<1>3. ASSUME OneEnd(q) PROVE OneEnd(r)
  <2>1. PICK i \in 1..Len(q) : \A j \in 1..Len(q) : q[j] = "end" <=> j = i
    BY <1>3 DEF OneEnd
  <2>2. i \in 1..Len(r) /\ \A j \in 1..Len(r) : r[j] = "end" <=> j = i
    BY <1>1, <2>1
  <2> QED BY <2>2 DEF OneEnd
<1>4. ASSUME TwoEnds(q) PROVE TwoEnds(r)
  <2>1. PICK i, k \in 1..Len(q) : i # k /\ \A j \in 1..Len(q) : q[j] = "end" <=> j \in {i, k}
    BY <1>4 DEF TwoEnds
  <2>2. i \in 1..Len(r) /\ k \in 1..Len(r)
        /\ \A j \in 1..Len(r) : r[j] = "end" <=> j \in {i, k}
    BY <1>1, <2>1
  <2> QED BY <2>1, <2>2 DEF TwoEnds
<1> QED BY <1>2, <1>3, <1>4 DEF r

(* Another end adds one. *)
LEMMA EndAdded ==
  ASSUME NEW q \in Items
  PROVE  /\ NoEnd(q) => OneEnd(Append(q, "end"))
         /\ OneEnd(q) => TwoEnds(Append(q, "end"))
<1> DEFINE r == Append(q, "end")
<1>1. /\ Len(r) = Len(q) + 1 /\ Len(q) \in Nat
      /\ \A i \in 1..Len(q) : r[i] = q[i]
      /\ r[Len(q) + 1] = "end"
  BY DEF Items
<1> HIDE DEF r
<1>2. ASSUME NoEnd(q) PROVE OneEnd(r)
  <2>1. Len(q) + 1 \in 1..Len(r) /\ \A j \in 1..Len(r) : r[j] = "end" <=> j = Len(q) + 1
    BY <1>1, <1>2 DEF NoEnd
  <2> QED BY <2>1 DEF OneEnd
<1>3. ASSUME OneEnd(q) PROVE TwoEnds(r)
  <2>1. PICK i \in 1..Len(q) : \A j \in 1..Len(q) : q[j] = "end" <=> j = i
    BY <1>3 DEF OneEnd
  <2> DEFINE k == Len(q) + 1
  <2>2. i \in 1..Len(r) /\ k \in 1..Len(r) /\ i # k
    BY <1>1, <2>1
  <2>3. \A j \in 1..Len(r) : r[j] = "end" <=> j \in {i, k}
    BY <1>1, <2>1
  <2> HIDE DEF k
  <2> QED BY <2>2, <2>3 DEF TwoEnds
<1> QED BY <1>2, <1>3 DEF r

(* What the worker takes is the first item. *)
LEMMA ItemTaken ==
  ASSUME NEW q \in Items, q # <<>>
  PROVE  /\ Head(q) = "line" /\ NoEnd(q) => NoEnd(Tail(q))
         /\ Head(q) = "line" /\ OneEnd(q) => OneEnd(Tail(q))
         /\ Head(q) = "line" /\ TwoEnds(q) => TwoEnds(Tail(q))
         /\ Head(q) = "end" => ~NoEnd(q)
         /\ Head(q) = "end" /\ OneEnd(q) => NoEnd(Tail(q))
         /\ Head(q) = "end" /\ TwoEnds(q) => OneEnd(Tail(q))
<1> DEFINE r == Tail(q)
<1>1. /\ Len(q) \in Nat /\ Len(q) > 0 /\ Len(r) = Len(q) - 1 /\ Head(q) = q[1]
      /\ \A i \in 1..Len(r) : r[i] = q[i + 1]
  BY DEF Items
<1> HIDE DEF r
<1>2. /\ Head(q) = "line" /\ NoEnd(q) => NoEnd(r)
      /\ Head(q) = "end" => ~NoEnd(q)
      /\ Head(q) = "end" /\ OneEnd(q) => NoEnd(r)
  BY <1>1 DEF NoEnd, OneEnd
<1>3. ASSUME Head(q) = "line", OneEnd(q) PROVE OneEnd(r)
  <2>1. PICK i \in 1..Len(q) : \A j \in 1..Len(q) : q[j] = "end" <=> j = i
    BY <1>3 DEF OneEnd
  <2>2. i - 1 \in 1..Len(r)
    BY <1>1, <1>3, <2>1
  <2>3. \A j \in 1..Len(r) : r[j] = "end" <=> j = i - 1
    BY <1>1, <2>1
  <2> QED BY <2>2, <2>3 DEF OneEnd
<1>4. ASSUME Head(q) = "line", TwoEnds(q) PROVE TwoEnds(r)
  <2>1. PICK i, k \in 1..Len(q) : i # k /\ \A j \in 1..Len(q) : q[j] = "end" <=> j \in {i, k}
    BY <1>4 DEF TwoEnds
  <2>2. i - 1 \in 1..Len(r) /\ k - 1 \in 1..Len(r) /\ i - 1 # k - 1
    BY <1>1, <1>4, <2>1
  <2>3. \A j \in 1..Len(r) : r[j] = "end" <=> j \in {i - 1, k - 1}
    BY <1>1, <2>1
  <2> QED BY <2>2, <2>3 DEF TwoEnds
<1>5. ASSUME Head(q) = "end", TwoEnds(q) PROVE OneEnd(r)
  <2>1. PICK i, k \in 1..Len(q) : i # k /\ \A j \in 1..Len(q) : q[j] = "end" <=> j \in {i, k}
    BY <1>5 DEF TwoEnds
  <2>2. PICK m \in {i, k} : m # 1
    BY <2>1
  <2>3. m - 1 \in 1..Len(r) /\ \A j \in 1..Len(r) : r[j] = "end" <=> j = m - 1
    BY <1>1, <1>5, <2>1, <2>2
  <2> QED BY <2>3 DEF OneEnd
<1> QED BY <1>2, <1>3, <1>4, <1>5 DEF r

Reads(s) == IF reader[s] = "reading" THEN 1 ELSE 0
Reading == Reads("stdout") + Reads("stderr")

(* active_streams counts the readers at work and the ends the worker has not   *)
(* taken yet; a reader ends its stream last, with its pipe drained.             *)
Sentinels ==
  /\ active >= Reading
  /\ active = Reading => NoEnd(queue)
  /\ active = Reading + 1 => OneEnd(queue)
  /\ active = Reading + 2 => TwoEnds(queue)
  /\ Reading = 0 /\ queue # <<>> => queue[Len(queue)] = "end"
  /\ \A s \in Streams : reader[s] # "reading" => pipe[s] = 0

(* The reading ends by itself with the last of the two ends. *)
Ending ==
  /\ Calling => proc # "none" /\ \A s \in Streams : reader[s] # "off"
  /\ pc \in {"loop", "take"} => why = "none"
  /\ pc = "terminating" => why # "none"
  /\ pc \in {"exitWait", "unwind", "assess"} /\ why = "none" => active = 0
  /\ pc \in {"unwind", "assess"} /\ why = "none" => proc # "running"

(* A reader puts its end last and once. *)
LEMMA SentinelsStep == ASSUME TypeOK, Sentinels, [Next]_vars PROVE Sentinels'
<1> USE DEF TypeOK, worker, tally, process, output, callers
<1>0. queue \in Items /\ Reading \in 0..2 /\ active \in 0..2
  BY DEF Items, Reading, Reads
<1>1. CASE UNCHANGED output
  BY <1>1 DEF Sentinels, Reading, Reads
<1>2. CASE StartProcess
  <2>1. /\ pipe' = [s \in Streams |-> 0] /\ reader' = [s \in Streams |-> "reading"]
        /\ queue' = <<>> /\ active' = 2
    BY <1>2 DEF StartProcess
  <2>2. Reading' = 2
    BY <2>1 DEF Reading, Reads, Streams
  <2>3. NoEnd(queue')
    BY <2>1 DEF NoEnd
  <2> QED BY <2>1, <2>2, <2>3 DEF Sentinels
<1>3. ASSUME queue # <<>>, queue' = Tail(queue), UNCHANGED <<pipe, reader>>,
             active' = IF Head(queue) = "end" THEN active - 1 ELSE active
      PROVE  Sentinels'
  <2>0. Head(queue) \in {"line", "end"}
    BY <1>3
  <2>a. Reading' = Reading
    BY <1>3 DEF Reading, Reads
  <2>2. Head(queue) = "end" => active > Reading
    BY <1>0, <1>3, ItemTaken DEF Sentinels
  <2>1. Head(queue) \in {"line", "end"} /\ Reading' = Reading /\ active' \in Nat
    BY <1>0, <1>3, <2>0, <2>a, <2>2
  <2>3. /\ active' >= Reading'
        /\ active' = Reading' => NoEnd(queue')
        /\ active' = Reading' + 1 => OneEnd(queue')
        /\ active' = Reading' + 2 => TwoEnds(queue')
    BY <1>0, <1>3, <2>1, <2>2, ItemTaken DEF Sentinels
  <2>4. queue' # <<>> => queue'[Len(queue')] = queue[Len(queue)]
    BY <1>0, <1>3 DEF Items
  <2> QED BY <1>3, <2>1, <2>3, <2>4 DEF Sentinels
<1>4. CASE TakeItem
  BY <1>3, <1>4 DEF TakeItem
<1>5. CASE SinkFails
  BY <1>3, <1>5 DEF SinkFails
<1>6. ASSUME NEW s \in Streams, Write(s) PROVE Sentinels'
  BY <1>6 DEF Write, Sentinels, Reading, Reads
<1>7. ASSUME NEW s \in Streams, ReadLine(s) PROVE Sentinels'
  <2>1. queue' = Append(queue, "line") /\ UNCHANGED <<reader, active>> /\ reader[s] = "reading"
    BY <1>7 DEF ReadLine
  <2>2. Reading' = Reading /\ Reading > 0
    BY <2>1 DEF Reading, Reads, Streams
  <2>3. \A t \in Streams : reader'[t] # "reading" => pipe'[t] = 0
    BY <1>7 DEF ReadLine, Sentinels
  <2> QED BY <1>0, <2>1, <2>2, <2>3, LineApart DEF Sentinels
<1>8. ASSUME NEW s \in Streams, ReadEnd(s) PROVE Sentinels'
  <2>1. /\ queue' = Append(queue, "end") /\ UNCHANGED <<pipe, active>>
        /\ reader[s] = "reading" /\ pipe[s] = 0 /\ reader' = [reader EXCEPT ![s] = "ended"]
    BY <1>8 DEF ReadEnd
  <2>2. Reading' = Reading - 1
    BY <2>1 DEF Reading, Reads, Streams
  <2>3. \A t \in Streams : reader'[t] # "reading" => pipe'[t] = 0
    BY <2>1 DEF Sentinels
  <2>4. queue'[Len(queue')] = "end"
    BY <1>0, <2>1 DEF Items
  <2>5. /\ active' >= Reading'
        /\ active' = Reading' => NoEnd(queue')
        /\ active' = Reading' + 1 => OneEnd(queue')
        /\ active' = Reading' + 2 => TwoEnds(queue')
    BY <1>0, <2>1, <2>2, EndAdded DEF Sentinels
  <2> QED BY <2>3, <2>4, <2>5 DEF Sentinels
<1>9. CASE ReleaseSlot \/ TaskStarts \/ NextCommand \/ StartFails \/ Poll \/ StreamsEnded \/ NothingTaken
  BY <1>1, <1>9, Zenon DEF ReleaseSlot, TaskStarts, NextCommand, StartFails, Poll, StreamsEnded, NothingTaken
<1>10. CASE \/ TerminationSeen \/ TerminationForced \/ ExitSeen \/ ExitTooLate \/ Unwind
            \/ Assess \/ DeadlinePasses
  BY <1>1, <1>10, Zenon DEF TerminationSeen, TerminationForced, ExitSeen, ExitTooLate, Unwind, Assess,
                            DeadlinePasses
<1>11. ASSUME NEW code \in Exits, Exit(code) PROVE Sentinels'
  BY <1>1, <1>11, Zenon DEF Exit
<1>12. ASSUME NEW c \in Cancellers, Look(c) \/ Request(c) \/ Strike(c) \/ StrikeSeen(c) \/ StrikeForced(c)
       PROVE  Sentinels'
  BY <1>1, <1>12, Zenon DEF Look, Request, Strike, StrikeSeen, StrikeForced
<1>13. CASE UNCHANGED vars
  BY <1>1, <1>13 DEF vars
<1> QED
  BY <1>2, <1>4, <1>5, <1>6, <1>7, <1>8, <1>9, <1>10, <1>11, <1>12, <1>13 DEF Next, Work

(* And the worker goes on to the exit when it has taken both. *)
LEMMA EndingStep == ASSUME TypeOK, Ending, [Next]_vars PROVE Ending'
<1> USE DEF TypeOK, Ending, Calling, Exits, Good, worker, tally, process, output, callers
<1>1. CASE ReleaseSlot \/ TaskStarts \/ NextCommand \/ StartFails \/ StartProcess
  BY <1>1 DEF ReleaseSlot, TaskStarts, NextCommand, StartFails, StartProcess, TaskEnds
<1>2. CASE Poll \/ ExitTooLate
  BY <1>2 DEF Poll, Terminate, ExitTooLate
<1>3. CASE StreamsEnded \/ TakeItem \/ NothingTaken \/ SinkFails
  BY <1>3 DEF StreamsEnded, TakeItem, NothingTaken, SinkFails
<1>4. CASE TerminationSeen \/ TerminationForced \/ ExitSeen \/ Unwind
  BY <1>4 DEF TerminationSeen, TerminationForced, AfterTermination, ExitSeen, Unwind
<1>5. CASE Assess
  BY <1>5 DEF Assess, TaskEnds, Recover, Retry
<1>6. CASE DeadlinePasses
  BY <1>6 DEF DeadlinePasses
<1>7. ASSUME NEW s \in Streams, Write(s) \/ ReadLine(s) \/ ReadEnd(s) PROVE Ending'
  BY <1>7 DEF Write, ReadLine, ReadEnd
<1>8. ASSUME NEW code \in Exits, Exit(code) PROVE Ending'
  BY <1>8 DEF Exit
<1>9. ASSUME NEW c \in Cancellers, Look(c) \/ Request(c) \/ Strike(c) \/ StrikeSeen(c) \/ StrikeForced(c)
      PROVE  Ending'
  BY <1>9 DEF Look, Request, Strike, StrikeSeen, StrikeForced
<1>10. CASE UNCHANGED vars
  BY <1>10 DEF vars
<1> QED
  BY <1>1, <1>2, <1>3, <1>4, <1>5, <1>6, <1>7, <1>8, <1>9, <1>10 DEF Next, Work

(* What is judged by exit code and output is the output of both streams to     *)
(* their ends: the two sentinels were counted, and nothing follows the second. *)
THEOREM ResultsAreWhole == Spec => []SuccessIsWhole
<1> DEFINE I == TypeOK /\ Sentinels /\ Ending
<1>1. Init => I
  BY TypeInit DEF Init, Sentinels, NoEnd, OneEnd, TwoEnds, Ending, Calling, Reading, Reads, Streams
<1>2. I /\ [Next]_vars => I'
  BY TypeStep, SentinelsStep, EndingStep, ProcessAssumption
<1>3. I => SuccessIsWhole
  <2> SUFFICES ASSUME I, pc = "assess", why = "none"
               PROVE  /\ proc \in Exits /\ queue = <<>>
                      /\ \A s \in Streams : pipe[s] = 0 /\ reader[s] = "ended"
    BY DEF SuccessIsWhole
  <2>1. active = 0 /\ proc \in Exits
    BY DEF Ending, Calling, TypeOK
  <2>2. Reading = 0 /\ \A s \in Streams : reader[s] # "reading"
    BY <2>1 DEF Sentinels, Reading, Reads, Streams
  <2>3. NoEnd(queue)
    BY <2>1, <2>2 DEF Sentinels
  <2>4. queue # <<>> => Len(queue) \in 1..Len(queue)
    BY DEF TypeOK
  <2>5. queue = <<>>
    BY <2>2, <2>3, <2>4 DEF Sentinels, NoEnd
  <2>6. \A s \in Streams : pipe[s] = 0 /\ reader[s] = "ended"
    BY <2>2 DEF Sentinels, Ending, Calling, TypeOK
  <2> QED BY <2>1, <2>5, <2>6
<1> QED BY <1>1, <1>2, <1>3, PTL DEF Spec
-----------------------------------------------------------------------------
(* Whoever is past the head of the list has a candidate left to go on from. *)
Trying ==
  \A i \in Installers :
    doing[i] \in {"drip", "verify", "open", "write", "rename", "undo"} => url[i] <= Urls

(* A file number is never taken for no file. *)
LEMMA FilesNumbered == Files \subseteq Nat /\ NoFile \notin Files /\ 1 \in Files
<1>1. Cardinality(Installers) \in Nat
  BY InstallAssumption, FS_CardinalityType
<1> QED BY <1>1 DEF Files, NoFile

(* The names start with their types. *)
LEMMA InstallInitTypes == InstallInit => InstallTypeOK /\ Trying
BY FilesNumbered, InstallAssumption DEF InstallInit, InstallTypeOK, Trying, Place

(* Each step of an installer, and its end, keep them. *)
LEMMA InstallTypesKept == InstallTypeOK /\ Trying /\ [InstallNext]_installVars => InstallTypeOK' /\ Trying'
<1> SUFFICES ASSUME InstallTypeOK, Trying, [InstallNext]_installVars PROVE InstallTypeOK' /\ Trying'
  OBVIOUS
<1> USE FilesNumbered DEF InstallTypeOK, Trying, Place
<1>a. Urls \in Nat /\ Trusted \in Versions
  BY InstallAssumption
<1>b. ASSUME NEW i \in Installers, NextUrl(i), url[i] <= Urls
      PROVE  /\ doing' \in [Installers -> Place] /\ url' \in [Installers -> 1..(Urls + 1)]
             /\ doing'[i] = "fetch" /\ \A j \in Installers \ {i} : doing'[j] = doing[j] /\ url'[j] = url[j]
  <2>1. url[i] + 1 \in 1..(Urls + 1)
    BY <1>a, <1>b
  <2> QED BY <1>b, <2>1 DEF NextUrl, Goes
<1>1. CASE Crash
  BY <1>1 DEF Crash
<1>2. ASSUME NEW i \in Installers, Install(i) \/ Probe(i) PROVE InstallTypeOK' /\ Trying'
  BY <1>a, <1>2 DEF Install, Probe, Goes
<1>3. ASSUME NEW i \in Installers, Keep(i) \/ Upgrade(i) \/ OutOfUrls(i) PROVE InstallTypeOK' /\ Trying'
  BY <1>a, <1>3 DEF Keep, Upgrade, OutOfUrls, Goes
<1>4. ASSUME NEW i \in Installers, Fetch(i) PROVE InstallTypeOK' /\ Trying'
  BY <1>4 DEF Fetch, Goes
<1>5. ASSUME NEW i \in Installers, GivesUp(i) \/ Undo(i) PROVE InstallTypeOK' /\ Trying'
  <2>1. NextUrl(i) /\ url[i] <= Urls
    BY <1>5 DEF GivesUp, Undo
  <2> QED BY <1>b, <1>5, <2>1 DEF GivesUp, Undo
<1>6. ASSUME NEW i \in Installers, Verify(i) PROVE InstallTypeOK' /\ Trying'
  <2>1. CASE Genuine(i)
    BY <1>6, <2>1 DEF Verify, Goes
  <2>2. CASE ~Genuine(i)
    BY <1>b, <1>6, <2>2 DEF Verify
  <2> QED BY <2>1, <2>2
<1>7. ASSUME NEW i \in Installers, Open(i) PROVE InstallTypeOK' /\ Trying'
  BY <1>7 DEF Open, Goes
<1>8. ASSUME NEW i \in Installers, Unpack(i) PROVE InstallTypeOK' /\ Trying'
  <2>1. Unpacked(i) \in Versions \union {Empty}
    BY <1>a DEF Unpacked
  <2> QED BY <1>8, <2>1 DEF Unpack, Goes
<1>10. ASSUME NEW i \in Installers, Rename(i) PROVE InstallTypeOK' /\ Trying'
  BY <1>10 DEF Rename, Goes
<1>9. CASE UNCHANGED installVars
  BY <1>9 DEF installVars
<1> QED BY <1>1, <1>2, <1>3, <1>4, <1>5, <1>6, <1>7, <1>8, <1>9, <1>10 DEF InstallNext, Steps, NothingToEnsure

-----------------------------------------------------------------------------
(* One command at a time makes sure of its restic; two may not (the run of two   *)
(* threads breaks the name beside the target).                                   *)
OneInstaller == \A i, j \in Installers : i = j

(* What bears the target's name runs, what bears the other name is not the same  *)
(* file, and it is complete where it is renamed; whoever has begun to replace    *)
(* the target found one that is older.                                           *)
Whole ==
  /\ TargetRuns
  /\ beside # NoFile => beside # target
  /\ \A i \in Installers :
       /\ doing[i] \in {"open", "write", "rename"} => archive[i] = "release"
       /\ doing[i] = "write" => file[i] = beside /\ beside # NoFile
       /\ doing[i] = "rename" /\ beside # NoFile => content[beside] = Trusted
       /\ doing[i] \notin {"idle", "probe"} /\ Exists => Less(content[target], Trusted)

InstallInv == InstallTypeOK /\ Trying /\ Whole

(* Nothing is under way at first, and what is there runs. *)
LEMMA WholeInit == InstallInit => Whole
BY FilesNumbered, InstallAssumption DEF InstallInit, Whole, TargetRuns, Exists, Empty, NoFile

(* One installer's steps keep it, and its end anywhere. *)
LEMMA WholeKept ==
  ASSUME OneInstaller
  PROVE  InstallInv /\ [InstallNext]_installVars => Whole'
<1> SUFFICES ASSUME InstallInv, [InstallNext]_installVars PROVE Whole'
  OBVIOUS
<1> USE FilesNumbered DEF InstallInv, InstallTypeOK, Whole, TargetRuns, Exists, OneInstaller
<1>1. CASE Crash
  BY <1>1 DEF Crash
<1>2. ASSUME NEW i \in Installers, Install(i) \/ Probe(i) \/ Keep(i) \/ Upgrade(i) PROVE Whole'
  BY <1>2 DEF Install, Probe, Keep, Upgrade, Goes
<1>3. ASSUME NEW i \in Installers, Fetch(i) \/ GivesUp(i) \/ OutOfUrls(i) PROVE Whole'
  BY <1>3 DEF Fetch, GivesUp, NextUrl, OutOfUrls, Goes
<1>4. ASSUME NEW i \in Installers, Verify(i) PROVE Whole'
  BY <1>4 DEF Verify, Genuine, NextUrl, Goes
<1>5. ASSUME NEW i \in Installers, Open(i) PROVE Whole'
  BY <1>5 DEF Open, InUse, Goes
<1>6. ASSUME NEW i \in Installers, Unpack(i) PROVE Whole'
  BY <1>6 DEF Unpack, Unpacked, Goes
<1>7. ASSUME NEW i \in Installers, Rename(i) PROVE Whole'
  <2>1. Trusted # Empty
    BY InstallAssumption DEF Empty
  <2> QED BY <1>7, <2>1 DEF Rename, Goes
<1>8. ASSUME NEW i \in Installers, Undo(i) PROVE Whole'
  BY <1>8 DEF Undo, NextUrl, Goes
<1>9. CASE UNCHANGED installVars
  BY <1>9 DEF installVars
<1> QED BY <1>1, <1>2, <1>3, <1>4, <1>5, <1>6, <1>7, <1>8, <1>9 DEF InstallNext, Steps, NothingToEnsure

(* So it always holds. *)
LEMMA InstallInvHolds == ASSUME OneInstaller PROVE InstallSpec => []InstallInv
<1>1. InstallInit => InstallInv
  BY InstallInitTypes, WholeInit DEF InstallInv
<1>2. InstallInv /\ [InstallNext]_installVars => InstallInv'
  BY InstallTypesKept, WholeKept DEF InstallInv
<1> QED BY <1>1, <1>2, PTL DEF InstallSpec

(* For any number of installers every variable keeps its type, and none goes on *)
(* past the last candidate of the list.                                          *)
THEOREM InstallTypes == InstallSpec => [](InstallTypeOK /\ Trying)
BY InstallInitTypes, InstallTypesKept, PTL DEF InstallSpec

(* While commands ensure their restic one at a time, the target runs whenever it *)
(* exists, wherever a download, an unpacking or the process is cut off           *)
(* (restic_download.py:567).                                                     *)
THEOREM TargetAlwaysRuns == ASSUME OneInstaller PROVE InstallSpec => []TargetRuns
<1>1. InstallInv => TargetRuns
  BY DEF InstallInv, Whole
<1> QED BY <1>1, InstallInvHolds, PTL

-----------------------------------------------------------------------------
(* Only a rename moves the target's name. *)
LEMMA OnlyRenames ==
  ASSUME OneInstaller, InstallInv, [InstallNext]_installVars, Exists, target' # target
  PROVE  /\ content[target] \in Versions /\ content'[target'] = Trusted
         /\ Less(content[target], content'[target'])
<1>1. PICK i \in Installers : Rename(i) /\ target' = beside /\ beside # NoFile
  BY DEF InstallNext, installVars, Crash, NothingToEnsure, Install, Probe, Steps, Keep, Upgrade, Fetch,
         GivesUp, OutOfUrls, Verify, Open, Unpack, Rename, Undo
<1>2. content'[target'] = Trusted /\ Less(content[target], Trusted)
  BY <1>1 DEF Rename, InstallInv, Whole
<1>3. content[target] \in Versions
  BY DEF InstallInv, Whole, TargetRuns, InstallTypeOK, Exists
<1> QED BY <1>2, <1>3

OlderReplaced ==
  [][Exists /\ target' # target => Less(content[target], content'[target'])]_installVars

(* What is replaced is older, part by part, for versions of any length           *)
(* (compare_restic_versions).                                                    *)
THEOREM OnlyOlderReplaced == ASSUME OneInstaller PROVE InstallSpec => OlderReplaced
<1>1. InstallInv /\ [InstallNext]_installVars
        => [Exists /\ target' # target => Less(content[target], content'[target'])]_installVars
  BY OnlyRenames
<1> QED BY <1>1, InstallInvHolds, PTL DEF InstallSpec, OlderReplaced

(* A smaller digit in a higher place outweighs what follows. *)
LEMMA Outweighs ==
  ASSUME NEW b \in Nat, NEW x \in Nat, NEW y \in Nat, NEW r \in 0..(b - 1), NEW s \in 0..(b - 1), x < y
  PROVE  x * b + r < y * b + s
<1>1. (x + 1) * b <= y * b
  OBVIOUS
<1>2. (x + 1) * b = x * b + b
  OBVIOUS
<1>3. x * b \in Nat /\ y * b \in Nat
  OBVIOUS
<1> QED BY <1>1, <1>2, <1>3

(* The comparison of the code agrees with the weight of three parts. *)
LEMMA LessWeighs ==
  ASSUME NEW v \in Versions, NEW w \in Versions, Len(v) <= 3, Len(w) <= 3, Less(v, w)
  PROVE  Weight(v) < Weight(w)
<1> DEFINE width == Longer(v, w)
           p == Padded(v, 3)
           q == Padded(w, 3)
<1>1. /\ Base \in Nat /\ v \in Seq(0..(Base - 1)) /\ w \in Seq(0..(Base - 1)) /\ Len(v) > 0 /\ Len(w) > 0
  BY InstallAssumption
<1>2. Len(v) \in 1..3 /\ Len(w) \in 1..3 /\ width \in 1..3 /\ Len(v) <= width /\ Len(w) <= width
  <2>1. Len(v) \in Nat /\ Len(w) \in Nat
    BY <1>1
  <2>2. Len(v) \in 1..3 /\ Len(w) \in 1..3
    <3>1. \A n \in Nat : n > 0 /\ n <= 3 => n \in 1..3
      OBVIOUS
    <3> HIDE DEF width, p, q
    <3> QED BY <1>1, <2>1, <3>1, Zenon
  <2>3. width = Len(v) \/ width = Len(w)
    BY DEF Longer
  <2>4. width >= Len(v) /\ width >= Len(w)
    BY <2>1 DEF Longer
  <2> HIDE DEF width
  <2> QED BY <2>2, <2>3, <2>4
<1>3. v[1] \in 0..(Base - 1) /\ Base \in Nat \ {0}
  BY <1>1, <1>2
<1>4. \A n \in 1..3 : p[n] \in 0..(Base - 1) /\ q[n] \in 0..(Base - 1)
  BY <1>1, <1>2, <1>3 DEF Padded
<1>5. \A n \in 1..width : Padded(v, width)[n] = p[n] /\ Padded(w, width)[n] = q[n]
  BY <1>2 DEF Padded
<1>6. PICK n \in 1..width : /\ Padded(v, width)[n] < Padded(w, width)[n]
                            /\ \A m \in 1..(n - 1) : Padded(v, width)[m] = Padded(w, width)[m]
  BY DEF Less
<1> HIDE DEF width, p, q
<1>7. n \in 1..3 /\ p[n] < q[n] /\ \A m \in 1..(n - 1) : p[m] = q[m]
  BY <1>2, <1>5, <1>6
<1>8. Weight(v) = (p[1] * Base + p[2]) * Base + p[3] /\ Weight(w) = (q[1] * Base + q[2]) * Base + q[3]
  BY DEF Weight, p, q
<1>9. /\ p[1] \in 0..(Base - 1) /\ p[2] \in 0..(Base - 1) /\ p[3] \in 0..(Base - 1)
      /\ q[1] \in 0..(Base - 1) /\ q[2] \in 0..(Base - 1) /\ q[3] \in 0..(Base - 1)
  BY <1>4
<1>10. p[1] * Base + p[2] \in Nat /\ q[1] * Base + q[2] \in Nat
  <2>1. \A x \in Nat, y \in Nat : x * Base \in Nat /\ x * Base + y \in Nat
    BY <1>3
  <2>2. p[1] \in Nat /\ p[2] \in Nat /\ q[1] \in Nat /\ q[2] \in Nat
    BY <1>3, <1>9
  <2> QED BY <2>1, <2>2
<1>11. CASE n = 1
  <2>1. p[1] * Base + p[2] < q[1] * Base + q[2]
    <3>1. p[1] \in Nat /\ q[1] \in Nat /\ p[1] < q[1] /\ Base \in Nat
      BY <1>3, <1>7, <1>9, <1>11
    <3> QED BY <1>9, <3>1, Outweighs
  <2> QED BY <1>3, <1>8, <1>9, <1>10, <2>1, Outweighs
<1>12. CASE n = 2
  <2>1. p[1] = q[1] /\ p[2] < q[2]
    BY <1>7, <1>12
  <2>2. p[1] * Base + p[2] < q[1] * Base + q[2]
    BY <1>3, <1>9, <2>1
  <2> QED BY <1>3, <1>8, <1>9, <1>10, <2>2, Outweighs
<1>13. CASE n = 3
  <2>1. p[1] = q[1] /\ p[2] = q[2] /\ p[3] < q[3]
    BY <1>7, <1>13
  <2> DEFINE high == (p[1] * Base + p[2]) * Base
  <2>2. Weight(v) = high + p[3] /\ Weight(w) = high + q[3]
    BY <1>8, <2>1
  <2>3. high \in Nat
    BY <1>3, <1>10
  <2> HIDE DEF high
  <2> QED BY <1>3, <1>9, <2>1, <2>2, <2>3
<1> QED BY <1>7, <1>11, <1>12, <1>13

(* Nothing is downgraded: of versions of up to three parts, as restic's are, only *)
(* one of less weight gives way.                                                  *)
THEOREM NothingDowngraded ==
  ASSUME OneInstaller, \A v \in Versions : Len(v) <= 3
  PROVE  InstallSpec => NoDowngrade
<1>1. InstallInv /\ [InstallNext]_installVars
        => [Exists /\ target' # target => Weight(content[target]) < Weight(content'[target'])]_installVars
  <2> SUFFICES ASSUME InstallInv, [InstallNext]_installVars, Exists, target' # target
               PROVE  Weight(content[target]) < Weight(content'[target'])
    OBVIOUS
  <2>1. /\ content[target] \in Versions /\ content'[target'] = Trusted
        /\ Less(content[target], content'[target'])
    BY OnlyRenames
  <2>2. Trusted \in Versions
    BY InstallAssumption
  <2> QED BY <2>1, <2>2, LessWeighs
<1> QED BY <1>1, InstallInvHolds, PTL DEF InstallSpec, NoDowngrade
=============================================================================
