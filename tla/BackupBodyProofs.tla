-------------------------- MODULE BackupBodyProofs --------------------------
(***************************************************************************)
(* No flush is taken for complete on the word of a line that came before the *)
(* watcher was armed, for any set of monitors.  The invariant says that the *)
(* reader can hold an older line only if it was inside when Arm cleared the *)
(* event, and that nothing is decided about the flush before.                *)
(***************************************************************************)
EXTENDS BackupBody, TLAPS

Armed == pc \in {"saveAll", "waiting", "disarm", "clear"}

FlushInv ==
  /\ Armed /\ console # "idle" /\ line = "old" => heldUp
  /\ Armed /\ event = "old" => heldUp
  /\ pc \in {"prepare", "init", "saveOff", "settling", "arming", "saveAll", "waiting"} => flush = "none"
  /\ NoFalseFlush

LEMMA TypeStep == ASSUME TypeOK, [Next]_vars PROVE TypeOK'
<1> USE DEF TypeOK, Places, Goto, Release, Leave, MonitorMoves, watcher, watchers
<1>1. CASE Enter BY <1>1 DEF Enter
<1>2. CASE Prepare
  <2>1. UNCHANGED <<watcher, watchers>>
    BY <1>2 DEF Prepare
  <2>2. pc' \in {"idle", "init", "saveOff", "restic"} /\ UNCHANGED <<task, repo, flush>>
    BY <1>2 DEF Prepare
  <2>3. cancel' \in BOOLEAN
    BY <1>2, Zenon DEF Prepare
  <2> QED BY <2>1, <2>2, <2>3
<1>3. CASE InitRepository BY <1>3 DEF InitRepository
<1>4. CASE SaveOff BY <1>4 DEF SaveOff
<1>5. CASE Settle BY <1>5 DEF Settle
<1>6. CASE SaveAllUnwatched BY <1>6 DEF SaveAllUnwatched
<1>7. CASE Arm BY <1>7 DEF Arm
<1>8. CASE SaveAll BY <1>8 DEF SaveAll
<1>9. CASE WaitEnds BY <1>9 DEF WaitEnds
<1>10. CASE Disarm BY <1>10 DEF Disarm
<1>11. CASE ClearEvent BY <1>11 DEF ClearEvent
<1>12. CASE StartMonitor
  <2>1. CASE UNCHANGED watchers BY <1>12, <2>1 DEF StartMonitor
  <2>2. ASSUME NEW m \in Monitors,
               monitor' = [monitor EXCEPT ![m] = "sleeping"] /\ stop' = [stop EXCEPT ![m] = FALSE],
               over' = [over EXCEPT ![m] = "no"] /\ own' = [own EXCEPT ![m] = TRUE]
        PROVE TypeOK'
    <3>1. monitor' \in [Monitors -> {"off", "sleeping", "sampling", "interrupting"}]
      BY <2>2
    <3>2. stop' \in [Monitors -> BOOLEAN] /\ own' \in [Monitors -> BOOLEAN]
      BY <2>2
    <3>3. over' \in [Monitors -> {"no", "recent", "long"}]
      BY <2>2
    <3> QED  BY <1>12, <3>1, <3>2, <3>3 DEF StartMonitor
  <2> QED  BY <1>12, <2>1, <2>2 DEF StartMonitor
<1>13. CASE BeginRestic BY <1>13 DEF BeginRestic
<1>14. CASE ResticEnds BY <1>14 DEF ResticEnds
<1>15. CASE StopMonitor BY <1>15 DEF StopMonitor
<1>16. CASE JoinMonitor BY <1>16 DEF JoinMonitor
<1>17. CASE Notify BY <1>17 DEF Notify
<1>18. CASE Match BY <1>18 DEF Match
<1>19. CASE SetEvent BY <1>19 DEF SetEvent
<1>20. CASE UserCancels BY <1>20 DEF UserCancels
<1>21. ASSUME NEW m \in Monitors, MonitorRound(m) \/ SpellGrows(m) PROVE TypeOK'
  <2>1. CASE StopSeen(m) BY <2>1 DEF StopSeen
  <2>2. CASE Poll(m) BY <2>2 DEF Poll
  <2>3. CASE NoCount(m) BY <2>3 DEF NoCount
  <2>4. CASE InLimit(m) BY <2>4 DEF InLimit
  <2>5. CASE OverLimit(m) BY <2>5 DEF OverLimit
  <2>6. CASE Interrupt(m) BY <2>6 DEF Interrupt
  <2>7. CASE SpellGrows(m) BY <2>7 DEF SpellGrows
  <2> QED  BY <1>21, <2>1, <2>2, <2>3, <2>4, <2>5, <2>6, <2>7 DEF MonitorRound
<1>22. CASE UNCHANGED vars BY <1>22 DEF vars
<1> QED
  BY <1>1, <1>2, <1>3, <1>4, <1>5, <1>6, <1>7, <1>8, <1>9, <1>10, <1>11,
     <1>12, <1>13, <1>14, <1>15, <1>16, <1>17, <1>18, <1>19, <1>20, <1>21, <1>22 DEF Next, Body

LEMMA FlushStep == ASSUME TypeOK, FlushInv, [Next]_vars PROVE FlushInv'
<1> USE DEF TypeOK, Places, FlushInv, NoFalseFlush, Armed, Goto, Release, Leave, MonitorMoves, watcher, watchers
<1>1. CASE Enter \/ Prepare \/ InitRepository
  BY <1>1 DEF Enter, Prepare, InitRepository
\* The arming forgets the event and remembers whether the reader is inside.
<1>2. CASE SaveOff \/ Settle \/ SaveAllUnwatched \/ Arm \/ SaveAll
  BY <1>2 DEF SaveOff, Settle, SaveAllUnwatched, Arm, SaveAll
<1>3. CASE WaitEnds \/ Disarm \/ ClearEvent
  BY <1>3 DEF WaitEnds, Disarm, ClearEvent
<1>4. CASE StartMonitor \/ BeginRestic \/ ResticEnds \/ StopMonitor \/ JoinMonitor
  BY <1>4 DEF StartMonitor, BeginRestic, ResticEnds, StopMonitor, JoinMonitor
<1>5. CASE Notify \/ Match \/ SetEvent \/ UserCancels
  BY <1>5 DEF Notify, Match, SetEvent, UserCancels
<1>6. ASSUME NEW m \in Monitors, MonitorRound(m) \/ SpellGrows(m) PROVE FlushInv'
  BY <1>6 DEF MonitorRound, StopSeen, Poll, NoCount, InLimit, OverLimit, Interrupt, SpellGrows
<1>7. CASE UNCHANGED vars BY <1>7 DEF vars
<1> QED  BY <1>1, <1>2, <1>3, <1>4, <1>5, <1>6, <1>7 DEF Next, Body

(* The types, and with them that every thread stays on its path. *)
THEOREM BodyTypes == Spec => []TypeOK
<1>1. Init => TypeOK
  BY DEF Init, TypeOK, Places
<1> QED  BY <1>1, TypeStep, PTL DEF Spec

(* No line from before the arming decides that the flush is complete, but for *)
(* the one the console reader held while the watcher was armed.                *)
THEOREM FlushIsOwn == Spec => []NoFalseFlush
<1>1. Init => TypeOK /\ FlushInv
  BY DEF Init, TypeOK, Places, FlushInv, NoFalseFlush, Armed
<1>2. TypeOK /\ FlushInv /\ [Next]_vars => (TypeOK /\ FlushInv)'
  BY TypeStep, FlushStep
<1>3. FlushInv => NoFalseFlush
  BY DEF FlushInv
<1> QED  BY <1>1, <1>2, <1>3, PTL DEF Spec
=============================================================================
