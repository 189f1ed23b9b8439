---------------------------- MODULE ScheduleClock ----------------------------
(***************************************************************************)
(* One timed thread against the wall clock: a schedule thread of            *)
(* BackupScheduler or the daily update check.  It reads the clock, computes *)
(* its next time from a cron expression, an interval or a time of day,      *)
(* waits that long and triggers, however long that takes.  How commands and *)
(* the shutdown disturb the wait is ScheduleLoop's subject.                 *)
(*                                                                          *)
(* The clock counts half seconds, for the code cuts the microseconds off.   *)
(* It is not adjusted while a thread waits: the code waits by the monotonic *)
(* clock and has no answer to that.                                         *)
(*                                                                          *)
(* Its names are not those of ScheduleLoop: the proofs extend both modules. *)
(***************************************************************************)
EXTENDS Integers, Sequences, FiniteSetsExt

CONSTANTS Schedules,                     \* what the configuration may say
          PerMinute, PerHour, PerDay,    \* 60, 60, 24
          MonthDays, Months,             \* 31, 12
          Days,                          \* the calendar: a cycle of [month, day, weekday], 0 a Sunday
          Horizon,                       \* 366 * 5, the days that next_after looks ahead
          Last                           \* bound: the half second at which the model's clock stops

ASSUME ClockAssumption ==
  /\ {PerMinute, PerHour, PerDay, MonthDays, Months, Horizon} \subseteq Nat \ {0} /\ Last \in Nat
  /\ Days \in Seq([month : 1..Months, day : 1..MonthDays, weekday : 0..6]) /\ Days # <<>>

VARIABLES
  schedule,  \* the thread's section of the configuration
  now,       \* datetime.now(), in half seconds
  stage,     \* where the thread is: "read", "measure", "wait", "busy" or "retry"
  due,       \* the time computed last, in half seconds, or Never
  left,      \* how long _wait still has to wait
  fired      \* history: the time of the last trigger

clockVars == <<schedule, now, stage, due, left, fired>>

Never == -1

ClockInit == /\ schedule \in Schedules /\ now \in 0..Last
             /\ stage = "read" /\ due = Never /\ left = 0 /\ fired = Never
-----------------------------------------------------------------------------
(* datetime, as much of it as cron needs; t in seconds. *)
DaySeconds == PerMinute * PerHour * PerDay
DayOf(t)   == t \div DaySeconds
Hour(t)    == (t \div (PerMinute * PerHour)) % PerDay
Minute(t)  == (t \div PerMinute) % PerHour
Second(t)  == t % PerMinute
Date(day)  == Days[(day % Len(Days)) + 1]
At(day, h, m, s) == day * DaySeconds + (h * PerHour + m) * PerMinute + s
-----------------------------------------------------------------------------
(* _parse_field.  A field is a set of parts: [star, from, to, step], with the   *)
(* field's bounds as from and to where it has a star.                            *)
Steps(part) == {v \in part.from..part.to : (v - part.from) % part.step = 0}

Values(field, sunday) ==
  {IF sunday /\ v = 7 THEN 0 ELSE v : v \in UNION {Steps(part) : part \in field}}

Wildcard(field) == \E part \in field : part.star

Sound(field, low, high) ==
  \A part \in field : part.step > 0 /\ part.from <= part.to /\ Steps(part) \subseteq low..high

(* CronExpression: six fields, each within its bounds; or CronError. *)
IsCron(c) ==
  /\ "seconds" \in DOMAIN c
  /\ Sound(c.seconds, 0, PerMinute - 1) /\ Sound(c.minutes, 0, PerHour - 1)
  /\ Sound(c.hours, 0, PerDay - 1) /\ Sound(c.days, 1, MonthDays)
  /\ Sound(c.months, 1, Months) /\ Sound(c.weekdays, 0, 7)

DayMatches(c, date) ==
  LET dom == date.day \in Values(c.days, FALSE)
      dow == date.weekday \in Values(c.weekdays, TRUE)
  IN CASE Wildcard(c.days) /\ Wildcard(c.weekdays) -> TRUE
       [] Wildcard(c.days) /\ ~Wildcard(c.weekdays) -> dow
       [] ~Wildcard(c.days) /\ Wildcard(c.weekdays) -> dom
       [] OTHER -> dom \/ dow

CandidateDays(c, start) ==
  {d \in DayOf(start)..(DayOf(start) + Horizon - 1) :
     Date(d).month \in Values(c.months, FALSE) /\ DayMatches(c, Date(d))}

(* What lies before the start is left out on its own day, hour and minute only. *)
CandidateHours(c, start, d) == {h \in Values(c.hours, FALSE) : d = DayOf(start) => h >= Hour(start)}

(* Mistake: on any other day, too. *)
CandidateMinutesAnyDay(c, start, d, h) ==
  {m \in Values(c.minutes, FALSE) : h = Hour(start) => m >= Minute(start)}

CandidateMinutes(c, start, d, h) ==
  {m \in Values(c.minutes, FALSE) : d = DayOf(start) /\ h = Hour(start) => m >= Minute(start)}

CandidateSeconds(c, start, d, h, m) ==
  {s \in Values(c.seconds, FALSE) :
     d = DayOf(start) /\ h = Hour(start) /\ m = Minute(start) => s >= Second(start)}

Candidates(c, start) ==
  UNION {UNION {UNION {{At(d, h, m, s) : s \in CandidateSeconds(c, start, d, h, m)}
                       : m \in CandidateMinutes(c, start, d, h)}
                : h \in CandidateHours(c, start, d)}
         : d \in CandidateDays(c, start)}

(* next_after: the first candidate from the next full second on, or CronError. *)
NextAfter(c, t) ==
  LET found == Candidates(c, t \div 2 + 1)
  IN IF found = {} THEN Never ELSE 2 * Min(found)
-----------------------------------------------------------------------------
(* compute_schedule_wait_seconds.  Only the maintenance takes the default for   *)
(* an empty expression; an interval comes before any expression.                *)
CronOf(s) == IF s.cron = [text |-> ""] /\ s.kind = "maintenance" THEN s.default ELSE s.cron

(* compute_update_check_wait_seconds: today, or tomorrow if that has passed. *)
DailyAfter(at, t) ==
  LET today == 2 * At(DayOf(t \div 2), at.hour, at.minute, 0)
  IN IF today <= t THEN today + 2 * DaySeconds ELSE today

NextTime(s, t) ==
  CASE s.kind = "update" -> DailyAfter(s.at, t)
    [] s.kind # "update" /\ s.interval > 0 -> t + 2 * s.interval
    [] s.kind # "update" /\ s.interval = 0 /\ IsCron(CronOf(s)) -> NextAfter(CronOf(s), t)
    [] OTHER -> Never    \* disabled, or an error: tried again after a minute
-----------------------------------------------------------------------------
(* What parsing leaves of a section: parts of integers, a star that stands for  *)
(* its field's bounds (parse_range), a time of day that exists.                  *)
Fields == SUBSET [star : BOOLEAN, from : Int, to : Int, step : Int]

StarsSpan(field, low, high) == \A part \in field : part.star => part.from = low /\ part.to = high

Parsed(c) ==
  "seconds" \in DOMAIN c =>
    /\ {c.seconds, c.minutes, c.hours, c.days, c.months, c.weekdays} \subseteq Fields
    /\ StarsSpan(c.days, 1, MonthDays) /\ StarsSpan(c.weekdays, 0, 7)

ASSUME SchedulesAssumption ==
  \A s \in Schedules :
    IF s.kind = "update" THEN s.at.hour \in 0..(PerDay - 1) /\ s.at.minute \in 0..(PerHour - 1)
                         ELSE s.interval \in Int /\ Parsed(s.cron) /\ Parsed(s.default)
-----------------------------------------------------------------------------
(* The schedule is computed; a disabled one, or an error, is tried again after   *)
(* a minute.  An interval or a daily time is measured from this reading.         *)
ReadClock ==
  /\ stage = "read"
  /\ due' = NextTime(schedule, now)
  /\ IF due' = Never THEN stage' = "retry" /\ left' = 2 * PerMinute
                     ELSE stage' = "measure" /\ left' = due' - now
  /\ UNCHANGED <<schedule, now, fired>>

(* Mistake: the half second is cut off. *)
WaitWhole(until, t) == IF until <= t THEN 0 ELSE 2 * ((until - t) \div 2)

Wait(until, t) == IF until <= t THEN 0 ELSE until - t

(* A cron time is measured by a second reading of the clock; then _wait begins. *)
Measure ==
  /\ stage = "measure" /\ stage' = "wait"
  /\ left' = IF schedule.kind = "update" \/ schedule.interval > 0 THEN left ELSE Wait(due, now)
  /\ UNCHANGED <<schedule, now, due, fired>>

(* The round's results are forgotten with the round. *)
Again == stage' = "read" /\ due' = Never /\ left' = 0

(* A command's wakeup ends any _wait of a schedule thread: it computes anew. *)
Woken ==
  /\ stage \in {"wait", "retry"} /\ schedule.kind # "update" /\ Again
  /\ UNCHANGED <<schedule, now, fired>>

Fire ==
  /\ stage = "wait" /\ left = 0 /\ stage' = "busy" /\ fired' = due
  /\ UNCHANGED <<schedule, now, due, left>>

(* The backup, the maintenance or the check has ended. *)
TriggerEnds == stage = "busy" /\ Again /\ UNCHANGED <<schedule, now, fired>>

Retry == stage = "retry" /\ left = 0 /\ Again /\ UNCHANGED <<schedule, now, fired>>

(* Half a second passes, whatever the thread does; the clock stops at the bound. *)
Tick ==
  /\ now < Last /\ now' = now + 1
  /\ left' = IF stage \in {"wait", "retry"} /\ left > 0 THEN left - 1 ELSE left
  /\ UNCHANGED <<schedule, stage, due, fired>>

ClockStep == ReadClock \/ Measure \/ Woken \/ Fire \/ TriggerEnds \/ Retry \/ Tick

ClockSpec == ClockInit /\ [][ClockStep]_clockVars
-----------------------------------------------------------------------------
(* What the configuration promises, in its own terms: one instant at a time,     *)
(* without searching.                                                            *)
Names(field, v) == \E part \in field : \E k \in 0..v : v = part.from + k * part.step /\ v <= part.to

NamesDay(c, date) ==
  LET dom == Names(c.days, date.day)
      dow == Names(c.weekdays, date.weekday) \/ (date.weekday = 0 /\ Names(c.weekdays, 7))
  IN IF Wildcard(c.days) \/ Wildcard(c.weekdays) THEN dom /\ dow ELSE dom \/ dow

NamesInstant(c, t) ==
  /\ t % 2 = 0
  /\ Names(c.seconds, Second(t \div 2)) /\ Names(c.minutes, Minute(t \div 2))
  /\ Names(c.hours, Hour(t \div 2))
  /\ Names(c.months, Date(DayOf(t \div 2)).month) /\ NamesDay(c, Date(DayOf(t \div 2)))

Promised(s, since, t) ==
  \/ /\ s.kind = "update"
     /\ t % 2 = 0 /\ Second(t \div 2) = 0
     /\ Hour(t \div 2) = s.at.hour /\ Minute(t \div 2) = s.at.minute
  \/ s.kind # "update" /\ s.interval > 0 /\ t = since + 2 * s.interval
  \/ s.kind # "update" /\ s.interval = 0 /\ IsCron(CronOf(s)) /\ NamesInstant(CronOf(s), t)

(* A "*" with a step in a day field: the code takes it for a plain "*".          *)
StarStepped(s) ==
  /\ s.kind # "update" /\ IsCron(CronOf(s))
  /\ \E part \in CronOf(s).days \union CronOf(s).weekdays : part.star /\ part.step > 1

LeastAfter(s, t, next) ==
  LET end == IF next = Never THEN 2 * DaySeconds * (DayOf(t \div 2 + 1) + Horizon) - 1 ELSE next - 1
  IN /\ \A u \in (t + 1)..end : ~Promised(s, t, u)
     /\ next # Never => next > t /\ Promised(s, t, next)

(* The time a thread waits for is the very next one that its schedule names:     *)
(* the search field by field, which leaves out the past only on the first day,   *)
(* hour and minute, neither skips an instant over a change of minute, hour, day  *)
(* or month nor stops at one the expression excludes, and it gives up only when  *)
(* its horizon holds none.                                                       *)
NextIsLeast == [][stage = "read" /\ stage' # "read" /\ ~StarStepped(schedule)
                  => LeastAfter(schedule, now, due')]_clockVars

(* The same with "*/2" in a day field, where it fails: the field is ignored. *)
StepsNarrowDays == [][stage = "read" /\ stage' # "read" => LeastAfter(schedule, now, due')]_clockVars

(* No trigger comes before its time, and none comes twice for one time, however  *)
(* the clock moves between the two readings, the wait, a wakeup and a run that   *)
(* ends in the second in which it began.                                         *)
FiresOnce == [][stage = "wait" /\ stage' = "busy" => now >= due /\ due > fired]_clockVars
=============================================================================
