-------------------------- MODULE MCScheduleClock --------------------------
(* Model values of ScheduleClock: a day of two hours of two minutes of two     *)
(* seconds, a fortnight of four months of two to four days, and schedules with *)
(* every form of a field in every position.                                    *)
EXTENDS ScheduleClock

Cycle == << <<1, 1>>, <<1, 2>>, <<1, 3>>, <<2, 1>>, <<2, 2>>, <<3, 1>>, <<3, 2>>, <<3, 3>>,
            <<3, 4>>, <<4, 1>>, <<4, 2>>, <<4, 3>>, <<4, 4>>, <<4, 5>> >>

Calendar == [i \in 1..Len(Cycle) |-> [month |-> Cycle[i][1], day |-> Cycle[i][2], weekday |-> (i + 2) % 7]]

From(a, b, step) == {[star |-> FALSE, from |-> a, to |-> b, step |-> step]}
One(v)           == From(v, v, 1)
Star(low, high, step) == {[star |-> TRUE, from |-> low, to |-> high, step |-> step]}

DayFields     == {Star(1, 5, 1), One(3), One(1) \union One(4), Star(1, 5, 2), One(5)}
WeekdayFields == {Star(0, 7, 1), One(7), From(1, 5, 2)}
MonthFields   == {Star(1, 4, 1), One(2), One(3) \union One(4)}

(* The days vary with a time of day around both ends of minute, hour and day. *)
DayExprs ==
  {[seconds |-> One(s), minutes |-> One(1 - s), hours |-> One(0), days |-> d, months |-> m, weekdays |-> w] :
     s \in {0, 1}, d \in DayFields, m \in MonthFields, w \in WeekdayFields}

TimeExprs ==
  {[seconds |-> s, minutes |-> mi, hours |-> h, days |-> Star(1, 5, 1), months |-> Star(1, 4, 1), weekdays |-> Star(0, 7, 1)] :
     s \in {One(0), Star(0, 1, 1)}, mi \in {One(0), One(1), Star(0, 1, 1)}, h \in {One(1), From(0, 1, 1), Star(0, 1, 2)}}

Daily == [seconds |-> One(0), minutes |-> One(1), hours |-> One(1), days |-> Star(1, 5, 1),
          months |-> Star(1, 4, 1), weekdays |-> Star(0, 7, 1)]

(* A value out of bounds, a range the wrong way round, a step of zero. *)
Refused == {[Daily EXCEPT !.hours = One(2)], [Daily EXCEPT !.days = From(3, 1, 1)],
            [Daily EXCEPT !.minutes = {[star |-> TRUE, from |-> 0, to |-> 1, step |-> 0]}]}

Words == {[text |-> ""], [text |-> "0"]}

CronSchedules(kinds, exprs) ==
  {[kind |-> k, interval |-> 0, cron |-> c, default |-> Daily] : k \in kinds, c \in exprs}

MCSchedules ==
  CronSchedules({"normal"}, DayExprs \union TimeExprs \union Refused)
    \union CronSchedules({"normal", "forced", "maintenance"}, Words)
    \union {[kind |-> "forced", interval |-> i, cron |-> Daily, default |-> Daily] : i \in {-1, 1, 3}}
    \union {[kind |-> "update", at |-> [hour |-> h, minute |-> m]] : h \in {0, 1}, m \in {0, 1}}
=============================================================================
