--------------------------- MODULE ScheduleProofs ---------------------------
(***************************************************************************)
(* The time and the wakeups of the schedule threads, for every value of the *)
(* constants.                                                               *)
(*                                                                          *)
(* The time a thread waits for is the least its schedule promises: an       *)
(* instant is the same as its day, hour, minute and second (AtParts,        *)
(* PartsOfAt), a later one is later in the first part that differs          *)
(* (LaterParts), so that the nested search, which cuts the past off part by *)
(* part, visits exactly the instants named from its start to its horizon    *)
(* (CandidateIsNamed, NamedIsCandidate).  ClockInv then carries the         *)
(* difference between the due time and the last trigger over the steps.     *)
(*                                                                          *)
(* No thread loses a wakeup: one that is past the head of its loop with an  *)
(* outdated configuration has a wakeup pending or coming (Notified), for    *)
(* only the two places that lead back to the head clear its event.          *)
(***************************************************************************)
EXTENDS ScheduleClock, ScheduleLoop, WellFoundedInduction, TLAPS

(* Division by a positive number leaves a quotient and a rest. *)
LEMMA DivMod ==
  ASSUME NEW x \in Nat, NEW a \in Nat \ {0}
  PROVE  /\ x \div a \in Nat /\ x % a \in 0..(a - 1)
         /\ x = (x \div a) * a + (x % a)
OBVIOUS

(* And only one of each. *)
LEMMA DivUnique ==
  ASSUME NEW a \in Nat \ {0}, NEW q \in Nat, NEW r \in 0..(a - 1)
  PROVE  (q * a + r) \div a = q /\ (q * a + r) % a = r
OBVIOUS

(* A larger number has no smaller quotient. *)
LEMMA DivMonotone ==
  ASSUME NEW x \in Nat, NEW y \in Nat, NEW a \in Nat \ {0}, x <= y
  PROVE  x \div a <= y \div a
OBVIOUS

(* Division by a product is division by one factor after the other. *)
LEMMA DivDiv ==
  ASSUME NEW x \in Nat, NEW a \in Nat \ {0}, NEW b \in Nat \ {0}
  PROVE  a * b \in Nat \ {0} /\ x \div (a * b) = (x \div a) \div b
<1> DEFINE q == x \div a
           p == q \div b
           r == (q % b) * a + (x % a)
<1>1. /\ q \in Nat /\ x % a \in 0..(a - 1) /\ x = q * a + (x % a)
      /\ p \in Nat /\ q % b \in 0..(b - 1) /\ q = p * b + (q % b)
  BY DivMod
<1> HIDE DEF q, p
<1>2. a * b \in Nat \ {0}
  OBVIOUS
<1>3. (q % b) * a <= (b - 1) * a
  BY <1>1
<1>4. r \in 0..(a * b - 1)
  BY <1>1, <1>3
<1>5. x = p * (a * b) + r
  BY <1>1
<1> HIDE DEF r
<1>6. x \div (a * b) = p
  BY <1>1, <1>2, <1>4, <1>5, DivUnique
<1> QED BY <1>2, <1>6 DEF p, q

(* The units of datetime, each positive. *)
LEMMA Positive ==
  /\ PerMinute \in Nat \ {0} /\ PerHour \in Nat \ {0} /\ PerDay \in Nat \ {0}
  /\ MonthDays \in Nat \ {0} /\ Months \in Nat \ {0} /\ Horizon \in Nat \ {0}
BY ClockAssumption

(* What the solver does not see of a product by itself. *)
LEMMA Product == ASSUME NEW a \in Nat, NEW b \in Nat PROVE a * b \in Nat
OBVIOUS

(* Days are hours divided by the hours of a day. *)
LEMMA DayDiv ==
  \A x \in Nat, hour \in Nat \ {0} : x \div (hour * PerDay) = (x \div hour) \div PerDay
<1> SUFFICES ASSUME NEW x \in Nat, NEW hour \in Nat \ {0}
             PROVE  x \div (hour * PerDay) = (x \div hour) \div PerDay
  OBVIOUS
<1> QED BY Positive, DivDiv

(* The whole hours and whole minutes before an instant. *)
WholeHours(x) == DayOf(x) * PerDay + Hour(x)
WholeMinutes(x)  == WholeHours(x) * PerHour + Minute(x)

(* Every instant has a day, an hour, a minute and a second, each within bounds. *)
LEMMA Civil ==
  ASSUME NEW x \in Nat
  PROVE  /\ DayOf(x) \in Nat /\ Hour(x) \in 0..(PerDay - 1)
         /\ Minute(x) \in 0..(PerHour - 1) /\ Second(x) \in 0..(PerMinute - 1)
         /\ x = WholeMinutes(x) * PerMinute + Second(x)
         /\ x \div PerMinute = WholeMinutes(x) /\ x \div (PerMinute * PerHour) = WholeHours(x)
<1> USE Positive
<1>1. /\ x \div PerMinute \in Nat /\ Second(x) \in 0..(PerMinute - 1)
      /\ x = (x \div PerMinute) * PerMinute + Second(x)
  BY DivMod DEF Second
<1>2. /\ x \div (PerMinute * PerHour) = (x \div PerMinute) \div PerHour
      /\ PerMinute * PerHour \in Nat \ {0}
  BY DivDiv
<1>3. /\ x \div (PerMinute * PerHour) \in Nat /\ Minute(x) \in 0..(PerHour - 1)
      /\ x \div PerMinute = (x \div (PerMinute * PerHour)) * PerHour + Minute(x)
  BY <1>1, <1>2, DivMod DEF Minute
<1> DEFINE hour == PerMinute * PerHour
<1>4. DayOf(x) = (x \div hour) \div PerDay
  <2>1. hour \in Nat \ {0} /\ DayOf(x) = x \div (hour * PerDay)
    BY <1>2 DEF DayOf, DaySeconds
  <2> HIDE DEF hour
  <2>2. x \div (hour * PerDay) = (x \div hour) \div PerDay
    BY <2>1, DayDiv
  <2> QED BY <2>1, <2>2
<1>5. /\ DayOf(x) \in Nat /\ Hour(x) \in 0..(PerDay - 1)
      /\ x \div hour = DayOf(x) * PerDay + Hour(x)
  <2>1. x \div hour \in Nat /\ Hour(x) = (x \div hour) % PerDay
    BY <1>3 DEF Hour
  <2> HIDE DEF hour
  <2> QED BY <1>4, <2>1, DivMod
<1> QED BY <1>1, <1>3, <1>5 DEF WholeHours, WholeMinutes

(* A day is not empty. *)
LEMMA DayPositive == DaySeconds \in Nat \ {0}
BY Positive DEF DaySeconds

(* An instant is the one that its parts name. *)
LEMMA AtParts ==
  ASSUME NEW x \in Nat
  PROVE  x = At(DayOf(x), Hour(x), Minute(x), Second(x))
<1> USE Positive
<1> DEFINE d == DayOf(x)
           h == Hour(x)
           m == Minute(x)
           s == Second(x)
<1>1. /\ d \in Nat /\ h \in Int /\ m \in Int /\ s \in Int
      /\ x = ((d * PerDay + h) * PerHour + m) * PerMinute + s
  BY Civil DEF WholeHours, WholeMinutes
<1> HIDE DEF d, h, m, s
<1>2. x = At(d, h, m, s)
  BY <1>1 DEF At, DaySeconds
<1> QED BY <1>2 DEF d, h, m, s

(* The instant of four parts within their bounds has these parts. *)
LEMMA PartsOfAt ==
  ASSUME NEW d \in Nat, NEW h \in 0..(PerDay - 1), NEW m \in 0..(PerHour - 1),
         NEW s \in 0..(PerMinute - 1)
  PROVE  /\ At(d, h, m, s) \in Nat
         /\ DayOf(At(d, h, m, s)) = d /\ Hour(At(d, h, m, s)) = h
         /\ Minute(At(d, h, m, s)) = m /\ Second(At(d, h, m, s)) = s
<1> USE Positive
<1> DEFINE x == At(d, h, m, s)
           e == (d * PerDay + h) * PerHour + m
<1>1. e \in Nat /\ d * PerDay + h \in Nat
  OBVIOUS
<1>2. x = e * PerMinute + s /\ x \in Nat
  <2>1. x = e * PerMinute + s
    BY DEF At, DaySeconds
  <2> HIDE DEF x, e
  <2> QED BY <1>1, <2>1
<1> HIDE DEF x
<1>3. x \div PerMinute = e /\ x % PerMinute = s
  <2> HIDE DEF e
  <2> QED BY <1>1, <1>2, DivUnique
<1>4. e \div PerHour = d * PerDay + h /\ e % PerHour = m
  BY <1>1, DivUnique
<1>5. (d * PerDay + h) \div PerDay = d /\ (d * PerDay + h) % PerDay = h
  BY DivUnique
<1> HIDE DEF e
<1>6. /\ x \div (PerMinute * PerHour) = d * PerDay + h /\ PerMinute * PerHour \in Nat \ {0}
  BY <1>2, <1>3, <1>4, DivDiv
<1>7. x \div DaySeconds = d
  <2> DEFINE hour == PerMinute * PerHour
  <2>1. hour \in Nat \ {0} /\ x \div hour = d * PerDay + h /\ DaySeconds = hour * PerDay
    BY <1>6 DEF DaySeconds
  <2> HIDE DEF hour
  <2>2. x \div (hour * PerDay) = (x \div hour) \div PerDay
    BY <1>2, <2>1, DayDiv
  <2> QED BY <1>5, <2>1, <2>2
<1> QED BY <1>2, <1>3, <1>4, <1>5, <1>6, <1>7 DEF x, DayOf, Hour, Minute, Second

(* Later instants come later in some part, the first that differs. *)
LEMMA LaterParts ==
  ASSUME NEW x \in Nat, NEW y \in Nat, x <= y
  PROVE  /\ DayOf(x) <= DayOf(y)
         /\ DayOf(x) = DayOf(y) => Hour(x) <= Hour(y)
         /\ DayOf(x) = DayOf(y) /\ Hour(x) = Hour(y) => Minute(x) <= Minute(y)
         /\ DayOf(x) = DayOf(y) /\ Hour(x) = Hour(y) /\ Minute(x) = Minute(y)
              => Second(x) <= Second(y)
<1> USE Positive
<1>1. DayOf(x) <= DayOf(y)
  BY DivMonotone, DayPositive DEF DayOf
<1>2. WholeHours(x) <= WholeHours(y)
  <2>1. PerMinute * PerHour \in Nat \ {0}
    BY Product
  <2>2. x \div (PerMinute * PerHour) <= y \div (PerMinute * PerHour)
    BY <2>1, DivMonotone, Zenon
  <2> QED BY <2>2, Civil
<1>3. WholeMinutes(x) <= WholeMinutes(y)
  BY Civil, DivMonotone
<1>4. /\ \A z \in {x, y} : /\ DayOf(z) \in Nat /\ Hour(z) \in Nat /\ Minute(z) \in Nat
                           /\ Second(z) \in Nat /\ z = WholeMinutes(z) * PerMinute + Second(z)
  BY Civil
<1>5. ASSUME DayOf(x) = DayOf(y) PROVE Hour(x) <= Hour(y)
  BY <1>2, <1>4, <1>5, Product DEF WholeHours
<1>6. ASSUME DayOf(x) = DayOf(y), Hour(x) = Hour(y)
      PROVE  Minute(x) <= Minute(y)
  <2>1. WholeHours(x) = WholeHours(y) /\ WholeHours(x) \in Nat
    BY <1>4, <1>6, Product DEF WholeHours
  <2> QED BY <1>3, <1>4, <2>1, Product DEF WholeMinutes
<1>7. ASSUME DayOf(x) = DayOf(y), Hour(x) = Hour(y), Minute(x) = Minute(y)
      PROVE  Second(x) <= Second(y)
  <2>1. WholeHours(x) = WholeHours(y) /\ WholeHours(x) \in Nat
    BY <1>4, <1>7, Product DEF WholeHours
  <2>2. WholeMinutes(x) = WholeMinutes(y) /\ WholeMinutes(x) \in Nat
    BY <1>4, <1>7, <2>1, Product DEF WholeMinutes
  <2> QED BY <1>4, <2>2, Product
<1> QED BY <1>1, <1>5, <1>6, <1>7

-----------------------------------------------------------------------------
(* A step is hit by counting up from the first value (_parse_field's range). *)
LEMMA PartSteps ==
  ASSUME NEW from \in Nat, NEW to \in Int, NEW step \in Nat \ {0}, NEW v \in Nat
  PROVE  (v \in from..to /\ (v - from) % step = 0)
           <=> \E k \in 0..v : v = from + k * step /\ v <= to
<1>1. ASSUME v \in from..to, (v - from) % step = 0
      PROVE  \E k \in 0..v : v = from + k * step /\ v <= to
  <2> DEFINE k == (v - from) \div step
  <2>1. v - from \in Nat
    BY <1>1
  <2>2. k \in Nat /\ v - from = k * step + ((v - from) % step)
    BY <2>1, DivMod
  <2> HIDE DEF k
  <2>3. v = from + k * step
    BY <1>1, <2>2
  <2>4. k <= k * step
    BY <2>2
  <2> QED BY <1>1, <2>2, <2>3, <2>4
<1>2. ASSUME NEW k \in 0..v, v = from + k * step, v <= to
      PROVE  v \in from..to /\ (v - from) % step = 0
  <2>1. v - from = k * step + 0 /\ k * step \in Nat
    BY <1>2, Product
  <2>2. (k * step + 0) % step = 0
    BY DivUnique
  <2> QED BY <1>2, <2>1, <2>2
<1> QED BY <1>1, <1>2

(* A part of a sound field starts at a natural number and moves on. *)
LEMMA SoundPart ==
  ASSUME NEW field \in Fields, NEW low \in Nat, NEW high \in Nat, Sound(field, low, high),
         NEW part \in field
  PROVE  part.from \in Nat /\ part.to \in Int /\ part.step \in Nat \ {0}
<1>1. /\ part.from \in Int /\ part.to \in Int /\ part.step \in Int
      /\ part.step > 0 /\ part.from <= part.to /\ Steps(part) \subseteq low..high
  BY DEF Fields, Sound
<1>2. (part.from - part.from) % part.step = 0
  BY <1>1, DivUnique
<1>3. part.from \in Steps(part)
  BY <1>1, <1>2 DEF Steps
<1> QED BY <1>1, <1>3

(* A field's values are those that its parts name, within its bounds. *)
LEMMA FieldValues ==
  ASSUME NEW field \in Fields, NEW low \in Nat, NEW high \in Nat, Sound(field, low, high)
  PROVE  /\ Values(field, FALSE) \subseteq low..high
         /\ \A v \in Nat : v \in Values(field, FALSE) <=> Names(field, v)
         /\ \A v \in Nat : v \in Values(field, TRUE)
                             <=> (v # 7 /\ Names(field, v)) \/ (v = 0 /\ Names(field, 7))
<1> DEFINE named == UNION {Steps(part) : part \in field}
<1>1. named \subseteq low..high
  BY DEF Sound
<1>2. \A v \in Nat : v \in named <=> Names(field, v)
  <2> SUFFICES ASSUME NEW v \in Nat PROVE v \in named <=> Names(field, v)
    OBVIOUS
  <2>1. ASSUME NEW part \in field
        PROVE  v \in Steps(part) <=> \E k \in 0..v : v = part.from + k * part.step /\ v <= part.to
    <3>1. part.from \in Nat /\ part.to \in Int /\ part.step \in Nat \ {0}
      BY <2>1, SoundPart
    <3>2. (v \in part.from..part.to /\ (v - part.from) % part.step = 0)
             <=> \E k \in 0..v : v = part.from + k * part.step /\ v <= part.to
      BY <3>1, PartSteps
    <3>3. v \in Steps(part) <=> v \in part.from..part.to /\ (v - part.from) % part.step = 0
      BY DEF Steps
    <3> QED BY <3>2, <3>3, Zenon
  <2> QED BY <2>1 DEF Names
<1> HIDE DEF named
<1>3. Values(field, FALSE) = named
  BY DEF Values, named
<1>4. \A v : v \in Values(field, TRUE) <=> \E u \in named : v = IF u = 7 THEN 0 ELSE u
  BY DEF Values, named
<1>5. \A v \in Nat : v \in Values(field, TRUE) <=> (v # 7 /\ v \in named) \/ (v = 0 /\ 7 \in named)
  <2> SUFFICES ASSUME NEW v \in Nat
               PROVE  v \in Values(field, TRUE) <=> (v # 7 /\ v \in named) \/ (v = 0 /\ 7 \in named)
    OBVIOUS
  <2>1. CASE v \in Values(field, TRUE)
    <3>1. PICK u \in named : v = IF u = 7 THEN 0 ELSE u
      BY <1>4, <2>1
    <3>2. CASE u = 7
      BY <2>1, <3>1, <3>2
    <3>3. CASE u # 7
      BY <2>1, <3>1, <3>3
    <3> QED BY <2>1, <3>2, <3>3, Zenon
  <2>2. ASSUME v # 7, v \in named PROVE v \in Values(field, TRUE)
    BY <1>4, <2>2
  <2>3. ASSUME v = 0, 7 \in named PROVE v \in Values(field, TRUE)
    BY <1>4, <2>3
  <2> QED BY <2>1, <2>2, <2>3
<1> QED BY <1>1, <1>2, <1>3, <1>5

-----------------------------------------------------------------------------
(* What the six fields of a parsed, sound expression name, field by field. *)
Parts(c) == Parsed(c) /\ IsCron(c)

(* The fields of the code, each with its own bounds. *)
LEMMA FieldsOfCron ==
  ASSUME NEW c, Parts(c), NEW v \in Nat
  PROVE  /\ v \in Values(c.seconds, FALSE) <=> Names(c.seconds, v)
         /\ v \in Values(c.minutes, FALSE) <=> Names(c.minutes, v)
         /\ v \in Values(c.hours, FALSE) <=> Names(c.hours, v)
         /\ v \in Values(c.days, FALSE) <=> Names(c.days, v)
         /\ v \in Values(c.months, FALSE) <=> Names(c.months, v)
         /\ v \in Values(c.weekdays, TRUE)
              <=> (v # 7 /\ Names(c.weekdays, v)) \/ (v = 0 /\ Names(c.weekdays, 7))
         /\ Values(c.seconds, FALSE) \subseteq 0..(PerMinute - 1)
         /\ Values(c.minutes, FALSE) \subseteq 0..(PerHour - 1)
         /\ Values(c.hours, FALSE) \subseteq 0..(PerDay - 1)
<1>1. /\ c.seconds \in Fields /\ c.minutes \in Fields /\ c.hours \in Fields
      /\ c.days \in Fields /\ c.months \in Fields /\ c.weekdays \in Fields
  BY DEF Parts, Parsed, IsCron
<1>2. /\ Sound(c.seconds, 0, PerMinute - 1) /\ Sound(c.minutes, 0, PerHour - 1)
      /\ Sound(c.hours, 0, PerDay - 1) /\ Sound(c.days, 1, MonthDays)
      /\ Sound(c.months, 1, Months) /\ Sound(c.weekdays, 0, 7)
  BY DEF Parts, IsCron
<1>3. /\ PerMinute - 1 \in Nat /\ PerHour - 1 \in Nat /\ PerDay - 1 \in Nat
      /\ MonthDays \in Nat /\ Months \in Nat /\ 0 \in Nat /\ 1 \in Nat /\ 7 \in Nat
  BY Positive
<1>4. \A field \in Fields, low \in Nat, high \in Nat : Sound(field, low, high) =>
        /\ Values(field, FALSE) \subseteq low..high
        /\ v \in Values(field, FALSE) <=> Names(field, v)
        /\ v \in Values(field, TRUE) <=> (v # 7 /\ Names(field, v)) \/ (v = 0 /\ Names(field, 7))
  BY FieldValues
<1> QED BY <1>1, <1>2, <1>3, <1>4, Zenon

(* A "*" without a step names every day of its field. *)
LEMMA StarNamesAll ==
  ASSUME NEW field, NEW low \in Nat, NEW high \in Nat, Sound(field, low, high),
         StarsSpan(field, low, high), field \in Fields,
         \A part \in field : ~(part.star /\ part.step > 1),
         Wildcard(field), NEW v \in low..high
  PROVE  Names(field, v)
<1>1. PICK part \in field : part.star
  BY DEF Wildcard
<1>2. part.from = low /\ part.to = high
  BY <1>1 DEF StarsSpan
<1>3. part.step = 1
  BY <1>1, SoundPart
<1>4. v - low \in 0..v /\ v = low + (v - low) * 1 /\ v <= high
  OBVIOUS
<1> QED BY <1>1, <1>2, <1>3, <1>4 DEF Names

(* The calendar has a month, a day and a weekday for every day. *)
LEMMA DayOfCalendar ==
  ASSUME NEW d \in Nat
  PROVE  Date(d).month \in 1..Months /\ Date(d).day \in 1..MonthDays /\ Date(d).weekday \in 0..6
<1>1. Len(Days) \in Nat \ {0} /\ Days \in Seq([month : 1..Months, day : 1..MonthDays, weekday : 0..6])
  BY ClockAssumption
<1>2. (d % Len(Days)) + 1 \in 1..Len(Days)
  <2> DEFINE n == Len(Days)
  <2>1. n \in Nat \ {0}
    BY <1>1
  <2> HIDE DEF n
  <2>2. d % n \in 0..(n - 1)
    BY <2>1, DivMod
  <2>3. (d % n) + 1 \in 1..n
    BY <2>1, <2>2
  <2> QED BY <2>3 DEF n
<1>3. Date(d) \in [month : 1..Months, day : 1..MonthDays, weekday : 0..6]
  <2> DEFINE i == (d % Len(Days)) + 1
  <2>1. Days[i] \in [month : 1..Months, day : 1..MonthDays, weekday : 0..6]
    <3> DEFINE dates == [month : 1..Months, day : 1..MonthDays, weekday : 0..6]
    <3>1. i \in 1..Len(Days) /\ Days \in Seq(dates)
      BY <1>1, <1>2
    <3> HIDE DEF i, dates
    <3>2. Days[i] \in dates
      BY <3>1
    <3> QED BY <3>2 DEF dates
  <2> QED BY <2>1 DEF Date
<1> QED BY <1>3

(* The test of the code, of which the wildcards are a part, and the words of the *)
(* configuration agree on every day, if no star in a day field has a step.       *)
LEMMA DaysAgree ==
  ASSUME NEW c, Parts(c), NEW d \in Nat,
         \A part \in c.days \union c.weekdays : ~(part.star /\ part.step > 1)
  PROVE  DayMatches(c, Date(d)) <=> NamesDay(c, Date(d))
<1> DEFINE day == Date(d).day
           weekday == Date(d).weekday
           dom == Names(c.days, day)
           dow == Names(c.weekdays, weekday) \/ (weekday = 0 /\ Names(c.weekdays, 7))
<1>1. day \in 1..MonthDays /\ weekday \in 0..6 /\ day \in Nat /\ weekday \in Nat /\ MonthDays \in Nat
  BY DayOfCalendar, Positive
<1>2. day \in Values(c.days, FALSE) <=> dom
  BY <1>1, FieldsOfCron
<1>3. weekday \in Values(c.weekdays, TRUE) <=> dow
  <2>1. weekday \in Values(c.weekdays, TRUE)
          <=> (weekday # 7 /\ Names(c.weekdays, weekday)) \/ (weekday = 0 /\ Names(c.weekdays, 7))
    BY <1>1, FieldsOfCron
  <2>2. weekday # 7
    BY <1>1
  <2> QED BY <2>1, <2>2, Zenon
<1>4. /\ c.days \in Fields /\ c.weekdays \in Fields
      /\ Sound(c.days, 1, MonthDays) /\ Sound(c.weekdays, 0, 7)
      /\ StarsSpan(c.days, 1, MonthDays) /\ StarsSpan(c.weekdays, 0, 7)
  BY DEF Parts, Parsed, IsCron
<1>5. Wildcard(c.days) => dom
  BY <1>1, <1>4, StarNamesAll
<1>6. Wildcard(c.weekdays) => dow
  <2>1. weekday \in 0..7
    BY <1>1
  <2> QED BY <1>4, <2>1, StarNamesAll
<1>7. DayMatches(c, Date(d)) <=>
        CASE Wildcard(c.days) /\ Wildcard(c.weekdays) -> TRUE
          [] Wildcard(c.days) /\ ~Wildcard(c.weekdays) -> dow
          [] ~Wildcard(c.days) /\ Wildcard(c.weekdays) -> dom
          [] OTHER -> dom \/ dow
  BY <1>2, <1>3, Zenon DEF DayMatches
<1>8. NamesDay(c, Date(d)) <=> IF Wildcard(c.days) \/ Wildcard(c.weekdays) THEN dom /\ dow ELSE dom \/ dow
  BY DEF NamesDay
<1> HIDE DEF day, weekday, dom, dow
<1> QED BY <1>5, <1>6, <1>7, <1>8

-----------------------------------------------------------------------------
(* An instant, in seconds, that an expression names. *)
Named(c, x) ==
  /\ Names(c.seconds, Second(x)) /\ Names(c.minutes, Minute(x)) /\ Names(c.hours, Hour(x))
  /\ Names(c.months, Date(DayOf(x)).month) /\ NamesDay(c, Date(DayOf(x)))

Unstepped(c) == \A part \in c.days \union c.weekdays : ~(part.star /\ part.step > 1)

(* A day, an hour, a minute and a second of which each was left in by its test. *)
Chosen(c, start, d, h, m, s) ==
  /\ d \in CandidateDays(c, start) /\ h \in CandidateHours(c, start, d)
  /\ m \in CandidateMinutes(c, start, d, h) /\ s \in CandidateSeconds(c, start, d, h, m)

(* The four nested loops of next_after visit the combinations left in. *)
LEMMA CandidatesChosen ==
  ASSUME NEW c, NEW start, NEW x
  PROVE  x \in Candidates(c, start) <=> \E d, h, m, s : Chosen(c, start, d, h, m, s) /\ x = At(d, h, m, s)
<1> DEFINE Seconds(d, h, m) == {At(d, h, m, s) : s \in CandidateSeconds(c, start, d, h, m)}
           Minutes(d, h)    == UNION {Seconds(d, h, m) : m \in CandidateMinutes(c, start, d, h)}
           Hours(d)         == UNION {Minutes(d, h) : h \in CandidateHours(c, start, d)}
<1>1. x \in Candidates(c, start) <=> \E d \in CandidateDays(c, start) : x \in Hours(d)
  <2>1. Candidates(c, start) = UNION {Hours(d) : d \in CandidateDays(c, start)}
    BY DEF Candidates
  <2> HIDE DEF Hours
  <2> QED BY <2>1, Zenon
<1>2. \A d : x \in Hours(d) <=> \E h \in CandidateHours(c, start, d) : x \in Minutes(d, h)
  <2> HIDE DEF Minutes
  <2> QED BY Zenon
<1>3. \A d, h : x \in Minutes(d, h) <=> \E m \in CandidateMinutes(c, start, d, h) : x \in Seconds(d, h, m)
  BY Zenon
<1>4. \A d, h, m : x \in Seconds(d, h, m)
                     <=> \E s \in CandidateSeconds(c, start, d, h, m) : x = At(d, h, m, s)
  BY Zenon
<1> HIDE DEF Seconds, Minutes, Hours
<1> QED BY <1>1, <1>2, <1>3, <1>4 DEF Chosen

(* The nested search finds what lies between the start and the horizon, and what *)
(* the expression names.                                                          *)
LEMMA CandidateInTime ==
  ASSUME NEW c, Parts(c), NEW start \in Nat, NEW x \in Candidates(c, start)
  PROVE  /\ x \in Nat /\ x >= start /\ DayOf(x) <= DayOf(start) + Horizon - 1
         /\ Names(c.seconds, Second(x)) /\ Names(c.minutes, Minute(x)) /\ Names(c.hours, Hour(x))
         /\ Names(c.months, Date(DayOf(x)).month) /\ DayMatches(c, Date(DayOf(x)))
<1>1. PICK d, h, m, s : Chosen(c, start, d, h, m, s) /\ x = At(d, h, m, s)
  BY CandidatesChosen
<1>2. /\ d \in CandidateDays(c, start) /\ h \in Values(c.hours, FALSE) /\ m \in Values(c.minutes, FALSE)
      /\ s \in Values(c.seconds, FALSE)
      /\ d = DayOf(start) => h >= Hour(start)
      /\ d = DayOf(start) /\ h = Hour(start) => m >= Minute(start)
      /\ d = DayOf(start) /\ h = Hour(start) /\ m = Minute(start) => s >= Second(start)
  BY <1>1 DEF Chosen, CandidateHours, CandidateMinutes, CandidateSeconds
<1>3. /\ d \in DayOf(start)..(DayOf(start) + Horizon - 1)
      /\ Date(d).month \in Values(c.months, FALSE) /\ DayMatches(c, Date(d))
  BY <1>2 DEF CandidateDays
<1>4. DayOf(start) \in Nat /\ Horizon \in Nat \ {0} /\ d \in Nat
  BY <1>3, Civil, Positive
<1>5. h \in 0..(PerDay - 1) /\ m \in 0..(PerHour - 1) /\ s \in 0..(PerMinute - 1)
  <2>1. /\ Values(c.seconds, FALSE) \subseteq 0..(PerMinute - 1)
        /\ Values(c.minutes, FALSE) \subseteq 0..(PerHour - 1)
        /\ Values(c.hours, FALSE) \subseteq 0..(PerDay - 1)
    BY FieldsOfCron, <1>4
  <2> QED BY <1>2, <2>1
<1>6. /\ x \in Nat /\ DayOf(x) = d /\ Hour(x) = h /\ Minute(x) = m /\ Second(x) = s
  BY <1>1, <1>4, <1>5, PartsOfAt
<1>7. h \in Nat /\ m \in Nat /\ s \in Nat /\ Date(d).month \in Nat
  BY <1>4, <1>5, DayOfCalendar
<1>8. Names(c.hours, h) /\ Names(c.minutes, m) /\ Names(c.seconds, s) /\ Names(c.months, Date(d).month)
  BY <1>2, <1>3, <1>7, FieldsOfCron
<1>9. x >= start
  <2> SUFFICES ASSUME x < start PROVE FALSE
    BY <1>6
  <2>1. x <= start
    BY <1>6
  <2>2. DayOf(x) = DayOf(start)
    BY <1>3, <1>4, <1>6, <2>1, LaterParts
  <2>3. Hour(start) \in Nat /\ Minute(start) \in Nat /\ Second(start) \in Nat
    BY Civil
  <2>4. Hour(x) = Hour(start)
    BY <1>2, <1>6, <1>7, <2>1, <2>2, <2>3, LaterParts
  <2>5. Minute(x) = Minute(start)
    BY <1>2, <1>6, <1>7, <2>1, <2>2, <2>3, <2>4, LaterParts
  <2>6. Second(x) = Second(start)
    BY <1>2, <1>6, <1>7, <2>1, <2>2, <2>3, <2>4, <2>5, LaterParts
  <2>7. x = start
    BY <1>6, <2>2, <2>4, <2>5, <2>6, AtParts
  <2> QED BY <2>7
<1>10. DayMatches(c, Date(DayOf(x)))
  BY <1>3, <1>6
<1>11. /\ Names(c.seconds, Second(x)) /\ Names(c.minutes, Minute(x)) /\ Names(c.hours, Hour(x))
       /\ Names(c.months, Date(DayOf(x)).month)
  BY <1>6, <1>8
<1> QED BY <1>3, <1>6, <1>9, <1>10, <1>11

(* What the loops find is what the expression names. *)
LEMMA CandidateIsNamed ==
  ASSUME NEW c, Parts(c), Unstepped(c), NEW start \in Nat, NEW x \in Candidates(c, start)
  PROVE  x \in Nat /\ x >= start /\ DayOf(x) <= DayOf(start) + Horizon - 1 /\ Named(c, x)
<1>1. /\ x \in Nat /\ x >= start /\ DayOf(x) <= DayOf(start) + Horizon - 1
      /\ Names(c.seconds, Second(x)) /\ Names(c.minutes, Minute(x)) /\ Names(c.hours, Hour(x))
      /\ Names(c.months, Date(DayOf(x)).month) /\ DayMatches(c, Date(DayOf(x)))
  BY CandidateInTime
<1>2. NamesDay(c, Date(DayOf(x)))
  BY <1>1, Civil, DaysAgree DEF Unstepped
<1> QED BY <1>1, <1>2, Zenon DEF Named

(* And whatever it names within the horizon is found. *)
LEMMA NamedIsCandidate ==
  ASSUME NEW c, Parts(c), Unstepped(c), NEW start \in Nat, NEW x \in Nat,
         x >= start, DayOf(x) <= DayOf(start) + Horizon - 1, Named(c, x)
  PROVE  x \in Candidates(c, start)
<1> DEFINE d == DayOf(x)
           h == Hour(x)
           m == Minute(x)
           s == Second(x)
<1>1. d \in Nat /\ h \in Nat /\ m \in Nat /\ s \in Nat /\ DayOf(start) \in Nat /\ Horizon \in Nat \ {0}
  BY Civil, Positive
<1>2. /\ DayOf(start) <= d
      /\ d = DayOf(start) => h >= Hour(start)
      /\ d = DayOf(start) /\ h = Hour(start) => m >= Minute(start)
      /\ d = DayOf(start) /\ h = Hour(start) /\ m = Minute(start) => s >= Second(start)
  BY LaterParts, Civil
<1>3. x = At(d, h, m, s)
  BY AtParts
<1>4. Date(d).month \in Nat
  BY <1>1, DayOfCalendar
<1>5. DayMatches(c, Date(d))
  BY <1>1, DaysAgree DEF Unstepped, Named
<1> HIDE DEF d, h, m, s
<1>6. Names(c.hours, h) /\ Names(c.minutes, m) /\ Names(c.seconds, s) /\ Names(c.months, Date(d).month)
  BY Zenon DEF Named, d, h, m, s
<1>7. /\ h \in Values(c.hours, FALSE) /\ m \in Values(c.minutes, FALSE) /\ s \in Values(c.seconds, FALSE)
      /\ Date(d).month \in Values(c.months, FALSE)
  BY <1>1, <1>4, <1>6, FieldsOfCron
<1>8. d \in DayOf(start)..(DayOf(start) + Horizon - 1)
  BY <1>1, <1>2 DEF d
<1>9. Chosen(c, start, d, h, m, s)
  BY <1>2, <1>5, <1>7, <1>8 DEF Chosen, CandidateDays, CandidateHours, CandidateMinutes, CandidateSeconds
<1> QED BY <1>3, <1>9, CandidatesChosen

-----------------------------------------------------------------------------
(* Natural numbers have a least one. *)
LEMMA MinOf ==
  ASSUME NEW S, S \subseteq Nat, S # {}
  PROVE  Min(S) \in S /\ \A x \in S : Min(S) <= x
<1>1. PICK n \in S : \A m \in S : ~(<<m, n>> \in OpToRel(<, Nat))
  BY NatLessThanWellFounded, WFMin
<1>2. \A m \in S : ~(m < n)
  BY <1>1, Zenon DEF OpToRel
<1>3. \A m \in S : n <= m
  BY <1>2
<1> QED BY <1>3 DEF Min

(* Half seconds and seconds. *)
LEMMA Halves ==
  ASSUME NEW t \in Nat
  PROVE  /\ t \div 2 \in Nat /\ t % 2 \in 0..1 /\ t = 2 * (t \div 2) + (t % 2)
         /\ (2 * t) \div 2 = t /\ (2 * t) % 2 = 0
OBVIOUS

(* An instant before the end of a day lies on that day or before. *)
LEMMA BeforeDay ==
  ASSUME NEW x \in Nat, NEW d \in Nat, x < DaySeconds * (d + 1)
  PROVE  DayOf(x) <= d
<1> DEFINE n == DaySeconds
           q == x \div n
<1>1. n \in Nat \ {0}
  BY DayPositive
<1>2. x < n * (d + 1) /\ DayOf(x) = q
  BY DEF DayOf
<1> HIDE DEF n
<1>3. q \in Nat /\ x = q * n + (x % n) /\ x % n \in 0..(n - 1)
  BY <1>1, DivMod
<1> HIDE DEF q
<1>4. q * n < (d + 1) * n
  BY <1>1, <1>2, <1>3
<1>5. q < d + 1
  <2> SUFFICES ASSUME q >= d + 1 PROVE FALSE
    BY <1>3
  <2>1. q * n >= (d + 1) * n
    BY <1>1, <1>3
  <2> QED BY <1>1, <1>3, <1>4, <2>1
<1> QED BY <1>2, <1>3, <1>5

(* next_after: the least instant named after the reading, or none before the horizon. *)
LEMMA NextAfterIsLeast ==
  ASSUME NEW c, Parts(c), Unstepped(c), NEW t \in Nat
  PROVE  LET next == NextAfter(c, t)
             end  == IF next = Never THEN 2 * DaySeconds * (DayOf((t \div 2) + 1) + Horizon) - 1
                                     ELSE next - 1
         IN /\ \A u \in (t + 1)..end : ~NamesInstant(c, u)
            /\ next # Never => next \in Nat /\ next > t /\ NamesInstant(c, next)
<1> DEFINE start == (t \div 2) + 1
           found == Candidates(c, start)
           next  == NextAfter(c, t)
           last  == DayOf(start) + Horizon
           end   == IF next = Never THEN 2 * DaySeconds * last - 1 ELSE next - 1
<1>1. start \in Nat /\ t < 2 * start /\ \A x \in Nat : 2 * x > t => x >= start
  BY Halves
<1>2. \A x \in Nat : NamesInstant(c, 2 * x) <=> Named(c, x)
  BY Halves, Zenon DEF NamesInstant, Named
<1>3. \A x \in found : x \in Nat /\ x >= start /\ DayOf(x) < last /\ Named(c, x)
  <2> SUFFICES ASSUME NEW x \in found
               PROVE  x \in Nat /\ x >= start /\ DayOf(x) < last /\ Named(c, x)
    OBVIOUS
  <2>1. x \in Nat /\ x >= start /\ DayOf(x) <= DayOf(start) + Horizon - 1 /\ Named(c, x)
    BY <1>1, CandidateIsNamed
  <2> QED BY <1>1, <2>1, Civil, Positive
<1>4. \A x \in Nat : x >= start /\ DayOf(x) < last /\ Named(c, x) => x \in found
  <2> SUFFICES ASSUME NEW x \in Nat, x >= start, DayOf(x) < last, Named(c, x) PROVE x \in found
    OBVIOUS
  <2>1. DayOf(x) <= DayOf(start) + Horizon - 1
    BY <1>1, Civil, Positive
  <2> QED BY <1>1, <2>1, NamedIsCandidate
<1>5. next = IF found = {} THEN Never ELSE 2 * Min(found)
  BY DEF NextAfter
<1>6. last \in Nat /\ last - 1 \in Nat /\ DaySeconds \in Nat \ {0} /\ Never = -1
  <2>1. DayOf(start) \in Nat /\ Horizon \in Nat \ {0}
    BY <1>1, Civil, Positive
  <2> HIDE DEF start
  <2> QED BY <2>1, DayPositive DEF Never
<1> HIDE DEF start, found, next, last
<1>7. CASE found = {}
  <2>1. next = Never
    BY <1>5, <1>7
  <2>2. end = 2 * DaySeconds * last - 1
    BY <2>1
  <2>3. ASSUME NEW u \in (t + 1)..end, NamesInstant(c, u) PROVE FALSE
    <3> DEFINE x == u \div 2
    <3>1. u \in Nat /\ u > t /\ u <= 2 * DaySeconds * last - 1
      BY <1>6, <2>2, <2>3
    <3>2. u % 2 = 0
      BY <2>3 DEF NamesInstant
    <3>3. x \in Nat /\ u = 2 * x
      BY <3>1, <3>2, Halves
    <3> HIDE DEF x
    <3>4. Named(c, x)
      BY <1>2, <2>3, <3>3
    <3>5. x < DaySeconds * ((last - 1) + 1)
      <4> DEFINE p == DaySeconds * last
      <4>1. p \in Nat /\ u <= 2 * p - 1
        BY <1>6, <3>1, Product
      <4>2. DaySeconds * ((last - 1) + 1) = p
        BY <1>6
      <4> HIDE DEF p
      <4> QED BY <3>3, <4>1, <4>2
    <3>6. DayOf(x) <= last - 1
      BY <1>6, <3>3, <3>5, BeforeDay
    <3>7. DayOf(x) < last
      BY <1>6, <3>3, <3>6, Civil
    <3> QED BY <1>1, <1>4, <1>7, <3>1, <3>3, <3>4, <3>7
  <2> QED BY <2>1, <2>3 DEF start, next, last
<1>8. CASE found # {}
  <2> DEFINE min == Min(found)
  <2>1. min \in found /\ \A x \in found : min <= x
    BY <1>3, <1>8, MinOf
  <2>2. next = 2 * min
    BY <1>5, <1>8
  <2> HIDE DEF min
  <2>3. min \in Nat /\ min >= start /\ DayOf(min) < last /\ Named(c, min)
    BY <1>3, <2>1
  <2>4. next \in Nat /\ next # Never /\ next > t /\ NamesInstant(c, next) /\ end = next - 1
    BY <1>1, <1>2, <1>6, <2>2, <2>3
  <2>5. ASSUME NEW u \in (t + 1)..end, NamesInstant(c, u) PROVE FALSE
    <3> DEFINE x == u \div 2
    <3>1. u \in Nat /\ u > t /\ u < 2 * min
      BY <2>2, <2>3, <2>4, <2>5
    <3>2. u % 2 = 0
      BY <2>5 DEF NamesInstant
    <3>3. x \in Nat /\ u = 2 * x
      BY <3>1, <3>2, Halves
    <3> HIDE DEF x
    <3>4. Named(c, x)
      BY <1>2, <2>5, <3>3
    <3>5. x <= min /\ x < min
      BY <2>3, <3>1, <3>3
    <3>6. DayOf(x) < last
      <4>1. DayOf(x) <= DayOf(min) /\ DayOf(x) \in Nat /\ DayOf(min) \in Nat
        BY <2>3, <3>3, <3>5, LaterParts, Civil
      <4> QED BY <1>6, <2>3, <4>1
    <3>7. x \in found
      BY <1>1, <1>4, <3>1, <3>3, <3>4, <3>6
    <3> QED BY <2>1, <2>3, <3>3, <3>5, <3>7
  <2> QED BY <2>4, <2>5 DEF start, next, last
<1> QED BY <1>7, <1>8

-----------------------------------------------------------------------------
(* compute_update_check_wait_seconds: the least time of that day after the reading. *)
LEMMA DailyIsLeast ==
  ASSUME NEW at, at.hour \in 0..(PerDay - 1), at.minute \in 0..(PerHour - 1), NEW t \in Nat
  PROVE  LET Is(u) == /\ u % 2 = 0 /\ Second(u \div 2) = 0
                      /\ Hour(u \div 2) = at.hour /\ Minute(u \div 2) = at.minute
             next  == DailyAfter(at, t)
         IN next \in Nat /\ next > t /\ Is(next) /\ \A u \in (t + 1)..(next - 1) : ~Is(u)
<1> DEFINE Is(u) == /\ u % 2 = 0 /\ Second(u \div 2) = 0
                    /\ Hour(u \div 2) = at.hour /\ Minute(u \div 2) = at.minute
           next  == DailyAfter(at, t)
           d     == DayOf(t \div 2)
           On(e) == At(e, at.hour, at.minute, 0)
           n     == DaySeconds
<1>1. t \div 2 \in Nat /\ t < 2 * (t \div 2) + 2 /\ d \in Nat /\ n \in Nat \ {0}
  BY Halves, Civil, DayPositive
<1>2. ASSUME NEW e \in Nat
      PROVE  /\ On(e) \in Nat /\ DayOf(On(e)) = e /\ Hour(On(e)) = at.hour
             /\ Minute(On(e)) = at.minute /\ Second(On(e)) = 0
  BY Positive, PartsOfAt
<1>3. On(d + 1) = On(d) + n
  <2> DEFINE r == (at.hour * PerHour + at.minute) * PerMinute + 0
  <2>1. r \in Int
    BY Positive
  <2>2. \A e \in Nat : On(e) = e * n + r
    <3> DEFINE m == (at.hour * PerHour + at.minute) * PerMinute
    <3>1. m \in Int
      BY Positive
    <3>2. \A e \in Nat : On(e) = e * n + m + 0
      BY DEF At
    <3> HIDE DEF m, n, On
    <3>3. \A e \in Nat : e * n + m + 0 = e * n + (m + 0)
      BY <1>1, <3>1
    <3> QED BY <3>2, <3>3 DEF m
  <2> HIDE DEF r, n, On
  <2>3. (d + 1) * n = d * n + n
    BY <1>1
  <2> QED BY <1>1, <2>1, <2>2, <2>3
<1>4. \A e \in Nat : Is(2 * On(e))
  <2> SUFFICES ASSUME NEW e \in Nat PROVE Is(2 * On(e))
    OBVIOUS
  <2> HIDE DEF On
  <2>1. (2 * On(e)) \div 2 = On(e) /\ (2 * On(e)) % 2 = 0
    BY <1>2, Halves
  <2> QED BY <1>2, <2>1
<1>5. \A u \in Nat : Is(u) => u = 2 * (u \div 2) /\ u \div 2 = On(DayOf(u \div 2)) /\ u \div 2 \in Nat
  BY Halves, AtParts
<1>6. next = IF 2 * On(d) <= t THEN 2 * On(d) + 2 * n ELSE 2 * On(d)
  BY DEF DailyAfter
<1> HIDE DEF next, d, On, n, Is
<1>7. On(d) \in Nat /\ On(d + 1) \in Nat
  BY <1>1, <1>2
<1>8. t \div 2 < On(d + 1)
  <2> SUFFICES ASSUME On(d + 1) <= t \div 2 PROVE FALSE
    BY <1>1, <1>7
  <2>1. DayOf(On(d + 1)) <= DayOf(t \div 2)
    BY <1>1, <1>7, LaterParts
  <2>2. DayOf(On(d + 1)) = d + 1
    BY <1>1, <1>2
  <2> QED BY <1>1, <2>1, <2>2 DEF d
<1>9. next \in Nat /\ next > t /\ (next = 2 * On(d) \/ next = 2 * On(d + 1)) /\ next <= 2 * On(d + 1)
  BY <1>1, <1>3, <1>6, <1>7, <1>8
<1>10. Is(next)
  BY <1>1, <1>4, <1>9
<1>11. ASSUME NEW u \in (t + 1)..(next - 1), Is(u) PROVE FALSE
  <2> DEFINE x == u \div 2
             e == DayOf(x)
  <2>1. u \in Nat /\ u > t /\ u < next
    BY <1>9, <1>11
  <2>2. u = 2 * x /\ x = On(e) /\ x \in Nat
    BY <1>5, <1>11, <2>1
  <2>3. t \div 2 <= x
    BY <1>1, <2>1, <2>2
  <2>4. d <= e /\ e \in Nat
    BY <1>1, <2>2, <2>3, LaterParts, Civil DEF d
  <2> HIDE DEF x, e
  <2>5. CASE e = d
    <3>1. u = 2 * On(d)
      BY <2>2, <2>5
    <3> QED BY <1>6, <1>7, <2>1, <3>1, <1>3, <1>1
  <2>6. CASE e # d
    <3>1. d + 1 <= e /\ On(d + 1) <= x
      <4>1. d + 1 <= e
        BY <1>1, <2>4, <2>6
      <4>2. ASSUME x < On(d + 1) PROVE FALSE
        <5>1. x <= On(d + 1) /\ x # On(d + 1)
          BY <1>7, <2>2, <4>2
        <5>2. DayOf(x) <= DayOf(On(d + 1))
          BY <1>7, <2>2, <5>1, LaterParts
        <5>3. e <= d + 1
          BY <1>1, <1>2, <5>2 DEF e
        <5>4. e = d + 1
          BY <1>1, <2>4, <4>1, <5>3
        <5> QED BY <2>2, <5>1, <5>4
      <4> QED BY <1>7, <2>2, <4>1, <4>2
    <3> QED BY <1>7, <1>9, <2>1, <2>2, <3>1
  <2> QED BY <2>5, <2>6
<1> QED BY <1>9, <1>10, <1>11 DEF Is, next

-----------------------------------------------------------------------------
(* Whatever the schedule is, its next time is the least one promised. *)
LEMMA NextLeastAfter ==
  ASSUME NEW s \in Schedules, NEW t \in Nat, ~StarStepped(s)
  PROVE  LeastAfter(s, t, NextTime(s, t))
<1> DEFINE next == NextTime(s, t)
           end == IF next = Never THEN 2 * DaySeconds * (DayOf((t \div 2) + 1) + Horizon) - 1 ELSE next - 1
           c == CronOf(s)
<1>1. CASE s.kind = "update"
  <2>1. next = DailyAfter(s.at, t)
    BY <1>1, Zenon DEF NextTime
  <2>2. \A u : Promised(s, t, u) <=> /\ u % 2 = 0 /\ Second(u \div 2) = 0
                                     /\ Hour(u \div 2) = s.at.hour /\ Minute(u \div 2) = s.at.minute
    BY <1>1, Zenon DEF Promised
  <2>3. s.at.hour \in 0..(PerDay - 1) /\ s.at.minute \in 0..(PerHour - 1)
    BY <1>1, SchedulesAssumption
  <2>4. /\ next \in Nat /\ next > t /\ Promised(s, t, next)
        /\ \A u \in (t + 1)..(next - 1) : ~Promised(s, t, u)
    <3> HIDE DEF next
    <3> QED BY <2>1, <2>2, <2>3, DailyIsLeast
  <2>5. next # Never /\ end = next - 1
    <3> HIDE DEF next
    <3> QED BY <2>4 DEF Never
  <2> QED BY <2>4, <2>5 DEF LeastAfter
<1>2. CASE s.kind # "update" /\ s.interval > 0
  <2>2. s.interval \in Int /\ s.interval > 0 /\ s.interval # 0
    BY <1>2, SchedulesAssumption
  <2>1. next = t + 2 * s.interval
    BY <1>2, <2>2, Zenon DEF NextTime
  <2>3. \A u : Promised(s, t, u) <=> u = t + 2 * s.interval
    BY <1>2, <2>2, Zenon DEF Promised
  <2> HIDE DEF next
  <2>4. next # Never /\ next > t /\ end = next - 1 /\ \A u \in (t + 1)..end : u # next
    BY <2>1, <2>2 DEF Never
  <2> QED BY <2>1, <2>3, <2>4 DEF LeastAfter, next
<1>3. CASE s.kind # "update" /\ s.interval = 0 /\ IsCron(c)
  <2>1. next = NextAfter(c, t)
    <3>1. ~(s.interval > 0)
      BY <1>3
    <3> QED BY <1>3, <3>1, Zenon DEF NextTime
  <2>2. \A u : Promised(s, t, u) <=> NamesInstant(c, u)
    <3>1. ~(s.interval > 0)
      BY <1>3
    <3> QED BY <1>3, <3>1, Zenon DEF Promised
  <2>3. Parts(c)
    BY <1>3, SchedulesAssumption DEF Parts, CronOf
  <2>4. Unstepped(c)
    BY <1>3 DEF StarStepped, Unstepped
  <2> HIDE DEF c
  <2>5. /\ \A u \in (t + 1)..end : ~NamesInstant(c, u)
        /\ next # Never => next \in Nat /\ next > t /\ NamesInstant(c, next)
    <3>1. end = IF NextAfter(c, t) = Never THEN 2 * DaySeconds * (DayOf((t \div 2) + 1) + Horizon) - 1
                                           ELSE NextAfter(c, t) - 1
      BY <2>1
    <3> HIDE DEF next, end
    <3> QED BY <2>1, <2>3, <2>4, <3>1, NextAfterIsLeast
  <2> QED BY <2>2, <2>5 DEF LeastAfter
<1>4. CASE s.kind # "update" /\ ~(s.interval > 0) /\ ~(s.interval = 0 /\ IsCron(c))
  <2>1. next = Never
    BY <1>4, Zenon DEF NextTime
  <2>2. \A u : ~Promised(s, t, u)
    BY <1>4, Zenon DEF Promised
  <2> QED BY <2>1, <2>2 DEF LeastAfter
<1> QED BY <1>1, <1>2, <1>3, <1>4

(* Whatever its stars, the next time comes after the reading. *)
LEMMA NextIsLater ==
  ASSUME NEW s \in Schedules, NEW t \in Nat
  PROVE  NextTime(s, t) = Never \/ (NextTime(s, t) \in Nat /\ NextTime(s, t) > t)
<1> DEFINE next == NextTime(s, t)
           c == CronOf(s)
<1>1. CASE s.kind = "update"
  <2>1. next = DailyAfter(s.at, t)
    BY <1>1, Zenon DEF NextTime
  <2>2. s.at.hour \in 0..(PerDay - 1) /\ s.at.minute \in 0..(PerHour - 1)
    BY <1>1, SchedulesAssumption
  <2>3. DailyAfter(s.at, t) \in Nat /\ DailyAfter(s.at, t) > t
    BY <2>2, DailyIsLeast
  <2> QED BY <2>1, <2>3
<1>2. CASE s.kind # "update" /\ s.interval > 0
  <2>1. s.interval \in Int /\ s.interval > 0 /\ s.interval # 0
    BY <1>2, SchedulesAssumption
  <2>2. next = t + 2 * s.interval
    BY <1>2, <2>1, Zenon DEF NextTime
  <2> HIDE DEF next
  <2>3. next \in Nat /\ next > t
    BY <2>1, <2>2
  <2> QED BY <2>3 DEF next
<1>3. CASE s.kind # "update" /\ s.interval = 0 /\ IsCron(c)
  <2>1. next = NextAfter(c, t)
    <3>1. ~(s.interval > 0)
      BY <1>3
    <3> QED BY <1>3, <3>1, Zenon DEF NextTime
  <2>2. Parts(c)
    BY <1>3, SchedulesAssumption DEF Parts, CronOf
  <2> DEFINE start == (t \div 2) + 1
             found == Candidates(c, start)
  <2>3. start \in Nat /\ t < 2 * start
    BY Halves
  <2> HIDE DEF c, start
  <2>4. \A x \in found : x \in Nat /\ x >= start
    BY <2>2, <2>3, CandidateInTime
  <2>5. next = IF found = {} THEN Never ELSE 2 * Min(found)
    BY <2>1 DEF NextAfter, start
  <2> HIDE DEF found, next
  <2>6. CASE found = {}
    BY <2>5, <2>6 DEF next
  <2>7. CASE found # {}
    <3>1. Min(found) \in Nat /\ Min(found) >= start
      BY <2>4, <2>7, MinOf
    <3>2. next \in Nat /\ next > t
      BY <2>3, <2>5, <2>7, <3>1
    <3> QED BY <3>2 DEF next
  <2> QED BY <2>6, <2>7
<1>4. CASE s.kind # "update" /\ ~(s.interval > 0) /\ ~(s.interval = 0 /\ IsCron(c))
  BY <1>4, Zenon DEF NextTime
<1> QED BY <1>1, <1>2, <1>3, <1>4

-----------------------------------------------------------------------------
(* The thread waits for a time that lies after the last trigger's, and the wait *)
(* never ends before it.  An interval and a daily time need that of the first   *)
(* reading already, for what is left was measured there.                        *)
Measured == schedule.kind = "update" \/ schedule.interval > 0

ClockInv ==
  /\ schedule \in Schedules /\ now \in Nat /\ fired \in Int /\ fired <= now
  /\ stage \in {"read", "measure", "wait", "busy", "retry"}
  /\ stage \in {"measure", "wait"} => due \in Nat /\ due > fired /\ left \in Nat
  /\ stage = "wait" \/ (stage = "measure" /\ Measured) => now + left >= due

(* The invariant holds when a thread starts. *)
LEMMA ClockInvInit == ClockInit => ClockInv
BY ClockAssumption DEF ClockInit, ClockInv, Never

(* Each step of the thread and each half second keep it. *)
LEMMA ClockInvKept == ClockInv /\ [ClockStep]_clockVars => ClockInv'
<1> SUFFICES ASSUME ClockInv, [ClockStep]_clockVars PROVE ClockInv'
  OBVIOUS
<1> USE DEF ClockInv
<1>1. CASE ReadClock
  <2>1. NextTime(schedule, now) = Never \/ (NextTime(schedule, now) \in Nat /\ NextTime(schedule, now) > now)
    BY NextIsLater
  <2>2. NextTime(schedule, now) \in Nat => NextTime(schedule, now) # Never
    BY DEF Never
  <2> QED BY <1>1, <2>1, <2>2 DEF ReadClock, Measured
<1>2. CASE Measure
  BY <1>2 DEF Measure, Measured, Wait
<1>3. CASE Woken
  BY <1>3 DEF Woken, Again
<1>4. CASE Fire
  BY <1>4 DEF Fire
<1>5. CASE TriggerEnds
  BY <1>5 DEF TriggerEnds, Again
<1>6. CASE Retry
  BY <1>6 DEF Retry, Again
<1>7. CASE Tick
  BY <1>7 DEF Tick, Measured
<1>8. CASE UNCHANGED clockVars
  BY <1>8 DEF clockVars, Measured
<1> QED BY <1>1, <1>2, <1>3, <1>4, <1>5, <1>6, <1>7, <1>8 DEF ClockStep

(* So it always holds. *)
LEMMA ClockInvHolds == ClockSpec => []ClockInv
BY ClockInvInit, ClockInvKept, PTL DEF ClockSpec

(* For any calendar, any clock and any schedules: the time a thread waits for is *)
(* the very next one that its schedule names (next_after, cron.py:64).           *)
THEOREM NextTimeIsLeast == ClockSpec => NextIsLeast
<1>1. ASSUME ClockInv, [ClockStep]_clockVars, stage = "read", stage' # "read", ~StarStepped(schedule)
      PROVE  LeastAfter(schedule, now, due')
  <2>1. ReadClock
    BY <1>1 DEF ClockStep, clockVars, Measure, Woken, Fire, TriggerEnds, Retry, Tick
  <2>2. due' = NextTime(schedule, now)
    BY <2>1 DEF ReadClock
  <2> QED BY <1>1, <2>2, NextLeastAfter DEF ClockInv
<1>2. ClockInv /\ [ClockStep]_clockVars
        => [stage = "read" /\ stage' # "read" /\ ~StarStepped(schedule) => LeastAfter(schedule, now, due')]_clockVars
  BY <1>1
<1> QED BY <1>2, ClockInvHolds, PTL DEF ClockSpec, NextIsLeast

(* No trigger comes before its time, and none twice for one time (_run_schedule, *)
(* backup_scheduler.py).                                                         *)
THEOREM TriggersOnce == ClockSpec => FiresOnce
<1>1. ASSUME ClockInv, [ClockStep]_clockVars, stage = "wait", stage' = "busy"
      PROVE  now >= due /\ due > fired
  <2>1. Fire
    BY <1>1 DEF ClockStep, clockVars, ReadClock, Measure, Woken, TriggerEnds, Again, Retry, Tick
  <2> QED BY <1>1, <2>1 DEF ClockInv, Fire
<1>2. ClockInv /\ [ClockStep]_clockVars => [stage = "wait" /\ stage' = "busy" => now >= due /\ due > fired]_clockVars
  BY <1>1
<1> QED BY <1>2, ClockInvHolds, PTL DEF ClockSpec, FiresOnce
-----------------------------------------------------------------------------
(* An outdated thread away from the head has been or will be woken. *)
Notified ==
  \A t \in Threads : outdated[t] /\ pc[t] \notin {"top", "ended"} => commanding # {} \/ wakeup[t]

WakeInv == TypeOK /\ Notified

USE DEF Places, Purposes, Threads

(* Every thread begins at the head, with nothing set. *)
LEMMA InitTypes == Init => TypeOK
  BY ScheduleAssumption DEF Init, TypeOK

(* Each step keeps the types and each thread on its path. *)
LEMMA TypesKept == TypeOK /\ [Next]_vars => TypeOK'
<1>. SUFFICES ASSUME TypeOK, [Next]_vars PROVE TypeOK'
  OBVIOUS
<1>. USE ScheduleAssumption
<1>1. ASSUME NEW t \in Threads, ThreadStep(t) \/ NoticeStop(t) \/ TimeOut(t) PROVE TypeOK'
  <2>1. CASE Read(t)       BY <2>1 DEF TypeOK, Read, WaitFor
  <2>2. CASE End(t)        BY <2>2 DEF TypeOK, End, Goto
  <2>3. CASE BeginWait(t)  BY <2>3 DEF TypeOK, BeginWait, Goto
  <2>4. CASE Wake(t)       BY <2>4 DEF TypeOK, Wake, Goto
  <2>5. CASE ClearEvent(t) BY <2>5 DEF TypeOK, ClearEvent, Goto
  <2>6. CASE Decline(t)    BY <2>6 DEF TypeOK, Decline, Goto
  <2>7. CASE Fail(t)       BY <2>7 DEF TypeOK, Fail, WaitFor
  <2>8. CASE Trigger(t)    BY <2>8 DEF TypeOK, Trigger, WaitFor, Goto
  <2>9. CASE GatePoll(t)   BY <2>9 DEF TypeOK, GatePoll, Goto
  <2>10. CASE GateCount(t) BY <2>10 DEF TypeOK, GateCount, Goto
  <2>11. CASE Launch(t)    BY <2>11 DEF TypeOK, Launch, Goto
  <2>12. CASE MaintenanceEnds(t) BY <2>12 DEF TypeOK, MaintenanceEnds, Goto
  <2>13. CASE NoticeStop(t) BY <2>13 DEF TypeOK, NoticeStop, Goto
  <2>14. CASE TimeOut(t)   BY <2>14 DEF TypeOK, TimeOut, Goto
  <2>. QED  BY <1>1, <2>1, <2>2, <2>3, <2>4, <2>5, <2>6, <2>7, <2>8, <2>9, <2>10, <2>11,
               <2>12, <2>13, <2>14 DEF ThreadStep
<1>2. ASSUME NEW c \in Commanders, Change(c) \/ WakeAll(c) PROVE TypeOK'
  BY <1>2 DEF TypeOK, Change, WakeAll
<1>3. CASE BeginShutdown \/ SetStopEvent \/ StopWakesAll
  BY <1>3 DEF TypeOK, BeginShutdown, SetStopEvent, StopWakesAll, threadVars
<1>4. CASE UNCHANGED vars
  BY <1>4 DEF TypeOK, vars, threadVars
<1>. QED  BY <1>1, <1>2, <1>3, <1>4 DEF Next

(* Each step keeps every outdated thread notified. *)
LEMMA NotifiedKept == WakeInv /\ [Next]_vars => Notified'
<1>. SUFFICES ASSUME WakeInv, [Next]_vars PROVE Notified'
  OBVIOUS
<1>. USE DEF WakeInv, TypeOK, Notified
<1>1. ASSUME NEW t \in Threads, ThreadStep(t) \/ NoticeStop(t) \/ TimeOut(t) PROVE Notified'
  \* The steps that take a wakeup away lead to the head of the loop.
  <2>1. CASE BeginWait(t)  BY <2>1 DEF BeginWait, Goto
  <2>2. CASE ClearEvent(t) BY <2>2 DEF ClearEvent, Goto
  \* Leaving the head means having read the configuration.
  <2>3. CASE Read(t)       BY <2>3 DEF Read, WaitFor
  <2>4. CASE End(t)        BY <2>4 DEF End, Goto
  \* The others touch neither the events nor the head.
  <2>5. CASE Fail(t) \/ Trigger(t)
    BY <2>5 DEF Fail, Trigger, WaitFor, Goto
  <2>6. CASE Wake(t) \/ Decline(t) \/ GatePoll(t) \/ GateCount(t)
    BY <2>6 DEF Wake, Decline, GatePoll, GateCount, Goto
  <2>7. CASE Launch(t) \/ MaintenanceEnds(t) \/ NoticeStop(t) \/ TimeOut(t)
    BY <2>7 DEF Launch, MaintenanceEnds, NoticeStop, TimeOut, Goto
  <2>. QED  BY <1>1, <2>1, <2>2, <2>3, <2>4, <2>5, <2>6, <2>7 DEF ThreadStep
<1>2. ASSUME NEW c \in Commanders, Change(c) PROVE Notified'
  BY <1>2 DEF Change
<1>3. ASSUME NEW c \in Commanders, WakeAll(c) PROVE Notified'
  BY <1>3 DEF WakeAll
<1>4. CASE BeginShutdown \/ SetStopEvent \/ StopWakesAll
  BY <1>4 DEF BeginShutdown, SetStopEvent, StopWakesAll, threadVars
<1>5. CASE UNCHANGED vars
  BY <1>5 DEF vars, threadVars
<1>. QED  BY <1>1, <1>2, <1>3, <1>4, <1>5 DEF Next

(* So it always holds. *)
LEMMA WakeInvHolds == Spec => []WakeInv
<1>1. Init => WakeInv
  BY InitTypes DEF WakeInv, Init, Notified
<1>2. WakeInv /\ [Next]_vars => WakeInv'
  BY TypesKept, NotifiedKept DEF WakeInv
<1>. QED  BY <1>1, <1>2, PTL DEF Spec

(* Every variable keeps its type and every schedule thread its own path through *)
(* the triggers of backup_scheduler.py.                                         *)
THEOREM ScheduleTypes == Spec => []TypeOK
<1>1. WakeInv => TypeOK
  BY DEF WakeInv
<1>. QED  BY <1>1, WakeInvHolds, PTL

(* For any number of threads and commanders, no thread sleeps on with a schedule *)
(* that a finished command has changed (_wait, backup_scheduler.py:270).         *)
THEOREM WakeupsArrive == Spec => []NoLostWakeup
<1>1. WakeInv => NoLostWakeup
  BY DEF WakeInv, Notified, NoLostWakeup
<1>. QED  BY <1>1, WakeInvHolds, PTL
=============================================================================
