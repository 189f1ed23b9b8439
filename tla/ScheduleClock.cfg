\* Every kind of schedule, read at every half second of six short days.
SPECIFICATION ClockSpec
CONSTANTS
  Schedules <- MCSchedules
  PerMinute = 2
  PerHour = 2
  PerDay = 2
  MonthDays = 5
  Months = 4
  Days <- Calendar
  Horizon = 14
  Last = 96
PROPERTY NextIsLeast
PROPERTY FiresOnce
\* The clock stops at its bound.
CHECK_DEADLOCK FALSE
