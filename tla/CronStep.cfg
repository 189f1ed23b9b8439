\* A day field of "*" with a step counts as a plain "*".
SPECIFICATION ClockSpec
CONSTANTS
  Schedules <- MCSchedules
  PerMinute = 2
  PerHour = 2
  PerDay = 2
  MonthDays = 5
  Months = 4
  Days <- Calendar
  Horizon = 14
  Last = 96
PROPERTY StepsNarrowDays
\* The clock stops at its bound.
CHECK_DEADLOCK FALSE
