\* One thread of each kind that waits for or takes the slot (a command's backup,
\* a scheduled backup, a scheduled maintenance, a repository command).
CONSTANTS
  ManualBackups = {mb}
  ScheduledBackups = {sb1}
  ManualMaintenance = {}
  ScheduledMaintenance = {sm}
  Commands = {cm}
  NoThread = none
SPECIFICATION FairSpec
INVARIANT SlotExclusive
INVARIANT CommandsExcludeRestore
INVARIANT SlotFields
INVARIANT CancelSticks
INVARIANT SavingOwed
PROPERTY CancelEnds
PROPERTY StoppingEndsWaiting
CHECK_DEADLOCK FALSE
