CONSTANTS
  ManualBackups = {mb}
  ScheduledBackups = {sb1, sb2}
  ManualMaintenance = {mm}
  ScheduledMaintenance = {sm}
  Commands = {cm}
  NoThread = none
SPECIFICATION Spec
SYMMETRY InterchangeableBackups
INVARIANT TypeOK
INVARIANT SlotExclusive
INVARIANT CommandsExcludeRestore
INVARIANT SlotFields
INVARIANT CancelSticks
INVARIANT SavingOwed
INVARIANT IInv
CHECK_DEADLOCK FALSE
