CONSTANTS
  ManualBackups = {mb}
  ScheduledBackups = {sb}
  ManualMaintenance = {mm}
  ScheduledMaintenance = {sm}
  Commands = {cm}
  NoThread = none
SPECIFICATION Spec
INVARIANT CanceledOnlyIfAsked
CHECK_DEADLOCK FALSE
