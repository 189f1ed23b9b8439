CONSTANTS
  ManualBackups = {mb}
  ScheduledBackups = {sb}
  ManualMaintenance = {mm}
  ScheduledMaintenance = {sm}
  Commands = {cm}
  NoThread = none
SPECIFICATION Spec
PROPERTY NoTaskAfterStop
CHECK_DEADLOCK FALSE
