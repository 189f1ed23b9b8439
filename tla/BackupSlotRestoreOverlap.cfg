CONSTANTS
  ManualBackups = {mb}
  ScheduledBackups = {sb}
  ManualMaintenance = {mm}
  ScheduledMaintenance = {sm}
  Commands = {cm}
  NoThread = none
SPECIFICATION Spec
INVARIANT WaitersExcludeRestore
CHECK_DEADLOCK FALSE
