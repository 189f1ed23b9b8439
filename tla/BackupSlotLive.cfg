CONSTANTS
  ManualBackups = {mb}
  ScheduledBackups = {sb}
  ManualMaintenance = {}
  ScheduledMaintenance = {sm}
  Commands = {}
  NoThread = none
SPECIFICATION FairSpec
PROPERTY CancelEnds
PROPERTY StoppingEndsWaiting
CHECK_DEADLOCK FALSE
