CONSTANTS
  ManualBackups = {}
  ScheduledBackups = {}
  ManualMaintenance = {}
  ScheduledMaintenance = {}
  Commands = {}
  NoThread = none
  MaxRestores = 1
  RestoreKinds = {"safe"}
  Disturbances = {{}}
SPECIFICATION Spec
INVARIANT CancelRollsBack
CHECK_DEADLOCK FALSE
