CONSTANTS
  ManualBackups = {}
  ScheduledBackups = {}
  ManualMaintenance = {}
  ScheduledMaintenance = {}
  Commands = {}
  NoThread = none
  MaxRestores = 1
  RestoreKinds = {"safe"}
  Disturbances = {{"crash"}}
SPECIFICATION Spec
INVARIANT QuietUnload
CHECK_DEADLOCK FALSE
