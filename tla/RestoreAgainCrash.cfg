CONSTANTS
  ManualBackups = {}
  ScheduledBackups = {}
  ManualMaintenance = {}
  ScheduledMaintenance = {}
  Commands = {}
  NoThread = none
  MaxRestores = 2
  RestoreKinds = {"safe", "skip", "direct"}
  Disturbances = {{"crash", "again"}}
SPECIFICATION FairSpec
CHECK_DEADLOCK FALSE
PROPERTY RestoreEnds
