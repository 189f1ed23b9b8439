CONSTANTS
  ManualBackups = {}
  ScheduledBackups = {sb}
  ManualMaintenance = {}
  ScheduledMaintenance = {}
  Commands = {}
  NoThread = none
  MaxRestores = 1
  RestoreKinds = {"safe", "skip", "direct"}
  Disturbances = {{"crash", "operatorStart", "mcdrStop"}}
SPECIFICATION Spec
INVARIANT ReportsTruth
PROPERTY PhaseForward
PROPERTY ImplementsSlot
CHECK_DEADLOCK FALSE
