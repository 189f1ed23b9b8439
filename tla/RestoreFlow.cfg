CONSTANTS
  ManualBackups = {}
  ScheduledBackups = {}
  ManualMaintenance = {}
  ScheduledMaintenance = {}
  Commands = {}
  NoThread = none
  MaxRestores = 2
  RestoreKinds = {"safe", "skip", "direct"}
  Disturbances = {{"again"}, {"crash"}}
SPECIFICATION FairSpec
INVARIANT ThreadsOwnSession
INVARIANT SessionDriven
INVARIANT ServerOffDuringRestore
INVARIANT UnloadIsQuiet
CHECK_DEADLOCK FALSE
PROPERTY RestoreEnds
