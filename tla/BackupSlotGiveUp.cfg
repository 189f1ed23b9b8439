CONSTANTS
  ManualBackups = {mb}
  ScheduledBackups = {sb}
  ManualMaintenance = {mm}
  ScheduledMaintenance = {sm}
  Commands = {cm}
  NoThread = none
SPECIFICATION Spec
PROPERTY GivesUpOnlyForBackup
CHECK_DEADLOCK FALSE
