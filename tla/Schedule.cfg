SPECIFICATION FairSpec
CONSTANTS
  Normal = {normal}
  Forced = {forced}
  Maintenance = {maintenance}
  Commanders = {executor}
  Configs <- MCConfigs
INVARIANT NoLostWakeup
PROPERTY StopEnds
