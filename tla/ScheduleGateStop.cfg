SPECIFICATION Spec
CONSTANTS
  Normal = {normal}
  Forced = {forced}
  Maintenance = {maintenance}
  Commanders = {executor}
  Configs <- MCConfigs
PROPERTY LaunchedOnlyEnabled
