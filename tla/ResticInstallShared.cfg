SPECIFICATION InstallSpec
CONSTANTS
  Installers = {i1, i2}
  Urls = 2
  Trusted <- MCTrusted
  Versions <- MCVersions
  Base = 2
  MaxCrashes = 2
INVARIANT TargetRuns
