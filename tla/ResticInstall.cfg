SPECIFICATION FairInstallSpec
CONSTANTS
  Installers = {i1}
  Urls = 2
  Trusted <- MCTrusted
  Versions <- MCVersions
  Base = 2
  MaxCrashes = 2
INVARIANT TargetRuns
PROPERTY NoDowngrade
PROPERTY EnsureEnds
