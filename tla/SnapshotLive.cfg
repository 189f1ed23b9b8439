SPECIFICATION FairSpec
CONSTANTS
  Viewers = {v1, v2}
  Keys = {here}
  Changing = {here}
  MaxVersion = 2
  MaxCrashes = 0
  SameSecond = FALSE
PROPERTY RefreshEnds
