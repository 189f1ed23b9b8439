SPECIFICATION Spec
CONSTANTS
  Viewers = {v1, v2}
  Keys = {here}
  Changing = {here}
  MaxVersion = 3
  MaxCrashes = 1
  SameSecond = TRUE
INVARIANT AnnouncedIsShown
