SPECIFICATION Spec
CONSTANTS
  Viewers = {v1, v2}
  Keys = {here, there}
  Changing = {here}
  MaxVersion = 2
  MaxCrashes = 1
  SameSecond = FALSE
SYMMETRY Symmetry
INVARIANT AnnouncedIsShown
INVARIANT ValidHasRows
INVARIANT TempRowsOwned
PROPERTY KeepsTasked
