SPECIFICATION Spec
CONSTANTS
  Viewers = {v1, v2}
  Keys = {here}
  Changing = {here}
  MaxVersion = 2
  MaxCrashes = 1
  SameSecond = FALSE
INVARIANT OperatedIsRefreshed
