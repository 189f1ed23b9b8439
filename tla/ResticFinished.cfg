SPECIFICATION Spec
CONSTANTS
  Cancellers = {canceller}
  MaxPipe = 1
  MaxQueue = 2
  HasDeadline = FALSE
INVARIANT FinishedIsNotCanceled
