SPECIFICATION FairSpec
CONSTANTS
  Cancellers = {canceller}
  MaxPipe = 1
  MaxQueue = 2
  HasDeadline = TRUE
INVARIANT SuccessIsWhole
INVARIANT AtMostOnce
INVARIANT NoSurvivor
INVARIANT InterruptedIsCanceled
PROPERTY InterruptEnds
