SPECIFICATION FairSpec
CONSTANT Monitors = {m1, m2}
INVARIANT NoFalseFlush
PROPERTY BodyEnds
PROPERTY MonitorsEnd
