SPECIFICATION Spec
CONSTANTS
  Backups = {b1, b2}
  Players = {p1}
  Samplers = {s1}
  NoThread = NoThread
  NoRecord = NoRecord
  Worlds <- MCWorlds
  Switches = {FALSE}
  MaxEvents = 2
SYMMETRY Interchangeable
INVARIANT StatusTruthful
INVARIANT CountSettles
INVARIANT SwitchAgrees
PROPERTY OutcomeKept
PROPERTY VisitSeen
