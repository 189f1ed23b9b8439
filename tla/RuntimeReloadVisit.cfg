SPECIFICATION Spec
CONSTANTS
  Backups = {b1}
  Players = {p1}
  Samplers = {}
  NoThread = NoThread
  NoRecord = NoRecord
  Worlds = {{"reload"}}
  Switches = {FALSE}
  MaxEvents = 2
PROPERTY VisitNotSkipped
