SPECIFICATION Spec
CONSTANTS
  Pids = {p1, p2}
  Exes = {e1}
  Other = Other
  Dead = Dead
  Idle = Idle
  MaxEvents = 2
  MaxCalls = 2
  MaxSignals = 2
  MaxViews = 2
INVARIANTS
  SingleView
  ViewsMatch
  LeavesWithProgram
PROPERTIES
  LaunchNoticed
  EndNoticed
