SPECIFICATION SpecChain
CONSTANTS
  Pids = {p1}
  Exes = {e1, e2}
  Other = Other
  Dead = Dead
  Idle = Idle
  MaxEvents = 2
  MaxCalls = 1
  MaxSignals = 2
  MaxViews = 2
INVARIANT LeavesWithProgram
