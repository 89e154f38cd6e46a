SPECIFICATION SpecAny
CONSTANTS
  Pids = {p1, p2}
  Exes = {e1, e2}
  Other = Other
  Dead = Dead
  Idle = Idle
  MaxEvents = 2
  MaxCalls = 1
  MaxSignals = 1
  MaxViews = 1
SYMMETRY Symmetry
INVARIANTS
  NoPhantom
  NoLeak
