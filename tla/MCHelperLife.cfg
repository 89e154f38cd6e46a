SPECIFICATION Spec
CONSTANTS
  Nothing = Nothing
  Timeout = 3
  MaxLaunches = 3
  MaxFaults = 4
INVARIANT NeverDeaf
PROPERTIES
  NoNeedlessExit
  ServesAgain
  LeavesBehind
