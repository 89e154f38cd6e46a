SPECIFICATION Spec
CONSTANTS
  Nothing = Nothing
  Timeout = 3
  MaxLaunches = 2
  MaxFaults = 2
INVARIANT OutlivesHelper
