SPECIFICATION Spec
CONSTANTS
  Names = {a, b}
  Exes = {x, y}
  Manual = Manual
  Settings = {factory, tuned}
  Default = factory
  Icons = {photo}
  NoIcon = NoIcon
  MaxSteps = 4
  MaxFaults = 0
SYMMETRY Symmetry
INVARIANT OwnIcon
CHECK_DEADLOCK FALSE
