SPECIFICATION Spec
CONSTANTS
  Names = {a, b}
  Exes = {x, y}
  Manual = Manual
  Settings = {factory, tuned}
  Default = factory
  Icons = {photo}
  NoIcon = NoIcon
  MaxSteps = 6
  MaxFaults = 1
SYMMETRY Symmetry
INVARIANTS MarkedUnsaved RestartRestores
PROPERTY KeptOnDisk
CHECK_DEADLOCK FALSE
