SPECIFICATION Spec
CONSTANTS
  Global = Global
  Manual = Manual
  None = None
  Names = {Global, a, b, c}
  Exes = {e1, e2}
  Parts = {p1}
INVARIANT PartialOverride
