SPECIFICATION Spec
CONSTANTS
  Global = Global
  Manual = Manual
  None = None
  Names = {Global, a, b, c}
  Exes = {e1, e2, e3}
  Parts = {p1}
SYMMETRY Symmetry
INVARIANTS
  IndexInv
  WatchInv
  MenuInv
  RunningInv
  AppliedInv
  ViewsInv
PROPERTY EffectiveSpec
