SPECIFICATION Spec
CONSTANTS
  Files = {f1, f2, f3}
  Values = {v1, v2}
  NoIndex = NoIndex
  Unset = Unset
  MaxCommands = 5
SYMMETRY Symmetry
INVARIANTS
  TypeOK
  SameOutcome
  FileOrder
  PackTogether
PROPERTY PrefixKept
