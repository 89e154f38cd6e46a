SPECIFICATION Spec
CONSTANTS
  Absent = Absent
  NotANumber <- LeastInt
  Machines <- MCMachines
  Nodes <- MCNodes
  MaxChanges = 1
  MaxImports = 1
  MaxFaults = 0
  MaxSteps = 4
INVARIANT PassTakesEffect
