SPECIFICATION Spec
CONSTANTS
  Absent = Absent
  NotANumber = 0
  Machines <- MCMachines
  Nodes <- MCNodes
  MaxChanges = 2
  MaxImports = 3
  MaxFaults = 1
  MaxSteps = 4
INVARIANTS WithinLimits RoundTrips PassTakesEffect
PROPERTIES StartKeepsHardware DefaultsAreFactory
