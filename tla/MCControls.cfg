SPECIFICATION Spec
CONSTANTS
  Generation = "overdrive"
  Profiles <- LeavingProfiles
  Foreign <- Others
  MaxImports = 2
  MaxFaults = 1
  MaxCalls = 1
INVARIANT TableInEffect
PROPERTIES Converges LeavesClean
