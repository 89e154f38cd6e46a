SPECIFICATION Spec
CONSTANTS
  Generation = "freqMode"
  Profiles <- PinnedProfiles
  Foreign <- Others
  MaxImports = 2
  MaxFaults = 0
  MaxCalls = 1
PROPERTIES LeavesClean
