SPECIFICATION Spec
CONSTANTS
  Generation = "dpm"
  Profiles <- PinnedProfiles
  Foreign <- Others
  MaxImports = 2
  MaxFaults = 0
  MaxCalls = 1
PROPERTIES Pinned
