SPECIFICATION Spec
CONSTANTS
  Generation = "freqMode"
  Profiles <- FreqProfiles
  Foreign <- Others
  MaxImports = 2
  MaxFaults = 0
  MaxCalls = 2
PROPERTIES Converges
