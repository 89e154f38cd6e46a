SPECIFICATION Spec
CONSTANTS
  Machine <- MCOldMachine
  Kernel = 418
  Lifted = {"PMPowerStateMode", "CPUFreqMode", "PMOverdrive"}
  Values = {5}
  Settable = {"PMFixedFreq", "PMPowerState"}
  Factory = 0
  Absent = Absent
  MaxLoads = 1
  MaxChanges = 1
  MaxRestarts = 1
INVARIANT FilesKeepSettings
