SPECIFICATION Spec
CONSTANTS
  Machine <- MCOldMachine
  Kernel = 410
  Lifted = {"PMPowerStateMode", "CPUFreqMode", "PMOverdrive"}
  Values = {5}
  Settable = {"PMFixedFreq", "PMPowerState"}
  Factory = 0
  Absent = Absent
  MaxLoads = 1
  MaxChanges = 1
  MaxRestarts = 1
PROPERTIES LeftIsCleaned
