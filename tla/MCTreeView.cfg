SPECIFICATION Spec
CONSTANTS
  Machine <- MCMachine
  Kernel = 418
  Lifted = {"PMPowerStateMode", "CPUFreqMode", "PMOverdrive"}
  Values = {5}
  Settable = {"PMFreqRange"}
  Factory = 0
  Absent = Absent
  MaxLoads = 1
  MaxChanges = 1
  MaxRestarts = 1
INVARIANT ViewIsComplete
