------------------------------- MODULE MCTree -------------------------------
(* Two GPUs of a kind and a CPU; and, for the controls of older hardware, a *)
(* GPU of each driver of AMD.                                               *)
EXTENDS Tree, TLC

Device(class, device, driver, found) ==
  [class |-> class, device |-> device, driver |-> driver, found |-> found]

Twin == Device("GPU", "73bf", "amdgpu", {"PMAuto", "PMFreqRange", "FanAuto"})
MCMachine == ("card0" :> Twin) @@ ("card1" :> Twin)
               @@ ("cpu" :> Device("CPU", "0", "acpi-cpufreq", {"CPUFreq"}))

MCOldMachine ==
  ("card0" :> Device("GPU", "67df", "amdgpu", {"PMAuto", "PMDynamicFreq", "PMFixedFreq"}))
    @@ ("card1" :> Device("GPU", "6811", "radeon", {"PMAuto", "PMPowerState"}))
=============================================================================
