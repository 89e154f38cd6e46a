---------------------------- MODULE LevelControls ----------------------------
(***************************************************************************)
(* The controls that select one of the values the hardware offers, and     *)
(* the power cap: src/core/components/controls/amd/pm/{auto, fixed,        *)
(* powerstate}, advanced/{dynamicfreq, powerprofile, powercap} and cpu.    *)
(*                                                                         *)
(* Each has the same four companions: the profile part holds the settings  *)
(* of a profile, the parser saves and loads them, the item shows and edits *)
(* them.  Power is in tenths of a watt: the hardware has microwatts, the   *)
(* files and the item whole watts.                                         *)
(***************************************************************************)
EXTENDS Hardware

\* The settings of the classes below that have a mode.
ModeXMLParser(s, node, d) ==
  [appendTo |-> [mode |-> s.mode],
   loadFrom |-> [mode |-> Attribute(node, "mode", d.mode)]]
ModeQMLItem(l, q, i) ==
  [take |-> [mode |-> i.mode], edits |-> {[mode |-> mode] : mode \in l.modes}]

-----------------------------------------------------------------------------
(* The automatic performance level.                                        *)

\* A GPU with power_method and power_profile, up to kernel 3.10.
PMAutoLegacy(c, hw) ==
  [init |-> c,
   sync |-> IF hw["power_method"] = "profile" /\ hw["power_profile"] = "auto" THEN <<>>
            ELSE <<Write("power_method", "profile"), Write("power_profile", "auto")>>,
   clean |-> <<>>]

PMAutoR600(c, hw) == [init |-> c, sync |-> Differs(hw, Level, "auto"), clean |-> <<>>]

PMAuto(l, c, hw) ==
  IF l.legacy THEN PMAutoLegacy(c, hw) ELSE PMAutoR600(c, hw)

PMAutoImport(l, c, i) == c
PMAutoProfilePart(l, p, i) == p
PMAutoXMLParser(s, node, d) == [appendTo |-> NoSettings, loadFrom |-> NoSettings]
PMAutoQMLItem(l, q, i) == [take |-> NoSettings, edits |-> {}]

PMAutoProvider(m) ==
  Provided(HasLegacyLevels(m) \/ HasLevels(m),
           [kind |-> "PMAuto", legacy |-> HasLegacyLevels(m), new |-> NoSettings])

\* The same level for the frequencies of amdgpu, next to the fixed ones.
PMDynamicFreq(l, c, hw) ==
  [init |-> c, sync |-> Differs(hw, Level, "auto"), clean |-> <<>>]

PMDynamicFreqImport(l, c, i) == c
PMDynamicFreqProfilePart(l, p, i) == p
PMDynamicFreqXMLParser(s, node, d) == [appendTo |-> NoSettings, loadFrom |-> NoSettings]
PMDynamicFreqQMLItem(l, q, i) == [take |-> NoSettings, edits |-> {}]

PMDynamicFreqProvider(m) ==
  Provided(IsAMDGPU(m, 402) /\ Valid(m, {Level}), [kind |-> "PMDynamicFreq", new |-> NoSettings])

-----------------------------------------------------------------------------
(* A fixed performance level.                                              *)

PMFixedLegacy(c, hw) ==
  [init |-> c,
   sync |-> IF hw["power_method"] # "profile"
            THEN <<Write("power_method", "profile"), Write("power_profile", c.mode)>>
            ELSE Differs(hw, "power_profile", c.mode),
   clean |-> <<Write("power_method", "profile"), Write("power_profile", "auto")>>]

PMFixedR600(c, hw) == [init |-> c, sync |-> Differs(hw, Level, c.mode), clean |-> <<Write(Level, "auto")>>]

PMFixed(l, c, hw) ==
  IF l.legacy THEN PMFixedLegacy(c, hw) ELSE PMFixedR600(c, hw)

PMFixedImport(l, c, i) == [mode |-> Known(i.mode, l.modes, c.mode)]
PMFixedProfilePart(l, p, i) == [mode |-> Known(i.mode, l.modes, p.mode)]
PMFixedXMLParser(s, node, d) == ModeXMLParser(s, node, d)
PMFixedQMLItem(l, q, i) == ModeQMLItem(l, q, i)

PMFixedProvider(m) ==
  Provided(HasLegacyLevels(m) \/ HasLevels(m),
           [kind |-> "PMFixed", legacy |-> HasLegacyLevels(m), new |-> [mode |-> "low"],
            modes |-> IF HasLegacyLevels(m) THEN {"low", "mid", "high"} ELSE {"low", "high"}])

-----------------------------------------------------------------------------
(* The power state of radeon.                                              *)

PMPowerState(l, c, hw) ==
  [init |-> c, sync |-> Differs(hw, "power_dpm_state", c.mode), clean |-> <<>>]

PMPowerStateImport(l, c, i) == [mode |-> Known(i.mode, l.modes, c.mode)]
PMPowerStateProfilePart(l, p, i) == [mode |-> Known(i.mode, l.modes, p.mode)]
PMPowerStateXMLParser(s, node, d) == ModeXMLParser(s, node, d)
PMPowerStateQMLItem(l, q, i) == ModeQMLItem(l, q, i)

PMPowerStateProvider(m) ==
  Provided(m.vendor = "AMD" /\ m.driver = "radeon" /\ m.kernel >= 311 /\ Valid(m, {"power_dpm_state"}),
           [kind |-> "PMPowerState", modes |-> {"battery", "balanced", "performance"},
            new |-> [mode |-> "balanced"]])

-----------------------------------------------------------------------------
(* The power profile: a mode is selected by its index in the table.        *)

PMPowerProfile(l, c, hw) ==
  LET current == ParsePowerProfileModeCurrentModeIndex(hw["pp_power_profile_mode"])
      select(mode) == <<Write("pp_power_profile_mode", l.index[mode])>>
  IN  [init |-> c,
       sync |-> IF Manual(hw) # <<>> THEN Manual(hw) \o select(c.mode)
                ELSE IF current \in {Absent, l.index[c.mode]} THEN <<>>
                ELSE select(c.mode),
       clean |-> Manual(hw) \o select(l.new.mode)]

PMPowerProfileImport(l, c, i) == [mode |-> Known(i.mode, l.modes, c.mode)]
PMPowerProfileProfilePart(l, p, i) == [mode |-> Known(i.mode, l.modes, p.mode)]
PMPowerProfileXMLParser(s, node, d) == ModeXMLParser(s, node, d)
PMPowerProfileQMLItem(l, q, i) == ModeQMLItem(l, q, i)

\* The first mode of the table is the default.
PMPowerProfileProvider(m) ==
  IF ~IsAMDGPU(m, 418) \/ ~Valid(m, {Level, "pp_power_profile_mode"}) THEN <<>>
  ELSE LET modes == ParsePowerProfileModeModes(m.files["pp_power_profile_mode"])
           names == {modes[i][1] : i \in DOMAIN modes}
       IN  Provided(modes # Absent,
                    [kind |-> "PMPowerProfile", modes |-> names, new |-> [mode |-> modes[1][1]],
                     index |-> [name \in names |-> modes[CHOOSE i \in DOMAIN modes : modes[i][1] = name][2]]])

-----------------------------------------------------------------------------
(* The power cap.                                                          *)

Watt == 10
Watts(value) == value \div Watt     \* unsigned and int conversions truncate

PMPowerCap(l, c, hw) ==
  [preInit |-> <<[c EXCEPT !.preInit = hw["power1_cap"]], <<Write("power1_cap", 0)>>>>,
   init |-> [c EXCEPT !.value = Clamp(hw["power1_cap"], l.min, l.max)],
   postInit |-> <<Write("power1_cap", c.preInit)>>,
   export |-> [value |-> c.value],
   sync |-> Differs(hw, "power1_cap", c.value), clean |-> <<Write("power1_cap", 0)>>]

PMPowerCapImport(l, c, i) == [c EXCEPT !.value = Clamp(i.value, l.min, l.max)]
PMPowerCapProfilePart(l, p, i) == [value |-> Clamp(i.value, l.min, l.max)]

PMPowerCapXMLParser(s, node, d) ==
  [appendTo |-> [value |-> Watts(s.value)],
   loadFrom |-> [value |-> Watt * Attribute(node, "value", Watts(d.value))]]

PMPowerCapQMLItem(l, q, i) ==
  [take |-> [value |-> Watt * Watts(i.value)],
   edits |-> {[value |-> Watt * Watts(value)] : value \in {l.min, l.max}}]

\* A minimum of 0 W is raised to 1 W: a cap of 0 means the default.
PMPowerCapProvider(m) ==
  Provided(IsAMDGPU(m, 417) /\ Valid(m, {"power1_cap", "power1_cap_min", "power1_cap_max"}),
           [kind |-> "PMPowerCap", new |-> [value |-> Watt, preInit |-> 0],
            min |-> IF m.files["power1_cap_min"] = 0 THEN Watt ELSE m.files["power1_cap_min"],
            max |-> m.files["power1_cap_max"]])

-----------------------------------------------------------------------------
(* The scaling governor of a CPU, the same for all its units.              *)

\* The initial governor: that of the driver, or the first when it is not available.
DefaultGovernor(m) ==
  LET governors == m.files["scaling_available_governors"]
      governor == IF m.files["scaling_driver"] = "intel_pstate" THEN "powersave" ELSE "ondemand"
  IN  IF ~Valid(m, {"scaling_driver"}) THEN governors[1]
      ELSE Known(governor, {governors[i] : i \in DOMAIN governors}, governors[1])

CPUFreq(l, c, hw) ==
  [init |-> c,
   sync |-> Differs(hw, "scaling_governor 0", c.scalingGovernor)
              \o Differs(hw, "scaling_governor 1", c.scalingGovernor),
   clean |-> <<>>]

CPUFreqImport(l, c, i) ==
  [scalingGovernor |-> Known(i.scalingGovernor, l.governors, c.scalingGovernor)]
CPUFreqProfilePart(l, p, i) ==
  [scalingGovernor |-> Known(i.scalingGovernor, l.governors, p.scalingGovernor)]

CPUFreqXMLParser(s, node, d) ==
  [appendTo |-> [scalingGovernor |-> s.scalingGovernor],
   loadFrom |-> [scalingGovernor |-> Attribute(node, "scalingGovernor", d.scalingGovernor)]]

CPUFreqQMLItem(l, q, i) ==
  [take |-> [scalingGovernor |-> i.scalingGovernor],
   edits |-> {[scalingGovernor |-> governor] : governor \in l.governors}]

CPUFreqProvider(m) ==
  IF ~Valid(m, {"scaling_available_governors", "scaling_governor 0", "scaling_governor 1"}) THEN <<>>
  ELSE LET governors == m.files["scaling_available_governors"]
       IN  Provided(governors # <<>>,
                    [kind |-> "CPUFreq", governors |-> {governors[i] : i \in DOMAIN governors},
                     new |-> [scalingGovernor |-> DefaultGovernor(m)]])
=============================================================================
