------------------------------ MODULE MCSettings ------------------------------
(* A machine for every generation of the drivers, and what a file may hold. *)
EXTENDS Settings

Header(name) == [t |-> "header", name |-> name]
Clk(index, clk) == [t |-> "clk", index |-> index, clk |-> clk]
ClkVolt(index, clk, volt) == [t |-> "clkVolt", at |-> FALSE, index |-> index, clk |-> clk, volt |-> volt]
Point(index, clk, volt) == [t |-> "clkVolt", at |-> TRUE, index |-> index, clk |-> clk, volt |-> volt]
ClkRange(name, min, max) == [t |-> "clkRange", name |-> name, min |-> min, max |-> max]
VoltRange(name, min, max) == [t |-> "voltRange", name |-> name, min |-> min, max |-> max]
Offset(volt) == [t |-> "offset", volt |-> volt]
Other == [t |-> "other"]

DpmTable(clks, current) == [k \in DOMAIN clks |-> [t |-> "dpm", index |-> k - 1, clk |-> clks[k], current |-> (k = current)]]
ProfileMode(index, name, current) == [t |-> "mode", index |-> index, name |-> name, current |-> current]

Machine(vendor, drv, kernel, files, custom) ==
  [vendor |-> vendor, driver |-> drv, kernel |-> kernel, files |-> files, custom |-> custom, temps |-> {40, 65, 95}]

Radeon310 == Machine("AMD", "radeon", 310, ("power_method" :> "dynpm") @@ ("power_profile" :> "default"), <<>>)

Radeon404 ==
  Machine("AMD", "radeon", 404,
    ("power_method" :> "dpm") @@ ("power_dpm_state" :> "balanced") @@ (Level :> "auto")
      @@ ("pwm1_enable" :> 2) @@ ("pwm1" :> 77), <<Write(Level, "high")>>)

Dpm == ("pp_dpm_sclk" :> DpmTable(<<300, 600, 900>>, 1)) @@ ("pp_dpm_mclk" :> DpmTable(<<150, 1000>>, 2))

Polaris410 ==
  Machine("AMD", "amdgpu", 410,
    Dpm @@ (Level :> "auto") @@ ("pp_sclk_od" :> 0) @@ ("pp_mclk_od" :> 0),
    <<Write("pp_sclk_od", 5)>>)

PolarisTable ==
  <<Header("SCLK"), ClkVolt(0, 300, 750), ClkVolt(1, 600, 800), Header("MCLK"), ClkVolt(0, 300, 750), ClkVolt(1, 1750, 950),
    Header("RANGE"), ClkRange("SCLK", 300, 2000), ClkRange("MCLK", 300, 2250), VoltRange("VDDC", 750, 1150)>>

Modes ==
  <<Other, ProfileMode(0, "BOOTUP_DEFAULT", TRUE), ProfileMode(1, "3D", FALSE), ProfileMode(2, "POWER", FALSE),
    ProfileMode(3, "CUSTOM", FALSE)>>

Polaris418 ==
  Machine("AMD", "amdgpu", 418,
    ("pp_dpm_sclk" :> DpmTable(<<300, 600>>, 1)) @@ ("pp_dpm_mclk" :> DpmTable(<<300, 1750>>, 2))
      @@ (Level :> "auto") @@ (Table :> PolarisTable) @@ ("pp_power_profile_mode" :> Modes)
      @@ ("power1_cap" :> 1505) @@ ("power1_cap_min" :> 0) @@ ("power1_cap_max" :> 2255),
    <<Write(Level, "manual"), Edit(<<"s", 1, 700, 900>>), Edit(<<"c">>), Write("power1_cap", 1200)>>)

Vega20Table ==
  <<Header("SCLK"), Clk(0, 800), Clk(1, 1800), Header("MCLK"), Clk(1, 1000),
    Header("VDDC_CURVE"), Point(0, 800, 700), Point(1, 1800, 1000),
    Header("RANGE"), ClkRange("SCLK", 700, 2200), ClkRange("MCLK", 800, 1200),
    ClkRange("VDDC_CURVE_SCLK", 800, 2200), VoltRange("VDDC_CURVE_VOLT", 700, 1200),
    ClkRange("VDDC_CURVE_SCLK", 800, 2200), VoltRange("VDDC_CURVE_VOLT", 700, 1200)>>

Vega20 ==
  Machine("AMD", "amdgpu", 506,
    (Level :> "auto") @@ (Table :> Vega20Table),
    <<Write(Level, "manual"), Edit(<<"vc", 1, 1700, 950>>), Edit(<<"s", 1, 1900>>), Edit(<<"c">>)>>)

Navi2x ==
  Machine("AMD", "amdgpu", 511,
    (Level :> "auto")
      @@ (Table :> <<Header("SCLK"), Clk(0, 500), Clk(1, 2500), Header("MCLK"), Clk(0, 97), Clk(1, 1000),
                     Header("VDDGFX_OFFSET"), Offset(0),
                     Header("RANGE"), ClkRange("SCLK", 500, 2800), ClkRange("MCLK", 674, 1075)>>),
    <<Write(Level, "manual"), Edit(<<"vo", -50>>), Edit(<<"m", 1, 1050>>), Edit(<<"c">>)>>)

\* A curve that shows no voltages, and a table without ranges.
Navi505 ==
  Machine("AMD", "amdgpu", 505,
    (Level :> "auto")
      @@ (Table :> <<Header("SCLK"), Clk(0, 800), Clk(1, 2100), Header("MCLK"), Clk(1, 875),
                     Header("VDDC_CURVE"), Point(0, 800, 0), Point(1, 2100, 0),
                     Header("RANGE"), ClkRange("SCLK", 800, 2150), ClkRange("MCLK", 625, 950)>>), <<>>)
Polaris417 ==
  Machine("AMD", "amdgpu", 417,
    Dpm @@ (Level :> "auto") @@ (Table :> SubSeq(PolarisTable, 1, 6)), <<>>)

\* A critical temperature above or below that of the default curve.
Fan(crit) ==
  Machine("AMD", "amdgpu", 506,
    ("pwm1_enable" :> 2) @@ ("pwm1" :> 77) @@ ("temp1_input" :> 40) @@ ("temp1_crit" :> crit), <<>>)

Cpu(drv) ==
  Machine("Intel", "none", 506,
    ("scaling_available_governors" :> <<"performance", "powersave">>) @@ ("scaling_driver" :> drv)
      @@ ("scaling_governor 0" :> "powersave") @@ ("scaling_governor 1" :> "performance"), <<>>)

MCMachines ==
  {Radeon310, Radeon404, Polaris410, Polaris418, Vega20, Navi2x, Navi505, Polaris417, Fan(80), Fan(94), Cpu("intel_pstate"), Cpu("acpi-cpufreq")}

\* Every kind of file: of the same machine, of another one, edited by hand, without the control.
States == {<<<<0, 500>>, <<1, 5000>>>>, <<<<1, 400>>>>, <<<<0, Absent>>, <<7, 100>>>>}
VoltStates ==
  {<<<<0, TRUE, 400, 5000>>, <<1, FALSE, 100, 800>>>>, <<<<0, FALSE, 300, 750>>, <<1, FALSE, 600, 800>>>>,
   <<<<0, TRUE, 400, 800>>, <<1, TRUE, Absent, 800>>>>}
Points == {<<<<900, 750>>, <<5000, 5000>>>>, <<<<900, 750>>>>, <<<<900, 750>>, <<Absent, 800>>>>}
FanPoints ==
  {<<<<20, 10>>, <<60, 5>>, <<120, 100>>>>, <<<<50, 50>>>>, <<<<30, 40>>, <<60, Absent>>>>,
   <<<<35, 30>>, <<60, 30>>, <<80, 60>>>>}

\* Without the attribute, and with a node of the old or of the new version.
Saved(name, values) == {[n \in {name} |-> value] : value \in values \cup {Absent}}
\* One node by the old name is enough: from there on they are read alike.
Both(nodes) ==
  {[legacy |-> Absent, own |-> node] : node \in nodes \cup {Absent}}
    \cup {[legacy |-> CHOOSE node \in nodes : node # Absent, own |-> Absent]}

MCNodes(leaf) ==
  CASE leaf.kind \in {"PMFixed", "PMPowerState", "PMPowerProfile"} ->
         Saved("mode", {"high", "battery", "POWER", "none"}) \cup {Absent}
    [] leaf.kind = "CPUFreq" -> Saved("scalingGovernor", {"performance", "none"}) \cup {Absent}
    [] leaf.kind \in {"PMPowerCap", "PMVoltOffset"} -> Saved("value", {-300, 30, 1000}) \cup {Absent}
    [] leaf.kind = "PMFixedFreq" -> {[sclkState |-> 1, mclkState |-> 7], [sclkState |-> Absent, mclkState |-> 0], Absent}
    [] leaf.kind = "PMFreqOd" -> {[sclkOd |-> 25, mclkOd |-> 10], [sclkOd |-> Absent, mclkOd |-> 3], Absent}
    [] leaf.kind = "PMFreqRange" -> Both({[states |-> states] : states \in States \cup {Absent}})
    [] leaf.kind = "PMFreqVolt" ->
         Both({[voltMode |-> "manual", states |-> states] : states \in VoltStates \cup {Absent}}
              \cup {[voltMode |-> "none", states |-> Absent]})
    [] leaf.kind = "PMVoltCurve" ->
         Both({[mode |-> "manual", points |-> points] : points \in Points \cup {Absent}} \cup {[mode |-> Absent, points |-> Absent]})
    [] leaf.kind = "FanFixed" ->
         {[value |-> 30, fanStop |-> TRUE, fanStartValue |-> 40], [value |-> 300, fanStop |-> Absent, fanStartValue |-> 20], Absent}
    [] leaf.kind = "FanCurve" ->
         {[points |-> points, fanStop |-> TRUE, fanStartValue |-> 25] : points \in FanPoints \cup {Absent}} \cup {Absent}
    [] OTHER -> {Absent}
=============================================================================
