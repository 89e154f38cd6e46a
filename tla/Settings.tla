------------------------------ MODULE Settings ------------------------------
(***************************************************************************)
(* The life of the settings of one control: they are read from the         *)
(* hardware when the program starts, loaded from a profile's file, shown   *)
(* and changed in a view, applied to the control, written by its passes    *)
(* and taken back when it is left.  The classes are in LevelControls,      *)
(* FreqControls, OverdriveControls and FanControls; here they are put to   *)
(* work on a machine that any of their controls finds.                     *)
(*                                                                         *)
(* The steps of a pass and of an import are not interleaved, nor is a pass *)
(* with the helper: see Controls for that.  The kernel driver is external: *)
(* what it does with a write is modelled from how the controls use it.     *)
(***************************************************************************)
EXTENDS LevelControls, OverdriveControls, FanControls

CONSTANTS
  Machines,       \* the machines, with the writes another tool made before the start
  Nodes(_),       \* what the files may hold for a control
  MaxChanges,     \* bound on the loads of a profile and the edits of the user
  MaxImports,     \* bound on the applications of the profile
  MaxFaults,      \* bound on the passes whose call is lost and on what the hardware does by itself
  MaxSteps        \* bound on all of these together

VARIABLES
  machine,        \* one of Machines
  l,              \* what the provider of the control found
  group,          \* what those found of the controls that start with it
  c,              \* the control
  active, dirty,  \* its marks: it and the modes it is in are selected, it has to be cleaned
  default,        \* the settings of a new profile
  part,           \* the settings of the profile
  hw,             \* the files
  driver,         \* what the files do not show: the table in effect, the DPM states enabled
  start,          \* how the program started: "none" yet, "onTime" or "late"
  used,           \* the control has been active
  retaken,        \* it was selected again before a pass had cleaned it
  count           \* how often the bounded actions were taken

settings == <<default, part>>
control == <<c, active, dirty>>
vars == <<machine, l, group, control, settings, hw, driver, start, used, retaken, count>>

-----------------------------------------------------------------------------
(* The classes of a control.                                               *)

\* The controls found on a machine; FreqVolt and FreqRange give one for every clock.
Leaves(m) ==
  UNION {ToSet(controls) : controls \in
    {PMAutoProvider(m), PMFixedProvider(m), PMPowerStateProvider(m), PMDynamicFreqProvider(m),
     PMFixedFreqProvider(m), PMFixedFreqAdvProvider(m), PMFreqOdProvider(m), PMPowerProfileProvider(m),
     PMPowerCapProvider(m), PMFreqRangeProvider(m), PMFreqVoltProvider(m), PMVoltCurveProvider(m),
     PMVoltOffsetProvider(m), FanAutoProvider(m), FanFixedProvider(m), FanCurveProvider(m), CPUFreqProvider(m)}}

Leaf(leaf, x, files) ==
  CASE leaf.kind = "PMAuto" -> PMAuto(leaf, x, files)
    [] leaf.kind = "PMFixed" -> PMFixed(leaf, x, files)
    [] leaf.kind = "PMPowerState" -> PMPowerState(leaf, x, files)
    [] leaf.kind = "PMDynamicFreq" -> PMDynamicFreq(leaf, x, files)
    [] leaf.kind = "PMFixedFreq" -> PMFixedFreq(leaf, x, files)
    [] leaf.kind = "PMFreqOd" -> PMFreqOd(leaf, x, files)
    [] leaf.kind = "PMPowerProfile" -> PMPowerProfile(leaf, x, files)
    [] leaf.kind = "PMPowerCap" -> PMPowerCap(leaf, x, files)
    [] leaf.kind = "PMFreqRange" -> PMFreqRange(leaf, x, files)
    [] leaf.kind = "PMFreqVolt" -> PMFreqVolt(leaf, x, files)
    [] leaf.kind = "PMVoltCurve" -> PMVoltCurve(leaf, x, files)
    [] leaf.kind = "PMVoltOffset" -> PMVoltOffset(leaf, x, files)
    [] leaf.kind = "FanAuto" -> FanAuto(leaf, x, files)
    [] leaf.kind = "FanFixed" -> FanFixed(leaf, x, files)
    [] leaf.kind = "FanCurve" -> FanCurve(leaf, x, files)
    [] leaf.kind = "CPUFreq" -> CPUFreq(leaf, x, files)

Import(x, i) ==
  CASE l.kind = "PMAuto" -> PMAutoImport(l, x, i)
    [] l.kind = "PMFixed" -> PMFixedImport(l, x, i)
    [] l.kind = "PMPowerState" -> PMPowerStateImport(l, x, i)
    [] l.kind = "PMDynamicFreq" -> PMDynamicFreqImport(l, x, i)
    [] l.kind = "PMFixedFreq" -> PMFixedFreqImport(l, x, i)
    [] l.kind = "PMFreqOd" -> PMFreqOdImport(l, x, i)
    [] l.kind = "PMPowerProfile" -> PMPowerProfileImport(l, x, i)
    [] l.kind = "PMPowerCap" -> PMPowerCapImport(l, x, i)
    [] l.kind = "PMFreqRange" -> PMFreqRangeImport(l, x, i)
    [] l.kind = "PMFreqVolt" -> PMFreqVoltImport(l, x, i)
    [] l.kind = "PMVoltCurve" -> PMVoltCurveImport(l, x, i)
    [] l.kind = "PMVoltOffset" -> PMVoltOffsetImport(l, x, i)
    [] l.kind = "FanAuto" -> FanAutoImport(l, x, i)
    [] l.kind = "FanFixed" -> FanFixedImport(l, x, i)
    [] l.kind = "FanCurve" -> FanCurveImport(l, x, i)
    [] l.kind = "CPUFreq" -> CPUFreqImport(l, x, i)

ProfilePart(p, i) ==
  CASE l.kind = "PMAuto" -> PMAutoProfilePart(l, p, i)
    [] l.kind = "PMFixed" -> PMFixedProfilePart(l, p, i)
    [] l.kind = "PMPowerState" -> PMPowerStateProfilePart(l, p, i)
    [] l.kind = "PMDynamicFreq" -> PMDynamicFreqProfilePart(l, p, i)
    [] l.kind = "PMFixedFreq" -> PMFixedFreqProfilePart(l, p, i)
    [] l.kind = "PMFreqOd" -> PMFreqOdProfilePart(l, p, i)
    [] l.kind = "PMPowerProfile" -> PMPowerProfileProfilePart(l, p, i)
    [] l.kind = "PMPowerCap" -> PMPowerCapProfilePart(l, p, i)
    [] l.kind = "PMFreqRange" -> PMFreqRangeProfilePart(l, p, i)
    [] l.kind = "PMFreqVolt" -> PMFreqVoltProfilePart(l, p, i)
    [] l.kind = "PMVoltCurve" -> PMVoltCurveProfilePart(l, p, i)
    [] l.kind = "PMVoltOffset" -> PMVoltOffsetProfilePart(l, p, i)
    [] l.kind = "FanAuto" -> FanAutoProfilePart(l, p, i)
    [] l.kind = "FanFixed" -> FanFixedProfilePart(l, p, i)
    [] l.kind = "FanCurve" -> FanCurveProfilePart(l, p, i)
    [] l.kind = "CPUFreq" -> CPUFreqProfilePart(l, p, i)

XMLParser(s, node) ==
  CASE l.kind = "PMAuto" -> PMAutoXMLParser(s, node, default)
    [] l.kind = "PMFixed" -> PMFixedXMLParser(s, node, default)
    [] l.kind = "PMPowerState" -> PMPowerStateXMLParser(s, node, default)
    [] l.kind = "PMDynamicFreq" -> PMDynamicFreqXMLParser(s, node, default)
    [] l.kind = "PMFixedFreq" -> PMFixedFreqXMLParser(s, node, default)
    [] l.kind = "PMFreqOd" -> PMFreqOdXMLParser(s, node, default)
    [] l.kind = "PMPowerProfile" -> PMPowerProfileXMLParser(s, node, default)
    [] l.kind = "PMPowerCap" -> PMPowerCapXMLParser(s, node, default)
    [] l.kind = "PMFreqRange" -> PMFreqRangeXMLParser(s, node, default)
    [] l.kind = "PMFreqVolt" -> PMFreqVoltXMLParser(s, node, default)
    [] l.kind = "PMVoltCurve" -> PMVoltCurveXMLParser(s, node, default)
    [] l.kind = "PMVoltOffset" -> PMVoltOffsetXMLParser(s, node, default)
    [] l.kind = "FanAuto" -> FanAutoXMLParser(s, node, default)
    [] l.kind = "FanFixed" -> FanFixedXMLParser(s, node, default)
    [] l.kind = "FanCurve" -> FanCurveXMLParser(s, node, default)
    [] l.kind = "CPUFreq" -> CPUFreqXMLParser(s, node, default)

QMLItem(q, i) ==
  CASE l.kind = "PMAuto" -> PMAutoQMLItem(l, q, i)
    [] l.kind = "PMFixed" -> PMFixedQMLItem(l, q, i)
    [] l.kind = "PMPowerState" -> PMPowerStateQMLItem(l, q, i)
    [] l.kind = "PMDynamicFreq" -> PMDynamicFreqQMLItem(l, q, i)
    [] l.kind = "PMFixedFreq" -> PMFixedFreqQMLItem(l, q, i)
    [] l.kind = "PMFreqOd" -> PMFreqOdQMLItem(l, q, i)
    [] l.kind = "PMPowerProfile" -> PMPowerProfileQMLItem(l, q, i)
    [] l.kind = "PMPowerCap" -> PMPowerCapQMLItem(l, q, i)
    [] l.kind = "PMFreqRange" -> PMFreqRangeQMLItem(l, q, i)
    [] l.kind = "PMFreqVolt" -> PMFreqVoltQMLItem(l, q, i)
    [] l.kind = "PMVoltCurve" -> PMVoltCurveQMLItem(l, q, i)
    [] l.kind = "PMVoltOffset" -> PMVoltOffsetQMLItem(l, q, i)
    [] l.kind = "FanAuto" -> FanAutoQMLItem(l, q, i)
    [] l.kind = "FanFixed" -> FanFixedQMLItem(l, q, i)
    [] l.kind = "FanCurve" -> FanCurveQMLItem(l, q, i)
    [] l.kind = "CPUFreq" -> CPUFreqQMLItem(l, q, i)

InTable(leaf) == leaf.kind \in {"PMFreqRange", "PMFreqVolt", "PMVoltCurve", "PMVoltOffset"}

\* What the methods of a control do by default.
NoInit(x) ==
  [preInit |-> <<x, <<>>>>, postInit |-> <<>>, export |-> x, synced |-> x, cleaned |-> x]

\* What the overdrive group adds to a control.
InGroup(r, files) ==
  LET both == PMOverdrive(r, files, files[Level])
  IN  IF InTable(l) THEN [r EXCEPT !.clean = both.clean, !.sync = both.sync] ELSE r

\* What the methods of a control with the settings x do.
Methods(leaf, x, files) == Over(Leaf(leaf, x, files), NoInit(x))
ControlAt(x, files) == InGroup(Methods(l, x, files), files)

-----------------------------------------------------------------------------
(* The kernel driver.                                                      *)

DpmFiles == {"pp_dpm_sclk", "pp_dpm_mclk"}

\* The line of the table that a command edits.
EditedLine(lines, cmd) ==
  LET head(name) == FirstFrom(lines, 1, LAMBDA line : Heads(line, name))
      state(line) == line.t \in {"clk", "clkVolt"} /\ line.index = cmd[2]
  IN  CASE cmd[1] = "s" -> FirstFrom(lines, head("SCLK") + 1, state)
        [] cmd[1] = "m" -> FirstFrom(lines, head("MCLK") + 1, state)
        [] cmd[1] = "vc" -> head("VDDC_CURVE") + 1 + cmd[2]
        [] cmd[1] = "vo" -> head("VDDGFX_OFFSET") + 1

EditedTable(lines, cmd) ==
  LET at == EditedLine(lines, cmd)
  IN  CASE cmd[1] = "vo" -> [lines EXCEPT ![at].volt = cmd[2]]
        [] lines[at].t = "clk" -> [lines EXCEPT ![at].clk = cmd[3]]
        [] OTHER -> [lines EXCEPT ![at].clk = cmd[3], ![at].volt = cmd[4]]

\* A line is marked as the current one.
MarkedAs(lines, index) ==
  [k \in DOMAIN lines |->
    IF "current" \in DOMAIN lines[k] THEN [lines[k] EXCEPT !.current = (lines[k].index = index)] ELSE lines[k]]

\* The files and the driver after a write; most take it at the manual level only.
Written(m, s, w) ==
  LET files == s[1]
      d == s[2]
      set(value) == <<[files EXCEPT ![w.file] = value], d>>
      locked == Level \in DOMAIN files /\ files[Level] # "manual"
  IN  IF w.file \in DpmFiles \cup {Table, "pp_power_profile_mode"} /\ locked THEN s
      ELSE CASE w.file = Table /\ w.value = <<"r">> -> set(m.files[Table])
           [] w.file = Table /\ w.value = <<"c">> -> <<files, [d EXCEPT !.table = files[Table]]>>
           [] w.file = Table /\ w.value \notin {<<"r">>, <<"c">>} -> set(EditedTable(files[Table], w.value))
           [] w.file = "pp_power_profile_mode" -> set(MarkedAs(files[w.file], w.value))
           [] w.file = "power1_cap" /\ w.value = 0 -> set(m.files["power1_cap"])
           [] w.file \in DpmFiles ->
                <<IF ParseDPMCurrentStateIndex(files[w.file]) \in w.value THEN files
                  ELSE [files EXCEPT ![w.file] = MarkedAs(@, Min(w.value))],
                  [d EXCEPT !.enabled[w.file] = w.value]>>
           [] w.file = "pwm1" /\ files["pwm1_enable"] # 1 -> s
           [] OTHER -> set(w.value)

\* The helper executes the writes of a call in order.
Executed(m, s, writes) ==
  LET after[k \in 0 .. Len(writes)] == IF k = 0 THEN s ELSE Written(m, after[k - 1], writes[k])
  IN  after[Len(writes)]

\* The files and the driver of a machine that nobody has changed.
Factory(m) ==
  <<m.files,
    [table |-> IF Table \in DOMAIN m.files THEN m.files[Table] ELSE <<>>,
     enabled |-> [file \in DpmFiles \cap DOMAIN m.files |-> DPMStates(m, file)]]>>

-----------------------------------------------------------------------------
(* What is assumed of the machines and of the files.                       *)

Number == Int \cup {Absent}
Word == STRING \cup {Absent}
Flag == BOOLEAN \cup {Absent}
Pairs == Seq(Number \X Number)
Quadruples == Seq(Number \X Flag \X Number \X Number)

\* What a file holds for a control: an attribute that cannot be read is missing.
FileNodes(leaf) ==
  CASE leaf.kind \in {"PMFixed", "PMPowerState", "PMPowerProfile"} -> [mode : Word]
    [] leaf.kind = "CPUFreq" -> [scalingGovernor : Word]
    [] leaf.kind \in {"PMPowerCap", "PMVoltOffset"} -> [value : Number]
    [] leaf.kind = "PMFixedFreq" -> [sclkState : Number, mclkState : Number]
    [] leaf.kind = "PMFreqOd" -> [sclkOd : Number, mclkOd : Number]
    [] leaf.kind = "PMFreqRange" -> [states : Pairs \cup {Absent}]
    [] leaf.kind = "PMFreqVolt" -> [voltMode : Word, states : Quadruples \cup {Absent}]
    [] leaf.kind = "PMVoltCurve" -> [mode : Word, points : Pairs \cup {Absent}]
    [] leaf.kind = "FanFixed" -> [value : Number, fanStop : Flag, fanStartValue : Number]
    [] leaf.kind = "FanCurve" -> [points : Pairs \cup {Absent}, fanStop : Flag, fanStartValue : Number]
    [] OTHER -> {}

\* The nodes of the old and of the new version.
Versions(nodes) == [legacy : nodes \cup {Absent}, own : nodes \cup {Absent}]
Versioned(leaf) == leaf.kind \in {"PMFreqRange", "PMFreqVolt", "PMVoltCurve"}
ParserNodes(leaf) == IF Versioned(leaf) THEN Versions(FileNodes(leaf)) ELSE FileNodes(leaf)

\* The files hold such nodes.
ASSUME NodesAssumption ==
  \A m \in Machines : \A leaf \in Leaves(m) : Nodes(leaf) \subseteq ParserNodes(leaf) \cup {Absent}

\* The words that can be chosen of a control.
Words(leaf) ==
  CASE leaf.kind \in {"PMFixed", "PMPowerState", "PMPowerProfile"} -> leaf.modes
    [] leaf.kind = "CPUFreq" -> leaf.governors
    [] leaf.kind \in {"PMFreqVolt", "PMVoltCurve"} -> {"auto", "manual"}
    [] OTHER -> {}

\* What is missing is nothing that could be there.
ASSUME AbsentAssumption ==
  /\ Absent \notin Int /\ Absent \notin BOOLEAN /\ Absent \notin STRING
  /\ Absent \notin Pairs /\ Absent \notin Quadruples
  /\ \A m \in Machines : \A leaf \in Leaves(m) :
       /\ Words(leaf) \subseteq STRING
       /\ Absent \notin FileNodes(leaf) /\ Absent \notin ParserNodes(leaf)

\* The lines of the tables of the driver.
Lines ==
  [t : {"dpm"}, index : Int, clk : Int, current : BOOLEAN]
    \cup [t : {"mode"}, index : Int, name : STRING, current : BOOLEAN]
    \cup [t : {"header"}, name : STRING]
    \cup [t : {"clkRange", "voltRange"}, name : STRING, min : Int, max : Int]
    \cup [t : {"clk"}, index : Int, clk : Int]
    \cup [t : {"clkVolt"}, at : BOOLEAN, index : Int, clk : Int, volt : Int]
    \cup [t : {"offset"}, volt : Int]
    \cup [t : {"other"}]

NumberFiles == {"power1_cap", "power1_cap_min", "power1_cap_max", "pwm1"}
TableFiles == DpmFiles \cup {Table, "pp_power_profile_mode"}

\* The files that are there hold what their controls look for in them.
Typed(files) ==
  \A file \in DOMAIN files :
    /\ file \in NumberFiles => files[file] \in Nat
    /\ file \in {"temp1_crit", "temp1_input"} => files[file] \in Int
    /\ file \in TableFiles => files[file] \in Seq(Lines)
    /\ file = "scaling_available_governors" => files[file] \in Seq(STRING)

IsRange(min, max) == min \in Int /\ max \in Int /\ min <= max

\* No range that the provider of a control finds is empty.
HasRanges(leaf) ==
  CASE leaf.kind \in {"PMPowerCap", "PMFreqRange"} -> IsRange(leaf.min, leaf.max)
    [] leaf.kind = "PMFreqVolt" -> IsRange(leaf.min, leaf.max) /\ IsRange(leaf.voltMin, leaf.voltMax)
    [] leaf.kind = "PMVoltCurve" ->
         \A k \in DOMAIN leaf.ranges : \A n \in {1, 2} : IsRange(leaf.ranges[k][n][1], leaf.ranges[k][n][2])
    [] OTHER -> TRUE

\* What the files show of a setting is one, and within the range that they show.
Shows(leaf, files) ==
  CASE leaf.kind = "PMPowerCap" -> files["power1_cap"] \in Nat \ {0}
    [] leaf.kind = "PMPowerProfile" -> ParsePowerProfileModeCurrentModeIndex(files["pp_power_profile_mode"]) # Absent
    [] leaf.kind = "PMFixedFreq" ->
         /\ ParseDPMCurrentStateIndex(files["pp_dpm_sclk"]) # Absent
         /\ ParseDPMCurrentStateIndex(files["pp_dpm_mclk"]) # Absent
    [] leaf.kind = "PMFreqRange" -> ParseOverdriveClks(leaf.name, files[Table]) \in Seq(Int \X Int)
    [] leaf.kind = "PMFreqVolt" ->
         LET entries == ParseOverdriveClksVolts(leaf.name, files[Table])
         IN  entries \in Seq(leaf.dpmStates \X Int \X Int) /\ Indices(entries) = leaf.dpmStates
    [] leaf.kind = "PMVoltCurve" ->
         LET points == ParseOverdriveVoltCurve(files[Table])
         IN  /\ points \in Seq(Int \X Int)
             /\ \A k \in DOMAIN points : k \in DOMAIN leaf.ranges /\ ClampPoint(leaf, k, points[k]) = points[k]
    [] leaf.kind = "PMVoltOffset" -> ParseOverdriveVoltOffset(files[Table]) \in -MaxOffset .. MaxOffset
    [] leaf.kind = "FanCurve" -> files["pwm1"] \in Nat /\ files["temp1_input"] \in Int
    [] OTHER -> TRUE

\* A machine that nobody has changed is such a machine, and one that somebody has changed still
\* shows settings that it has.
ASSUME MachinesAssumption ==
  \A m \in Machines :
    /\ Typed(m.files)
    /\ m.temps \subseteq Int
    /\ Len(m.custom) \in Nat
    /\ \A leaf \in Leaves(m) : HasRanges(leaf)
    /\ \A s \in {Factory(m), Executed(m, Factory(m), m.custom)} :
         /\ \A leaf \in Leaves(m) : Shows(leaf, s[1])
         /\ \A file \in DpmFiles \cap DOMAIN m.files : s[2].enabled[file] \subseteq DPMStates(m, file)

-----------------------------------------------------------------------------
Init ==
  /\ machine \in Machines
  /\ \E leaves \in {Leaves(machine)} :
       /\ l \in leaves
       /\ group = IF InTable(l) THEN SetToSeq({leaf \in leaves : InTable(leaf)}) ELSE <<l>>
  /\ c = l.new
  /\ active = FALSE
  /\ dirty = FALSE
  /\ default = NoSettings
  /\ part = NoSettings
  /\ \E s \in {Factory(machine), Executed(machine, Factory(machine), machine.custom)} : hw = s[1] /\ driver = s[2]
  /\ start = "none"
  /\ used = FALSE
  /\ retaken = FALSE
  /\ count = [changes |-> 0, imports |-> 0, faults |-> 0]

Counted(name, bound) ==
  /\ count[name] < bound /\ count.changes + count.imports + count.faults < MaxSteps
  /\ count' = [count EXCEPT ![name] = @ + 1]

\* The writes of the controls that start, with those of their group.
AllWrites(pre, post, files, before) ==
  LET r == [preInit |-> <<<<>>, FlattenSeq(pre)>>, postInit |-> FlattenSeq(post), clean |-> <<>>, sync |-> <<>>]
  IN  IF InTable(l) THEN PMOverdrive(r, files, before[Level]) ELSE [r EXCEPT !.preInit = @[2]]

\* The start: the settings of the hardware are saved and it is reset to its defaults; they are
\* read, and the settings are put back.  A late helper has not executed the reset by the reading.
Start ==
  /\ start = "none"
  /\ start' \in {"onTime", "late"}
  /\ \E saved \in {[k \in DOMAIN group |-> Methods(group[k], group[k].new, hw).preInit]} :
     \E reset \in {Executed(machine, <<hw, driver>>, AllWrites([k \in DOMAIN group |-> saved[k][2]], <<>>, hw, hw).preInit)} :
     \E read \in {IF start' = "late" THEN hw ELSE reset[1]} :
     \E all \in {[k \in DOMAIN group |-> Methods(group[k], saved[k][1], read).init]} :
     \E methods \in {[k \in DOMAIN group |-> Methods(group[k], all[k], read)]} :
     \E own \in {k \in DOMAIN group : group[k] = l} :
       /\ c' = all[own]
       /\ default' = methods[own].export
       /\ part' = methods[own].export
       /\ LET post == [k \in DOMAIN group |-> methods[k].postInit]
              s == Executed(machine, reset, AllWrites(<<>>, post, read, hw).postInit)
          IN  hw' = s[1] /\ driver' = s[2]
  /\ UNCHANGED <<machine, l, group, active, dirty, used, retaken, count>>

\* A profile is loaded.
Load(node) ==
  /\ start # "none"
  /\ Counted("changes", MaxChanges)
  /\ part' = ProfilePart(part, XMLParser(default, node).loadFrom)
  /\ UNCHANGED <<machine, l, group, control, default, hw, driver, start, used, retaken>>

\* The user changes a setting in the view that shows the profile, and accepts.
Change ==
  /\ start # "none"
  /\ Counted("changes", MaxChanges)
  /\ LET shown == QMLItem(part, part).take
     IN  \E item \in QMLItem(shown, part).edits : part' = ProfilePart(part, item)
  /\ UNCHANGED <<machine, l, group, control, default, hw, driver, start, used, retaken>>

\* A profile is applied, in which the control is selected or not.
Apply(selected) ==
  /\ start # "none"
  /\ Counted("imports", MaxImports)
  /\ c' = Import(c, part)
  /\ active' = selected
  /\ dirty' = (dirty \/ (active /\ ~selected))
  /\ used' = (used \/ selected)
  /\ retaken' = (retaken \/ (dirty' /\ selected))
  /\ UNCHANGED <<machine, l, group, settings, hw, driver, start>>

\* The control and the writes after a pass: it is cleaned if it was left and synced if it is active.
AfterClean ==
  {IF dirty THEN [c |-> methods.cleaned, writes |-> methods.clean] ELSE [c |-> c, writes |-> <<>>] :
     methods \in {ControlAt(c, hw)}}
AfterSync(x, files) ==
  {IF active THEN [c |-> methods.synced, writes |-> x.writes \o methods.sync] ELSE x :
     methods \in {ControlAt(x.c, files)}}
AfterPass == UNION {AfterSync(x, hw) : x \in AfterClean}

\* A pass of the sync thread, whose call is executed or lost.
Pass ==
  /\ start # "none"
  /\ dirty' = FALSE
  /\ \E passed \in AfterPass :
       /\ c' = passed.c
       /\ \/ LET s == Executed(machine, <<hw, driver>>, passed.writes)
             IN  hw' = s[1] /\ driver' = s[2] /\ UNCHANGED count
          \/ Counted("faults", MaxFaults) /\ UNCHANGED <<hw, driver>>
  /\ UNCHANGED <<machine, l, group, active, settings, start, used, retaken>>

\* The temperature changes, or the hardware goes to another of its enabled states.
Drift ==
  /\ start # "none"
  /\ Counted("faults", MaxFaults)
  /\ \/ "temp1_input" \in DOMAIN hw /\ \E temp \in machine.temps : hw' = [hw EXCEPT !["temp1_input"] = temp]
     \/ \E file \in DpmFiles \cap DOMAIN hw : \E index \in driver.enabled[file] :
          hw' = [hw EXCEPT ![file] = MarkedAs(@, index)]
  /\ UNCHANGED <<machine, l, group, control, settings, driver, start, used, retaken>>

Next ==
  \/ Start
  \/ \E node \in Nodes(l) : Load(node)
  \/ Change
  \/ \E selected \in BOOLEAN : Apply(selected)
  \/ Pass
  \/ Drift

Spec == Init /\ [][Next]_vars

-----------------------------------------------------------------------------
(* Properties.                                                             *)

Between(value, min, max) == min <= value /\ value <= max

\* Settings the hardware can be given.
Legal(s) ==
  CASE l.kind \in {"PMFixed", "PMPowerState", "PMPowerProfile"} -> s.mode \in l.modes
    [] l.kind = "CPUFreq" -> s.scalingGovernor \in l.governors
    [] l.kind = "PMPowerCap" -> Between(s.value, l.min, l.max)
    [] l.kind = "PMFixedFreq" -> s.sclk \in l.sclk /\ s.mclk \in l.mclk
    [] l.kind = "PMFreqOd" -> Between(s.sclkOd, 0, MaxOd) /\ Between(s.mclkOd, 0, MaxOd)
    [] l.kind = "PMVoltOffset" -> Between(s.value, -MaxOffset, MaxOffset)
    [] l.kind = "PMFreqRange" ->
         /\ DOMAIN s.states = DOMAIN default.states
         /\ \A index \in DOMAIN s.states : Between(s.states[index], l.min, l.max)
    [] l.kind = "PMFreqVolt" ->
         /\ DOMAIN s.states = DOMAIN default.states
         /\ \A index \in DOMAIN s.states : ClampState(l, s.states[index]) = s.states[index]
         /\ s.active # {} /\ s.active \subseteq l.dpmStates
    [] l.kind = "PMVoltCurve" ->
         /\ DOMAIN s.points = DOMAIN default.points
         /\ \A k \in DOMAIN s.points : ClampPoint(l, k, s.points[k]) = s.points[k]
    [] l.kind = "FanFixed" -> Between(s.value, 0, 100) /\ Between(s.fanStartValue, 0, 100)
    [] l.kind = "FanCurve" ->
         /\ Between(s.fanStartValue, 0, 100)
         /\ \A k \in DOMAIN s.points : Between(s.points[k][1], 0, l.maxTemp) /\ Between(s.points[k][2], 0, 100)
         /\ \A k \in 2 .. Len(s.points) : s.points[k - 1][2] <= s.points[k][2]
    [] OTHER -> TRUE

\* Whatever a file holds and however the program started, the settings of a profile and of a
\* control are ones the hardware has: within its limits, with its states, not all of them disabled.
WithinLimits ==
  start # "none" => Legal(part) /\ Legal(ControlAt(c, hw).export)

\* What the whole watts and degrees of the files and of the view keep of the settings.
Whole(s) ==
  CASE l.kind = "PMPowerCap" -> [value |-> Clamp(Watt * Watts(s.value), l.min, l.max)]
    [] l.kind = "FanCurve" -> [s EXCEPT !.points = Sequence(Len(@), LAMBDA k : <<Degree * (@[k][1] \div Degree), @[k][2]>>)]
    [] OTHER -> s

\* The settings of a profile survive being saved and loaded, and being shown and accepted: each
\* class of the parts, the parsers and the items understands what the others made of them.
RoundTrips ==
  start # "none" =>
    /\ ProfilePart(part, XMLParser(part, XMLParser(part, Absent).appendTo).loadFrom) = Whole(part)
    /\ ProfilePart(part, QMLItem(part, part).take) \in {part, Whole(part)}

\* Starting leaves the hardware as it was, whoever had changed it, and although its settings are
\* reset in between; which DPM states are enabled cannot be read, so they are all enabled.
StartKeepsHardware ==
  [][start = "none" /\ start' # "none" =>
       /\ \A file \in DOMAIN hw \ DpmFiles : hw'[file] = hw[file]
       /\ driver'.table = driver.table]_vars

\* With a helper that is on time the defaults are those of the hardware, whoever had changed its
\* settings before.
DefaultsAreFactory ==
  [][start = "none" /\ start' = "onTime" => 
       default' = Methods(l, Methods(l, l.new, machine.files).init, machine.files).export]_vars

\* A state of the DPM cannot be read back: a write that was lost, or that the clean of a control
\* selected again has dropped, is only repeated when the hardware goes to a state that should be
\* disabled.
Enabled(s, file, states) ==
  \/ s[2].enabled[file] = states
  \/ (count.faults > 0 \/ retaken) /\ ParseDPMCurrentStateIndex(s[1][file]) \in states

\* A pwm that was written once is not written again: the hardware may use another.
Blows(s, pwm) == s[1]["pwm1_enable"] = 1 /\ (s[1]["pwm1"] = pwm \/ count.faults > 0)

\* The settings of a control are in effect in the files and the driver.
InEffect(x, s) ==
  LET files == s[1]
      table == s[2].table
  IN CASE l.kind = "PMAuto" /\ l.legacy -> files["power_method"] = "profile" /\ files["power_profile"] = "auto"
       [] l.kind = "PMAuto" /\ ~l.legacy -> files[Level] = "auto"
       [] l.kind = "PMFixed" /\ l.legacy -> files["power_method"] = "profile" /\ files["power_profile"] = x.mode
       [] l.kind = "PMFixed" /\ ~l.legacy -> files[Level] = x.mode
       [] l.kind = "PMDynamicFreq" -> files[Level] = "auto"
       [] l.kind = "PMPowerState" -> files["power_dpm_state"] = x.mode
       [] l.kind = "PMPowerProfile" ->
            ParsePowerProfileModeCurrentModeIndex(files["pp_power_profile_mode"]) = l.index[x.mode]
       [] l.kind = "PMPowerCap" -> files["power1_cap"] = x.value
       [] l.kind = "PMFixedFreq" ->
            Enabled(s, "pp_dpm_sclk", x.sclk.active) /\ Enabled(s, "pp_dpm_mclk", x.mclk.active)
       [] l.kind = "PMFreqOd" -> files["pp_sclk_od"] = x.sclkOd /\ files["pp_mclk_od"] = x.mclkOd
       [] l.kind = "PMFreqRange" ->
            \A index \in DOMAIN x.states :
              Entry(ParseOverdriveClks(l.name, table), index, Absent)[2] = x.states[index]
       [] l.kind = "PMFreqVolt" ->
            /\ Enabled(s, l.dpmFile, x.dpm.active)
            /\ \A index \in DOMAIN x.states :
                 Tail(Entry(ParseOverdriveClksVolts(l.name, table), index, Absent)) = TargetState(x, index)
       [] l.kind = "PMVoltCurve" ->
            \A k \in DOMAIN x.points : ParseOverdriveVoltCurve(table)[k] = TargetPoint(x, k)
       [] l.kind = "PMVoltOffset" -> ParseOverdriveVoltOffset(table) = x.value
       [] l.kind = "FanAuto" -> files["pwm1_enable"] = 2
       [] l.kind = "FanFixed" -> Blows(s, FixedPwm(x))
       [] l.kind = "FanCurve" -> Blows(s, CurvePwm(x, files["pwm1"], files["temp1_input"]))
       [] l.kind = "CPUFreq" ->
            \A file \in {"scaling_governor 0", "scaling_governor 1"} : files[file] = x.scalingGovernor

\* The hardware has its defaults again, for the controls that clean.
TakenBack(s) ==
  LET files == s[1]
  IN CASE l.kind = "PMFixed" /\ l.legacy -> files["power_profile"] = "auto"
       [] l.kind = "PMFixed" /\ ~l.legacy -> files[Level] = "auto"
       [] l.kind = "PMPowerProfile" ->
            ParsePowerProfileModeCurrentModeIndex(files["pp_power_profile_mode"]) = l.index[l.new.mode]
       [] l.kind = "PMPowerCap" -> files["power1_cap"] = machine.files["power1_cap"]
       [] l.kind = "PMFixedFreq" -> Enabled(s, "pp_dpm_sclk", l.sclk) /\ Enabled(s, "pp_dpm_mclk", l.mclk)
       [] l.kind = "PMFreqOd" -> files["pp_sclk_od"] = 0 /\ files["pp_mclk_od"] = 0
       [] InTable(l) -> s[2].table = machine.files[Table]
       [] OTHER -> TRUE

\* Wherever the control and the hardware are, one pass whose call is executed puts the settings
\* that were applied last into effect, or, when the control was left and no call was lost, has
\* taken back what it had changed.  A control that was left and selected again since the last pass
\* is cleaned and synced with what the files hold before the clean: its settings are in effect
\* after the next pass.
PassTakesEffect ==
  start # "none" => \A passed \in AfterPass :
    LET s == Executed(machine, <<hw, driver>>, passed.writes)
    IN  /\ active /\ ~dirty => InEffect(passed.c, s)
        /\ active /\ dirty =>
             \A next \in AfterSync([c |-> passed.c, writes |-> <<>>], s[1]) :
               InEffect(next.c, Executed(machine, s, next.writes))
        /\ ~active /\ used /\ count.faults = 0 => TakenBack(s)
=============================================================================
