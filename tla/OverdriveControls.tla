------------------------- MODULE OverdriveControls -------------------------
(***************************************************************************)
(* The controls that edit the overdrive table of an AMD GPU (src/core/     *)
(* components/controls/amd/pm/advanced/overdrive): the ranges of the       *)
(* clocks, their states with voltages, the voltage curve and the voltage   *)
(* offset, and the group they are in, which resets the table and puts      *)
(* their edits into effect.                                                *)
(*                                                                         *)
(* Older versions saved the settings of several of them below one node: a  *)
(* node is a record of the nodes found by the old and by the new name.     *)
(***************************************************************************)
EXTENDS FreqControls, SequencesExt

Table == "pp_od_clk_voltage"
Edit(command) == Write(Table, command)

\* The old node hides the new one.
SavedNode(parent) == IF parent = Absent THEN Absent
                     ELSE IF parent.legacy # Absent THEN parent.legacy
                     ELSE parent.own
Own(node) == [legacy |-> Absent, own |-> node]

\* The command of a clock.
ClkControlCmdId == [SCLK |-> "s", MCLK |-> "m"]

\* One write for every element, in order.
Edits(sequence, command(_)) == [k \in DOMAIN sequence |-> Edit(command(sequence[k]))]

\* The first entry with an index, or a default.
Entry(entries, index, default) ==
  LET at == FirstFrom(entries, 1, LAMBDA entry : entry[1] = index)
  IN  IF at > Len(entries) THEN default ELSE entries[at]

Indices(entries) == {entries[k][1] : k \in DOMAIN entries}

\* The states of a function from their indices, in order.
Listed(states, entry(_)) == [k \in 1 .. Cardinality(DOMAIN states) |-> entry(Nth(DOMAIN states, k))]

-----------------------------------------------------------------------------
(* The group.                                                              *)

Reset == <<Edit(<<"r">>), Edit(<<"c">>)>>
Commit == <<Edit(<<"c">>)>>

\* Mutant of PMOverdrive: the edits are not put into effect.
PMOverdriveWithoutCommit(r, hw, level) ==
  [preInit |-> Manual(hw) \o Reset \o r.preInit[2],
   postInit |-> r.postInit \o Commit \o <<Write(Level, level)>>,
   clean |-> Manual(hw) \o Reset \o r.clean,
   sync |-> Manual(hw) \o r.sync]

\* Mutant of PMOverdrive: the level of before is not restored.
PMOverdriveKeepsManual(r, hw, level) ==
  [PMOverdriveWithoutCommit(r, hw, level) EXCEPT
     !.postInit = r.postInit \o Commit, !.sync = @ \o IF r.sync = <<>> THEN <<>> ELSE Commit]

\* Mutant of PMOverdrive: the defaults are read without a reset.
PMOverdriveWithoutReset(r, hw, level) ==
  [PMOverdriveWithoutCommit(r, hw, level) EXCEPT !.preInit = Manual(hw) \o r.preInit[2]]

\* What the group adds to the writes of a control in it; level is the one before preInit.
PMOverdrive(r, hw, level) ==
  [preInit |-> Manual(hw) \o Reset \o r.preInit[2],
   postInit |-> r.postInit \o Commit \o <<Write(Level, level)>>,
   clean |-> Manual(hw) \o Reset \o r.clean,
   sync |-> Manual(hw) \o r.sync \o
            (IF \E k \in DOMAIN r.sync : r.sync[k].file = Table THEN Commit ELSE <<>>)]

-----------------------------------------------------------------------------
(* The range of a clock: the frequencies of its lowest and highest states. *)
(* A state that the hardware shows outside its own limits is left alone.   *)

PMFreqRange(l, c, hw) ==
  LET clks == Picked(ParseOverdriveClks(l.name, hw[Table]), LAMBDA clk : clk[1] \notin l.disabled)
      differing == Picked(clks, LAMBDA clk : clk[1] \in DOMAIN c.states /\ clk[2] # c.states[clk[1]])
  IN  [preInit |-> <<[c EXCEPT !.preInit = clks], <<>>>>,
       init |-> [c EXCEPT !.states =
                  [index \in Indices(clks) |-> Clamp(Entry(clks, index, Absent)[2], l.min, l.max)]],
       postInit |-> Edits(c.preInit, LAMBDA clk : <<l.cmd, clk[1], clk[2]>>),
       export |-> [states |-> c.states],
       sync |-> Edits(differing, LAMBDA clk : <<l.cmd, clk[1], c.states[clk[1]]>>),
       clean |-> <<>>]

PMFreqRangeImport(l, c, i) ==
  [c EXCEPT !.states = [index \in DOMAIN @ |-> Clamp(i.states[index], l.min, l.max)]]

PMFreqRangeProfilePart(l, p, i) ==
  [states |-> [index \in DOMAIN p.states |-> Clamp(i.states[index], l.min, l.max)]]

\* Unknown and malformed states are skipped.  When the number of the others is not the
\* expected one they are added to the sorted set of the defaults, where the first of an
\* index is the one with the lowest frequency.
PMFreqRangeXMLParser(s, parent, d) ==
  LET node == SavedNode(parent)
      known == Picked(node.states, LAMBDA state : state[1] \in DOMAIN d.states /\ state[2] # Absent)
      mixed(index) == {d.states[index]} \cup {known[k][2] : k \in {j \in DOMAIN known : known[j][1] = index}}
      loaded == IF Len(known) = Cardinality(DOMAIN d.states)
                THEN [index \in DOMAIN d.states |-> Entry(known, index, <<index, 0>>)[2]]
                ELSE [index \in DOMAIN d.states |-> Min(mixed(index))]
  IN  [appendTo |-> Own([states |-> Listed(s.states, LAMBDA index : <<index, s.states[index]>>)]),
       loadFrom |-> IF node = Absent THEN d ELSE IF node.states = Absent THEN d ELSE [states |-> loaded]]

PMFreqRangeQMLItem(l, q, i) ==
  [take |-> i,
   edits |-> {[states |-> [q.states EXCEPT ![index] = freq]] : index \in DOMAIN q.states, freq \in {l.min, l.max}}]

PMFreqRangeProvider(m) ==
  LET lines == m.files[Table]
      range(name) == ParseOverdriveClkRange(name, lines)
      valid(name) == /\ Cardinality(OutOfRangeStates(name, lines)) <= 1
                     /\ range(name) # Absent /\ ParseOverdriveClks(name, lines) # Absent
      control(name) == [kind |-> "PMFreqRange", name |-> name, cmd |-> ClkControlCmdId[name],
                        min |-> range(name)[1], max |-> range(name)[2],
                        disabled |-> OutOfRangeStates(name, lines),
                        new |-> [states |-> <<>>, preInit |-> <<>>]]
  IN  IF "clk" \notin OverdriveCapabilities(m) \/ ParseOverdriveClkControls(lines) = Absent THEN <<>>
      ELSE SetToSeq({control(name) : name \in {n \in ParseOverdriveClkControls(lines) : valid(n)}})

-----------------------------------------------------------------------------
(* The states of a clock, with their voltages, and which may be used.      *)

ClampState(l, state) == <<Clamp(state[1], l.min, l.max), Clamp(state[2], l.voltMin, l.voltMax)>>

VoltMode(mode) == IF mode = "auto" THEN "auto" ELSE "manual"

\* What the table should show for a state: with automatic voltages, those of the start.
TargetState(c, index) ==
  <<c.states[index][1], IF c.voltMode = "auto" THEN c.initVoltages[index] ELSE c.states[index][2]>>

PMFreqVolt(l, c, hw) ==
  LET entries == ParseOverdriveClksVolts(l.name, hw[Table])
      differing == Picked(entries, LAMBDA entry :
                     entry[1] \in DOMAIN c.states /\ Tail(entry) # TargetState(c, entry[1]))
      dpm == PpDpmHandler(c.dpm, l.dpmFile, l.dpmStates, hw)
      values == [index \in Indices(entries) |-> Tail(Entry(entries, index, Absent))]
  IN  [preInit |-> <<[c EXCEPT !.preInit = entries, !.dpm = dpm.cleaned], dpm.clean>>,
       init |-> [c EXCEPT !.initVoltages = [index \in DOMAIN values |-> values[index][2]],
                          !.states = [index \in DOMAIN values |-> ClampState(l, values[index])]],
       postInit |-> Edits(c.preInit, LAMBDA entry : <<l.cmd>> \o entry),
       export |-> [voltMode |-> c.voltMode, states |-> c.states, active |-> c.dpm.active],
       sync |-> Edits(differing, LAMBDA entry : <<l.cmd, entry[1]>> \o TargetState(c, entry[1])) \o dpm.sync,
       clean |-> dpm.clean,
       synced |-> [c EXCEPT !.dpm = dpm.synced],
       cleaned |-> [c EXCEPT !.dpm = dpm.cleaned]]

PMFreqVoltImport(l, c, i) ==
  [c EXCEPT !.voltMode = VoltMode(i.voltMode),
            !.states = [index \in DOMAIN @ |-> ClampState(l, i.states[index])],
            !.dpm = Activated(@, l.dpmStates, i.active)]

\* Mutant of PMFreqVoltProfilePart: all states may be inactive.
PMFreqVoltProfilePartNoneActive(l, p, i) ==
  [voltMode |-> Known(i.voltMode, {"auto", "manual"}, p.voltMode),
   states |-> [index \in DOMAIN p.states |-> ClampState(l, i.states[index])],
   active |-> i.active \cap DOMAIN p.states]

\* At least one known state must be active.
PMFreqVoltProfilePart(l, p, i) ==
  LET active == i.active \cap DOMAIN p.states
  IN  [voltMode |-> Known(i.voltMode, {"auto", "manual"}, p.voltMode),
       states |-> [index \in DOMAIN p.states |-> ClampState(l, i.states[index])],
       active |-> IF active = {} THEN p.active ELSE active]

\* A state is saved with whether it is active.  An unknown or malformed one ends the loading,
\* and with another number of states than expected the defaults are kept.
PMFreqVoltXMLParser(s, parent, d) ==
  LET node == SavedNode(parent)
      last == FirstFrom(node.states, 1, LAMBDA state : state[1] \notin DOMAIN d.states \/ Absent \in ToSet(state)) - 1
      states == SubSeq(node.states, 1, last)
  IN  [appendTo |-> Own([voltMode |-> s.voltMode,
                         states |-> Listed(s.states, LAMBDA index : <<index, index \in s.active>> \o s.states[index])]),
       loadFrom |->
         IF node = Absent THEN d
         ELSE IF node.states = Absent \/ last # Cardinality(DOMAIN d.states)
         THEN [d EXCEPT !.voltMode = Attribute(node, "voltMode", @)]
         ELSE [voltMode |-> Attribute(node, "voltMode", d.voltMode),
               states |-> [index \in DOMAIN d.states |-> SubSeq(Entry(states, index, <<index, FALSE, 0, 0>>), 3, 4)],
               active |-> {states[k][1] : k \in {j \in DOMAIN states : states[j][2]}}]]

\* The user may deactivate every state.
PMFreqVoltQMLItem(l, q, i) ==
  [take |-> i,
   edits |-> {[q EXCEPT !.voltMode = mode] : mode \in {"auto", "manual"}}
     \cup {[q EXCEPT !.states[index] = <<l.min, l.voltMax>>] : index \in DOMAIN q.states}
     \cup {[q EXCEPT !.states[index] = <<l.max, l.voltMin>>] : index \in DOMAIN q.states}
     \cup {[q EXCEPT !.active = @ \cup {index}] : index \in DOMAIN q.states}
     \cup {[q EXCEPT !.active = @ \ {index}] : index \in DOMAIN q.states}]

PMFreqVoltProvider(m) ==
  LET lines == m.files[Table]
      dpmFile == [SCLK |-> "pp_dpm_sclk", MCLK |-> "pp_dpm_mclk"]
      range(name) == ParseOverdriveClkRange(name, lines)
      voltRange == ParseOverdriveVoltRange(lines)
      valid(name) == /\ HasDPMStates(m, dpmFile[name])
                     /\ ~HasFreqVoltQuirks(lines)
                     /\ Absent \notin {range(name), voltRange, ParseOverdriveClksVolts(name, lines)}
      control(name) == [kind |-> "PMFreqVolt", name |-> name, cmd |-> ClkControlCmdId[name],
                        min |-> range(name)[1], max |-> range(name)[2],
                        voltMin |-> voltRange[1], voltMax |-> voltRange[2],
                        dpmFile |-> dpmFile[name], dpmStates |-> DPMStates(m, dpmFile[name]),
                        new |-> [voltMode |-> "auto", states |-> <<>>, initVoltages |-> <<>>, preInit |-> <<>>,
                                 dpm |-> [active |-> DPMStates(m, dpmFile[name]), resync |-> TRUE]]]
  IN  IF "clkVolt" \notin OverdriveCapabilities(m) \/ ParseOverdriveClkControls(lines) = Absent THEN <<>>
      ELSE SetToSeq({control(name) : name \in {n \in ParseOverdriveClkControls(lines) : valid(n)}})

-----------------------------------------------------------------------------
(* The voltage curve.                                                      *)

ClampPoint(l, k, point) ==
  <<Clamp(point[1], l.ranges[k][1][1], l.ranges[k][1][2]), Clamp(point[2], l.ranges[k][2][1], l.ranges[k][2][2])>>

\* A curve that is too short is filled with (0, 0).
PointOf(points, k) == IF k \in DOMAIN points THEN points[k] ELSE <<0, 0>>

TargetPoint(c, k) == IF c.mode = "auto" THEN c.initPoints[k] ELSE c.points[k]

PMVoltCurve(l, c, hw) ==
  LET points == ParseOverdriveVoltCurve(hw[Table])
      differing == Picked([k \in DOMAIN points |-> k],
                             LAMBDA k : k \in DOMAIN c.points /\ points[k] # TargetPoint(c, k))
  IN  [preInit |-> <<[c EXCEPT !.preInit = points], <<>>>>,
       init |-> [c EXCEPT !.points = points, !.initPoints = points],
       postInit |-> [k \in DOMAIN c.preInit |-> Edit(<<"vc", k - 1>> \o c.preInit[k])],
       export |-> [mode |-> c.mode, points |-> c.points],
       sync |-> Edits(differing, LAMBDA k : <<"vc", k - 1>> \o TargetPoint(c, k)),
       clean |-> <<>>]

PMVoltCurveImport(l, c, i) ==
  [c EXCEPT !.mode = VoltMode(i.mode),
            !.points = [k \in DOMAIN @ |-> ClampPoint(l, k, PointOf(i.points, k))]]

PMVoltCurveProfilePart(l, p, i) ==
  [mode |-> Known(i.mode, {"auto", "manual"}, p.mode),
   points |-> [k \in DOMAIN p.points |-> ClampPoint(l, k, PointOf(i.points, k))]]

\* A malformed point ends the loading, and with another number of points the default is kept.
PMVoltCurveXMLParser(s, parent, d) ==
  LET node == SavedNode(parent)
      last == FirstFrom(node.points, 1, LAMBDA point : Absent \in ToSet(point)) - 1
  IN  [appendTo |-> Own([mode |-> s.mode, points |-> s.points]),
       loadFrom |->
         IF node = Absent THEN d
         ELSE [mode |-> Attribute(node, "mode", d.mode),
               points |-> IF node.points = Absent THEN d.points
                          ELSE IF last # Len(d.points) THEN d.points
                          ELSE SubSeq(node.points, 1, last)]]

\* A point that is moved is found by where it was; the limits shown are those of the last point.
PMVoltCurveQMLItem(l, q, i) ==
  LET range == l.ranges[Len(l.ranges)]
      first(point) == FirstFrom(q.points, 1, LAMBDA other : other = point)
      corners == {<<range[1][1], range[2][2]>>, <<range[1][2], range[2][1]>>}
  IN  [take |-> i,
       edits |-> {[q EXCEPT !.mode = mode] : mode \in {"auto", "manual"}}
         \cup {[q EXCEPT !.points[first(q.points[k])] = corner] : k \in DOMAIN q.points, corner \in corners}]

PMVoltCurveProvider(m) ==
  LET lines == m.files[Table]
  IN  IF "voltCurve" \notin OverdriveCapabilities(m) THEN <<>>
      ELSE Provided(/\ ~HasVoltCurveQuirks(lines)
                    /\ Absent \notin {ParseOverdriveVoltCurveRange(lines), ParseOverdriveVoltCurve(lines)},
                    [kind |-> "PMVoltCurve", ranges |-> ParseOverdriveVoltCurveRange(lines),
                     new |-> [mode |-> "auto", points |-> <<>>, initPoints |-> <<>>, preInit |-> <<>>]])

-----------------------------------------------------------------------------
(* The voltage offset.                                                     *)

MaxOffset == 250

PMVoltOffset(l, c, hw) ==
  LET offset == ParseOverdriveVoltOffset(hw[Table])
  IN  [preInit |-> <<[c EXCEPT !.preInit = offset], <<>>>>,
       init |-> [c EXCEPT !.value = offset],
       postInit |-> <<Edit(<<"vo", c.preInit>>)>>,
       export |-> [value |-> c.value],
       sync |-> IF offset = c.value THEN <<>> ELSE <<Edit(<<"vo", c.value>>)>>,
       clean |-> <<>>]

PMVoltOffsetImport(l, c, i) == [c EXCEPT !.value = Clamp(i.value, -MaxOffset, MaxOffset)]
PMVoltOffsetProfilePart(l, p, i) == [value |-> Clamp(i.value, -MaxOffset, MaxOffset)]

PMVoltOffsetXMLParser(s, node, d) ==
  [appendTo |-> s, loadFrom |-> [value |-> Attribute(node, "value", d.value)]]

PMVoltOffsetQMLItem(l, q, i) ==
  [take |-> i, edits |-> {[value |-> value] : value \in {-MaxOffset, 0, MaxOffset}}]

PMVoltOffsetProvider(m) ==
  Provided("voltOffset" \in OverdriveCapabilities(m) /\ ParseOverdriveVoltOffset(m.files[Table]) # Absent,
           [kind |-> "PMVoltOffset", new |-> [value |-> 0, preInit |-> 0]])
=============================================================================
