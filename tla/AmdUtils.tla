------------------------------ MODULE AmdUtils ------------------------------
(***************************************************************************)
(* Reading the tables of the amdgpu driver (src/core/components/amdutils). *)
(*                                                                         *)
(* A file is a sequence of lines and a line is a record: "t" says which of *)
(* the formats the parser's regular expressions accept it has, and the     *)
(* other fields are what they capture.  A header is a line that holds      *)
(* "OD_<name>:", a range a line that starts with "<name>:", and a line of  *)
(* the format "other" is one that no expression accepts.                   *)
(***************************************************************************)
EXTENDS Integers, Sequences, FiniteSetsExt

CONSTANT Absent     \* no value: what std::nullopt, a missing file or a missing attribute is

\* The first position at or after from whose line passes the test; behind the last line if none does.
FirstFrom(lines, from, Test(_)) == Min({i \in from .. Len(lines) : Test(lines[i])} \cup {Len(lines) + 1})

IsHeader(line) == line.t = "header"
Heads(line, name) == line.t = "header" /\ line.name = name
Labels(line, name) == line.t \in {"header", "clkRange", "voltRange"} /\ line.name = name

\* The k-th of a set of numbers, in order.
Nth(S, k) == CHOOSE i \in S : Cardinality({j \in S : j < i}) = k - 1

\* The elements of a sequence that pass the test, in order.
Picked(s, Test(_)) ==
  LET at == {i \in DOMAIN s : Test(s[i])} IN [k \in 1 .. Cardinality(at) |-> s[Nth(at, k)]]

\* The lines of the given formats, in order.
Of(lines, formats) == Picked(lines, LAMBDA line : line.t \in formats)

-----------------------------------------------------------------------------
(* The DPM files and the power profiles.                                   *)

\* The states of pp_dpm_sclk or pp_dpm_mclk, as pairs of index and frequency.
ParseDPMStates(lines) ==
  LET states == Of(lines, {"dpm"})
  IN  IF states = <<>> THEN Absent ELSE [i \in DOMAIN states |-> <<states[i].index, states[i].clk>>]

\* The state that is marked as the current one.
ParseDPMCurrentStateIndex(lines) ==
  LET at == FirstFrom(lines, 1, LAMBDA line : line.t = "dpm" /\ line.current)
  IN  IF at > Len(lines) THEN Absent ELSE lines[at].index

\* The power profiles that can be selected, as pairs of name and index.
ParsePowerProfileModeModes(lines) ==
  LET modes == Picked(lines, LAMBDA line : line.t = "mode" /\ line.name \notin {"BOOTUP_DEFAULT", "CUSTOM"})
  IN  IF modes = <<>> THEN Absent ELSE [i \in DOMAIN modes |-> <<modes[i].name, modes[i].index>>]

\* The power profile that is marked as the current one.
ParsePowerProfileModeCurrentModeIndex(lines) ==
  LET at == FirstFrom(lines, 1, LAMBDA line : line.t = "mode" /\ line.current)
  IN  IF at > Len(lines) THEN Absent ELSE lines[at].index

-----------------------------------------------------------------------------
(* The overdrive table, pp_od_clk_voltage.                                 *)

\* The lines under a header, up to the next one; Absent without the header or a line under it.
Section(name, lines) ==
  LET at == FirstFrom(lines, 1, LAMBDA line : Heads(line, name))
      next == FirstFrom(lines, at + 1, IsHeader)
  IN  IF at >= Len(lines) THEN Absent ELSE SubSeq(lines, at + 1, next - 1)

\* The states of a clock that have a voltage, as triples of index, frequency and voltage.
ParseOverdriveClksVolts(name, lines) ==
  IF Section(name, lines) = Absent THEN Absent
  ELSE LET states == Of(Section(name, lines), {"clkVolt"})
       IN  [i \in DOMAIN states |-> <<states[i].index, states[i].clk, states[i].volt>>]

\* The states of a clock that have none, as pairs of index and frequency.
ParseOverdriveClks(name, lines) ==
  IF Section(name, lines) = Absent THEN Absent
  ELSE LET states == Of(Section(name, lines), {"clk"})
       IN  [i \in DOMAIN states |-> <<states[i].index, states[i].clk>>]

\* The range with the given label in the OD_RANGE section, if that line has the format.
RangeLine(name, format, lines) ==
  LET from == FirstFrom(lines, 1, LAMBDA line : Heads(line, "RANGE"))
      at == FirstFrom(lines, from, LAMBDA line : Labels(line, name))
  IN  IF at > Len(lines) THEN Absent
      ELSE IF lines[at].t # format THEN Absent
      ELSE <<lines[at].min, lines[at].max>>

ParseOverdriveClkRange(name, lines) == RangeLine(name, "clkRange", lines)
ParseOverdriveVoltRange(lines) == RangeLine("VDDC", "voltRange", lines)

\* The points of the voltage curve, as pairs of frequency and voltage.
ParseOverdriveVoltCurve(lines) ==
  IF Section("VDDC_CURVE", lines) = Absent THEN Absent
  ELSE LET points == Of(Section("VDDC_CURVE", lines), {"clkVolt"})
       IN  [i \in DOMAIN points |-> <<points[i].clk, points[i].volt>>]

\* The ranges of the points: pairs of lines, a frequency range and a voltage range.
ParseOverdriveVoltCurveRange(lines) ==
  LET range == FirstFrom(lines, 1, LAMBDA line : Heads(line, "RANGE"))
      from == FirstFrom(lines, range + 1,
                        LAMBDA line : Labels(line, "VDDC_CURVE_SCLK") \/ Labels(line, "VDDC_CURVE_VOLT"))
      isFreq(i) == i <= Len(lines) /\ Labels(lines[i], "VDDC_CURVE_SCLK")
      isVolt(i) == i <= Len(lines) /\ Labels(lines[i], "VDDC_CURVE_VOLT")
      count == Min({k \in 0 .. Len(lines) : ~isFreq(from + 2 * k)})
      pair(k) ==
        LET freq == lines[from + 2 * (k - 1)]
            volt == lines[from + 2 * (k - 1) + 1]
        IN  <<<<freq.min, freq.max>>, <<volt.min, volt.max>>>>
  IN  IF count = 0 \/ \E k \in 0 .. count - 1 : ~isVolt(from + 2 * k + 1) THEN Absent
      ELSE [k \in 1 .. count |-> pair(k)]

\* The voltage offset: the line behind its header.
ParseOverdriveVoltOffset(lines) ==
  LET at == FirstFrom(lines, 1, LAMBDA line : Heads(line, "VDDGFX_OFFSET"))
  IN  IF at >= Len(lines) THEN Absent
      ELSE IF lines[at + 1].t # "offset" THEN Absent
      ELSE lines[at + 1].volt

Clocks == {"SCLK", "MCLK"}

\* The clocks that have a section of their own.
ParseOverdriveClkControls(lines) ==
  LET heads == Picked(lines, LAMBDA line : \E name \in Clocks : Heads(line, name))
  IN  IF heads = <<>> THEN Absent ELSE {heads[i].name : i \in DOMAIN heads}

\* The states of a clock that are out of its range (RX 6000); none when either is missing.
OutOfRangeStates(name, lines) ==
  LET clks == ParseOverdriveClks(name, lines)
      range == ParseOverdriveClkRange(name, lines)
  IN  IF clks = Absent \/ range = Absent THEN {}
      ELSE {clks[i][1] : i \in {j \in DOMAIN clks : clks[j][2] < range[1] \/ clks[j][2] > range[2]}}

\* Kernels before 4.18 have no range section.
HasFreqVoltQuirks(lines) == \A i \in DOMAIN lines : ~Heads(lines[i], "RANGE")

\* Kernels before 5.6 show points ("@") without a voltage.
HasVoltCurveQuirks(lines) ==
  LET points == ParseOverdriveVoltCurve(lines)
  IN  /\ \E i \in DOMAIN lines : lines[i].t = "clkVolt" /\ lines[i].at
      /\ IF points = Absent THEN TRUE ELSE points[1][2] = 0

\* What a table controls: clocks with voltages or clocks alone, a curve, an offset
\* (hasOverdriveClkVoltControl and its siblings, used by info/amd/gpuinfopmoverdrive.cpp).
Overdrives(lines) ==
  LET at == FirstFrom(lines, 1, LAMBDA line : \E name \in Clocks : Heads(line, name))
      format == IF at >= Len(lines) THEN "other" ELSE lines[at + 1].t
      has(name) == \E i \in DOMAIN lines : Heads(lines[i], name)
  IN  (IF format \in {"clk", "clkVolt"} THEN {format} ELSE {})
        \cup (IF has("VDDC_CURVE") THEN {"voltCurve"} ELSE {})
        \cup (IF has("VDDGFX_OFFSET") THEN {"voltOffset"} ELSE {})
=============================================================================
