------------------------------ MODULE Hardware ------------------------------
(***************************************************************************)
(* What the controls are built on: the machine they are created for, the   *)
(* files they read and the writes they queue, and the rules they share for *)
(* the values that come from a profile.                                    *)
(*                                                                         *)
(* A machine is a record: the vendor, the driver and the kernel (418 is    *)
(* 4.18), and its files, a function from their names to what they hold: a  *)
(* number, a word or the lines of a table.  Files that are missing, that   *)
(* cannot be read or that do not hold the number they should are not in    *)
(* its domain: the providers of the controls treat them alike.             *)
(*                                                                         *)
(* A class of the code is an operator.  A control is l, what its provider  *)
(* found, and c, its state; a control, a part or an item imports from i;   *)
(* the operator of a control returns what its methods do when they read    *)
(* the files hw: the state after init, and the writes of clean and sync.   *)
(***************************************************************************)
EXTENDS AmdUtils, TLC

Write(file, value) == [file |-> file, value |-> value]

\* The write that a file needs to hold a value.
Differs(hw, file, value) == IF hw[file] = value THEN <<>> ELSE <<Write(file, value)>>

Level == "power_dpm_force_performance_level"

\* Most files of a GPU only take a write at the manual level.
Manual(hw) == Differs(hw, Level, "manual")

Clamp(value, min, max) == IF value < min THEN min ELSE IF value > max THEN max ELSE value

NoSettings == <<>>

\* The sequence of n entries; TLC evaluates the entries of a subsequence once.
Sequence(n, entry(_)) == SubSeq([k \in 1 .. n |-> entry(k)], 1, n)

\* What the methods do, over what they do by default.
Over(methods, defaults) ==
  [name \in DOMAIN methods \cup DOMAIN defaults |-> IF name \in DOMAIN methods THEN methods[name] ELSE defaults[name]]

\* Only known values are assigned.
Known(value, values, old) == IF value \in values THEN value ELSE old

\* The division that std::round rounds.
Rounded(x, y) ==
  LET size(n) == IF n < 0 THEN -n ELSE n
      rounded == (2 * size(x) + size(y)) \div (2 * size(y))
  IN  IF (x < 0) = (y < 0) THEN rounded ELSE -rounded

\* The attribute of a node, or a default when the node or the attribute is missing.
Attribute(node, name, default) ==
  IF node = Absent THEN default ELSE IF node[name] = Absent THEN default ELSE node[name]

-----------------------------------------------------------------------------
(* What the providers ask of a machine.                                    *)

Valid(m, names) == names \subseteq DOMAIN m.files

IsAMDGPU(m, from) == m.vendor = "AMD" /\ m.driver = "amdgpu" /\ m.kernel >= from

\* The power management that a GPU has.
Capabilities(m) ==
  IF m.vendor # "AMD" THEN {}
  ELSE LET method == IF Valid(m, {"power_method"}) THEN m.files["power_method"] ELSE "none"
       IN  (CASE method \in {"dynpm", "profile"} -> {"Legacy"}
              [] method = "dpm" -> {"Radeon"}
              [] OTHER -> {})
             \cup (IF Valid(m, {Level}) THEN {"Amdgpu"} ELSE {})

\* The overdrive a GPU has: voltages of clocks hide clocks without them.
OverdriveCapabilities(m) ==
  IF m.vendor # "AMD" \/ ~Valid(m, {"pp_od_clk_voltage"}) THEN {}
  ELSE Overdrives(m.files["pp_od_clk_voltage"])

\* The controls of performance levels work on the files of one of two generations.
HasLegacyLevels(m) ==
  "Legacy" \in Capabilities(m) /\ m.kernel >= 300 /\ Valid(m, {"power_method", "power_profile"})
HasLevels(m) ==
  /\ ~("Legacy" \in Capabilities(m) /\ m.kernel >= 300)
  /\ \/ "Radeon" \in Capabilities(m) /\ m.kernel >= 311
     \/ "Amdgpu" \in Capabilities(m) /\ m.kernel >= 402
  /\ Valid(m, {Level})

\* What a provider that has something to control adds.
Provided(condition, control) == IF condition THEN <<control>> ELSE <<>>
=============================================================================
