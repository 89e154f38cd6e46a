----------------------------- MODULE FanControls -----------------------------
(***************************************************************************)
(* The controls of the fan of an AMD GPU (src/core/components/controls/    *)
(* amd/fan).  The hardware's pwm1 has 0 to 255, the settings are percents. *)
(* A point of the curve is a temperature, in tenths of a degree, and a     *)
(* percentage.  pwm1_enable is 1 for the manual and 2 for the automatic    *)
(* control, and temp1_input and temp1_crit are in degrees.                 *)
(***************************************************************************)
EXTENDS Hardware

CONSTANT NotANumber     \* the int that a not-a-number converts to: undefined, so up to the build

LeastInt == -2147483647 - 1

\* x86-64 gives the least int, aarch64 gives 0.
ASSUME NotANumberAssumption == NotANumber \in {LeastInt, 0}

NoPwm == -1             \* a last value that equals none
Degree == 10

Percent(pwm) == Rounded(100 * pwm, 255)
Pwm(percent) == Clamp(Rounded(255 * percent, 100), 0, 255)

HasFan(m, names) ==
  /\ m.vendor = "AMD"
  /\ (m.driver = "radeon" /\ m.kernel >= 400) \/ (m.driver = "amdgpu" /\ m.kernel >= 402)
  /\ Valid(m, names)

-----------------------------------------------------------------------------
(* The automatic fan.                                                      *)

FanAuto(l, c, hw) ==
  [init |-> c, export |-> NoSettings, clean |-> <<>>, sync |-> Differs(hw, "pwm1_enable", 2)]

FanAutoImport(l, c, i) == c
FanAutoProfilePart(l, p, i) == p
FanAutoXMLParser(s, node, d) == [appendTo |-> NoSettings, loadFrom |-> NoSettings]
FanAutoQMLItem(l, q, i) == [take |-> NoSettings, edits |-> {}]

FanAutoProvider(m) ==
  Provided(HasFan(m, {"pwm1_enable"}), [kind |-> "FanAuto", new |-> NoSettings])

-----------------------------------------------------------------------------
(* A fixed speed.                                                          *)

\* The speed that a fixed fan is given.
FixedPwm(c) == IF c.fanStop /\ c.value < c.fanStartValue THEN 0 ELSE c.value

\* The pwm is written when it differs and was not the last one written: the hardware may
\* use another value than the one that was written.
FanFixed(l, c, hw) ==
  LET pwm == FixedPwm(c)
  IN  [init |-> c,
       export |-> [value |-> Percent(c.value), fanStop |-> c.fanStop, fanStartValue |-> Percent(c.fanStartValue)],
       clean |-> <<>>,
       cleaned |-> [c EXCEPT !.lastValue = NoPwm],
       sync |-> IF hw["pwm1_enable"] # 1 THEN <<Write("pwm1_enable", 1), Write("pwm1", pwm)>>
                ELSE IF c.lastValue # pwm THEN Differs(hw, "pwm1", pwm)
                ELSE <<>>,
       synced |-> [c EXCEPT !.lastValue = pwm]]

FanFixedImport(l, c, i) ==
  [c EXCEPT !.value = Pwm(i.value), !.fanStop = i.fanStop, !.fanStartValue = Pwm(i.fanStartValue)]

FanFixedProfilePart(l, p, i) ==
  [value |-> Clamp(i.value, 0, 100), fanStop |-> i.fanStop, fanStartValue |-> Clamp(i.fanStartValue, 0, 100)]

FanFixedXMLParser(s, node, d) ==
  [appendTo |-> s,
   loadFrom |-> [name \in {"value", "fanStop", "fanStartValue"} |-> Attribute(node, name, d[name])]]

FanFixedQMLItem(l, q, i) ==
  [take |-> i,
   edits |-> {[q EXCEPT !.value = value] : value \in {0, 100}}
     \cup {[q EXCEPT !.fanStartValue = value] : value \in {0, 100}}
     \cup {[q EXCEPT !.fanStop = ~@]}]

FanFixedProvider(m) ==
  Provided(HasFan(m, {"pwm1_enable", "pwm1"}),
           [kind |-> "FanFixed",
            new |-> [value |-> 64, fanStop |-> FALSE, fanStartValue |-> 54, lastValue |-> NoPwm]])

-----------------------------------------------------------------------------
(* A curve: the speed at every temperature.                                *)

\* Temperatures out of the range are mapped to it, and a point has no less than the one before.
NormalizePoints(points, maxTemp) ==
  LET temps == {points[k][1] : k \in DOMAIN points}
      minOld == Min(temps \cup {0})
      maxOld == Max(temps \cup {90 * Degree})
      outside == \E t \in temps : t < 0 \/ t > maxTemp
      pwm(k) == Max({Clamp(points[j][2], 0, 100) : j \in 1 .. k})
      temp(k) == IF outside THEN Rounded((points[k][1] - minOld) * maxTemp, maxOld - minOld) ELSE points[k][1]
  IN  Sequence(Len(points), LAMBDA k : <<temp(k), pwm(k)>>)

DefaultCurve ==
  <<<<35 * Degree, 20>>, <<52 * Degree, 22>>, <<67 * Degree, 30>>, <<78 * Degree, 50>>, <<85 * Degree, 82>>>>

\* The points around the first one whose given coordinate is above the input.
PointsBefore(points, at) ==
  LET to == IF at > Len(points) THEN Len(points) ELSE IF at = 1 THEN 2 ELSE at
  IN  <<points[to - 1], points[to]>>
Around(points, x, input) == PointsBefore(points, FirstFrom(points, 1, LAMBDA point : point[x] > input))

\* The temperature, in degrees, at which the curve has a percentage.  Where it is flat the
\* interpolation divides by zero.
TempBetween(p1, p2, y) ==
  IF p1[2] = p2[2] THEN NotANumber
  ELSE Rounded(p1[1] * (p2[2] - p1[2]) + (p2[1] - p1[1]) * (y - p1[2]), Degree * (p2[2] - p1[2]))
InverseOn(p, percent) == TempBetween(p[1], p[2], Clamp(percent, p[1][2], p[2][2]))
EvaluatePwm(points, percent) == InverseOn(Around(points, 2, percent), percent)

\* The pwm of the curve at a temperature in degrees; not a number converts to 0.
PwmBetween(p1, p2, x) ==
  IF p1[1] = p2[1] THEN 0
  ELSE Rounded(255 * (p1[2] * (p2[1] - p1[1]) + (p2[2] - p1[2]) * (x - p1[1])), 100 * (p2[1] - p1[1]))
ValueOn(p, temp) == PwmBetween(p[1], p[2], Clamp(temp, p[1][1], p[2][1]))
EvaluateTemp(points, temp) == ValueOn(Around(points, 1, temp * Degree), temp * Degree)

Hysteresis == 5

\* The difference of ints wraps around.
BelowHysteresis(temp, startTemp) ==
  IF startTemp = LeastInt THEN TRUE ELSE temp < startTemp - Hysteresis

\* A fan that stops is stopped below the hysteresis, and is not started below the temperature
\* of its start value; in between it keeps its start value.
PwmStartingAt(startTemp, c, pwm, temp) ==
  IF c.fanStop /\ \/ pwm > 0 /\ BelowHysteresis(temp, startTemp)
                  \/ pwm = 0 /\ temp < startTemp
  THEN 0
  ELSE IF c.fanStop /\ pwm > 0 /\ temp < startTemp THEN c.fanStartValue
  ELSE EvaluateTemp(c.points, temp)
CurvePwm(c, pwm, temp) == PwmStartingAt(EvaluatePwm(c.points, Percent(c.fanStartValue)), c, pwm, temp)

\* What the methods do when the curve asks for a pwm.
FanCurveAt(pwm, c, hw) ==
  [init |-> c,
   export |-> [points |-> c.points, fanStop |-> c.fanStop, fanStartValue |-> Percent(c.fanStartValue)],
   clean |-> <<>>,
   cleaned |-> [c EXCEPT !.lastPwm = NoPwm, !.lastFanStop = FALSE],
   sync |-> IF hw["pwm1_enable"] # 1 THEN <<Write("pwm1_enable", 1), Write("pwm1", pwm)>>
            ELSE IF (hw["pwm1"] # pwm /\ c.lastPwm # pwm) \/ c.lastFanStop # c.fanStop
            THEN <<Write("pwm1", pwm)>>
            ELSE <<>>,
   synced |-> [c EXCEPT !.lastPwm = pwm, !.lastFanStop = c.fanStop]]
FanCurve(l, c, hw) == FanCurveAt(CurvePwm(c, hw["pwm1"], hw["temp1_input"]), c, hw)

FanCurveImport(l, c, i) ==
  [c EXCEPT !.points = NormalizePoints(i.points, l.maxTemp), !.fanStop = i.fanStop,
            !.fanStartValue = Pwm(i.fanStartValue)]

FanCurveProfilePart(l, p, i) ==
  [points |-> NormalizePoints(i.points, l.maxTemp), fanStop |-> i.fanStop,
   fanStartValue |-> Clamp(i.fanStartValue, 0, 100)]

\* Temperatures are saved in whole degrees.  A curve with a malformed point, or with less than
\* two, is replaced by the default.
FanCurveXMLParser(s, node, d) ==
  LET points == node.points
      loaded == IF points = Absent THEN d.points
                ELSE IF Len(points) < 2 \/ \E k \in DOMAIN points : Absent \in {points[k][1], points[k][2]}
                THEN d.points
                ELSE Sequence(Len(points), LAMBDA k : <<points[k][1] * Degree, points[k][2]>>)
  IN  [appendTo |-> [s EXCEPT !.points = Sequence(Len(@), LAMBDA k : <<@[k][1] \div Degree, @[k][2]>>)],
       loadFrom |-> [points |-> IF node = Absent THEN d.points ELSE loaded,
                     fanStop |-> Attribute(node, "fanStop", d.fanStop),
                     fanStartValue |-> Attribute(node, "fanStartValue", d.fanStartValue)]]

\* The point that is moved is found by its rounded position: one that is not on a whole degree is
\* not found.
Moved(points, k, to) ==
  LET from == <<Degree * Rounded(points[k][1], Degree), points[k][2]>>
      at == FirstFrom(points, 1, LAMBDA point : point = from)
  IN  IF at > Len(points) THEN points ELSE [points EXCEPT ![at] = to]

FanCurveQMLItem(l, q, i) ==
  [take |-> i,
   edits |-> {[q EXCEPT !.points = Moved(@, k, <<@[k][1], @[k + 1][2]>>)] : k \in 1 .. Len(q.points) - 1}
     \cup {[q EXCEPT !.points = Moved(@, k, <<@[k + 1][1] - 5 * Degree, @[k][2]>>)] : k \in 1 .. Len(q.points) - 1}
     \cup {[q EXCEPT !.fanStartValue = value] : value \in {0, 100}}
     \cup {[q EXCEPT !.fanStop = ~@]}]

\* A critical temperature that makes no sense is replaced.
FanCurveProvider(m) ==
  IF ~HasFan(m, {"pwm1_enable", "pwm1", "temp1_input", "temp1_crit"}) THEN <<>>
  ELSE LET crit == m.files["temp1_crit"]
           maxTemp == Degree * (IF crit > 0 /\ crit < 150 THEN crit ELSE 90)
       IN  <<[kind |-> "FanCurve", maxTemp |-> maxTemp,
              new |-> [points |-> NormalizePoints(DefaultCurve, maxTemp), fanStop |-> FALSE, fanStartValue |-> 54,
                       lastPwm |-> NoPwm, lastFanStop |-> FALSE]]>>
=============================================================================
