----------------------------- MODULE MCControls -----------------------------
(* The controls with a few profiles. *)
EXTENDS Controls

Base == [gpu |-> TRUE, mode |-> "auto", level |-> "low", freq |-> "dynamicFreq",
         table |-> "default", profile |-> "default", cap |-> "default", freqOd |-> "default"]
Tuned == [Base EXCEPT !.mode = "advanced", !.table = "custom", !.profile = "custom", !.cap = "custom", !.freqOd = "custom"]

Auto == Base
Fixed == [Base EXCEPT !.mode = "fixed"]
Untouched == [Base EXCEPT !.mode = "noop"]
Uncontrolled == [Base EXCEPT !.gpu = FALSE]
TunedFixedFreq == [Tuned EXCEPT !.freq = "fixedFreq"]

LeavingProfiles == {Auto, Untouched, Uncontrolled, Tuned}
FreqProfiles == {Auto, Fixed, Tuned, TunedFixedFreq}
PinnedProfiles == {[Auto EXCEPT !.freq = "fixedFreq"], TunedFixedFreq}

\* Other programs: a monitor that fixes a level, a tool that takes manual control, a power profile.
Others == {Write("perf", "high"), Write("perf", "manual"), Write("profile", "custom")}
=============================================================================
