---------------------------- MODULE FreqControls ----------------------------
(***************************************************************************)
(* The controls of the frequencies of an AMD GPU without an overdrive      *)
(* table: the states that the DPM may use and the frequency overdrive      *)
(* (src/core/components/controls/amd/pm/advanced/{fixedfreq, overclock}).  *)
(***************************************************************************)
EXTENDS Hardware

-----------------------------------------------------------------------------
(* The states the hardware may use.  The file tells the current state and  *)
(* not which are enabled, so the handler remembers when it has to write.   *)

PpDpmHandler(h, file, states, hw) ==
  LET current == ParseDPMCurrentStateIndex(hw[file])
      apply == \/ Manual(hw) # <<>>
               \/ current # Absent /\ (h.resync \/ current \notin h.active)
  IN  [clean |-> Manual(hw) \o <<Write(file, states)>>,
       sync |-> IF apply THEN Manual(hw) \o <<Write(file, h.active)>> ELSE <<>>,
       cleaned |-> [h EXCEPT !.resync = FALSE],
       synced |-> IF apply THEN [h EXCEPT !.resync = FALSE] ELSE h]

\* activate: unknown states are skipped, and not all can be deactivated.
Activated(h, states, activated) ==
  IF activated \cap states = {} THEN h ELSE [active |-> activated \cap states, resync |-> TRUE]

\* The indices of the states in a file, which a handler is created with.
DPMStates(m, file) ==
  LET states == ParseDPMStates(m.files[file])
  IN  {states[i][1] : i \in DOMAIN states}

\* The provider asks for states that can be parsed.
HasDPMStates(m, file) == Valid(m, {file}) /\ ParseDPMStates(m.files[file]) # Absent

-----------------------------------------------------------------------------
(* One fixed state of each clock.                                          *)

The(set) == CHOOSE x \in set : TRUE

PMFixedFreq(l, c, hw) ==
  LET sclk == PpDpmHandler(c.sclk, "pp_dpm_sclk", l.sclk, hw)
      mclk == PpDpmHandler(c.mclk, "pp_dpm_mclk", l.mclk, hw)
  IN  [init |-> c,
       export |-> [sclk |-> The(c.sclk.active), mclk |-> The(c.mclk.active)],
       clean |-> sclk.clean \o mclk.clean, sync |-> sclk.sync \o mclk.sync,
       cleaned |-> [sclk |-> sclk.cleaned, mclk |-> mclk.cleaned],
       synced |-> [sclk |-> sclk.synced, mclk |-> mclk.synced]]

PMFixedFreqImport(l, c, i) ==
  [sclk |-> Activated(c.sclk, l.sclk, {i.sclk}), mclk |-> Activated(c.mclk, l.mclk, {i.mclk})]

PMFixedFreqProfilePart(l, p, i) ==
  [sclk |-> Known(i.sclk, l.sclk, p.sclk), mclk |-> Known(i.mclk, l.mclk, p.mclk)]

\* Mutant of PMFixedFreqXMLParser: both states are loaded from the same attribute.
PMFixedFreqXMLParserMixed(s, node, d) ==
  [appendTo |-> [sclkState |-> s.sclk, mclkState |-> s.mclk],
   loadFrom |-> [sclk |-> Attribute(node, "sclkState", d.sclk), mclk |-> Attribute(node, "sclkState", d.mclk)]]

PMFixedFreqXMLParser(s, node, d) ==
  [appendTo |-> [sclkState |-> s.sclk, mclkState |-> s.mclk],
   loadFrom |-> [sclk |-> Attribute(node, "sclkState", d.sclk), mclk |-> Attribute(node, "mclkState", d.mclk)]]

PMFixedFreqQMLItem(l, q, i) ==
  [take |-> i,
   edits |-> {[q EXCEPT !.sclk = index] : index \in l.sclk} \cup {[q EXCEPT !.mclk = index] : index \in l.mclk}]

HasFixedFreq(m) ==
  Valid(m, {Level}) /\ HasDPMStates(m, "pp_dpm_sclk") /\ HasDPMStates(m, "pp_dpm_mclk")

\* The first state of each clock is selected.
NewFixedFreq(m) ==
  LET first(file) == [active |-> {ParseDPMStates(m.files[file])[1][1]}, resync |-> TRUE]
  IN  [kind |-> "PMFixedFreq", sclk |-> DPMStates(m, "pp_dpm_sclk"), mclk |-> DPMStates(m, "pp_dpm_mclk"),
       new |-> [sclk |-> first("pp_dpm_sclk"), mclk |-> first("pp_dpm_mclk")]]

\* Under the frequency mode.
PMFixedFreqProvider(m) ==
  IF IsAMDGPU(m, 406) /\ HasFixedFreq(m) THEN <<NewFixedFreq(m)>> ELSE <<>>

\* Under the advanced mode, where the kernel has neither the frequency mode nor an overdrive table.
PMFixedFreqAdvProvider(m) ==
  IF /\ IsAMDGPU(m, 406)
     /\ m.kernel < 408 \/ m.kernel = 417 \/ (m.kernel >= 418 /\ ~Valid(m, {"pp_od_clk_voltage"}))
     /\ HasFixedFreq(m)
  THEN <<NewFixedFreq(m)>> ELSE <<>>

-----------------------------------------------------------------------------
(* The frequency overdrive, in percents.                                   *)

MaxOd == 20

PMFreqOd(l, c, hw) ==
  [init |-> c,
   clean |-> <<Write("pp_sclk_od", 0), Write("pp_mclk_od", 0)>>,
   sync |-> Differs(hw, "pp_sclk_od", c.sclkOd) \o Differs(hw, "pp_mclk_od", c.mclkOd)]

PMFreqOdImport(l, c, i) ==
  [sclkOd |-> Clamp(i.sclkOd, 0, MaxOd), mclkOd |-> Clamp(i.mclkOd, 0, MaxOd)]

PMFreqOdProfilePart(l, p, i) ==
  [sclkOd |-> Clamp(i.sclkOd, 0, MaxOd), mclkOd |-> Clamp(i.mclkOd, 0, MaxOd)]

PMFreqOdXMLParser(s, node, d) ==
  [appendTo |-> s,
   loadFrom |-> [sclkOd |-> Attribute(node, "sclkOd", d.sclkOd), mclkOd |-> Attribute(node, "mclkOd", d.mclkOd)]]

PMFreqOdQMLItem(l, q, i) ==
  [take |-> i,
   edits |-> {[q EXCEPT !.sclkOd = od] : od \in {0, MaxOd}} \cup {[q EXCEPT !.mclkOd = od] : od \in {0, MaxOd}}]

PMFreqOdProvider(m) ==
  Provided(/\ IsAMDGPU(m, 408) /\ m.kernel < 417
           /\ Valid(m, {"pp_sclk_od", "pp_mclk_od"})
           /\ HasDPMStates(m, "pp_dpm_sclk") /\ HasDPMStates(m, "pp_dpm_mclk"),
           [kind |-> "PMFreqOd", new |-> [sclkOd |-> 0, mclkOd |-> 0]])
=============================================================================
