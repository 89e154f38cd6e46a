------------------------------ MODULE Controls ------------------------------
(***************************************************************************)
(* The tree of performance controls of an AMD GPU, the thread that         *)
(* synchronises it with the hardware and the helper that writes the files. *)
(*                                                                         *)
(* The controls (src/core/components/controls) form a tree of modes, whose *)
(* selected child is active, and groups, whose children all are.  Applying *)
(* a profile view imports its settings into the tree.  Twice a second the  *)
(* synchroniser (src/core/sysmodelsyncer.cpp) makes a pass: it cleans the  *)
(* controls that were left, then syncs the active ones, each comparing the *)
(* files it drives with its settings and queueing the writes that are      *)
(* missing; and sends the queue to the helper.  Nothing tells the controls *)
(* whether a write was done, or when: the call is asynchronous and a pass  *)
(* may read files the helper has not written yet.                          *)
(*                                                                         *)
(* The files are external: what they do with a write is modelled from how  *)
(* the controls use them.  The overdrive table is edited, reset with "r"   *)
(* and put into effect with "c"; the table, the power profile and the DPM  *)
(* states only take a write at the "manual" performance level, to which    *)
(* every control that drives them switches first; and the last two may or  *)
(* may not survive leaving that level.                                     *)
(***************************************************************************)
EXTENDS Naturals, Sequences

CONSTANTS
  Generation,   \* the kernel's controls: "freqMode" (4.8 to 4.16), "overdrive" (4.18, with
                \* pp_od_clk_voltage) or "dpm" (4.18, without it)
  Profiles,     \* the settings that profile views may import
  Foreign,      \* the commands that other programs may execute
  MaxImports,   \* bound on the imports
  MaxFaults,    \* bound on the calls lost and on the writes of other programs
  MaxCalls      \* bound on the calls waiting on D-Bus

Value == {"default", "custom"}
Level == {"auto", "low", "high", "manual"}

\* The settings of a GPU: whether it is controlled, the selected modes and what the leaves set.
Settings ==
  [gpu : BOOLEAN, mode : {"auto", "fixed", "advanced", "noop"}, level : {"low", "high"},
   freq : {"dynamicFreq", "fixedFreq"}, table : Value, profile : Value, cap : Value, freqOd : Value]

\* The commands that write the files of the GPU.
Command ==
  [file : {"perf"}, value : Level] \cup [file : {"table"}, value : Value \cup {"r", "c"}]
    \cup [file : {"profile", "dpm", "cap", "freqOd"}, value : Value]

ASSUME ControlsAssumption ==
  /\ Generation \in {"freqMode", "overdrive", "dpm"}
  /\ Profiles \subseteq Settings
  /\ Foreign \subseteq {cmd \in Command : cmd.file \notin {"table", "freqOd"}}
  /\ MaxImports \in Nat /\ MaxFaults \in Nat /\ MaxCalls \in Nat \ {0}

VARIABLES
  setting,      \* the settings the controls imported last
  dirty,        \* the controls to clean
  resync,       \* resync_ of the DPM handler
  agenda,       \* what the pass under way has left to do; empty between passes
  queue,        \* the command queue
  packIndex,    \* the commands queued before the overdrive control started its pack
  calls,        \* the queues sent to the helper
  running,      \* the commands of the call the helper is executing
  hw,           \* what the files hold; committed is the overdrive table in effect
  imports, faults

vars == <<setting, dirty, resync, agenda, queue, packIndex, calls, running, hw, imports, faults>>

control == <<setting, dirty, resync>>
helper == <<calls, running, hw>>

-----------------------------------------------------------------------------
(* The tree.                                                               *)

\* The controls under "advanced": which there are depends on the kernel.
AdvancedControls ==
  [freqMode  |-> {"overclock", "freqMode", "dynamicFreq", "fixedFreq", "freqOd"},
   overdrive |-> {"overdrive", "freqRange", "powerProfile", "powerCap"},
   dpm       |-> {"fixedFreq", "powerProfile", "powerCap"}][Generation]

Tree == {"perfMode", "auto", "fixed", "advanced", "noop"} \cup AdvancedControls

Modes == {"perfMode", "freqMode"}
Groups == {"advanced", "overclock", "overdrive"}

Parent == [c \in Tree |->
  CASE c = "perfMode" -> "none"
    [] c \in {"auto", "fixed", "advanced", "noop"} -> "perfMode"
    [] c \in {"freqMode", "freqOd"} -> "overclock"
    [] c = "freqRange" -> "overdrive"
    [] c = "dynamicFreq" \/ (c = "fixedFreq" /\ "freqMode" \in Tree) -> "freqMode"
    [] OTHER -> "advanced"]

\* The controls above c.
Above[c \in Tree] == IF Parent[c] = "none" THEN {} ELSE {Parent[c]} \cup Above[Parent[c]]

\* Mutant of CleanedOnce: cleanOnce marks the group and not the controls in it.
MarksGroup(g) == {g}

\* What cleanOnce marks: a group passes it on to its children, a mode does not.
CleanedOnce(g) == {g} \cup {d \in Tree : g \in Above[d] /\ \A a \in Above[d] : a = g \/ g \in Above[a] => a \in Groups}

\* The control is active with the settings s: the selected child of a mode, any child of a group.
Active(s, c) ==
  CASE c = "perfMode" -> TRUE
    [] Parent[c] = "perfMode" -> s.mode = c
    [] Parent[c] = "freqMode" -> s.freq = c
    [] OTHER -> TRUE

\* Mutant of Syncs: a control is synced whenever it is active itself.
SyncsAlone(c) == Active(setting, c)

\* clean and sync reach a control through the ones above it.
Cleans(c) == \A a \in Above[c] \cup {c} : a \in dirty \cup Modes
Syncs(c) == \A a \in Above[c] \cup {c} : Active(setting, a)

-----------------------------------------------------------------------------
(* What the controls write.                                                *)

Write(file, value) == [file |-> file, value |-> value]

\* The queue after one more command: one that repeats the last for its file is dropped (see
\* CommandQueue; the commands packed here all go to one file, so packing moves none).
Add(q, cmd) ==
  IF \E i \in DOMAIN q : q[i] = cmd /\ \A j \in i + 1 .. Len(q) : q[j].file # cmd.file
  THEN q ELSE Append(q, cmd)

\* Switches to the manual level when the level that was read is another.
Manual(q) == IF hw.perf = "manual" THEN q ELSE Add(q, Write("perf", "manual"))

\* cleanControl of the controls that have one, from the queue q.
CleanFixed(q) == Add(q, Write("perf", "auto"))
CleanOverdrive(q) == Add(Add(Manual(q), Write("table", "r")), Write("table", "c"))
CleanPowerProfile(q) == Add(Manual(q), Write("profile", "default"))
CleanFixedFreq(q) == Add(Manual(q), Write("dpm", "default"))
CleanPowerCap(q) == Add(q, Write("cap", "default"))
CleanFreqOd(q) == Add(q, Write("freqOd", "default"))

CleanControl(c, q) ==
  CASE c = "fixed" -> CleanFixed(q)
    [] c = "overdrive" -> CleanOverdrive(q)
    [] c = "powerProfile" -> CleanPowerProfile(q)
    [] c = "fixedFreq" -> CleanFixedFreq(q)
    [] c = "powerCap" -> CleanPowerCap(q)
    [] c = "freqOd" -> CleanFreqOd(q)

\* A file that is written when it does not hold the value.
Ensure(q, file, value) == IF hw[file] = value THEN q ELSE Add(q, Write(file, value))

\* syncControl of the controls, but for the pack of the overdrive control.
SyncAuto(q) == Ensure(q, "perf", "auto")
SyncDynamicFreq(q) == Ensure(q, "perf", "auto")
SyncFixed(q) == Ensure(q, "perf", setting.level)
SyncOverdrive(q) == Manual(q)
SyncFreqRange(q) == Ensure(q, "table", setting.table)
SyncPowerCap(q) == Ensure(q, "cap", setting.cap)
SyncFreqOd(q) == Ensure(q, "freqOd", setting.freqOd)

\* At another level than manual the profile is written whatever the file says.
SyncPowerProfile(q) ==
  IF hw.perf = "manual" THEN Ensure(q, "profile", setting.profile)
  ELSE Add(Manual(q), Write("profile", setting.profile))

\* The DPM file shows the current state and not the selected ones: elsewhere says that the
\* current state is not a selected one.
SyncFixedFreq(q, elsewhere) ==
  IF hw.perf # "manual" \/ resync \/ elsewhere THEN Add(Manual(q), Write("dpm", "custom")) ELSE q

SyncControl(c, q, elsewhere) ==
  CASE c = "auto" -> SyncAuto(q)
    [] c = "fixed" -> SyncFixed(q)
    [] c = "dynamicFreq" -> SyncDynamicFreq(q)
    [] c = "fixedFreq" -> SyncFixedFreq(q, elsewhere)
    [] c = "overdrive" -> SyncOverdrive(q)
    [] c = "freqRange" -> SyncFreqRange(q)
    [] c = "powerProfile" -> SyncPowerProfile(q)
    [] c = "powerCap" -> SyncPowerCap(q)
    [] c = "freqOd" -> SyncFreqOd(q)

\* Mutant of Commit: the table that was edited is not put into effect.
NoCommit(q) == q

\* The overdrive control commits when its pack wrote to the table.
Commit(q) ==
  IF \E i \in packIndex + 1 .. Len(q) : q[i].file = "table" THEN Add(q, Write("table", "c")) ELSE q

\* What the files may hold after the command.
Written(cmd) ==
  CASE cmd.file = "perf" /\ cmd.value = "manual" -> {[hw EXCEPT !.perf = "manual"]}
    [] cmd.file = "perf" /\ cmd.value # "manual" ->
         {[hw EXCEPT !.perf = cmd.value],
          [hw EXCEPT !.perf = cmd.value, !.profile = "default", !.dpm = "default"]}
    [] cmd.file \in {"table", "profile", "dpm"} /\ hw.perf # "manual" -> {hw}
    [] cmd = Write("table", "r") /\ hw.perf = "manual" -> {[hw EXCEPT !.table = "default"]}
    [] cmd = Write("table", "c") /\ hw.perf = "manual" -> {[hw EXCEPT !.committed = hw.table]}
    [] OTHER -> {[hw EXCEPT ![cmd.file] = cmd.value]}

-----------------------------------------------------------------------------
Init ==
  /\ setting \in Profiles
  /\ dirty = {}
  /\ resync = TRUE
  /\ agenda = <<>>
  /\ queue = <<>>
  /\ packIndex = 0
  /\ calls = <<>>
  /\ running = <<>>
  /\ hw = [perf |-> "auto", table |-> "default", committed |-> "default", profile |-> "default",
           dpm |-> "default", cap |-> "default", freqOd |-> "default"]
  /\ imports = 0
  /\ faults = 0

\* apply: importWith of the tree, which waits for the pass under way.
Import(s) ==
  /\ imports < MaxImports
  /\ agenda = <<>>
  /\ imports' = imports + 1
  /\ setting' = s
  /\ LET left == {c \in Tree : Active(setting, c) /\ ~Active(s, c)}
     IN  dirty' = dirty \cup left \cup UNION {CleanedOnce(g) : g \in (dirty \cup left) \cap Groups}
  /\ resync' = TRUE
  /\ UNCHANGED <<agenda, queue, packIndex, helper, faults>>

Step(op, c) == [op |-> op, on |-> c]

\* The steps of a pass: the controls to clean and then the controls to sync, each kind in the
\* order of the tree, and the call of the helper.  The control in the group of the overdrive
\* control is always active; the group commits after it.
CleanSteps(c) == IF c \in Tree /\ Cleans(c) THEN <<Step("clean", c)>> ELSE <<>>
SyncSteps(c) == IF c \in Tree /\ Syncs(c) THEN <<Step("sync", c)>> ELSE <<>>
PackSteps ==
  IF "overdrive" \in Tree /\ Syncs("overdrive")
  THEN <<Step("sync", "overdrive"), Step("sync", "freqRange"), Step("commit", "overdrive")>> ELSE <<>>

Visits ==
  CleanSteps("fixed") \o CleanSteps("overdrive") \o CleanSteps("fixedFreq") \o CleanSteps("freqOd")
    \o CleanSteps("powerProfile") \o CleanSteps("powerCap")
    \o SyncSteps("auto") \o SyncSteps("fixed") \o PackSteps \o SyncSteps("dynamicFreq")
    \o SyncSteps("fixedFreq") \o SyncSteps("freqOd") \o SyncSteps("powerProfile")
    \o SyncSteps("powerCap") \o <<Step("send", "perfMode")>>

\* Mutant of BeginPass: clean does not take the mark away.
PassKeepsMarks ==
  /\ agenda = <<>>
  /\ agenda' = IF setting.gpu THEN Visits ELSE <<Step("send", "perfMode")>>
  /\ UNCHANGED <<setting, dirty, resync, queue, packIndex, helper, imports, faults>>

\* syncModel takes the lock.  The import waits until the pass is over, so the controls to visit
\* are known now, and the ones to clean are no longer dirty.  A GPU that is not controlled is
\* passed over.
BeginPass ==
  /\ agenda = <<>>
  /\ agenda' = IF setting.gpu THEN Visits ELSE <<Step("send", "perfMode")>>
  /\ dirty' = IF setting.gpu THEN {c \in dirty : ~Cleans(c)} ELSE dirty
  /\ UNCHANGED <<setting, resync, queue, packIndex, helper, imports, faults>>

\* The next step of the pass.
Now(op) == agenda # <<>> /\ Head(agenda).op = op
Advance == agenda' = Tail(agenda)

Clean ==
  /\ Now("clean")
  /\ Advance
  /\ queue' = CleanControl(Head(agenda).on, queue)
  /\ resync' = (resync /\ Head(agenda).on # "fixedFreq")
  /\ UNCHANGED <<setting, dirty, packIndex, helper, imports, faults>>

\* The overdrive control starts its pack behind its own command.
Sync ==
  /\ Now("sync")
  /\ Advance
  /\ \E elsewhere \in IF Head(agenda).on = "fixedFreq" /\ hw.dpm = "default" THEN BOOLEAN ELSE {FALSE} :
       queue' = SyncControl(Head(agenda).on, queue, elsewhere)
  /\ packIndex' = IF Head(agenda).on = "overdrive" THEN Len(queue') ELSE packIndex
  /\ resync' = (resync /\ Head(agenda).on # "fixedFreq")
  /\ UNCHANGED <<setting, dirty, helper, imports, faults>>

CommitTable ==
  /\ Now("commit")
  /\ Advance
  /\ queue' = Commit(queue)
  /\ packIndex' = 0
  /\ UNCHANGED <<control, helper, imports, faults>>

\* HelperSysCtl::apply: an asynchronous call, when there is something to send.
Send ==
  /\ Now("send")
  /\ Advance
  /\ queue # <<>> => Len(calls) < MaxCalls
  /\ calls' = IF queue = <<>> THEN calls ELSE Append(calls, queue)
  /\ queue' = <<>>
  /\ UNCHANGED <<control, packIndex, running, hw, imports, faults>>

\* MsgReceiver::apply: the helper takes a call and writes its commands one by one.
Receive ==
  /\ running = <<>>
  /\ calls # <<>>
  /\ running' = Head(calls)
  /\ calls' = Tail(calls)
  /\ UNCHANGED <<control, agenda, queue, packIndex, hw, imports, faults>>

Execute ==
  /\ running # <<>>
  /\ hw' \in Written(Head(running))
  /\ running' = Tail(running)
  /\ UNCHANGED <<control, agenda, queue, packIndex, calls, imports, faults>>

\* A call is lost: it does not reach the helper, or its signature is refused.
Lose ==
  /\ faults < MaxFaults
  /\ calls # <<>>
  /\ calls' = Tail(calls)
  /\ faults' = faults + 1
  /\ UNCHANGED <<control, agenda, queue, packIndex, running, hw, imports>>

\* Another program writes to a file; it does not change the level while the helper is writing the
\* table, whose commit would then be refused for good.
Interfere ==
  /\ faults < MaxFaults
  /\ \E cmd \in Foreign :
       /\ cmd.file = "perf" => \A i \in DOMAIN running : running[i].file # "table"
       /\ hw' \in Written(cmd)
  /\ faults' = faults + 1
  /\ UNCHANGED <<control, agenda, queue, packIndex, calls, running, imports>>

Pass == BeginPass \/ Clean \/ Sync \/ CommitTable \/ Send

Next == Pass \/ Receive \/ Execute \/ Lose \/ Interfere \/ \E s \in Profiles : Import(s)

\* The thread makes a pass every half a second and the helper serves its calls.
Spec == Init /\ [][Next]_vars /\ WF_vars(Pass) /\ WF_vars(Receive) /\ WF_vars(Execute)

-----------------------------------------------------------------------------
(***************************************************************************)
(* Properties                                                              *)
(***************************************************************************)

\* Whenever the helper has done what it was sent, the overdrive table that shows in the file is
\* the one in effect: the controls compare the table with their settings, so an edit without its
\* commit would never be put into effect.
TableInEffect == calls = <<>> /\ running = <<>> => hw.committed = hw.table

Holds(file, value) == hw[file] = value

\* What the imported settings ask of the files.  (The DPM states are Pinned's.)
Applied ==
  /\ setting.mode = "auto" => Holds("perf", "auto")
  /\ setting.mode = "fixed" => Holds("perf", setting.level)
  /\ setting.mode = "advanced" =>
       /\ Holds("perf", IF Generation = "freqMode" /\ setting.freq = "dynamicFreq" THEN "auto" ELSE "manual")
       /\ "overdrive" \in Tree => Holds("table", setting.table) /\ Holds("committed", setting.table)
       /\ "powerProfile" \in Tree => Holds("profile", setting.profile)
       /\ "powerCap" \in Tree => Holds("cap", setting.cap)
       /\ "freqOd" \in Tree => Holds("freqOd", setting.freqOd)

\* What was imported last ends up in the hardware and stays there, whatever was imported
\* before, however late the helper is, if a call is lost or another program writes: the
\* controls that share the performance level do not fight over it, and passes that read what
\* is about to change are made good by later ones.
Converges == <>[](setting.gpu => Applied)

\* The settings of the advanced controls that another mode leaves behind.
Restored ==
  setting.mode # "advanced" =>
    \A f \in {"committed", "profile", "dpm", "cap", "freqOd"} : Holds(f, "default")

\* When the advanced mode is left, the hardware ends up without what its controls had set,
\* however the imports fall between the passes, as long as no call is lost.
\* (Control::activate marks what is left, gpu.cpp:76-79 orders the clean commands.)
LeavesClean == <>[](setting.gpu /\ faults = 0 => Restored)

\* The frequency states that are selected are the ones in force in the end (ppdpmhandler.cpp:103,
\* "modified: needs syncing"), also while the GPU stays in a selected state.
Pinned == <>[](setting.gpu /\ setting.mode = "advanced" /\ Generation = "dpm" => Holds("dpm", "custom"))
=============================================================================
