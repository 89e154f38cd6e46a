# CoreCtrl in TLA+

CoreCtrl applies hardware settings from profiles: a global profile, profiles that take effect
while a program runs, and manual profiles the user toggles. These modules model the parts of the
program where state is kept in several places and changed in many orders, check them with TLC
on small instances, and prove what matters most with TLAPS for every value of the constants.

All source paths are those of the repository (`src/core/session.cpp` is in `src/src/` of this
tree).

## 1. The system

Three processes take part: the application (Qt main thread, a sensor thread and a sync thread),
the privileged helper (Qt main thread and a monitor thread), and a killer that removes a helper
left over from an earlier instance. They talk over the D-Bus system bus; the helper listens to
the kernel's process events and writes the kernel's files.

| component | state | operations | talks to |
|---|---|---|---|
| `ProfileManager` | profiles by name, names of the unsaved ones | add, clone, remove, activate, reset, restore, update, load, save, export | calls the storage, notifies its observers (session, tray, UI) |
| `ProfileManagerUI`, QML | names and executables in use | the user's edits | calls the manager |
| `Session` | stack of profile views, executable index, manual profile | react to the manager and the helper, toggle a manual profile | calls the applicator and the helper monitor, notifies the tray |
| `SysTray` | menu of manual profiles | react to manager and session, toggle | calls the session |
| `HelperMonitor` / `MsgDispatcher` | none | watch, forget; appExec, appExit | D-Bus both ways |
| `ProcessMonitor`, `AppRegistry`, `ProcessRegistry` | registered executables, processes, counters | exec and exit events, add and remove executables | kernel events in, signals out |
| `SysModelSyncer`, `SysModel`, GPU, CPU, controls | what every control should do | apply a view, sync | fills the queue, sends it to the helper |
| `CommandQueue` | commands, start of the pack | add, pack, send | `MsgReceiver` of the helper executes it |
| `HelperControl` / `Helper` | timers, keys, the monitor thread | start, stop, health check, auto exit | D-Bus both ways |
| `ProfileStorage`, icon cache, XML parsers | files | save, load, update, remove | the file system |
| `App`, `SingleInstance`, `Settings` | window, local socket, settings file | start, second instance | everything |

### What is hard about it

* *Orders of operations nobody wrote a test for.* The session's stack is changed from the
  bottom, the middle and the top by edits of profiles, by programs that start and end and by
  toggles; each path has its own code to take the stack apart and put it together.
* *The same fact in several tables.* Which executable belongs to which profile is in the
  manager, in the session's index, in the helper's registry and its counters; which manual
  profile is on is in the session and in the tray. They are changed one after the other.
* *Two threads in the helper.* The monitor thread asks three registries in turn about an
  executable; the main thread may unregister it between any two questions.
* *Messages that cross.* A signal about a program and a request to forget it pass each other on
  the bus.
* *Positions in a queue that is edited in the middle.* Packed commands are inserted behind the
  last write to the same file, found with reverse iterators.
* *Files read while they are about to change.* The sync thread compares files with settings while
  the helper still executes the writes of earlier passes, and nothing tells it when they are done.
* *Timers and restarts.* The helper exits when it is not told to stay, is restarted when it does
  not answer, and knows nothing after that.

### What makes each part correct

* Session: the profile in effect is the manual one, else that of the program launched last, else
  the global one; what is applied is always the top of the stack; the index finds the right
  profile and knows every enabled one; the helper watches nothing else.
* Tray: it offers the manual profiles and checks the one in effect.
* Process monitor: the number kept for an executable is that of its known processes; every first
  start and every last end reaches the session, once.
* Queue: the files end with the values asked for, take them in that order, and packed writes to
  one file are not mixed with others.
* Controls: the hardware ends up with the settings imported last, whatever was imported before and
  however late the helper is; an edit of the overdrive table never stays uncommitted; what a
  control had set is restored when it is left.
* Leaf controls: settings stay within what the hardware takes, take effect in one pass that is
  executed, and survive being saved, loaded and shown; starting changes nothing in the hardware.
* Trees: parts, files, views and controls have the same settings, for the same GPU.
* Helper lifecycle: a started helper understands its application, stays as long as it does, is
  started again when it ended, and does not outlive it.
* Storage: what is in memory and not marked unsaved is what is on disk; settings are written or
  lost on disk only when they are saved or their profile is removed.

## 2. Modules

| module | models | role |
|---|---|---|
| `EffectiveProfiles` | what the session promises | abstract specification |
| `Session` | `Session`, the directory of `ProfileManager`, the tray's menu, `ProfileView` | specification, implements `EffectiveProfiles` |
| `SessionProofs` | | proofs about the tables of `Session` and its stack of views, and that it implements `EffectiveProfiles` |
| `CommandQueue` | `CommandQueue`, execution by `MsgReceiver` | specification |
| `CommandQueueProofs` | | proofs about `CommandQueue` |
| `ProcMonitor` | kernel processes and events, both threads of the helper, the bus, the session's share | specification |
| `ProcMonitorProofs` | | proofs about `ProcMonitor` |
| `Controls` | the tree of GPU performance controls, the passes of `SysModelSyncer`, the helper's writes | specification |
| `ControlsProofs` | | proofs about the overdrive table in `Controls` |
| `AmdUtils`, `Hardware` | the parsers of the driver's tables, what the controls ask of a machine | operators |
| `LevelControls`, `FreqControls`, `OverdriveControls`, `FanControls` | each leaf control with its import, profile part, XML parser, item and provider | operators |
| `Settings` | the life of one leaf: start, files, edits, selection, passes, the driver | specification over the leaf modules |
| `SettingsProofs` | | proofs about `Settings` and the operators of the leaf modules |
| `Tree` | providers, groups, modes, parts, files, views and the identity of GPUs | specification |
| `TreeProofs` | | proofs about `Tree` |
| `HelperLife` | `HelperControl`, `Helper`, `HelperKiller`, the bus and time | specification |
| `HelperLifeProofs` | | proofs about `HelperLife` |
| `ProfileStore` | `ProfileManager`, `ProfileStorage`, the icon cache, the parser's memory | specification |
| `ProfileStoreProofs` | | proofs about `ProfileStore` |
| `MCSession`, `MCCommandQueue`, `MCProcMonitor`, `MCControls`, `MCSettings`, `MCTree`, `MCHelperLife`, `MCProfileStore` | | values and symmetry for TLC |

`Controls` has the interleavings of a pass and one value per leaf; `Settings` has what the leaves
do with their values and no interleavings; `Tree` has how the leaves are selected. They share the
code of `Control`, `ControlGroup` and `ControlMode`, which each of them translates to the detail
that its properties tell apart. `Session` has the stack of views and an abstract owner for each
part; `Tree` has what the composition of two views shows for two GPUs. `Session` has the observers
of `ProfileManager`, `ProfileStore` its storage.

### Session

| in the module | in the code |
|---|---|
| `profiles` | `ProfileManager::profiles_`: per name the executable, whether it is active, and which of its parts are |
| `index`, `manual`, `pViews` | `profileExeIndex_`, `manualProfile_`, `pViews_` |
| `watched`, `running` | what the helper was told to watch, and has reported running: the session keeps neither, its calls `watchApp` and `forgetApp` and the signals define them |
| `applied` | the view given to `profileApplicator_->apply` last |
| `menu` | the actions of the tray's manual profile menu and whether they are checked |

Every call runs on the Qt main thread through all observers before it returns, and the mutexes
of the session are uncontended, so one operation of the manager with everything its observers do
is one action. A view maps each part to the profile whose settings it shows (`owner`): that is
all the properties tell apart. `Init` takes any directory that `ProfileManager::init` accepts
(distinct names, distinct executables but for manual profiles, a global profile).

The environment of the session is the user and the helper. The dialogs refuse a name or an executable
in use when it is typed, and `Spec` assumes that the user leaves it at that (`FreeNames`, `FreeExes`):
a new profile gets free ones, a changed one keeps its own or gets free ones. The code itself refuses
less (divergence 12). `add` and `clone` of the manager ignore a used name, `update` destroys the
profile that is renamed to one; so do the actions `NewProfile` and `UpdateInfo`, and `SpecForced` lets the user
give any name and executable. `AppExec(e)` is enabled for a watched executable
that is not reported running, and at any time for one the index does not know (a late signal).
That a second `appExec` does not come before the `appExit` is what `ProcMonitor` shows
(`SingleView`), under the conditions it states.

### CommandQueue

`commands` and `packIndex` are the fields of the class. `added` and `device` are history: what
was asked for since the last flush, and what the files hold. Files and values are model values.
`FileOrder` says that the commands of a file in the queue stand for those asked for it: there is a map
of the ones to the others that keeps values and order, reaches every command of the queue, and joins
only repeats of one value.

### ProcMonitor

The monitor thread is a program counter (`mon`), one step for each call on a registry, because
each call takes and releases a mutex: `Take` (socket, PID solver, `findApp`), `Registered`,
`SendExec`, `Add`, and `Remove`, `SendExit`. The main thread takes a request in two steps
(`Begin`, then `EndWatch` or `EndForget`), because `AppRegistry` notifies `ProcessRegistry` while
it holds `regMutex_`: the monitor's question to `AppRegistry` waits (`main = Idle` in
`Registered`), its calls on `ProcessRegistry` do not. `life` is history: the watchable programs a
living process has run. `views` counts the session's views of the profile of an executable, as
`queueProfileView` and `dequeueProfileView` change it.

What the processes of the kernel do is external to the code; an event says only that a PID
executed a file or ended, and the code asks for the executable later, when the process may be
another program or gone. Names are read whole: how a Wine program is named is left out.

`Next` is an environment that behaves: a process runs at most one watched program in its life
(launchers before, and anything unwatched after it, are allowed), the kernel does not give a PID to
another process while events of the earlier one wait to be handled (`Unused`), and the user does
not disable and enable a profile while its program starts or ends. `NextChain` and `NextEdits` drop
the first and the last, and `NextAny` all three (`ReusePid`); `SpecAny` is about `NextAny`. What
the registry promises holds without any of them (`NoPhantom`, `NoLeak`). What the session shows
needs them: with a PID that is used again the monitor, which asks for the executable of an event
only when it handles it, takes an event of the earlier process for one of the later program, and
then meets that program's own event. `MCProcMonitorChain.cfg` shows that the first is needed. So is the second: a profile that
is disabled and enabled while a signal of its program is on the way gets the signal of the earlier
watch, and its end is not reported because the helper has forgotten the process.

### Controls

| in the module | in the code |
|---|---|
| `setting` | what `importWith` put into the tree last: whether the GPU is controlled, the selected modes, the values of the leaves; `Active` derives `active_` of every control from it |
| `dirty`, `resync` | `Control::dirty_`, `PpDpmHandler::resync_` |
| `agenda` | the rest of the pass of `SysModelSyncer::syncModel`: a clean or a sync of one control is a step |
| `queue`, `packIndex` | `SysModelSyncer::cmds_` |
| `calls`, `running` | the asynchronous D-Bus calls under way and the commands of the one `MsgReceiver::apply` executes |
| `hw` | the files |

`AdvancedControls` is the tree that the providers build for a kernel: `Generation` picks the
frequency modes with their overdrive percentage (up to 4.16), the overdrive table, or the DPM
states without it. The order of children is that of the providers, and among the advanced
controls, whose providers register themselves, that of their sources in the build. Each leaf has
one value and one file; the overdrive table has one child, `freqRange`, which stands for those that
edit the table. The power state and fan controls are in `Settings`.

`syncModel` holds the mutex that `apply` takes, so `Import` waits until `agenda` is empty; the
helper, other programs and lost calls come between any two steps of a pass. The controls a pass
visits are therefore known when it begins; what they read is not. A GPU that is not controlled is
passed over by `GPU::sync`, so what it left is not cleaned before it is controlled again.

`Visits` is the order in which a pass comes to the controls, parents first and children in the order of
their providers; what the pass has to do is that order without the controls it does not reach. `Add`
drops a repeated command as `CommandQueue` does, and its comment says why packing moves none here.

The files are external. From the way the controls use them: the table, the power profile and the
DPM states take writes only at the `manual` performance level; leaving that level may or may not
reset the power profile and the DPM states (`Written` offers both); the table is edited, reset with
`r` and put into effect with `c`. `Interfere` writes what other programs may write; it does not
change the level while the helper is in the middle of a queue with writes to the table, since a
commit refused then would never be repeated: a hazard that the code does not handle.

### Leaf controls and Settings

A class of the code is an operator: `PMPowerCap(l, c, hw)` returns what the methods of a control do
when they read the files `hw`: its state after `init`, the writes of `clean` and `sync`, the
settings it exports, and for those that save something the writes of `preInit` and `postInit`. `l`
is what its provider found on the machine, `c` the state of the control. `...Import` is
`importControl`, `...ProfilePart` what a part keeps of an importer, `...XMLParser` the node it
appends and what it loads from one, `...QMLItem` what the view shows and lets the user change.
Numbers are those of the code, with power in tenths of a watt; a table is a sequence of records,
one for each kind of line that the patterns of `amdutils.cpp` tell apart.

| in `Settings` | in the code |
|---|---|
| `l`, `group` | what the provider of a leaf found, and what those found of the leaves that start with it |
| `c` | the control |
| `active`, `dirty` | the marks of `Control`, seen together with those of the modes above it |
| `default`, `part` | the part of a new profile, and of the profile at hand |
| `hw`, `driver` | the files; the table in effect and the enabled DPM states, which no file shows |
| `used`, `retaken` | history: it was selected once; it was selected again after it had been left and before a pass |
| `Start` | `SysModelSyncer::init`: the controls save their settings and reset the hardware (`preInit`), a wait, `init`, and `postInit`, which restores what was saved |

What is assumed of a machine (`MachinesAssumption`) is what a driver keeps to: its files hold lines of
the kinds that the parsers look for, no range is empty, each file of states marks a current one, and
the table of frequencies and voltages lists the states of the DPM file. `NodesAssumption` bounds what
a file gives: any node of the class, with any attribute missing or foreign. `AbsentAssumption` says
that the value for "missing" is none that could be there.

In the initial state another tool may have changed the settings of the machine (`custom`).
In a `late` start the helper misses the wait. `Load` takes a node of `Nodes`: of this version, of an
older one, of other hardware, edited by hand or missing. The driver is external: it takes edits of
the table at the `manual` level, puts them into effect with `c`, and moves among the enabled DPM
states by itself (`Drift`).

### Tree

`SysModel` builds the trees as the providers do for the driver and the kernel of each component
(`shape` is what it made); which leaves a machine has is a constant (their own providers are in the leaf
modules). `parts`, `files` and `controls` are the three copies of the settings. A part is imported as
`ControlModeProfilePart` and `ControlGroupProfilePart` walk their children, a control as
`ControlMode` and `ControlGroup` do, with the marks of `Control::activate` and
`ControlGroup::cleanOnce`. Three assumptions are those of the code's hardware detection: a provider of fixed
frequencies that stands in the advanced group finds nothing on a kernel that is overclocked by
percentages (`FixedFreqAssumption`, `pmfixedfreqadvprovider.cpp:35`), components can be numbered
(`NumberedAssumption`), and no node has the name of the value for "none" (`NamesAssumption`). `Lifted` is
a part of the three nodes that older versions did not have. `Matches` finds the node of a GPU in a file, `Found` a node that an
older version nested less deep; `Composed` and `Shown` are the view of a profile over the global
one.

### HelperLife

| in the module | in the code |
|---|---|
| `pc`, `reply` | where the application waits in a blocking D-Bus call; it handles nothing else meanwhile |
| `key`, `opKey`, `hKey`, `appKey` | each side's own key and the one it verifies with; a key is the number of the launch or of the start that made it |
| `defer`, `checked`, `autoExit` | the timers, in ticks |
| `calls` | calls under way on the bus, in order; one to a helper that is not up activates a process that has not been started |
| `up`, `quitting` | the helper process |

`Tick` waits until what is due is done; `stalls` counts the ticks in which the application was
late all the same. `SlowAnswer` is the timeout of the call `start` while the user is asked for a
password: the helper may be started after all. Simplifications: one application per helper (a
second instance of the same user forwards to the first), a health check in every tick, `started`
always answered in time, and the password dialog of a killed application refused.

### ProfileStore

`disk` has the readable files by name, the icons in the cache by name, and `parsed`, the icon that
the one `ProfileXMLParser` remembers of the profile it handled last. A file is named after the
executable, or the name of a manual profile; the two are taken not to collide. A profile is created or
edited with any name and executable, used ones included, since the dialogs can be made to accept them
(divergence 12); the manager ignores a new profile of a used name, and destroys one that is renamed to
it (`Renamed`). An operation of the manager with its calls on the storage is
one action, as in `Session`; `Writes(ok, over)` says whether the write works and whether the profile
takes the name or the file of another, `CrashSaving` and `CrashUpdating` end the program between two
steps of an operation, and `Restart` reads the directory in any order. `spoiled` and `shared` are
history: since the start a write has failed or a profile has taken the name or the file of another;
the latter has ever happened.

## 3. What the runs show

| run | instance | what it shows |
|---|---|---|
| `session` | the global and 3 other profiles, 3 executables, 1 part | all invariants of the session, and that it implements `EffectiveProfiles`, as long as names and executables are free when they are given |
| `session_override` | 3 profiles, 2 executables, 1 part | divergence of section 5 |
| `queue` | 3 files, 2 values, up to 5 commands between flushes | order and outcome of the queue |
| `monitor` | 2 processes, 1 executable, queues of 2 | the whole path from a process to a view, with liveness |
| `monitor_any` | 2 processes, 2 executables, any environment | the registry stays consistent whatever happens |
| `controls` | overdrive table; automatic, none, tuned, and a GPU not controlled; 2 imports, 1 fault, 1 waiting call | convergence, no uncommitted edit of the table, what is left is restored |
| `controls_freq` | frequency modes; automatic, fixed, and tuned with either frequency mode; 2 imports, 2 waiting calls | the nested modes do not fight over the performance level; convergence |
| `settings` | 11 machines, from `radeon` on 3.10 to `amdgpu` on 5.11 and two CPUs, each of their leaves; 2 loads or edits, 3 imports, 1 fault, 4 of these in all | settings within limits, saved and shown without loss, in effect after a pass; a start that changes nothing |
| `tree` | two GPUs of a kind and a CPU, kernel 4.18; 1 load, 1 edit, 1 restart | the trees agree, a GPU finds its own settings by its unique id or at its old place, what is left is cleaned |
| `helper` | 3 launches, 4 faults, a timeout of 3 ticks | keys, deferral, restarts and ends, with liveness |
| `helper_crash` | 2 launches, 2 faults | divergence of section 5 |
| `store` | 2 names, 2 executables, 2 settings, 1 icon; any of them for any profile; 6 steps, 1 fault | memory and disk |

Bounds. Three profiles besides the global one are what a stack needs for a view to be dropped
with one below it and one above it, with a manual profile on top of two automatic ones; three
executables let one be free while two are used. One part is enough for `owner`: parts are
composed independently of each other. Three files are what it takes to have one between the
writes to another, and a third before the pack; five commands let every file be written before
and inside the pack and one of them twice. Two processes distinguish the first, the last and a
middle end of a program. `MaxEvents`, `MaxCalls` and `MaxSignals` bound what is under way, not
how long the system runs; with two of each, an event may be followed by its opposite and a
request by its opposite before either is handled. `MaxViews = 2` lets a second view of a profile
appear, which `SingleView` excludes. The socket of the kernel also has a bound, but overruns are
not modelled: `Take` loses nothing. In `Controls` two imports after the first settings give every
pair of changes before, between or after passes, such as from tuned settings to others by way of
settings under which the GPU is passed over. Besides the call the helper executes one or two may
wait, so it can be two or three passes behind. The faults are one lost call or one write of another
program, at any time. `LeavesClean` is stated for behaviours without faults: a control forgets that
it is dirty when it queues its commands, so a lost call is not repeated. It also excludes the fixed
mode, by the profiles of the run. With it the property fails: when both modes are left before a
pass, the fixed control's clean queues `auto` ahead of the resets of the advanced controls, which
read `manual` and do not ask for it, and the resets are void if the driver ignores them there.

In `Settings` each control of a machine is on its own, so the run is the union of the instances of
each. Two loads or edits let a file of other hardware be edited, three imports let settings be
applied, left and selected again, and the fault is a lost call, a temperature or a DPM state; four
(`MaxSteps`) of them in all let other settings be loaded before, between or after. The
machines have each generation of the files and tables that a provider asks for, with their quirks
(a table without ranges, a curve without voltages, a critical temperature below the default
curve), and the nodes each way a file can be incomplete or foreign. `NotANumber` is what the
conversion of 0 / 0 to an integer gives, in a fan curve that ends flat: the run takes 0, as on
AArch64; divergence 8 is about x86. In `Tree` two twins are what identity needs; one
load, edit and restart, with any number of saves, applications and passes, are what a difference
between two copies takes. `Lifted` are the nodes that older versions did not have. In `HelperLife`
three launches let an application meet the helper of the one before while a call of that one is
still under way, and a timeout of 3 ticks is the least that leaves a tick between the deferral (2)
and the exit. Six steps of `ProfileStore` are two profiles, an edit, a rename or conversion, a save
and a restart, or two profiles that exchange their names; the steps are bounded, so `store` does
not check deadlock.

Not every disagreement is a run. The files `MCSessionCli`, `MCSessionWatched`,
`MCSessionForced`, `MCProcMonitorChain`, `MCControlsCleanOnce`, `MCControlsPinned`, `MCSettingsFan`, `MCTreeView`,
`MCTreePowerState`, `MCTreeNested`, `MCProfileStoreIcon` and `MCProfileStoreExe` (`.cfg`) are
further instances, each with one property that TLC refutes: `tlc -config MCTreeView.cfg MCTree`.

Fairness (`ProcMonitor`). `WF(Monitor)`: the thread loops on `waitForEvent` until it is stopped
(`processmonitor.cpp:28`). `WF` of the requests: the Qt event loop of the helper dispatches every
call that arrived. `WF(Deliver)`: the bus delivers and the application's event loop runs. Nothing
is assumed of processes or of the user.

Fairness (`Controls`). `WF(Pass)`: the sync thread makes a pass every 500 ms
(`sysmodelsyncer.cpp`). `WF(Receive)` and `WF(Execute)`: the helper's event loop dispatches calls
and the writes of a call are a loop. Nothing is assumed of imports, losses or other programs but
that they are finitely many: convergence is about the time after the last of them.

Fairness (`HelperLife`). `WF` of every step of the two processes, of the delivery of calls and of
`Tick`: event loops run, the bus answers with a result or an error, and time passes. Nothing is
assumed of users, launches or kills but that they are finitely many.

Deadlock is checked in every run but `store`.

Deadlock freedom of the two helper threads in `monitor` also covers the lock order `regMutex_`,
`obMutex_`, `mutex_`: the monitor never holds one while it asks for another.

## 4. What is proved

Eight modules of proofs, for every value of the constants. Of each, the inductive invariant and why it
is needed:

`SessionProofs`, for any names, executables and parts. The inductive invariant is

    IInv == TablesTypeOK /\ DirectoryInv /\ IndexInv /\ WatchInv /\ MenuInv

`DirectoryInv` is what the environment assumes: distinct executables, and a global profile; a lemma for
each edit shows that it stays so, and it is no property of the code, which refuses less. None of the
other parts is inductive alone. The index is a function of executables, so `IndexInv`
survives a change of executable only because no other profile has it (`DirectoryInv`); `WatchInv`
needs `IndexInv` because forgetting an executable must erase the entry of the profile it belongs
to and no other; `MenuInv` needs `DirectoryInv` because a conversion of a manual profile must not
meet the global one. Each action preserves each part in a lemma; the theorems `TablesTyped`,
`IndexCorrect`, `WatchCorrect` and `MenuCorrect` follow.

Its second half is about the stack of views. `RunningInv`, `AppliedInv`,
`ViewsInv` and `ManualViewOnTop` speak of one stack and none of them survives an edit alone: an
operation takes views off, drops or adds one, and creates those above it again. `StackInv` says what
a stack is: every view shows its profile over one below it (`Shows`); the names are the global one
first, the started programs each once, and the manual one last (`Layout`); and the top is what was
applied. The lemmas treat an operation as a change of the sequence of names, of which the code
rebuilds the views. `SessionImplementsEffective` is the refinement: the mapped variables of
`EffectiveProfiles` are the names without the global one and the manual one, and each action of
`Session` is a step of it or leaves it alone (`OrderStep`).

`CommandQueueProofs`, for any files, values and bound. `SameOutcome` and `PackTogether` are
proved from `IInv == TypeOK /\ SameLast /\ PackTogether`, where `SameLast` says that the last
write to each file in the queue has the value of the last one asked for: `SameOutcome` follows,
and it is what an insertion in the middle preserves, because `Position` is always behind the last
write to the same file. `FileOrder` is inductive with `IInv`: a repeat extends the map of the file by
the last command in the queue, an insertion shifts what it maps to, and neither passes a write to the
file itself. `PackKeepsPrefix` is the action property: an insertion is behind the start of the pack.

`ProcMonitorProofs`, for any processes, executables and bounds. In any environment (`SpecAny`) the
invariant is `AnyInv == TypeOK /\ LifeInv /\ AddInv /\ NoLeak /\ NoPhantom`: the process the
monitor is about to add has run the program, or its end is still to come, so a process that dies between the
question to the registry and the entry is never kept. `NeverPhantom` and `NeverLeaks` follow. In an
environment that behaves (`Spec`) `Behaved` is added. Its parts are one for each link of the chain
from a process to a view: which requests may be under way (`CallsInv`), what the counters hold while
the two threads are in the middle of a step (`CountersInv`, `RemoveInv`), and that the signals of an
executable alternate from what the session shows to what the monitor has said (`TurnsInv`). `OneView`,
`ViewsAgree` and `LeavesWithItsProgram` are what is left of that when nothing is under way.

`ControlsProofs`, for every kernel, any profiles, other programs and bounds. `TableInEffect` speaks of
what the helper has done, and what makes it true is how commands are queued: after an edit of the
table the next command is for the table too, in the queue, in every call and in what the helper
executes (`QueueInv`, `InHand`), except for the edit whose commit is next in the pass (`AgendaInv`,
`PackInv`). So losing a call loses the edit with its commit, and other programs, which may not
change the level during such a queue, cannot make the driver refuse it.

`TreeProofs`, for any machine, kernel, leaves and values. `IInv` has the shape of the trees, that every
part is in order (what is active follows from the modes, and each selects a child of its own), and
that a file belongs to one numbering of the components. `AppliedAsShown` follows, since nothing in order is
refused. `FindsOwnSettings` has two parts: a component that is at its old place, or whose unique id its
file and the kernel tell, matches its own node and no other (`FindsItsOwn`); and whatever was numbered
anew, a node that matches is of a component of the same class and device (`LoadsAKin`). So a GPU
without a unique id that was renumbered may get the settings of its twin, as the code does it, but not
those of another kind.
That the initial parts are in order needs every mode of the factory to have a child (`FactoryForest`).
`SavedInv` adds that saved attributes can be told from missing ones; with the place of each node, which
follows from its name (`FactoryPlaced`, `ShapeIsTrees`), `FilesKeep` shows that every node is found
where it was saved. `CleanInv` adds that each leaf that was set since it was cleaned is active below its
component or marked: it and every group above it dirty, which is when a pass cleans it
(`CleansWhatIsLeft`). Both theorems have a hypothesis about the machine that divergences 10 and 5 show
to be needed: no power states, and no kernel that is overclocked by percentages.

`SettingsProofs`, for any machines and nodes as the assumptions of `Settings` have them, and any
bounds. Most of it is lemmas about the operators of the leaf modules: what a provider finds (`FoundOf`),
what `init` reads from the files (`InitOf`), what `importControl`, a part, a parser and an item make of
settings that may be anything (`ImportOf`, `PartOf`, `LoadOf`, `EditOf`). `Settable` are the settings a
part can have, `Configured` the states of its control, and `Inv` says that profile, defaults and control
are such; `WithinLimits` is what that says of limits. `Inv` does not speak of the files once the program
has started, so no write, lost call or drift can disturb it. It needs `Defaults`, since a node is mixed
with the settings read at the start, and `Untouched`, that before the start the files are those of the
machine, to know that these are legal. A curve rises because it is normalised after every import
(`CurveGiven`), whatever is moved or loaded. `RoundTripsHolds` follows from `Inv`, class by class: the
parser and the item make of what a part exports the same settings. For states and points it rests on
lemmas about picking the entries of a sequence (`PositionsOf`, `Finds`), by induction over its
length. `DefaultsAreFactoryHolds` is about the start: the reset brings the table and the power cap back
to what the machine had (`ResetOf`), and no other leaf takes a setting that it reads for its
default (`ReadOf`).

For the twelve classes outside the table (`Outside`), `PassTakesEffectHolds` says that one executed pass
puts the settings into effect, after any faults, or takes them back, if there were none. Its inductive invariant `Held` is what a control relies on
when it decides that there is nothing to write. `Lively`: the files it reads stay readable, whatever
it and the hardware write (`HarmlessAt`, `Carried`). And while no call was lost and nothing has drifted:
`Agrees`, a fan's last pwm is that of the file; `Selected`, the states it does not write again are the
enabled ones; `Back`, what it has left without a mark is the hardware's again. `retaken` is needed in
`Held` as in the property: a control left and selected again before a pass has lost its mark (divergence 6).
A pass is then taken class by class: what `sync` or `clean` leave in the files and in the driver
(`FreqSync`, `ProfileSync`, `FanSync`, `CleansOf`) is what the settings say, and restores `Held` (`OnePass`).
`StartKeepsHardwareHolds` has `~InTable(l)`: such a control writes nothing at its start but the
power cap, first its reset and then what it found.

`HelperLifeProofs`, for any timeout, launches and faults. `NeverDeaf` speaks of the keys of two
processes, and what decides them is what is still under way, so the inductive invariant `LifeInv`
is about `calls` and `reply`: an application that asks whether a helper is started has asked last
of all (`AskedLast`), so nothing is left to make the answer false when it comes (`ToldLast`); with
the answer "no" its own start is then the only call (`Exchanges`), and once it runs there are only
deferrals (`OnlyDefers`), which change no key. `SentBefore` separates its calls from those of the
applications before it. Each action keeps all of it in a lemma, and `SpecNeverDeaf` follows.
`SpecNoNeedlessExit` adds `InTime`: the helper's timer is ahead of the application's, or has not
elapsed and a deferral is on its way.

`ProfileStoreProofs`, for any names, executables, settings, icons and number of steps and faults.
`IInv == TypeInv /\ AgreeInv /\ CompleteInv`: every file is named after the profile in it; until a
write fails or a profile takes the name or the file of another (`spoiled`, which a restart clears, since
what it reads agrees with what is there), each profile has its file, with its executable and state,
and its settings unless it is marked; while neither has ever happened, there are no other files. The
second needs the name as well as the file: a profile that is destroyed by a rename leaves its file behind. `EditsAreMarked` and `RestartFindsProfiles` follow, and `SettingsAreKept` is the action
property, by cases over the operations and the points at which one may stop.

Assumptions are those on the constants, which TLC evaluates in the runs above: `SessionAssumption`,
`CommandQueueAssumption`, `ProcMonitorAssumption`, `ControlsAssumption`, `TreeAssumption` with
`FixedFreqAssumption`, `NamesAssumption` and `NumberedAssumption`, `HelperLifeAssumption`,
`ProfileStoreAssumption`, and `NodesAssumption`, `AbsentAssumption` and `MachinesAssumption` of
`Settings`. The last one has what the files of a machine show: numbers and lines where a parser looks
for them, ranges that are not empty, settings within them, and a temperature that is an integer.
Besides the two hypotheses of `TreeProofs` and those of the last two theorems of `SettingsProofs`,
there are no others.

Only model-checked:

* All liveness: `EndNoticed`, `LaunchNoticed`, `Converges`, `LeavesClean`, `ServesAgain`,
  `LeavesBehind`. The prover has neither fairness nor `ENABLED`.
* `PassTakesEffect` and `StartKeepsHardware` for the four classes of the overdrive table. What a
  commit and a reset leave in the table is what the driver makes of a sequence of edits, so a proof
  needs a theory of the tables that the assumptions here do not give (that no two lines have one index,
  that edits of the leaves of a group do not meet). `PassTakesEffect` of a fan curve is false in a
  build whose conversion of 0 / 0 is the least integer (divergence 8); the theorem is for the other.
* `FilesKeepSettings` of a machine with power states and `LeftIsCleaned` of one that is overclocked
  by percentages are false (section 5).

## 5. Divergences found

TLC refutes each with the configuration that is named; for the two that are runs `PROJECT.json`
quotes the line of the repository they contradict.

1. `MCSessionCli`: the command line toggles any name as a manual profile; the stack then has no
   view for it, and the next toggle pops another one, in the end the last (`session.cpp:147`).
2. `session_override` (a run): a view of a manual profile that is recreated is based on the wrong
   view or on none, and overrides parts that are not active in it. Views of programs that are
   recreated together share one base, with the same effect.
3. `MCSessionWatched`: change the executable of a disabled profile and it takes effect; rename it
   and, once enabled, its executable is never watched (`session.cpp:275`, `:284`).
4. `MCProcMonitorChain`: a watched program executes another watched one in the same process; the
   second profile stays (`processregistry.cpp:48`).
5. `MCControlsCleanOnce`: a mode does not pass `cleanOnce` to its selected child, so a fixed
   frequency is not reset when the advanced mode above it is left (`controlmode.cpp:68`).
   `MCTreeNested` shows the same in the trees of a kernel before 4.17.
6. `MCControlsPinned`: the advanced mode is left and selected again before a pass; the clean takes
   the mark of the import, and the selected states are not written (`ppdpmhandler.cpp:83`). In
   `Settings` this is the case `retaken`, which `PassTakesEffect` excepts for the states and says of
   nothing else.
7. `helper_crash` (a run): the health check uses the key of a helper that it could not start; the
   exception ends the application, which the comment above it means to avoid
   (`helpercontrol.cpp:77`).
8. `MCSettingsFan`: when the fan start value is not below the pwm of the last two points of a curve,
   and they have the same, the start temperature is 0 / 0 converted to an integer: undefined, 0 on
   one processor and the least integer on another, where the fan never stops
   (`fancurve.cpp:47`, `evaluatePwm`; `test_amdfancurve.cpp:519` expects it to stop below the start
   temperature).
9. `MCTreeView`: a part that is not active shows that of the base which has its class, not its
   device: with two GPUs the second is shown no part, and keeps what was applied before
   (`profileview.cpp:72`).
10. `MCTreePowerState`: the parser of the power state mode takes the attribute `mode` for `active`,
    so a mode that was saved is not loaded (`pmpowerstatemodexmlparser.cpp:21`).
11. `MCProfileStoreIcon`: the default icon of a profile without one is only set in a local variable,
    and the profile gets the icon of the one that was handled before (`profilestorage.cpp:227`).
12. `MCProfileStoreExe`: a used name or executable is accepted. The dialog of a profile's properties
    asks whether they are in use when they are typed, but a change of the activation mode validates them
    again without that (`ProfileInfoDialog.qml:158`), so changing it and changing it back enables the
    button; and a dialog that was cancelled leaves its profile behind as the one that is edited, whose
    executable is then accepted for another (`Profiles.qml:239`, `:324`). The second profile overwrites the
    file of the first. A profile that is renamed to a used name is destroyed (`profilemanager.cpp:278`),
    and used after that when it is made manual as well (`:292`). `MCSessionForced`:
    when one of two profiles of an executable is made manual, the helper forgets the executable and the
    view of the other stays. `session` and the theorems of `SessionProofs` are about names
    and executables that are free; `store` takes any.

Seen while modelling, and in the modules as the code has it:

* `ProfileManager::remove` keeps the unsaved mark, so a new profile of that name begins as unsaved;
  `save` takes the mark away although the write failed; an update that fails renames in memory
  only. A torn file is not replaced by its `.bak`.
* A call `exit` to a helper that was not started uses a key it does not have (`Exit`); a restarted
  helper watches no executable until the profiles change.
* A file with some of the states of `PMFreqRange` is mixed with the defaults as a set of pairs, so a
  state may be there twice, with the frequency of either (`pmfreqrangexmlparser.cpp:195`). Watts
  and degrees are saved whole (`Whole`).
* When the helper misses the wait of the start (`sysmodelsyncer.cpp:55`) the settings of another
  tool are taken for defaults; and a start enables all DPM states, which nothing restores.
* A pwm that was lost is not written again, and DPM states only when the current one is a state
  that should be disabled.
* Points of the default fan curve above a low critical temperature cannot be moved.

`ViewsInv` and `RunningInv` say what holds of the stack in spite of 2: every view is of a
profile in effect, shows its active parts, and takes the others from itself or below.

## 6. Not modelled

The text of XML, the zip format and the pictures of icons: conversions by libraries. The signatures:
a key is the name of its owner, and signing works. The detection of hardware beyond a machine's
driver, kernel and files, the sensors and graphs, which are read and shown. QML layout and logging.
The window, the settings file, and the local socket of a second instance but for the toggle it
forwards. The stop of the process monitor, its naming of Wine programs and lost kernel events. The
names and executables that `ProfileManagerUI` caches, which follow the manager in one step with it while
they are distinct, and the buttons and tray entries that two profiles of one name leave behind. An executable
called `_global_` or `_manual_`, the identifiers of the code. A commit of the
overdrive table that is refused alone: nothing in the code detects it.

## 7. Plan

1. Proofs of `PassTakesEffect` and `StartKeepsHardware` for the classes of the overdrive table, with what
   a driver promises of its tables as an assumption.
2. The restart of the helper composed with `ProcMonitor`: which programs are watched after it.
3. The sensor thread of `SysModelSyncer`, and the sensors that are ignored while a GPU sleeps.
