----------------------------- MODULE ProcMonitor -----------------------------
(***************************************************************************)
(* How the session learns that a program runs (src/helper/pmon).           *)
(*                                                                         *)
(* The kernel queues an event when a process executes a file and when it   *)
(* ends.  A thread of the helper, the monitor, takes the events one by     *)
(* one: it asks which executable the process runs, whether that one is     *)
(* registered (AppRegistry), and keeps the processes of each registered    *)
(* executable and their number (ProcessRegistry).  It signals the first    *)
(* process of an executable and the end of the last one.  The main thread  *)
(* of the helper registers and unregisters executables as the session asks *)
(* it to; each call below is a step that holds the mutex the code holds,   *)
(* and the two threads interleave between calls.  The session sends its    *)
(* requests and gets the signals over D-Bus, in order but later.           *)
(***************************************************************************)
EXTENDS Integers, FiniteSets, Sequences, Functions

CONSTANTS
  Pids,
  Exes,         \* executables the session may ask the helper to watch
  Other,        \* any other executable, and what is read of a process that has ended
  Dead,         \* no process has this PID
  Idle,         \* a thread of the helper waits for something to do
  MaxEvents,    \* bounds on the kernel's events, the requests and the signals under way
  MaxCalls,
  MaxSignals,
  MaxViews      \* bound on the views the session keeps of one profile

\* What the monitor does next, and what the session asks for.
Works == [pc : {"registered", "running", "add", "remove", "gone"}, pid : Pids, app : Exes \cup {Other}]
Requests == [op : {"watch", "forget"}, app : Exes]

ASSUME ProcMonitorAssumption ==
  /\ Other \notin Exes
  /\ Dead \notin Exes \cup {Other}
  /\ Idle \notin Works /\ Idle \notin Requests
  /\ {MaxEvents, MaxCalls, MaxSignals, MaxViews} \subseteq Nat \ {0}

VARIABLES
  proc,         \* what each process runs
  life,         \* the watchable executables each living process has run
  events,       \* the socket of the monitor
  registry,     \* AppRegistry::registry_
  main,         \* the request the main thread works on, holding regMutex_, or Idle
  appCounterReg,
  pidReg,       \* ProcessRegistry, both maps
  mon,          \* what the monitor does next: [pc, pid, app], or Idle
  wanted,       \* executables the session watches
  calls,        \* requests under way to the helper
  signals,      \* signals under way to the session
  views         \* number of views the session has of the profile for each executable

kernel  == <<proc, life, events>>
helper  == <<registry, main, appCounterReg, pidReg, mon>>
session == <<wanted, views>>
vars    == <<kernel, helper, session, calls, signals>>

Put(f, k, v) == [x \in DOMAIN f \cup {k} |-> IF x = k THEN v ELSE f[x]]

PidsOf(e) == {pid \in DOMAIN pidReg : pidReg[pid] = e}

-----------------------------------------------------------------------------
(***************************************************************************)
(* Processes                                                               *)
(***************************************************************************)

Event(type, pid) == events' = Append(events, [type |-> type, pid |-> pid])

\* A process executes x: it is new, or it was another program.
Runs(pid, x) ==
  /\ Len(events) < MaxEvents
  /\ proc' = [proc EXCEPT ![pid] = x]
  /\ life' = [life EXCEPT ![pid] = @ \cup ({x} \cap Exes)]
  /\ Event("EXEC", pid)
  /\ UNCHANGED <<helper, session, calls, signals>>

\* A PID is used again after the events of the process that had it have been taken.
Unused(pid) == proc[pid] = Dead => \A i \in DOMAIN events : events[i].pid # pid

\* A launcher may execute a watched program; and that one anything but another watched one.
Exec(pid, x) ==
  /\ x \in Exes => life[pid] \subseteq {x}
  /\ Unused(pid)
  /\ Runs(pid, x)

\* One watched program replaces another in the same process.
ExecOther(pid, x) ==
  /\ x \in Exes /\ ~(life[pid] \subseteq {x})
  /\ Runs(pid, x)

\* A process gets a PID whose last events still wait for the monitor.
ReusePid(pid, x) == ~Unused(pid) /\ Runs(pid, x)

Exit(pid) ==
  /\ proc[pid] # Dead
  /\ Len(events) < MaxEvents
  /\ proc' = [proc EXCEPT ![pid] = Dead]
  /\ life' = [life EXCEPT ![pid] = {}]
  /\ Event("EXIT", pid)
  /\ UNCHANGED <<helper, session, calls, signals>>

-----------------------------------------------------------------------------
(***************************************************************************)
(* The monitor.  Each step is one call on a registry, under its mutex.     *)
(***************************************************************************)

\* IPIDSolver::app
App(pid) == IF proc[pid] \in Exes THEN proc[pid] ELSE Other

\* Mutant of Running: an executable with a counter runs.
RunningAtZero(e) == e \in DOMAIN appCounterReg /\ appCounterReg[e] >= 0

\* ProcessRegistry::running
Running(e) == e \in DOMAIN appCounterReg /\ appCounterReg[e] > 0

\* Mutant of Counted: the end of a process is not counted.
CountedDown(e, d) == IF d < 0 THEN appCounterReg ELSE [appCounterReg EXCEPT ![e] = @ + d]

\* The counter of e, when it has one, changes by d.
Counted(e, d) == [appCounterReg EXCEPT ![e] = @ + d]

Send(kind, e) == signals' = Append(signals, [kind |-> kind, app |-> e])

\* waitForEvent, and the first call of processExec or processExit: pidSolver_->app, findApp.
Take ==
  /\ mon = Idle /\ events # <<>> /\ Len(signals) < MaxSignals
  /\ events' = Tail(events)
  /\ LET pid == Head(events).pid
     IN  mon' = CASE Head(events).type = "EXEC" -> [pc |-> "registered", pid |-> pid, app |-> App(pid)]
                  [] Head(events).type = "EXIT" /\ pid \in DOMAIN pidReg ->
                       [pc |-> "remove", pid |-> pid, app |-> pidReg[pid]]
                  [] OTHER -> Idle
  /\ UNCHANGED <<proc, life, registry, main, appCounterReg, pidReg, session, calls, signals>>

At(pc) == mon # Idle /\ mon.pc = pc
Goto(pc) == mon' = [mon EXCEPT !.pc = pc]

\* appRegistry_->registered, which waits for regMutex_.
Registered ==
  /\ At("registered") /\ main = Idle
  /\ IF mon.app \in registry THEN Goto("running") ELSE mon' = Idle
  /\ UNCHANGED <<kernel, registry, main, appCounterReg, pidReg, session, calls, signals>>

\* Mutant of SendExec: every process is signalled.
SendAnyExec ==
  /\ At("running")
  /\ Send("exec", mon.app)
  /\ Goto("add")
  /\ UNCHANGED <<kernel, registry, main, appCounterReg, pidReg, session, calls>>

\* procRegistry_->running, and sendExec for the first process.
SendExec ==
  /\ At("running")
  /\ IF Running(mon.app) THEN UNCHANGED signals ELSE Send("exec", mon.app)
  /\ Goto("add")
  /\ UNCHANGED <<kernel, registry, main, appCounterReg, pidReg, session, calls>>

\* procRegistry_->add: nothing when the PID is known.
Add ==
  /\ At("add")
  /\ IF mon.pid \in DOMAIN pidReg
       THEN UNCHANGED <<pidReg, appCounterReg>>
       ELSE /\ pidReg' = Put(pidReg, mon.pid, mon.app)
            /\ appCounterReg' = IF mon.app \in DOMAIN appCounterReg THEN Counted(mon.app, 1) ELSE appCounterReg
  /\ mon' = Idle
  /\ UNCHANGED <<kernel, registry, main, session, calls, signals>>

\* Mutant of Remove: the PID stays known.
RemoveCounter ==
  /\ At("remove")
  /\ appCounterReg' = IF mon.app \in DOMAIN appCounterReg THEN Counted(mon.app, -1) ELSE appCounterReg
  /\ Goto("gone")
  /\ UNCHANGED <<kernel, registry, main, pidReg, session, calls, signals>>

\* procRegistry_->remove: nothing when the PID was unregistered meanwhile.
Remove ==
  /\ At("remove")
  /\ IF mon.pid \notin DOMAIN pidReg
       THEN UNCHANGED <<pidReg, appCounterReg>>
       ELSE LET e == pidReg[mon.pid]
            IN  /\ pidReg' = Restrict(pidReg, DOMAIN pidReg \ {mon.pid})
                /\ appCounterReg' = IF e \in DOMAIN appCounterReg THEN Counted(e, -1) ELSE appCounterReg
  /\ Goto("gone")
  /\ UNCHANGED <<kernel, registry, main, session, calls, signals>>

\* Mutant of SendExit: the end of any process is signalled.
SendAnyExit ==
  /\ At("gone")
  /\ Send("exit", mon.app)
  /\ mon' = Idle
  /\ UNCHANGED <<kernel, registry, main, appCounterReg, pidReg, session, calls>>

\* procRegistry_->running, and sendExit after the last process.
SendExit ==
  /\ At("gone")
  /\ IF Running(mon.app) THEN UNCHANGED signals ELSE Send("exit", mon.app)
  /\ mon' = Idle
  /\ UNCHANGED <<kernel, registry, main, appCounterReg, pidReg, session, calls>>

Monitor == Take \/ Registered \/ SendExec \/ Add \/ Remove \/ SendExit

-----------------------------------------------------------------------------
(***************************************************************************)
(* The main thread of the helper.  AppRegistry notifies ProcessRegistry    *)
(* while it holds regMutex_, which makes two steps of each request.        *)
(***************************************************************************)

\* AppRegistry::add, and remove when the executable is registered.
Begin(op) ==
  /\ main = Idle /\ calls # <<>> /\ Head(calls).op = op
  /\ LET e == Head(calls).app
     IN  /\ registry' = IF op = "watch" THEN registry \cup {e} ELSE registry \ {e}
         /\ main' = IF op = "watch" \/ e \in registry THEN Head(calls) ELSE Idle
  /\ calls' = Tail(calls)
  /\ UNCHANGED <<kernel, appCounterReg, pidReg, mon, session, signals>>

\* The monitor is past registered(e) and has not registered the process yet.
InExec(e) == mon # Idle /\ mon.app = e /\ mon.pc \in {"running", "add"}

BeginWatch == Begin("watch")

BeginForget == calls # <<>> /\ ~InExec(Head(calls).app) /\ Begin("forget")

\* The executable is unregistered while the monitor handles an event for it.
BeginForgetInExec == calls # <<>> /\ InExec(Head(calls).app) /\ Begin("forget")

\* ProcessRegistry::registeredApp, which keeps a counter that is there.
EndWatch ==
  /\ main # Idle /\ main.op = "watch"
  /\ appCounterReg' = IF main.app \in DOMAIN appCounterReg THEN appCounterReg ELSE Put(appCounterReg, main.app, 0)
  /\ main' = Idle
  /\ UNCHANGED <<kernel, registry, pidReg, mon, session, calls, signals>>

\* ProcessRegistry::unregisteredApp.
EndForget ==
  /\ main # Idle /\ main.op = "forget"
  /\ pidReg' = Restrict(pidReg, DOMAIN pidReg \ PidsOf(main.app))
  /\ appCounterReg' = Restrict(appCounterReg, DOMAIN appCounterReg \ {main.app})
  /\ main' = Idle
  /\ UNCHANGED <<kernel, registry, mon, session, calls, signals>>

-----------------------------------------------------------------------------
(***************************************************************************)
(* The session: it asks for executables when their profiles are added,     *)
(* enabled, disabled or removed, and stacks a view on each appExec.        *)
(***************************************************************************)

Request(op, e) ==
  /\ Len(calls) < MaxCalls
  /\ calls' = Append(calls, [op |-> op, app |-> e])

\* Nothing of an earlier watch of e is under way.
Settled(e) ==
  /\ \A i \in DOMAIN calls : calls[i].app # e
  /\ ~(main # Idle /\ main.app = e)
  /\ ~(mon # Idle /\ mon.app = e)
  /\ \A i \in DOMAIN signals : signals[i].app # e

WatchApp(e) ==
  /\ e \notin wanted
  /\ wanted' = wanted \cup {e}
  /\ Request("watch", e)
  /\ UNCHANGED <<kernel, helper, signals, views>>

\* The executable is watched for the first time, or again after some time.
Watch(e) == Settled(e) /\ WatchApp(e)

\* The user disables and enables a profile while the program starts or ends.
WatchAgain(e) == ~Settled(e) /\ WatchApp(e)

Unstacked(e) == [views EXCEPT ![e] = IF @ = 0 THEN 0 ELSE @ - 1]

\* Mutant of Forget: the view stays.
ForgetSilently(e) ==
  /\ e \in wanted
  /\ wanted' = wanted \ {e}
  /\ Request("forget", e)
  /\ UNCHANGED <<kernel, helper, signals, views>>

Forget(e) ==
  /\ e \in wanted
  /\ wanted' = wanted \ {e}
  /\ views' = Unstacked(e)
  /\ Request("forget", e)
  /\ UNCHANGED <<kernel, helper, signals>>

\* appExec, appExit: a signal about an executable that is not watched any more does nothing.
Deliver ==
  /\ signals # <<>>
  /\ LET s == Head(signals)
     IN  \/ /\ s.app \in wanted /\ s.kind = "exec" /\ views[s.app] < MaxViews
            /\ views' = [views EXCEPT ![s.app] = @ + 1]
         \/ /\ s.app \in wanted /\ s.kind = "exit"
            /\ views' = Unstacked(s.app)
         \/ /\ s.app \notin wanted
            /\ UNCHANGED views
  /\ signals' = Tail(signals)
  /\ UNCHANGED <<kernel, helper, wanted, calls>>

-----------------------------------------------------------------------------
Init ==
  /\ proc = [pid \in Pids |-> Dead]
  /\ life = [pid \in Pids |-> {}]
  /\ events = <<>>
  /\ registry = {}
  /\ main = Idle
  /\ appCounterReg = <<>>
  /\ pidReg = <<>>
  /\ mon = Idle
  /\ wanted = {}
  /\ calls = <<>>
  /\ signals = <<>>
  /\ views = [e \in Exes |-> 0]

Processes == \E pid \in Pids : Exit(pid) \/ \E x \in Exes \cup {Other} : Exec(pid, x)
Helper == Monitor \/ BeginWatch \/ BeginForget \/ EndWatch \/ EndForget
Session == Deliver \/ \E e \in Exes : Watch(e) \/ Forget(e)

\* Processes run one watched program in their life, PIDs are not used again at once, and the user
\* does not edit a profile while its program starts or ends.
Next == Processes \/ Helper \/ Session

\* A process may run several watched programs.
NextChain == Next \/ \E pid \in Pids, x \in Exes : ExecOther(pid, x)

\* The user edits profiles at any time.
NextEdits == Next \/ BeginForgetInExec \/ \E e \in Exes : WatchAgain(e)

\* All of this, and PIDs used again at once.
NextAny == NextChain \/ NextEdits \/ \E pid \in Pids, x \in Exes \cup {Other} : ReusePid(pid, x)

\* The threads run, and the bus delivers.
Fairness ==
  /\ WF_vars(Monitor)
  /\ WF_vars(BeginWatch \/ BeginForget \/ EndWatch \/ EndForget)
  /\ WF_vars(Deliver)

Spec == Init /\ [][Next]_vars /\ Fairness
SpecChain == Init /\ [][NextChain]_vars
SpecAny == Init /\ [][NextAny]_vars

-----------------------------------------------------------------------------
(***************************************************************************)
(* Properties                                                              *)
(***************************************************************************)

\* However processes and requests interleave, an executable is never believed to run without
\* a process that could end it: the counter has no more than the known processes.
NoPhantom == \A e \in DOMAIN appCounterReg : appCounterReg[e] <= Cardinality(PidsOf(e))

\* However processes and requests interleave, a known PID is that of a living process that ran
\* the executable, or its end is still to be handled: the registry does not fill with dead
\* processes, and a PID used again is not taken for the old one.
NoLeak == \A pid \in DOMAIN pidReg :
  \/ pidReg[pid] \in life[pid]
  \/ \E i \in DOMAIN events : events[i] = [type |-> "EXIT", pid |-> pid]
  \/ At("remove") /\ mon.pid = pid

\* The session never gets a second appExec for a program before its appExit, which it would
\* stack as a second view of the same profile (session.cpp:421).
SingleView == \A e \in Exes : views[e] <= 1

Quiet == events = <<>> /\ mon = Idle /\ main = Idle /\ calls = <<>> /\ signals = <<>>

\* Once everything under way has arrived, the session has the view of a profile exactly when
\* the helper knows a process of its executable.
ViewsMatch == Quiet => \A e \in Exes : views[e] > 0 <=> PidsOf(e) # {}

\* A profile is in effect only during the execution of its program (README.md:7, "during one
\* specific program execution"): once everything under way has arrived, a view means that a
\* process that ran the executable is alive.
LeavesWithProgram ==
  Quiet => \A e \in Exes : views[e] > 0 => \E pid \in Pids : e \in life[pid]

Launched(pid, e) ==
  /\ proc[pid] = e /\ e \in registry
  /\ \E i \in DOMAIN events : events[i] = [type |-> "EXEC", pid |-> pid]

\* A program that is launched while it is registered gets its profile applied, unless it ends
\* or is forgotten before.
LaunchNoticed == \A pid \in Pids, e \in Exes :
  Launched(pid, e) ~> (views[e] > 0 \/ proc[pid] # e \/ e \notin wanted)

\* When the last process of a program ends for good its profile leaves for good.
EndNoticed == \A e \in Exes :
  <>[](\A pid \in Pids : e \notin life[pid]) => <>[](views[e] = 0)
=============================================================================
