--------------------------- MODULE ProcMonitorProofs ---------------------------
(***************************************************************************)
(* The process monitor, proved for any processes, executables and bounds.  *)
(* Whatever the processes and the user do, the registries of the helper    *)
(* neither believe in a process that does not run nor keep one that has    *)
(* ended.  When the processes and the user behave, the session has a view  *)
(* of a profile exactly while its program runs.                            *)
(***************************************************************************)
EXTENDS ProcMonitor, FiniteSetTheorems, TLAPS

USE ProcMonitorAssumption

(***************************************************************************)
(* The state has its types; each thread works on what it may.              *)
(***************************************************************************)
Events == [type : {"EXEC", "EXIT"}, pid : Pids]
Signals == [kind : {"exec", "exit"}, app : Exes]

ProcType ==
  /\ proc \in [Pids -> Exes \cup {Other, Dead}]
  /\ life \in [Pids -> SUBSET Exes]
  /\ events \in Seq(Events)

HelperType ==
  /\ registry \subseteq Exes
  /\ main \in Requests \cup {Idle}
  /\ DOMAIN appCounterReg \subseteq Exes /\ appCounterReg \in [DOMAIN appCounterReg -> Int]
  /\ DOMAIN pidReg \subseteq Pids /\ pidReg \in [DOMAIN pidReg -> Exes]
  /\ IsFiniteSet(DOMAIN pidReg)
  /\ mon \in Works \cup {Idle}
  /\ mon # Idle => mon.app \in Exes \/ mon.pc = "registered"

SessionType ==
  /\ wanted \subseteq Exes
  /\ calls \in Seq(Requests)
  /\ signals \in Seq(Signals)
  /\ views \in [Exes -> Nat]

TypeOK == ProcType /\ HelperType /\ SessionType

\* The end of the process has yet to be taken.
ExitPending(pid) == \E i \in DOMAIN events : events[i] = [type |-> "EXIT", pid |-> pid]

\* What a process runs it has run.
LifeInv == \A pid \in Pids : proc[pid] \in Exes => proc[pid] \in life[pid]

\* The monitor adds a process.
Adding == mon # Idle /\ mon.pc \in {"registered", "running", "add"}

\* The process that is about to be added is alive, or its end is still to come.
AddInv == Adding /\ mon.app \in Exes => mon.app \in life[mon.pid] \/ ExitPending(mon.pid)

AnyInv == TypeOK /\ LifeInv /\ AddInv /\ NoLeak /\ NoPhantom

(***************************************************************************)
(* When the processes and the user behave.                                 *)
(***************************************************************************)
\* A process has run one watched program, and none after its end.
OneProgram == \A pid \in Pids :
  /\ \A x, y \in life[pid] : x = y
  /\ ExitPending(pid) => proc[pid] = Dead

\* A process that is added again runs what it ran.
SameProgram == Adding /\ mon.app \in Exes /\ mon.pid \in DOMAIN pidReg => pidReg[mon.pid] = mon.app

OnMain(op, e) == main # Idle /\ main.op = op /\ main.app = e
Called(op, e) == \E i \in DOMAIN calls : calls[i] = [op |-> op, app |-> e]

\* At most a watch and then a forget are under way for an executable, and the registry will have
\* it when they have arrived exactly when the session wants it.
CallsInv == \A e \in Exes :
  /\ \A i, j \in DOMAIN calls :
       calls[i].app = e /\ calls[j].app = e /\ i < j => calls[i].op = "watch" /\ calls[j].op = "forget"
  /\ e \in wanted => ~Called("forget", e) /\ (Called("watch", e) \/ e \in registry)
  /\ Called("watch", e) => e \notin registry /\ (main # Idle => main.app # e)
  /\ Called("forget", e) => Called("watch", e) \/ e \in registry
  /\ Called("watch", e) \/ e \in registry => e \in wanted \/ Called("forget", e)

\* The observer of the registry has been told, but for what the main thread works on.
CountersInv == \A e \in Exes :
  /\ OnMain("watch", e) => e \in registry /\ e \notin DOMAIN appCounterReg
  /\ OnMain("forget", e) => e \notin registry /\ e \notin wanted /\ e \in DOMAIN appCounterReg
  /\ main = Idle \/ main.app # e => (e \in registry <=> e \in DOMAIN appCounterReg)
  /\ IF e \in DOMAIN appCounterReg THEN appCounterReg[e] = Cardinality(PidsOf(e)) ELSE PidsOf(e) = {}
  /\ InExec(e) => e \in registry /\ e \in DOMAIN appCounterReg

\* The process whose end is handled is known as long as its executable is wanted.
RemoveInv == At("remove") =>
  /\ mon.pid \in DOMAIN pidReg => pidReg[mon.pid] = mon.app
  /\ mon.app \in wanted => mon.pid \in DOMAIN pidReg

\* What the monitor has said of e to the session.
Told(e) == Running(e) \/ (At("add") /\ mon.app = e) \/ (At("gone") /\ mon.app = e)

\* The i-th signal is the first of e, the last of e, or comes before the j-th of e.
About(i, e) == i \in DOMAIN signals /\ signals[i].app = e
FirstOf(i, e) == About(i, e) /\ \A k \in DOMAIN signals : k < i => signals[k].app # e
LastOf(i, e) == About(i, e) /\ \A k \in DOMAIN signals : k > i => signals[k].app # e
Follows(i, j, e) ==
  /\ About(i, e) /\ About(j, e) /\ i < j
  /\ \A k \in DOMAIN signals : i < k /\ k < j => signals[k].app # e
Says(i, b) == signals[i].kind = IF b THEN "exec" ELSE "exit"

\* Appearances and ends of e take turns from the view the session has to what the monitor has said.
Turns(e) ==
  /\ views[e] \in {0, 1}
  /\ \A i \in DOMAIN signals : FirstOf(i, e) => Says(i, views[e] = 0)
  /\ \A i \in DOMAIN signals : LastOf(i, e) => Says(i, Told(e))
  /\ \A i, j \in DOMAIN signals : Follows(i, j, e) => signals[i].kind # signals[j].kind
  /\ (\A i \in DOMAIN signals : signals[i].app # e) => (views[e] = 1 <=> Told(e))

TurnsInv == \A e \in Exes : IF e \in wanted THEN Turns(e) ELSE views[e] = 0

Behaved == OneProgram /\ SameProgram /\ CallsInv /\ CountersInv /\ RemoveInv /\ TurnsInv

IInv == AnyInv /\ Behaved

(***************************************************************************)
(* Sequences, records and tables                                           *)
(***************************************************************************)

LEMMA AppendFacts ==
  ASSUME NEW T, NEW s \in Seq(T), NEW x \in T
  PROVE  /\ Append(s, x) \in Seq(T)
         /\ DOMAIN s = 1..Len(s) /\ DOMAIN Append(s, x) = 1..(Len(s) + 1) /\ Len(s) \in Nat
         /\ \A i \in DOMAIN s : Append(s, x)[i] = s[i]
         /\ Append(s, x)[Len(s) + 1] = x
OBVIOUS

LEMMA TailFacts ==
  ASSUME NEW T, NEW s \in Seq(T), s # <<>>
  PROVE  /\ Tail(s) \in Seq(T)
         /\ Len(s) \in Nat \ {0}
         /\ DOMAIN s = 1..Len(s) /\ DOMAIN Tail(s) = 1..(Len(s) - 1)
         /\ \A i \in DOMAIN Tail(s) : i + 1 \in DOMAIN s /\ Tail(s)[i] = s[i + 1]
         /\ 1 \in DOMAIN s /\ Head(s) = s[1] /\ Head(s) \in T
OBVIOUS

\* An appended event keeps those that wait, and a taken one leaves the others.
LEMMA EventFacts ==
  ASSUME events \in Seq(Events), NEW type \in {"EXEC", "EXIT"}, NEW pid \in Pids, Event(type, pid)
  PROVE  /\ events' \in Seq(Events)
         /\ \A q \in Pids : ExitPending(q) => ExitPending(q)'
         /\ type = "EXIT" => ExitPending(pid)'
         /\ \A q \in Pids : ExitPending(q)' => ExitPending(q) \/ (type = "EXIT" /\ q = pid)
<1> DEFINE x == [type |-> type, pid |-> pid]
<1>1. x \in Events /\ events' = Append(events, x)
  BY DEF Events, Event
<1>2. x.type = type /\ x.pid = pid
  OBVIOUS
<1>3. \A q \in Pids : x = [type |-> "EXIT", pid |-> q] <=> type = "EXIT" /\ q = pid
  OBVIOUS
<1> HIDE DEF x
<1>4. /\ events' \in Seq(Events)
      /\ DOMAIN events = 1..Len(events) /\ DOMAIN events' = 1..(Len(events) + 1) /\ Len(events) \in Nat
      /\ \A i \in DOMAIN events : events'[i] = events[i]
      /\ events'[Len(events) + 1] = x
  BY <1>1, AppendFacts
<1>5. \A q \in Pids : ExitPending(q) => ExitPending(q)'
  BY <1>4 DEF ExitPending
<1>6. type = "EXIT" => ExitPending(pid)'
  BY <1>3, <1>4 DEF ExitPending
<1>7. \A q \in Pids : ExitPending(q)' => ExitPending(q) \/ (type = "EXIT" /\ q = pid)
  <2> SUFFICES ASSUME NEW q \in Pids, ExitPending(q)', ~(type = "EXIT" /\ q = pid) PROVE ExitPending(q)
    OBVIOUS
  <2>1. PICK i \in DOMAIN events' : events'[i] = [type |-> "EXIT", pid |-> q]
    BY DEF ExitPending
  <2>2. i \in DOMAIN events
    BY <1>3, <1>4, <2>1
  <2> QED
    BY <1>4, <2>1, <2>2 DEF ExitPending
<1> QED
  BY <1>4, <1>5, <1>6, <1>7

LEMMA TakenFacts ==
  ASSUME events \in Seq(Events), events # <<>>, events' = Tail(events)
  PROVE  /\ events' \in Seq(Events)
         /\ Head(events) \in Events
         /\ Head(events).type \in {"EXEC", "EXIT"} /\ Head(events).pid \in Pids
         /\ \A q \in Pids : ExitPending(q) =>
              ExitPending(q)' \/ (Head(events).type = "EXIT" /\ Head(events).pid = q)
         /\ \A q \in Pids : ExitPending(q)' => ExitPending(q)
<1>1. /\ events' \in Seq(Events) /\ Len(events) \in Nat \ {0}
      /\ DOMAIN events = 1..Len(events) /\ DOMAIN events' = 1..(Len(events) - 1)
      /\ \A i \in DOMAIN events' : i + 1 \in DOMAIN events /\ events'[i] = events[i + 1]
      /\ Head(events) = events[1] /\ Head(events) \in Events
  BY TailFacts
<1>2. Head(events).type \in {"EXEC", "EXIT"} /\ Head(events).pid \in Pids
  BY <1>1 DEF Events
<1>3. \A q \in Pids : ExitPending(q) =>
        ExitPending(q)' \/ (Head(events).type = "EXIT" /\ Head(events).pid = q)
  <2> SUFFICES ASSUME NEW q \in Pids, ExitPending(q)
               PROVE  ExitPending(q)' \/ (Head(events).type = "EXIT" /\ Head(events).pid = q)
    OBVIOUS
  <2>1. PICK i \in DOMAIN events : events[i] = [type |-> "EXIT", pid |-> q]
    BY DEF ExitPending
  <2>2. CASE i = 1
    BY <1>1, <2>1, <2>2
  <2>3. CASE i # 1
    <3>1. i - 1 \in DOMAIN events' /\ events'[i - 1] = events[i]
      BY <1>1, <2>3
    <3> QED
      BY <2>1, <3>1 DEF ExitPending
  <2> QED
    BY <2>2, <2>3
<1>4. \A q \in Pids : ExitPending(q)' => ExitPending(q)
  BY <1>1 DEF ExitPending
<1> QED
  BY <1>1, <1>2, <1>3, <1>4

LEMMA WorkFacts ==
  /\ \A w \in Works : /\ w.pid \in Pids /\ w.app \in Exes \cup {Other}
                      /\ w.pc \in {"registered", "running", "add", "remove", "gone"}
                      /\ w # Idle
  /\ \A w \in Works, pc \in {"registered", "running", "add", "remove", "gone"} :
       LET v == [w EXCEPT !.pc = pc]
       IN  v \in Works /\ v.pc = pc /\ v.pid = w.pid /\ v.app = w.app
  /\ \A pc \in {"registered", "running", "add", "remove", "gone"}, pid \in Pids, e \in Exes \cup {Other} :
       LET v == [pc |-> pc, pid |-> pid, app |-> e]
       IN  v \in Works /\ v.pc = pc /\ v.pid = pid /\ v.app = e
BY DEF Works

LEMMA RequestFacts ==
  /\ \A r \in Requests : r.op \in {"watch", "forget"} /\ r.app \in Exes /\ r # Idle
  /\ \A op \in {"watch", "forget"}, e \in Exes :
       LET r == [op |-> op, app |-> e] IN r \in Requests /\ r.op = op /\ r.app = e
BY DEF Requests

LEMMA SignalFacts ==
  /\ \A s \in Signals : s.kind \in {"exec", "exit"} /\ s.app \in Exes
  /\ \A kind \in {"exec", "exit"}, e \in Exes :
       LET s == [kind |-> kind, app |-> e] IN s \in Signals /\ s.kind = kind /\ s.app = e
BY DEF Signals

LEMMA RestrictFacts ==
  ASSUME NEW f, NEW S
  PROVE  /\ DOMAIN Restrict(f, S) = S
         /\ \A x \in S : Restrict(f, S)[x] = f[x]
         /\ Restrict(f, S) = [x \in S |-> Restrict(f, S)[x]]
BY DEF Restrict

\* The processes of an executable when one is added or removed.
LEMMA PidsFinite ==
  ASSUME HelperType, NEW e
  PROVE  IsFiniteSet(PidsOf(e)) /\ Cardinality(PidsOf(e)) \in Nat
         /\ (Cardinality(PidsOf(e)) = 0 <=> PidsOf(e) = {})
<1>1. PidsOf(e) \subseteq DOMAIN pidReg
  BY DEF PidsOf
<1>2. IsFiniteSet(PidsOf(e))
  BY <1>1, FS_Subset DEF HelperType
<1> QED
  BY <1>2, FS_CardinalityType, FS_EmptySet

LEMMA PidAdded ==
  ASSUME HelperType, NEW pid \in Pids, pid \notin DOMAIN pidReg, NEW e \in Exes,
         pidReg' = Put(pidReg, pid, e)
  PROVE  /\ DOMAIN pidReg' = DOMAIN pidReg \cup {pid} /\ IsFiniteSet(DOMAIN pidReg')
         /\ pidReg' \in [DOMAIN pidReg' -> Exes]
         /\ pidReg'[pid] = e /\ \A q \in DOMAIN pidReg : pidReg'[q] = pidReg[q]
         /\ Cardinality(PidsOf(e)') = Cardinality(PidsOf(e)) + 1
         /\ pid \in PidsOf(e)'
         /\ \A x \in Exes \ {e} : PidsOf(x)' = PidsOf(x)
<1>1. /\ DOMAIN pidReg' = DOMAIN pidReg \cup {pid}
      /\ pidReg'[pid] = e /\ \A q \in DOMAIN pidReg : pidReg'[q] = pidReg[q]
  BY DEF Put
<1>2. pidReg' \in [DOMAIN pidReg' -> Exes]
  BY <1>1 DEF HelperType, Put
<1>3. IsFiniteSet(DOMAIN pidReg')
  BY <1>1, FS_AddElement DEF HelperType
<1>4. PidsOf(e)' = PidsOf(e) \cup {pid} /\ pid \notin PidsOf(e)
  BY <1>1 DEF PidsOf
<1>5. \A x \in Exes \ {e} : PidsOf(x)' = PidsOf(x)
  BY <1>1 DEF PidsOf
<1>6. Cardinality(PidsOf(e)') = Cardinality(PidsOf(e)) + 1
  <2>1. IsFiniteSet(PidsOf(e))
    BY PidsFinite
  <2> QED
    BY <1>4, <2>1, FS_AddElement
<1> QED
  BY <1>1, <1>2, <1>3, <1>4, <1>5, <1>6

LEMMA PidRemoved ==
  ASSUME HelperType, NEW pid \in DOMAIN pidReg, NEW e, e = pidReg[pid],
         pidReg' = Restrict(pidReg, DOMAIN pidReg \ {pid})
  PROVE  /\ DOMAIN pidReg' = DOMAIN pidReg \ {pid} /\ IsFiniteSet(DOMAIN pidReg')
         /\ pidReg' \in [DOMAIN pidReg' -> Exes]
         /\ \A q \in DOMAIN pidReg' : pidReg'[q] = pidReg[q]
         /\ Cardinality(PidsOf(e)') = Cardinality(PidsOf(e)) - 1
         /\ pid \in PidsOf(e)
         /\ \A x \in Exes \ {e} : PidsOf(x)' = PidsOf(x)
<1>1. /\ DOMAIN pidReg' = DOMAIN pidReg \ {pid}
      /\ \A q \in DOMAIN pidReg' : pidReg'[q] = pidReg[q]
      /\ pidReg' = [q \in DOMAIN pidReg' |-> pidReg'[q]]
  BY RestrictFacts
<1>2. pidReg' \in [DOMAIN pidReg' -> Exes]
  BY <1>1 DEF HelperType
<1>3. IsFiniteSet(DOMAIN pidReg')
  BY <1>1, FS_RemoveElement DEF HelperType
<1>4. PidsOf(e)' = PidsOf(e) \ {pid} /\ pid \in PidsOf(e)
  BY <1>1 DEF PidsOf
<1>5. \A x \in Exes \ {e} : PidsOf(x)' = PidsOf(x)
  BY <1>1 DEF PidsOf
<1>6. Cardinality(PidsOf(e)') = Cardinality(PidsOf(e)) - 1
  <2>1. IsFiniteSet(PidsOf(e)) /\ Cardinality(PidsOf(e)) \in Nat
    BY PidsFinite
  <2>2. Cardinality(PidsOf(e) \ {pid}) = Cardinality(PidsOf(e)) - 1
    BY <1>4, <2>1, FS_RemoveElement
  <2> QED
    BY <1>4, <2>2
<1> QED
  BY <1>1, <1>2, <1>3, <1>4, <1>5, <1>6

LEMMA PidsErased ==
  ASSUME HelperType, NEW e, pidReg' = Restrict(pidReg, DOMAIN pidReg \ PidsOf(e))
  PROVE  /\ DOMAIN pidReg' \subseteq DOMAIN pidReg /\ IsFiniteSet(DOMAIN pidReg')
         /\ pidReg' \in [DOMAIN pidReg' -> Exes]
         /\ \A q \in DOMAIN pidReg' : pidReg'[q] = pidReg[q]
         /\ \A q \in DOMAIN pidReg : pidReg[q] # e => q \in DOMAIN pidReg'
         /\ PidsOf(e)' = {}
         /\ \A x \in Exes \ {e} : PidsOf(x)' = PidsOf(x)
<1>1. /\ DOMAIN pidReg' = DOMAIN pidReg \ PidsOf(e)
      /\ \A q \in DOMAIN pidReg' : pidReg'[q] = pidReg[q]
      /\ pidReg' = [q \in DOMAIN pidReg' |-> pidReg'[q]]
  BY RestrictFacts
<1>2. pidReg' \in [DOMAIN pidReg' -> Exes]
  BY <1>1 DEF HelperType
<1>3. IsFiniteSet(DOMAIN pidReg')
  BY <1>1, FS_Subset DEF HelperType
<1>4. PidsOf(e)' = {} /\ \A q \in DOMAIN pidReg : pidReg[q] # e => q \in DOMAIN pidReg'
  BY <1>1 DEF PidsOf
<1>5. \A x \in Exes \ {e} : PidsOf(x)' = PidsOf(x)
  BY <1>1 DEF PidsOf
<1> QED
  BY <1>1, <1>2, <1>3, <1>4, <1>5

(***************************************************************************)
(* Whatever happens, the registries of the helper are right.               *)
(***************************************************************************)

\* The registries are right about the same processes.
LEMMA RegistriesUnchanged ==
  ASSUME LifeInv, AddInv, NoLeak, NoPhantom, UNCHANGED <<kernel, appCounterReg, pidReg, mon>>
  PROVE  LifeInv' /\ AddInv' /\ NoLeak' /\ NoPhantom'
BY DEF LifeInv, AddInv, NoLeak, NoPhantom, kernel, Adding, At, ExitPending, PidsOf

LEMMA InitAny == Init => AnyInv
<1> SUFFICES ASSUME Init PROVE AnyInv
  OBVIOUS
<1>1. DOMAIN pidReg = {} /\ DOMAIN appCounterReg = {} /\ Len(events) = 0 /\ mon = Idle
  BY DEF Init
<1>2. ProcType
  BY DEF Init, ProcType
<1>3. HelperType
  <2>1. pidReg \in [DOMAIN pidReg -> Exes] /\ appCounterReg \in [DOMAIN appCounterReg -> Int]
    BY DEF Init
  <2> QED
    BY <1>1, <2>1, FS_EmptySet DEF Init, HelperType
<1>4. SessionType
  BY DEF Init, SessionType
<1>5. LifeInv
  BY DEF Init, LifeInv
<1> QED
  BY <1>1, <1>2, <1>3, <1>4, <1>5 DEF AnyInv, TypeOK, AddInv, Adding, NoLeak, NoPhantom

\* A process executes a file: its life grows, and no event is lost.
LEMMA RunsAny ==
  ASSUME AnyInv, NEW pid \in Pids, NEW x \in Exes \cup {Other}, Runs(pid, x)
  PROVE  AnyInv'
<1> USE DEF AnyInv, TypeOK
<1>1. /\ proc' = [proc EXCEPT ![pid] = x] /\ life' = [life EXCEPT ![pid] = @ \cup ({x} \cap Exes)]
      /\ Event("EXEC", pid)
      /\ UNCHANGED <<registry, main, appCounterReg, pidReg, mon, wanted, calls, signals, views>>
  BY DEF Runs, helper, session
<1>2. events' \in Seq(Events) /\ \A q \in Pids : ExitPending(q) => ExitPending(q)'
  BY <1>1, EventFacts DEF ProcType
<1>3. ProcType'
  BY <1>1, <1>2 DEF ProcType
<1>4. HelperType' /\ SessionType'
  BY <1>1 DEF HelperType, SessionType
<1>5. \A q \in Pids : life[q] \subseteq life'[q]
  BY <1>1 DEF ProcType
<1>6. LifeInv'
  BY <1>1 DEF ProcType, LifeInv
<1>7. AddInv'
  <2>1. mon # Idle => mon.pid \in Pids
    BY WorkFacts DEF HelperType
  <2> QED
    BY <1>1, <1>2, <1>5, <2>1 DEF AddInv, Adding
<1>8. NoLeak'
  <2> SUFFICES ASSUME NEW q \in DOMAIN pidReg
               PROVE  pidReg[q] \in life'[q] \/ ExitPending(q)' \/ (At("remove") /\ mon.pid = q)
    BY <1>1 DEF NoLeak, ExitPending, At
  <2>1. pidReg[q] \in life[q] \/ ExitPending(q) \/ (At("remove") /\ mon.pid = q)
    BY DEF NoLeak, ExitPending
  <2> QED
    BY <1>2, <1>5, <2>1 DEF HelperType
<1>9. NoPhantom'
  BY <1>1 DEF NoPhantom, PidsOf
<1> QED
  BY <1>3, <1>4, <1>6, <1>7, <1>8, <1>9

\* A process ends: the event that says so waits for the monitor.
LEMMA ExitAny ==
  ASSUME AnyInv, NEW pid \in Pids, Exit(pid)
  PROVE  AnyInv'
<1> USE DEF AnyInv, TypeOK
<1>1. /\ proc' = [proc EXCEPT ![pid] = Dead] /\ life' = [life EXCEPT ![pid] = {}]
      /\ Event("EXIT", pid)
      /\ UNCHANGED <<registry, main, appCounterReg, pidReg, mon, wanted, calls, signals, views>>
  BY DEF Exit, helper, session
<1>2. /\ events' \in Seq(Events) /\ \A q \in Pids : ExitPending(q) => ExitPending(q)'
      /\ ExitPending(pid)'
  BY <1>1, EventFacts DEF ProcType
<1>3. ProcType'
  BY <1>1, <1>2 DEF ProcType
<1>4. HelperType' /\ SessionType'
  BY <1>1 DEF HelperType, SessionType
<1>5. \A q \in Pids : life[q] \subseteq life'[q] \/ ExitPending(q)'
  BY <1>1, <1>2 DEF ProcType
<1>6. LifeInv'
  BY <1>1 DEF ProcType, LifeInv
<1>7. AddInv'
  <2>1. mon # Idle => mon.pid \in Pids
    BY WorkFacts DEF HelperType
  <2> QED
    BY <1>1, <1>2, <1>5, <2>1 DEF AddInv, Adding
<1>8. NoLeak'
  <2> SUFFICES ASSUME NEW q \in DOMAIN pidReg
               PROVE  pidReg[q] \in life'[q] \/ ExitPending(q)' \/ (At("remove") /\ mon.pid = q)
    BY <1>1 DEF NoLeak, ExitPending, At
  <2>1. pidReg[q] \in life[q] \/ ExitPending(q) \/ (At("remove") /\ mon.pid = q)
    BY DEF NoLeak, ExitPending
  <2> QED
    BY <1>2, <1>5, <2>1 DEF HelperType
<1>9. NoPhantom'
  BY <1>1 DEF NoPhantom, PidsOf
<1> QED
  BY <1>3, <1>4, <1>6, <1>7, <1>8, <1>9

\* The monitor takes an event: it asks what the process runs now, or finds what it ran.
LEMMA TakeAny == AnyInv /\ Take => AnyInv'
<1> USE DEF AnyInv, TypeOK
<1> DEFINE pid == Head(events).pid
           type == Head(events).type
<1> SUFFICES ASSUME AnyInv, Take PROVE AnyInv'
  OBVIOUS
<1>1. /\ mon = Idle /\ events # <<>> /\ events' = Tail(events)
      /\ UNCHANGED <<proc, life, registry, main, appCounterReg, pidReg, wanted, calls, signals, views>>
  BY DEF Take, session
<1>2. /\ events' \in Seq(Events) /\ type \in {"EXEC", "EXIT"} /\ pid \in Pids
      /\ \A q \in Pids : ExitPending(q) => ExitPending(q)' \/ (type = "EXIT" /\ pid = q)
  BY <1>1, TakenFacts DEF ProcType
<1>3. \/ type = "EXEC" /\ mon' = [pc |-> "registered", pid |-> pid, app |-> App(pid)]
      \/ /\ type = "EXIT" /\ pid \in DOMAIN pidReg
         /\ mon' = [pc |-> "remove", pid |-> pid, app |-> pidReg[pid]]
      \/ type = "EXIT" /\ pid \notin DOMAIN pidReg /\ mon' = Idle
  BY <1>2 DEF Take
<1> HIDE DEF pid, type
<1>4. App(pid) \in Exes \cup {Other} /\ (App(pid) \in Exes => App(pid) = proc[pid])
  BY DEF App
<1>5. \/ /\ type = "EXEC" /\ mon' \in Works
         /\ mon'.pc = "registered" /\ mon'.pid = pid /\ mon'.app = App(pid)
      \/ /\ type = "EXIT" /\ mon' \in Works /\ mon'.app \in Exes
         /\ mon'.pc = "remove" /\ mon'.pid = pid
      \/ type = "EXIT" /\ pid \notin DOMAIN pidReg /\ mon' = Idle
  <2>1. CASE type = "EXEC" /\ mon' = [pc |-> "registered", pid |-> pid, app |-> App(pid)]
    BY <1>2, <1>4, <2>1, WorkFacts
  <2>2. CASE /\ type = "EXIT" /\ pid \in DOMAIN pidReg
             /\ mon' = [pc |-> "remove", pid |-> pid, app |-> pidReg[pid]]
    <3>1. pidReg[pid] \in Exes
      BY <2>2 DEF HelperType
    <3> QED
      BY <1>2, <2>2, <3>1, WorkFacts
  <2> QED
    BY <1>3, <2>1, <2>2
<1>6. ProcType' /\ SessionType'
  BY <1>1, <1>2 DEF ProcType, SessionType
<1>7. HelperType'
  BY <1>1, <1>5 DEF HelperType
<1>8. LifeInv' /\ NoPhantom'
  BY <1>1 DEF LifeInv, NoPhantom, PidsOf
<1>9. AddInv'
  BY <1>1, <1>2, <1>4, <1>5, WorkFacts DEF AddInv, Adding, LifeInv
<1>10. NoLeak'
  <2> SUFFICES ASSUME NEW q \in DOMAIN pidReg
               PROVE  pidReg[q] \in life[q] \/ ExitPending(q)' \/ (At("remove")' /\ mon'.pid = q)
    BY <1>1 DEF NoLeak, ExitPending
  <2>1. pidReg[q] \in life[q] \/ ExitPending(q)
    BY <1>1 DEF NoLeak, ExitPending, At
  <2>2. ExitPending(q)' \/ (type = "EXIT" /\ pid = q) \/ pidReg[q] \in life[q]
    BY <1>2, <2>1 DEF HelperType
  <2>3. type = "EXIT" /\ pid = q => At("remove")' /\ mon'.pid = q
    BY <1>5, WorkFacts DEF At
  <2> QED
    BY <2>2, <2>3
<1> QED
  BY <1>6, <1>7, <1>8, <1>9, <1>10

\* The monitor goes on with what it works on.
LEMMA GotoFacts ==
  ASSUME HelperType, NEW at, At(at), NEW pc \in {"registered", "running", "add", "remove", "gone"}, Goto(pc)
  PROVE  /\ mon \in Works /\ mon.pid \in Pids /\ mon.pc = at
         /\ mon' \in Works /\ mon'.pc = pc /\ mon'.pid = mon.pid /\ mon'.app = mon.app
         /\ mon' # Idle
<1>1. mon \in Works /\ mon.pc = at /\ mon.pid \in Pids
  BY WorkFacts DEF At, HelperType
<1>2. mon' = [mon EXCEPT !.pc = pc]
  BY DEF Goto
<1>3. mon' \in Works /\ mon'.pc = pc /\ mon'.pid = mon.pid /\ mon'.app = mon.app
  BY <1>1, <1>2 DEF Works
<1> QED
  BY <1>1, <1>3, WorkFacts

LEMMA SendFacts ==
  ASSUME SessionType, NEW kind \in {"exec", "exit"}, NEW e \in Exes, Send(kind, e)
  PROVE  /\ signals' \in Seq(Signals)
         /\ DOMAIN signals = 1..Len(signals) /\ DOMAIN signals' = 1..(Len(signals) + 1)
         /\ Len(signals) \in Nat
         /\ \A i \in DOMAIN signals : signals'[i] = signals[i]
         /\ signals'[Len(signals) + 1].kind = kind /\ signals'[Len(signals) + 1].app = e
<1> DEFINE s == [kind |-> kind, app |-> e]
<1>1. s \in Signals /\ s.kind = kind /\ s.app = e /\ signals' = Append(signals, s)
  BY SignalFacts DEF Send
<1> HIDE DEF s
<1> QED
  BY <1>1, AppendFacts DEF SessionType

\* A step that only moves the monitor to where nothing is known of its process.
LEMMA MonitorMoved ==
  ASSUME LifeInv, AddInv, NoLeak, NoPhantom, UNCHANGED <<kernel, appCounterReg, pidReg>>,
         ~At("remove"), AddInv'
  PROVE  LifeInv' /\ AddInv' /\ NoLeak' /\ NoPhantom'
BY DEF LifeInv, NoLeak, NoPhantom, kernel, At, PidsOf

LEMMA RegisteredAny == AnyInv /\ Registered => AnyInv'
<1> USE DEF AnyInv, TypeOK
<1> SUFFICES ASSUME AnyInv, Registered PROVE AnyInv'
  OBVIOUS
<1>1. /\ At("registered")
      /\ UNCHANGED <<kernel, registry, main, appCounterReg, pidReg, wanted, calls, signals, views>>
      /\ (mon.app \in registry /\ Goto("running")) \/ mon' = Idle
  BY DEF Registered, session
<1>2. ProcType' /\ SessionType'
  BY <1>1 DEF ProcType, SessionType, kernel
<1>3. \/ /\ mon' \in Works /\ mon'.pc = "running" /\ mon'.pid = mon.pid /\ mon'.app = mon.app
         /\ mon.app \in Exes /\ mon # Idle /\ mon.pc = "registered"
      \/ mon' = Idle
  BY <1>1, GotoFacts DEF At, HelperType
<1>4. HelperType'
  BY <1>1, <1>3 DEF HelperType
<1>5. AddInv'
  BY <1>1, <1>3 DEF AddInv, Adding, kernel, ExitPending
<1>6. LifeInv' /\ AddInv' /\ NoLeak' /\ NoPhantom'
  BY <1>1, <1>5, MonitorMoved DEF At
<1> QED
  BY <1>2, <1>4, <1>6

LEMMA SendExecAny == AnyInv /\ SendExec => AnyInv'
<1> USE DEF AnyInv, TypeOK
<1> SUFFICES ASSUME AnyInv, SendExec PROVE AnyInv'
  OBVIOUS
<1>1. /\ At("running") /\ Goto("add")
      /\ UNCHANGED <<kernel, registry, main, appCounterReg, pidReg, wanted, calls, views>>
      /\ signals' = signals \/ Send("exec", mon.app)
  BY DEF SendExec, session
<1>2. /\ mon \in Works /\ mon.pc = "running" /\ mon # Idle
      /\ mon' \in Works /\ mon'.pc = "add" /\ mon'.pid = mon.pid /\ mon'.app = mon.app
  BY <1>1, GotoFacts DEF At
<1>3. mon.app \in Exes
  BY <1>2 DEF HelperType
<1>4. signals' \in Seq(Signals)
  BY <1>1, <1>3, SendFacts DEF SessionType
<1>5. ProcType' /\ HelperType' /\ SessionType'
  BY <1>1, <1>2, <1>3, <1>4 DEF ProcType, HelperType, SessionType, kernel
<1>6. AddInv'
  BY <1>1, <1>2 DEF AddInv, Adding, kernel, ExitPending
<1>7. LifeInv' /\ AddInv' /\ NoLeak' /\ NoPhantom'
  BY <1>1, <1>2, <1>6, MonitorMoved DEF At
<1> QED
  BY <1>5, <1>7

\* A process is added: it is alive, or its end is still to come; and it is counted once.
LEMMA AddAny == AnyInv /\ Add => AnyInv'
<1> USE DEF AnyInv, TypeOK
<1> SUFFICES ASSUME AnyInv, Add PROVE AnyInv'
  OBVIOUS
<1>1. /\ mon # Idle /\ mon.pc = "add" /\ mon' = Idle
      /\ UNCHANGED <<proc, life, events, registry, main, wanted, calls, signals, views>>
  BY DEF Add, session, kernel, At
<1>2. mon.app \in Exes /\ mon.pid \in Pids
  BY <1>1, WorkFacts DEF HelperType
<1> PICK pid \in Pids, app \in Exes : pid = mon.pid /\ app = mon.app
  BY <1>2
<1>3. ProcType' /\ SessionType' /\ LifeInv' /\ AddInv'
  BY <1>1 DEF ProcType, SessionType, LifeInv, AddInv, Adding
<1>4. CASE pid \in DOMAIN pidReg
  <2>1. UNCHANGED <<pidReg, appCounterReg>>
    BY <1>4 DEF Add
  <2> QED
    BY <1>1, <1>3, <2>1 DEF HelperType, NoLeak, NoPhantom, PidsOf, At, ExitPending
<1>5. CASE pid \notin DOMAIN pidReg
  <2>1. /\ pidReg' = Put(pidReg, pid, app)
        /\ \/ app \in DOMAIN appCounterReg /\ appCounterReg' = [appCounterReg EXCEPT ![app] = @ + 1]
           \/ app \notin DOMAIN appCounterReg /\ appCounterReg' = appCounterReg
    BY <1>5 DEF Add, Counted
  <2>2. /\ DOMAIN pidReg' = DOMAIN pidReg \cup {pid} /\ IsFiniteSet(DOMAIN pidReg')
        /\ pidReg' \in [DOMAIN pidReg' -> Exes]
        /\ pidReg'[pid] = app /\ \A q \in DOMAIN pidReg : pidReg'[q] = pidReg[q]
        /\ Cardinality(PidsOf(app)') = Cardinality(PidsOf(app)) + 1
        /\ \A e \in Exes \ {app} : PidsOf(e)' = PidsOf(e)
    BY <1>2, <1>5, <2>1, PidAdded
  <2>3. /\ DOMAIN appCounterReg' = DOMAIN appCounterReg
        /\ appCounterReg' \in [DOMAIN appCounterReg' -> Int]
        /\ \A e \in DOMAIN appCounterReg \ {app} : appCounterReg'[e] = appCounterReg[e]
        /\ app \in DOMAIN appCounterReg => appCounterReg'[app] = appCounterReg[app] + 1
    BY <2>1 DEF HelperType
  <2>4. HelperType'
    BY <1>1, <1>2, <2>2, <2>3 DEF HelperType
  <2>5. NoLeak'
    <3> SUFFICES ASSUME NEW q \in DOMAIN pidReg' PROVE pidReg'[q] \in life[q] \/ ExitPending(q)
      BY <1>1 DEF NoLeak, ExitPending
    <3>1. CASE q = pid
      BY <1>1, <1>2, <2>2, <3>1 DEF AddInv, Adding
    <3>2. CASE q # pid
      BY <1>1, <2>2, <3>2 DEF NoLeak, ExitPending, At
    <3> QED
      BY <3>1, <3>2
  <2>6. NoPhantom'
    <3> SUFFICES ASSUME NEW e \in DOMAIN appCounterReg
                 PROVE  appCounterReg'[e] <= Cardinality(PidsOf(e)')
      BY <2>3 DEF NoPhantom
    <3>1. e \in Exes /\ appCounterReg[e] \in Int /\ appCounterReg[e] <= Cardinality(PidsOf(e))
      BY DEF NoPhantom, HelperType
    <3>2. Cardinality(PidsOf(e)) \in Nat
      BY PidsFinite
    <3> QED
      BY <2>2, <2>3, <3>1, <3>2
  <2> QED
    BY <1>3, <2>4, <2>5, <2>6
<1> QED
  BY <1>4, <1>5

\* A process that has ended is removed, and its executable counts one less.
LEMMA RemoveAny == AnyInv /\ Remove => AnyInv'
<1> USE DEF AnyInv, TypeOK
<1> SUFFICES ASSUME AnyInv, Remove PROVE AnyInv'
  OBVIOUS
<1>1. /\ At("remove") /\ Goto("gone")
      /\ UNCHANGED <<proc, life, events, registry, main, wanted, calls, signals, views>>
  BY DEF Remove, session, kernel
<1>2. /\ mon \in Works /\ mon.pc = "remove" /\ mon # Idle /\ mon.pid \in Pids
      /\ mon' \in Works /\ mon'.pc = "gone" /\ mon'.pid = mon.pid /\ mon'.app = mon.app /\ mon' # Idle
  BY <1>1, GotoFacts DEF At
<1>3. ProcType' /\ SessionType' /\ LifeInv' /\ AddInv'
  BY <1>1, <1>2 DEF ProcType, SessionType, LifeInv, AddInv, Adding
<1>4. mon'.app \in Exes
  BY <1>2 DEF HelperType
<1>5. CASE mon.pid \notin DOMAIN pidReg
  <2>1. UNCHANGED <<pidReg, appCounterReg>>
    BY <1>5 DEF Remove
  <2>2. HelperType' /\ NoPhantom'
    BY <1>1, <1>2, <1>4, <2>1 DEF HelperType, NoPhantom, PidsOf
  <2>3. NoLeak'
    BY <1>1, <1>2, <1>5, <2>1 DEF NoLeak, At, ExitPending
  <2> QED
    BY <1>3, <2>2, <2>3
<1>6. CASE mon.pid \in DOMAIN pidReg
  <2> PICK pid \in DOMAIN pidReg : pid = mon.pid
    BY <1>6
  <2>0. PICK e \in Exes : e = pidReg[pid]
    BY DEF HelperType
  <2>1. /\ pidReg' = Restrict(pidReg, DOMAIN pidReg \ {pid})
        /\ \/ e \in DOMAIN appCounterReg /\ appCounterReg' = [appCounterReg EXCEPT ![e] = @ + (-1)]
           \/ e \notin DOMAIN appCounterReg /\ appCounterReg' = appCounterReg
    BY <1>6, <2>0 DEF Remove, Counted
  <2>3. /\ DOMAIN pidReg' = DOMAIN pidReg \ {pid} /\ IsFiniteSet(DOMAIN pidReg')
        /\ pidReg' \in [DOMAIN pidReg' -> Exes]
        /\ \A q \in DOMAIN pidReg' : pidReg'[q] = pidReg[q]
        /\ Cardinality(PidsOf(e)') = Cardinality(PidsOf(e)) - 1
        /\ \A x \in Exes \ {e} : PidsOf(x)' = PidsOf(x)
    BY <2>0, <2>1, PidRemoved
  <2>4. /\ DOMAIN appCounterReg' = DOMAIN appCounterReg
        /\ appCounterReg' \in [DOMAIN appCounterReg' -> Int]
        /\ \A x \in DOMAIN appCounterReg \ {e} : appCounterReg'[x] = appCounterReg[x]
        /\ e \in DOMAIN appCounterReg => appCounterReg'[e] = appCounterReg[e] - 1
    BY <2>1 DEF HelperType
  <2>5. HelperType'
    BY <1>1, <1>2, <1>4, <2>3, <2>4 DEF HelperType
  <2>6. NoLeak'
    <3> SUFFICES ASSUME NEW q \in DOMAIN pidReg' PROVE pidReg'[q] \in life[q] \/ ExitPending(q)
      BY <1>1 DEF NoLeak, ExitPending
    <3> QED
      BY <1>1, <2>3 DEF NoLeak, ExitPending, At
  <2>7. NoPhantom'
    <3> SUFFICES ASSUME NEW x \in DOMAIN appCounterReg
                 PROVE  appCounterReg'[x] <= Cardinality(PidsOf(x)')
      BY <2>4 DEF NoPhantom
    <3>1. x \in Exes /\ appCounterReg[x] \in Int /\ appCounterReg[x] <= Cardinality(PidsOf(x))
      BY DEF NoPhantom, HelperType
    <3>2. Cardinality(PidsOf(x)) \in Nat
      BY PidsFinite
    <3> QED
      BY <2>3, <2>4, <3>1, <3>2
  <2> QED
    BY <1>3, <2>5, <2>6, <2>7
<1> QED
  BY <1>5, <1>6

LEMMA SendExitAny == AnyInv /\ SendExit => AnyInv'
<1> USE DEF AnyInv, TypeOK
<1> SUFFICES ASSUME AnyInv, SendExit PROVE AnyInv'
  OBVIOUS
<1>1. /\ mon # Idle /\ mon.pc = "gone" /\ mon' = Idle
      /\ UNCHANGED <<kernel, registry, main, appCounterReg, pidReg, wanted, calls, views>>
      /\ signals' = signals \/ Send("exit", mon.app)
  BY DEF SendExit, session, At
<1>2. mon.app \in Exes
  BY <1>1 DEF HelperType
<1>3. signals' \in Seq(Signals)
  BY <1>1, <1>2, SendFacts DEF SessionType
<1>4. ProcType' /\ HelperType' /\ SessionType'
  BY <1>1, <1>3 DEF ProcType, HelperType, SessionType, kernel
<1>5. AddInv'
  BY <1>1 DEF AddInv, Adding
<1>6. LifeInv' /\ AddInv' /\ NoLeak' /\ NoPhantom'
  BY <1>1, <1>5, MonitorMoved DEF At
<1> QED
  BY <1>4, <1>6

\* The main thread takes a request.
LEMMA CallTaken ==
  ASSUME SessionType, calls # <<>>, calls' = Tail(calls)
  PROVE  /\ calls' \in Seq(Requests)
         /\ Len(calls) \in Nat \ {0}
         /\ DOMAIN calls = 1..Len(calls) /\ DOMAIN calls' = 1..(Len(calls) - 1)
         /\ \A i \in DOMAIN calls' : i + 1 \in DOMAIN calls /\ calls'[i] = calls[i + 1]
         /\ 1 \in DOMAIN calls /\ Head(calls) = calls[1] /\ Head(calls) \in Requests
         /\ Head(calls).op \in {"watch", "forget"} /\ Head(calls).app \in Exes /\ Head(calls) # Idle
<1>1. /\ calls' \in Seq(Requests)
      /\ Len(calls) \in Nat \ {0}
      /\ DOMAIN calls = 1..Len(calls) /\ DOMAIN calls' = 1..(Len(calls) - 1)
      /\ \A i \in DOMAIN calls' : i + 1 \in DOMAIN calls /\ calls'[i] = calls[i + 1]
      /\ 1 \in DOMAIN calls /\ Head(calls) = calls[1] /\ Head(calls) \in Requests
  BY TailFacts DEF SessionType
<1> QED
  BY <1>1, RequestFacts

\* The session makes one.
LEMMA CallMade ==
  ASSUME SessionType, NEW op \in {"watch", "forget"}, NEW e \in Exes, Request(op, e)
  PROVE  /\ calls' \in Seq(Requests)
         /\ Len(calls) \in Nat
         /\ DOMAIN calls = 1..Len(calls) /\ DOMAIN calls' = 1..(Len(calls) + 1)
         /\ \A i \in DOMAIN calls : calls'[i] = calls[i]
         /\ calls'[Len(calls) + 1] = [op |-> op, app |-> e]
<1> DEFINE r == [op |-> op, app |-> e]
<1>1. r \in Requests /\ calls' = Append(calls, r)
  BY RequestFacts DEF Request
<1> HIDE DEF r
<1>2. /\ calls' \in Seq(Requests)
      /\ Len(calls) \in Nat
      /\ DOMAIN calls = 1..Len(calls) /\ DOMAIN calls' = 1..(Len(calls) + 1)
      /\ \A i \in DOMAIN calls : calls'[i] = calls[i]
      /\ calls'[Len(calls) + 1] = r
  BY <1>1, AppendFacts DEF SessionType
<1> QED
  BY <1>2 DEF r

LEMMA BeginAny ==
  ASSUME AnyInv, NEW op \in {"watch", "forget"}, Begin(op)
  PROVE  AnyInv'
<1> USE DEF AnyInv, TypeOK
<1>1. /\ calls # <<>> /\ calls' = Tail(calls)
      /\ UNCHANGED <<kernel, appCounterReg, pidReg, mon, wanted, views, signals>>
      /\ main' \in {Head(calls), Idle} /\ registry' \subseteq registry \cup {Head(calls).app}
  BY DEF Begin, session
<1>2. calls' \in Seq(Requests) /\ Head(calls) \in Requests /\ Head(calls).app \in Exes
  BY <1>1, CallTaken
<1>3. ProcType' /\ HelperType' /\ SessionType'
  BY <1>1, <1>2 DEF ProcType, HelperType, SessionType, kernel
<1> QED
  BY <1>1, <1>3, RegistriesUnchanged

\* An executable that is registered has no process yet.
LEMMA EndWatchAny == AnyInv /\ EndWatch => AnyInv'
<1> USE DEF AnyInv, TypeOK
<1> SUFFICES ASSUME AnyInv, EndWatch PROVE AnyInv'
  OBVIOUS
<1>1. /\ main # Idle /\ main' = Idle
      /\ UNCHANGED <<kernel, registry, pidReg, mon, wanted, views, calls, signals>>
      /\ appCounterReg' = appCounterReg \/ appCounterReg' = Put(appCounterReg, main.app, 0)
  BY DEF EndWatch, session
<1>2. main.app \in Exes
  BY <1>1, RequestFacts DEF HelperType
<1>3. /\ DOMAIN appCounterReg' \subseteq Exes
      /\ appCounterReg' \in [DOMAIN appCounterReg' -> Int]
      /\ \A e \in DOMAIN appCounterReg' :
           appCounterReg'[e] = 0 \/ (e \in DOMAIN appCounterReg /\ appCounterReg'[e] = appCounterReg[e])
  <2>1. CASE appCounterReg' = Put(appCounterReg, main.app, 0)
    BY <1>2, <2>1 DEF Put, HelperType
  <2> QED
    BY <1>1, <2>1 DEF HelperType
<1>4. ProcType' /\ HelperType' /\ SessionType'
  BY <1>1, <1>3 DEF ProcType, HelperType, SessionType, kernel
<1>5. LifeInv' /\ AddInv' /\ NoLeak'
  BY <1>1 DEF LifeInv, AddInv, NoLeak, kernel, Adding, At, ExitPending
<1>6. NoPhantom'
  <2> SUFFICES ASSUME NEW e \in DOMAIN appCounterReg'
               PROVE  appCounterReg'[e] <= Cardinality(PidsOf(e))
    BY <1>1 DEF NoPhantom, PidsOf
  <2>1. Cardinality(PidsOf(e)) \in Nat
    BY PidsFinite
  <2> QED
    BY <1>3, <2>1 DEF NoPhantom
<1> QED
  BY <1>4, <1>5, <1>6

\* An executable that is unregistered leaves neither counter nor process.
LEMMA EndForgetAny == AnyInv /\ EndForget => AnyInv'
<1> USE DEF AnyInv, TypeOK
<1> SUFFICES ASSUME AnyInv, EndForget PROVE AnyInv'
  OBVIOUS
<1>1. /\ main # Idle /\ main' = Idle
      /\ UNCHANGED <<kernel, registry, mon, wanted, views, calls, signals>>
      /\ pidReg' = Restrict(pidReg, DOMAIN pidReg \ PidsOf(main.app))
      /\ appCounterReg' = Restrict(appCounterReg, DOMAIN appCounterReg \ {main.app})
  BY DEF EndForget, session
<1> PICK app \in Exes : app = main.app
  BY <1>1, RequestFacts DEF HelperType
<1>2. /\ DOMAIN pidReg' \subseteq DOMAIN pidReg /\ IsFiniteSet(DOMAIN pidReg')
      /\ pidReg' \in [DOMAIN pidReg' -> Exes]
      /\ \A q \in DOMAIN pidReg' : pidReg'[q] = pidReg[q]
      /\ \A e \in Exes \ {app} : PidsOf(e)' = PidsOf(e)
  <2>1. pidReg' = Restrict(pidReg, DOMAIN pidReg \ PidsOf(app))
    BY <1>1
  <2> QED
    BY <2>1, PidsErased
<1>3. /\ DOMAIN appCounterReg' = DOMAIN appCounterReg \ {app}
      /\ \A e \in DOMAIN appCounterReg' : appCounterReg'[e] = appCounterReg[e]
      /\ appCounterReg' \in [DOMAIN appCounterReg' -> Int]
  BY <1>1 DEF Restrict, HelperType
<1>4. ProcType' /\ HelperType' /\ SessionType'
  BY <1>1, <1>2, <1>3 DEF ProcType, HelperType, SessionType, kernel
<1>5. LifeInv' /\ AddInv' /\ NoLeak'
  BY <1>1, <1>2 DEF LifeInv, AddInv, NoLeak, kernel, Adding, At, ExitPending
<1>6. NoPhantom'
  BY <1>2, <1>3 DEF NoPhantom, HelperType
<1> QED
  BY <1>4, <1>5, <1>6

\* What the session does is no concern of the registries.
LEMMA WatchAppAny ==
  ASSUME AnyInv, NEW e \in Exes, WatchApp(e)
  PROVE  AnyInv'
<1> USE DEF AnyInv, TypeOK
<1>1. /\ wanted' = wanted \cup {e} /\ Request("watch", e)
      /\ UNCHANGED <<kernel, registry, main, appCounterReg, pidReg, mon, signals, views>>
  BY DEF WatchApp, helper
<1>2. calls' \in Seq(Requests)
  BY <1>1, CallMade
<1>3. ProcType' /\ HelperType' /\ SessionType'
  BY <1>1, <1>2 DEF ProcType, HelperType, SessionType, kernel
<1> QED
  BY <1>1, <1>3, RegistriesUnchanged

LEMMA UnstackedFacts ==
  ASSUME SessionType, NEW e \in Exes
  PROVE  /\ Unstacked(e) \in [Exes -> Nat]
         /\ \A x \in Exes \ {e} : Unstacked(e)[x] = views[x]
         /\ views[e] \in {0, 1} => Unstacked(e)[e] = 0
BY DEF SessionType, Unstacked

LEMMA ForgetAny ==
  ASSUME AnyInv, NEW e \in Exes, Forget(e)
  PROVE  AnyInv'
<1> USE DEF AnyInv, TypeOK
<1>1. /\ wanted' = wanted \ {e} /\ Request("forget", e) /\ views' = Unstacked(e)
      /\ UNCHANGED <<kernel, registry, main, appCounterReg, pidReg, mon, signals>>
  BY DEF Forget, helper
<1>2. calls' \in Seq(Requests) /\ views' \in [Exes -> Nat]
  BY <1>1, CallMade, UnstackedFacts
<1>3. ProcType' /\ HelperType' /\ SessionType'
  BY <1>1, <1>2 DEF ProcType, HelperType, SessionType, kernel
<1> QED
  BY <1>1, <1>3, RegistriesUnchanged

\* The session gets a signal.
LEMMA SignalTaken ==
  ASSUME SessionType, signals # <<>>, signals' = Tail(signals)
  PROVE  /\ signals' \in Seq(Signals)
         /\ Len(signals) \in Nat \ {0}
         /\ DOMAIN signals = 1..Len(signals) /\ DOMAIN signals' = 1..(Len(signals) - 1)
         /\ \A i \in DOMAIN signals' : i + 1 \in DOMAIN signals /\ signals'[i] = signals[i + 1]
         /\ 1 \in DOMAIN signals /\ Head(signals) = signals[1] /\ Head(signals) \in Signals
         /\ Head(signals).app \in Exes /\ Head(signals).kind \in {"exec", "exit"}
<1>1. /\ signals' \in Seq(Signals)
      /\ Len(signals) \in Nat \ {0}
      /\ DOMAIN signals = 1..Len(signals) /\ DOMAIN signals' = 1..(Len(signals) - 1)
      /\ \A i \in DOMAIN signals' : i + 1 \in DOMAIN signals /\ signals'[i] = signals[i + 1]
      /\ 1 \in DOMAIN signals /\ Head(signals) = signals[1] /\ Head(signals) \in Signals
  BY TailFacts DEF SessionType
<1> QED
  BY <1>1, SignalFacts

LEMMA DeliverAny == AnyInv /\ Deliver => AnyInv'
<1> USE DEF AnyInv, TypeOK
<1> SUFFICES ASSUME AnyInv, Deliver PROVE AnyInv'
  OBVIOUS
<1>1. /\ signals # <<>> /\ signals' = Tail(signals)
      /\ UNCHANGED <<kernel, registry, main, appCounterReg, pidReg, mon, wanted, calls>>
      /\ \/ views' = [views EXCEPT ![Head(signals).app] = @ + 1]
         \/ views' = Unstacked(Head(signals).app)
         \/ views' = views
  BY DEF Deliver, helper
<1>2. signals' \in Seq(Signals) /\ Head(signals).app \in Exes
  BY <1>1, SignalTaken
<1>3. views' \in [Exes -> Nat]
  <2>1. PICK e \in Exes : e = Head(signals).app
    BY <1>2
  <2>2. Unstacked(e) \in [Exes -> Nat] /\ [views EXCEPT ![e] = @ + 1] \in [Exes -> Nat]
    BY UnstackedFacts DEF SessionType
  <2> QED
    BY <1>1, <2>1, <2>2 DEF SessionType
<1>4. ProcType' /\ HelperType' /\ SessionType'
  BY <1>1, <1>2, <1>3 DEF ProcType, HelperType, SessionType, kernel
<1> QED
  BY <1>1, <1>4, RegistriesUnchanged

LEMMA MonitorAny == AnyInv /\ Monitor => AnyInv'
BY TakeAny, RegisteredAny, SendExecAny, AddAny, RemoveAny, SendExitAny DEF Monitor

LEMMA NextStepAny == AnyInv /\ [NextAny]_vars => AnyInv'
<1> SUFFICES ASSUME AnyInv, [NextAny]_vars PROVE AnyInv'
  OBVIOUS
<1>1. ASSUME NEW pid \in Pids, NEW x \in Exes \cup {Other}, Runs(pid, x) PROVE AnyInv'
  BY <1>1, RunsAny
<1>2. ASSUME NEW op \in {"watch", "forget"}, Begin(op) PROVE AnyInv'
  BY <1>2, BeginAny
<1>3. CASE Processes
  BY <1>1, <1>3, ExitAny DEF Processes, Exec
<1>4. CASE Helper
  BY <1>2, <1>4, MonitorAny, EndWatchAny, EndForgetAny DEF Helper, BeginWatch, BeginForget
<1>5. CASE Session
  BY <1>5, WatchAppAny, ForgetAny, DeliverAny DEF Session, Watch
<1>6. CASE \E pid \in Pids, x \in Exes : ExecOther(pid, x)
  BY <1>1, <1>6 DEF ExecOther
<1>7. CASE BeginForgetInExec \/ \E e \in Exes : WatchAgain(e)
  BY <1>2, <1>7, WatchAppAny DEF BeginForgetInExec, WatchAgain
<1>8. CASE \E pid \in Pids, x \in Exes \cup {Other} : ReusePid(pid, x)
  BY <1>1, <1>8 DEF ReusePid
<1>9. CASE UNCHANGED vars
  <2>1. UNCHANGED <<kernel, registry, main, appCounterReg, pidReg, mon, wanted, views, calls, signals>>
    BY <1>9 DEF vars, helper, session
  <2>2. TypeOK'
    BY <2>1 DEF AnyInv, TypeOK, ProcType, HelperType, SessionType, kernel
  <2> QED
    BY <2>1, <2>2, RegistriesUnchanged DEF AnyInv
<1> QED
  BY <1>3, <1>4, <1>5, <1>6, <1>7, <1>8, <1>9 DEF NextAny, NextChain, NextEdits, Next

\* However processes and requests interleave, the counter of an executable is not above the
\* number of its known processes, whose ends the monitor will see: a profile does not stay for
\* a process nobody will miss.
THEOREM NeverPhantom == SpecAny => []NoPhantom
<1>1. AnyInv => NoPhantom
  BY DEF AnyInv
<1> QED
  BY <1>1, InitAny, NextStepAny, PTL DEF SpecAny

\* However processes and requests interleave, the process of a known PID is alive and ran what
\* it is known for, or the event of its end is yet to be handled.
THEOREM NeverLeaks == SpecAny => []NoLeak
<1>1. AnyInv => NoLeak
  BY DEF AnyInv
<1> QED
  BY <1>1, InitAny, NextStepAny, PTL DEF SpecAny

(***************************************************************************)
(* The signals of an executable take turns.                                *)
(***************************************************************************)

\* What the monitor has said depends on the counters and on what it does.
LEMMA ToldUnchanged ==
  ASSUME NEW e \in Exes, UNCHANGED <<appCounterReg, mon>>
  PROVE  Told(e)' <=> Told(e)
BY DEF Told, Running, At

LEMMA TurnsUnchanged ==
  ASSUME NEW e \in Exes, Turns(e), signals' = signals, views'[e] = views[e], Told(e)' <=> Told(e)
  PROVE  Turns(e)'
BY DEF Turns, FirstOf, LastOf, Follows, About, Says

\* A signal that says the contrary of the last one.
LEMMA TurnSent ==
  ASSUME SessionType, NEW b \in BOOLEAN, NEW e \in Exes, Turns(e), views' = views,
         Send(IF b THEN "exec" ELSE "exit", e), Told(e) <=> ~b, Told(e)' <=> b
  PROVE  Turns(e)'
<1> DEFINE n == Len(signals) + 1
<1>1. /\ signals' \in Seq(Signals) /\ Len(signals) \in Nat
      /\ DOMAIN signals = 1..Len(signals) /\ DOMAIN signals' = 1..n
      /\ \A i \in DOMAIN signals : signals'[i] = signals[i]
      /\ signals'[n].kind = (IF b THEN "exec" ELSE "exit") /\ signals'[n].app = e
  BY SendFacts
<1>2. n \in Nat /\ DOMAIN signals' = DOMAIN signals \cup {n} /\ n \notin DOMAIN signals
      /\ \A i \in DOMAIN signals : i \in Nat /\ i < n
  BY <1>1
<1> HIDE DEF n
<1>4. \A i \in DOMAIN signals' : FirstOf(i, e)' => Says(i, views[e] = 0)'
  <2> SUFFICES ASSUME NEW i \in DOMAIN signals', FirstOf(i, e)' PROVE Says(i, views[e] = 0)'
    OBVIOUS
  <2>1. CASE i \in DOMAIN signals
    <3>1. FirstOf(i, e)
      BY <1>1, <1>2, <2>1 DEF FirstOf, About
    <3>2. Says(i, views[e] = 0)
      BY <2>1, <3>1 DEF Turns
    <3> QED
      BY <1>1, <2>1, <3>2 DEF Says
  <2>2. CASE i = n
    <3>1. \A k \in DOMAIN signals : signals[k].app # e
      BY <1>1, <1>2, <2>2 DEF FirstOf
    <3>2. views[e] \in {0, 1} /\ (views[e] = 1 <=> ~b)
      BY <3>1 DEF Turns
    <3> QED
      BY <1>1, <2>2, <3>2 DEF Says
  <2> QED
    BY <1>2, <2>1, <2>2
<1>5. \A i \in DOMAIN signals' : LastOf(i, e)' => Says(i, Told(e))'
  <2> SUFFICES ASSUME NEW i \in DOMAIN signals', LastOf(i, e)' PROVE Says(i, Told(e))'
    OBVIOUS
  <2>1. i = n
    BY <1>1, <1>2 DEF LastOf
  <2> QED
    BY <1>1, <2>1 DEF Says
<1>6. \A i, j \in DOMAIN signals' : Follows(i, j, e)' => signals'[i].kind # signals'[j].kind
  <2> SUFFICES ASSUME NEW i \in DOMAIN signals', NEW j \in DOMAIN signals', Follows(i, j, e)'
               PROVE  signals'[i].kind # signals'[j].kind
    OBVIOUS
  <2>0. i < j /\ i \in DOMAIN signals
    <3>1. i < j
      BY DEF Follows
    <3> QED
      BY <1>1, <3>1 DEF n
  <2>1. CASE j \in DOMAIN signals
    <3>1. Follows(i, j, e)
      BY <1>1, <1>2, <2>0, <2>1 DEF Follows, About
    <3> QED
      BY <1>1, <2>0, <2>1, <3>1 DEF Turns
  <2>2. CASE j = n
    <3>1. LastOf(i, e)
      BY <1>1, <1>2, <2>0, <2>2 DEF Follows, LastOf, About
    <3>2. Says(i, Told(e))
      BY <2>0, <3>1 DEF Turns
    <3> QED
      BY <1>1, <2>0, <2>2, <3>2 DEF Says
  <2> QED
    BY <1>2, <2>1, <2>2
<1>7. ~(\A i \in DOMAIN signals' : signals'[i].app # e)
  BY <1>1, <1>2
<1>8. views'[e] \in {0, 1}
  BY DEF Turns
<1> QED
  BY <1>4, <1>5, <1>6, <1>7, <1>8 DEF Turns

\* A signal about another executable.
LEMMA TurnKept ==
  ASSUME SessionType, NEW kind \in {"exec", "exit"}, NEW e \in Exes, NEW x \in Exes \ {e},
         Send(kind, e), Turns(x), views' = views, Told(x)' <=> Told(x)
  PROVE  Turns(x)'
<1>1. /\ DOMAIN signals = 1..Len(signals) /\ DOMAIN signals' = 1..(Len(signals) + 1)
      /\ Len(signals) \in Nat
      /\ \A i \in DOMAIN signals : signals'[i] = signals[i]
      /\ signals'[Len(signals) + 1].app = e
  BY SendFacts
<1>2. \A i \in DOMAIN signals' :
        signals'[i].app = x => i \in DOMAIN signals /\ signals[i].app = x /\ signals'[i] = signals[i]
  BY <1>1
<1>3. DOMAIN signals \subseteq DOMAIN signals'
  BY <1>1
<1>4. \A i \in DOMAIN signals' : FirstOf(i, x)' => i \in DOMAIN signals /\ FirstOf(i, x)
  BY <1>1, <1>2, <1>3 DEF FirstOf, About
<1>5. \A i \in DOMAIN signals' : LastOf(i, x)' => i \in DOMAIN signals /\ LastOf(i, x)
  BY <1>1, <1>2, <1>3 DEF LastOf, About
<1>6. \A i, j \in DOMAIN signals' :
        Follows(i, j, x)' => i \in DOMAIN signals /\ j \in DOMAIN signals /\ Follows(i, j, x)
  BY <1>1, <1>2, <1>3 DEF Follows, About
<1>7. (\A i \in DOMAIN signals' : signals'[i].app # x) => (\A i \in DOMAIN signals : signals[i].app # x)
  BY <1>1, <1>3
<1>8. \A i \in DOMAIN signals' : FirstOf(i, x)' => Says(i, views[x] = 0)'
  BY <1>1, <1>4 DEF Turns, Says
<1>9. \A i \in DOMAIN signals' : LastOf(i, x)' => Says(i, Told(x))'
  BY <1>1, <1>5 DEF Turns, Says
<1>10. \A i, j \in DOMAIN signals' : Follows(i, j, x)' => signals'[i].kind # signals'[j].kind
  BY <1>1, <1>6 DEF Turns
<1> QED
  BY <1>7, <1>8, <1>9, <1>10 DEF Turns

\* The first signal is taken: one about e changes the view of e.
LEMMA TurnTaken ==
  ASSUME SessionType, signals # <<>>, signals' = Tail(signals), NEW e \in Exes, Turns(e),
         Told(e)' <=> Told(e),
         Head(signals).app # e => views'[e] = views[e],
         Head(signals).app = e => \/ Head(signals).kind = "exec" /\ views'[e] = views[e] + 1
                                  \/ Head(signals).kind = "exit" /\ views'[e] = 0
  PROVE  Turns(e)'
<1>1. /\ signals' \in Seq(Signals)
      /\ Len(signals) \in Nat \ {0}
      /\ DOMAIN signals = 1..Len(signals) /\ DOMAIN signals' = 1..(Len(signals) - 1)
      /\ \A i \in DOMAIN signals' : i + 1 \in DOMAIN signals /\ signals'[i] = signals[i + 1]
      /\ 1 \in DOMAIN signals /\ Head(signals) = signals[1]
  BY SignalTaken
<1>2. \A i \in DOMAIN signals : i \in Nat /\ i >= 1 /\ (i > 1 => i - 1 \in DOMAIN signals')
  BY <1>1
<1>3. \A i \in DOMAIN signals' : signals'[i].kind \in {"exec", "exit"}
  <2>1. \A i \in DOMAIN signals' : signals'[i] \in Signals
    BY <1>1
  <2> QED
    BY <2>1, SignalFacts
<1>4. \A i \in DOMAIN signals' : About(i, e)' <=> About(i + 1, e)
  BY <1>1 DEF About
<1>5. \A i \in DOMAIN signals' : i \in Nat
  BY <1>1
<1>6. \A i, j \in DOMAIN signals' : Follows(i, j, e)' => Follows(i + 1, j + 1, e)
  <2> SUFFICES ASSUME NEW i \in DOMAIN signals', NEW j \in DOMAIN signals', Follows(i, j, e)'
               PROVE  Follows(i + 1, j + 1, e)
    OBVIOUS
  <2>1. About(i + 1, e) /\ About(j + 1, e) /\ i + 1 < j + 1
    BY <1>4, <1>5 DEF Follows
  <2>2. ASSUME NEW k \in DOMAIN signals, i + 1 < k, k < j + 1 PROVE signals[k].app # e
    <3>1. k - 1 \in DOMAIN signals' /\ i < k - 1 /\ k - 1 < j /\ (k - 1) + 1 = k
      BY <1>2, <1>5, <2>2
    <3>2. signals'[k - 1].app # e
      BY <3>1 DEF Follows
    <3> QED
      BY <1>1, <3>1, <3>2
  <2> QED
    BY <2>1, <2>2 DEF Follows
<1>7. \A i \in DOMAIN signals' : LastOf(i, e)' => LastOf(i + 1, e)
  <2> SUFFICES ASSUME NEW i \in DOMAIN signals', LastOf(i, e)' PROVE LastOf(i + 1, e)
    OBVIOUS
  <2>1. About(i + 1, e)
    BY <1>4 DEF LastOf
  <2>2. ASSUME NEW k \in DOMAIN signals, k > i + 1 PROVE signals[k].app # e
    <3>1. k - 1 \in DOMAIN signals' /\ k - 1 > i /\ (k - 1) + 1 = k
      BY <1>2, <1>5, <2>2
    <3>2. signals'[k - 1].app # e
      BY <3>1 DEF LastOf
    <3> QED
      BY <1>1, <3>1, <3>2
  <2> QED
    BY <2>1, <2>2 DEF LastOf
<1>8. \A i \in DOMAIN signals' : LastOf(i, e)' => Says(i, Told(e))'
  BY <1>1, <1>7 DEF Turns, Says
<1>9. \A i, j \in DOMAIN signals' : Follows(i, j, e)' => signals'[i].kind # signals'[j].kind
  BY <1>1, <1>6 DEF Turns
<1>10. CASE Head(signals).app # e
  <2>1. views'[e] = views[e] /\ signals[1].app # e
    BY <1>1, <1>10
  <2>2. \A i \in DOMAIN signals' : FirstOf(i, e)' => FirstOf(i + 1, e)
    <3> SUFFICES ASSUME NEW i \in DOMAIN signals', FirstOf(i, e)' PROVE FirstOf(i + 1, e)
      OBVIOUS
    <3>1. About(i + 1, e)
      BY <1>4 DEF FirstOf
    <3>2. ASSUME NEW k \in DOMAIN signals, k < i + 1, k # 1 PROVE signals[k].app # e
      <4>1. k - 1 \in DOMAIN signals' /\ k - 1 < i /\ (k - 1) + 1 = k
        BY <1>2, <1>5, <3>2
      <4>2. signals'[k - 1].app # e
        BY <4>1 DEF FirstOf
      <4> QED
        BY <1>1, <4>1, <4>2
    <3> QED
      BY <2>1, <3>1, <3>2 DEF FirstOf
  <2>3. \A i \in DOMAIN signals' : FirstOf(i, e)' => Says(i, views[e] = 0)'
    BY <1>1, <2>1, <2>2 DEF Turns, Says
  <2>4. (\A i \in DOMAIN signals' : signals'[i].app # e) => (\A i \in DOMAIN signals : signals[i].app # e)
    <3> SUFFICES ASSUME \A i \in DOMAIN signals' : signals'[i].app # e, NEW k \in DOMAIN signals
                 PROVE  signals[k].app # e
      OBVIOUS
    <3>1. CASE k = 1
      BY <2>1, <3>1
    <3>2. CASE k # 1
      <4>1. k - 1 \in DOMAIN signals' /\ (k - 1) + 1 = k
        BY <1>2, <3>2
      <4> QED
        BY <1>1, <4>1
    <3> QED
      BY <3>1, <3>2
  <2> QED
    BY <1>8, <1>9, <2>1, <2>3, <2>4 DEF Turns
<1>11. CASE Head(signals).app = e
  <2>1. FirstOf(1, e)
    BY <1>1, <1>2, <1>11 DEF FirstOf, About
  <2>2. Says(1, views[e] = 0) /\ views[e] \in {0, 1}
    BY <1>1, <2>1 DEF Turns
  <2>3. \/ signals[1].kind = "exec" /\ views'[e] = 1
        \/ signals[1].kind = "exit" /\ views'[e] = 0
    BY <1>1, <1>11, <2>2 DEF Says
  <2>4. \A i \in DOMAIN signals' : FirstOf(i, e)' => Follows(1, i + 1, e)
    <3> SUFFICES ASSUME NEW i \in DOMAIN signals', FirstOf(i, e)' PROVE Follows(1, i + 1, e)
      OBVIOUS
    <3>1. About(1, e) /\ About(i + 1, e) /\ 1 < i + 1
      BY <1>1, <1>4, <2>1 DEF FirstOf
    <3>2. ASSUME NEW k \in DOMAIN signals, 1 < k, k < i + 1 PROVE signals[k].app # e
      <4>1. k - 1 \in DOMAIN signals' /\ k - 1 < i /\ (k - 1) + 1 = k
        BY <1>2, <1>5, <3>2
      <4>2. signals'[k - 1].app # e
        BY <4>1 DEF FirstOf
      <4> QED
        BY <1>1, <4>1, <4>2
    <3> QED
      BY <3>1, <3>2 DEF Follows
  <2>5. \A i \in DOMAIN signals' : FirstOf(i, e)' => Says(i, views[e] = 0)'
    <3> SUFFICES ASSUME NEW i \in DOMAIN signals', FirstOf(i, e)' PROVE Says(i, views[e] = 0)'
      OBVIOUS
    <3>1. signals[1].kind # signals'[i].kind
      BY <1>1, <2>4 DEF Turns
    <3> QED
      BY <1>3, <2>3, <3>1 DEF Says
  <2>6. (\A i \in DOMAIN signals' : signals'[i].app # e) => (views'[e] = 1 <=> Told(e)')
    <3> SUFFICES ASSUME \A i \in DOMAIN signals' : signals'[i].app # e PROVE views'[e] = 1 <=> Told(e)'
      OBVIOUS
    <3>1. ASSUME NEW k \in DOMAIN signals, k > 1 PROVE signals[k].app # e
      <4>1. k - 1 \in DOMAIN signals' /\ (k - 1) + 1 = k
        BY <1>2, <3>1
      <4> QED
        BY <1>1, <4>1
    <3>2. LastOf(1, e)
      BY <2>1, <3>1 DEF LastOf, FirstOf
    <3>3. Says(1, Told(e))
      BY <1>1, <3>2 DEF Turns
    <3> QED
      BY <2>3, <3>3 DEF Says
  <2> QED
    BY <1>8, <1>9, <2>3, <2>5, <2>6 DEF Turns
<1> QED
  BY <1>10, <1>11

(***************************************************************************)
(* The steps when the processes and the user behave.                       *)
(***************************************************************************)

LEMMA ProgramsKept == OneProgram /\ UNCHANGED kernel => OneProgram'
BY DEF OneProgram, kernel, ExitPending

LEMMA CallsKept == CallsInv /\ UNCHANGED <<calls, wanted, registry, main>> => CallsInv'
BY DEF CallsInv, Called

LEMMA CountersKept ==
  CountersInv /\ UNCHANGED <<main, registry, wanted, appCounterReg, pidReg, mon>> => CountersInv'
BY DEF CountersInv, OnMain, PidsOf, InExec

LEMMA RemoveKept == RemoveInv /\ UNCHANGED <<mon, wanted, pidReg>> => RemoveInv'
BY DEF RemoveInv, At

LEMMA SameKept == SameProgram /\ UNCHANGED <<mon, pidReg>> => SameProgram'
BY DEF SameProgram, Adding

LEMMA TurnsKept ==
  ASSUME TurnsInv, UNCHANGED <<wanted, views, signals>>, \A e \in Exes : Told(e)' <=> Told(e)
  PROVE  TurnsInv'
BY TurnsUnchanged DEF TurnsInv

\* The requests that are left, and those that are there.
LEMMA CalledTaken ==
  ASSUME SessionType, calls # <<>>, calls' = Tail(calls), NEW op \in {"watch", "forget"}, NEW e \in Exes,
         Head(calls) = [op |-> op, app |-> e]
  PROVE  \A o \in {"watch", "forget"}, x \in Exes :
           Called(o, x) <=> Called(o, x)' \/ (o = op /\ x = e)
<1>1. /\ Len(calls) \in Nat \ {0}
      /\ DOMAIN calls = 1..Len(calls) /\ DOMAIN calls' = 1..(Len(calls) - 1)
      /\ \A i \in DOMAIN calls' : i + 1 \in DOMAIN calls /\ calls'[i] = calls[i + 1]
      /\ 1 \in DOMAIN calls /\ Head(calls) = calls[1]
  BY CallTaken
<1> TAKE o \in {"watch", "forget"}, x \in Exes
<1>2. ASSUME Called(o, x) PROVE Called(o, x)' \/ (o = op /\ x = e)
  <2>1. PICK i \in DOMAIN calls : calls[i] = [op |-> o, app |-> x]
    BY <1>2 DEF Called
  <2>2. CASE i = 1
    BY <1>1, <2>1, <2>2
  <2>3. CASE i # 1
    <3>1. i - 1 \in DOMAIN calls' /\ calls'[i - 1] = calls[i]
      BY <1>1, <2>3
    <3> QED
      BY <2>1, <3>1 DEF Called
  <2> QED
    BY <2>2, <2>3
<1>3. Called(o, x)' => Called(o, x)
  BY <1>1 DEF Called
<1>4. o = op /\ x = e => Called(o, x)
  BY <1>1 DEF Called
<1> QED
  BY <1>2, <1>3, <1>4

LEMMA CalledMade ==
  ASSUME SessionType, NEW op \in {"watch", "forget"}, NEW e \in Exes, Request(op, e)
  PROVE  \A o \in {"watch", "forget"}, x \in Exes :
           Called(o, x)' <=> Called(o, x) \/ (o = op /\ x = e)
<1>1. /\ Len(calls) \in Nat
      /\ DOMAIN calls = 1..Len(calls) /\ DOMAIN calls' = 1..(Len(calls) + 1)
      /\ \A i \in DOMAIN calls : calls'[i] = calls[i]
      /\ calls'[Len(calls) + 1] = [op |-> op, app |-> e]
  BY CallMade
<1> TAKE o \in {"watch", "forget"}, x \in Exes
<1>2. ASSUME Called(o, x)', ~(o = op /\ x = e) PROVE Called(o, x)
  <2>1. PICK i \in DOMAIN calls' : calls'[i] = [op |-> o, app |-> x]
    BY <1>2 DEF Called
  <2>2. i \in DOMAIN calls
    BY <1>1, <1>2, <2>1
  <2> QED
    BY <1>1, <2>1, <2>2 DEF Called
<1>3. Called(o, x) => Called(o, x)'
  BY <1>1 DEF Called
<1>4. o = op /\ x = e => Called(o, x)'
  BY <1>1 DEF Called
<1> QED
  BY <1>2, <1>3, <1>4

LEMMA InitBehaved == Init => Behaved
<1> SUFFICES ASSUME Init PROVE Behaved
  OBVIOUS
<1>1. /\ DOMAIN pidReg = {} /\ DOMAIN appCounterReg = {} /\ mon = Idle /\ main = Idle
      /\ events = <<>> /\ calls = <<>> /\ wanted = {} /\ registry = {}
      /\ \A pid \in Pids : life[pid] = {}
      /\ \A e \in Exes : views[e] = 0
  BY DEF Init
<1>2. DOMAIN events = {} /\ DOMAIN calls = {}
  BY <1>1
<1>3. OneProgram /\ SameProgram /\ RemoveInv /\ TurnsInv
  BY <1>1, <1>2 DEF OneProgram, SameProgram, RemoveInv, TurnsInv, ExitPending, Adding, At
<1>4. CallsInv /\ CountersInv
  BY <1>1, <1>2 DEF CallsInv, CountersInv, OnMain, Called, PidsOf, InExec
<1> QED
  BY <1>3, <1>4 DEF Behaved

\* A process executes a file: a watched one only if it ran no other, and no end is pending.
LEMMA ExecBehaved ==
  ASSUME IInv, NEW pid \in Pids, NEW x \in Exes \cup {Other}, Exec(pid, x)
  PROVE  Behaved'
<1> USE DEF IInv, AnyInv, TypeOK, Behaved
<1>1. /\ x \in Exes => life[pid] \subseteq {x}
      /\ proc[pid] = Dead => \A i \in DOMAIN events : events[i].pid # pid
      /\ proc' = [proc EXCEPT ![pid] = x] /\ life' = [life EXCEPT ![pid] = @ \cup ({x} \cap Exes)]
      /\ Event("EXEC", pid)
      /\ UNCHANGED <<registry, main, appCounterReg, pidReg, mon, wanted, calls, signals, views>>
  BY DEF Exec, Unused, Runs, helper, session
<1>2. \A q \in Pids : ExitPending(q)' => ExitPending(q)
  BY <1>1, EventFacts DEF ProcType
<1>3. OneProgram'
  <2> SUFFICES ASSUME NEW q \in Pids
               PROVE  /\ \A a, b \in life'[q] : a = b
                      /\ ExitPending(q)' => proc'[q] = Dead
    BY DEF OneProgram
  <2>1. CASE q # pid
    BY <1>1, <1>2, <2>1 DEF OneProgram, ProcType
  <2>2. CASE q = pid
    <3>1. \A a, b \in life'[q] : a = b
      <4>1. life'[q] = life[pid] \cup ({x} \cap Exes)
        BY <1>1, <2>2 DEF ProcType
      <4>2. CASE x \in Exes
        BY <1>1, <4>1, <4>2
      <4>3. CASE x \notin Exes
        BY <4>1, <4>3 DEF OneProgram
      <4> QED
        BY <4>2, <4>3
    <3>2. ~ExitPending(pid)
      <4> SUFFICES ASSUME ExitPending(pid) PROVE FALSE
        OBVIOUS
      <4>1. PICK i \in DOMAIN events : events[i] = [type |-> "EXIT", pid |-> pid]
        BY DEF ExitPending
      <4>2. events[i].pid = pid
        BY <4>1
      <4> QED
        BY <1>1, <4>2 DEF OneProgram
    <3> QED
      BY <1>2, <2>2, <3>1, <3>2
  <2> QED
    BY <2>1, <2>2
<1>4. \A e \in Exes : Told(e)' <=> Told(e)
  BY <1>1, ToldUnchanged
<1> QED
  BY <1>1, <1>3, <1>4, CallsKept, CountersKept, RemoveKept, SameKept, TurnsKept

LEMMA ExitBehaved ==
  ASSUME IInv, NEW pid \in Pids, Exit(pid)
  PROVE  Behaved'
<1> USE DEF IInv, AnyInv, TypeOK, Behaved
<1>1. /\ proc' = [proc EXCEPT ![pid] = Dead] /\ life' = [life EXCEPT ![pid] = {}]
      /\ Event("EXIT", pid)
      /\ UNCHANGED <<registry, main, appCounterReg, pidReg, mon, wanted, calls, signals, views>>
  BY DEF Exit, helper, session
<1>2. \A q \in Pids : ExitPending(q)' => ExitPending(q) \/ q = pid
  BY <1>1, EventFacts DEF ProcType
<1>3. OneProgram'
  BY <1>1, <1>2 DEF OneProgram, ProcType
<1>4. \A e \in Exes : Told(e)' <=> Told(e)
  BY <1>1, ToldUnchanged
<1> QED
  BY <1>1, <1>3, <1>4, CallsKept, CountersKept, RemoveKept, SameKept, TurnsKept

\* The monitor takes an event.  A known process that is alive still runs what it is known for.
LEMMA TakeBehaved == IInv /\ Take => Behaved'
<1> USE DEF IInv, AnyInv, TypeOK, Behaved
<1> SUFFICES ASSUME IInv, Take PROVE Behaved'
  OBVIOUS
<1>1. /\ mon = Idle /\ events # <<>> /\ events' = Tail(events)
      /\ UNCHANGED <<proc, life, registry, main, appCounterReg, pidReg, wanted, calls, signals, views>>
  BY DEF Take, session
<1>2. /\ Head(events).type \in {"EXEC", "EXIT"} /\ Head(events).pid \in Pids
      /\ \A q \in Pids : ExitPending(q)' => ExitPending(q)
  BY <1>1, TakenFacts DEF ProcType
<1> PICK pid \in Pids : pid = Head(events).pid
  BY <1>2
<1>3. \/ mon' = [pc |-> "registered", pid |-> pid, app |-> App(pid)]
      \/ pid \in DOMAIN pidReg /\ mon' = [pc |-> "remove", pid |-> pid, app |-> pidReg[pid]]
      \/ mon' = Idle
  BY <1>2 DEF Take
<1>4. App(pid) \in Exes \cup {Other} /\ (App(pid) \in Exes => App(pid) = proc[pid])
  BY DEF App
<1>5. \/ mon'.pc = "registered" /\ mon'.pid = pid /\ mon'.app = App(pid)
      \/ /\ mon'.pc = "remove" /\ mon'.pid = pid
         /\ pid \in DOMAIN pidReg /\ mon'.app = pidReg[pid]
      \/ mon' = Idle
  BY <1>3
<1>6. OneProgram'
  BY <1>1, <1>2 DEF OneProgram
<1>7. SameProgram'
  <2> SUFFICES ASSUME mon'.pid = pid, mon'.app = App(pid), App(pid) \in Exes, pid \in DOMAIN pidReg
               PROVE  pidReg[pid] = App(pid)
    BY <1>1, <1>5 DEF SameProgram, Adding
  <2>1. proc[pid] = App(pid) /\ App(pid) \in life[pid] /\ proc[pid] # Dead
    BY <1>4 DEF LifeInv
  <2>2. pidReg[pid] \in life[pid] \/ ExitPending(pid)
    BY <1>1 DEF NoLeak, ExitPending, At
  <2>3. ~ExitPending(pid)
    BY <2>1 DEF OneProgram
  <2> QED
    BY <2>1, <2>2, <2>3 DEF OneProgram
<1>8. CountersInv'
  <2>1. \A e : ~InExec(e)'
    BY <1>5 DEF InExec
  <2> QED
    BY <1>1, <2>1 DEF CountersInv, OnMain, PidsOf
<1>9. RemoveInv'
  BY <1>1, <1>5 DEF RemoveInv, At
<1>10. \A e \in Exes : Told(e)' <=> Told(e)
  BY <1>1, <1>5 DEF Told, Running, At
<1> QED
  BY <1>1, <1>6, <1>7, <1>8, <1>9, <1>10, CallsKept, TurnsKept

\* An executable that is registered while no request is worked on has a counter.
LEMMA RegisteredBehaved == IInv /\ Registered => Behaved'
<1> USE DEF IInv, AnyInv, TypeOK, Behaved
<1> SUFFICES ASSUME IInv, Registered PROVE Behaved'
  OBVIOUS
<1>1. /\ At("registered") /\ main = Idle
      /\ UNCHANGED <<kernel, registry, main, appCounterReg, pidReg, wanted, calls, signals, views>>
      /\ (mon.app \in registry /\ Goto("running")) \/ mon' = Idle
  BY DEF Registered, session
<1>2. /\ mon # Idle /\ mon.pc = "registered"
      /\ \/ /\ mon'.pc = "running" /\ mon'.pid = mon.pid /\ mon'.app = mon.app /\ mon' # Idle
            /\ mon.app \in registry
         \/ mon' = Idle
  BY <1>1, GotoFacts DEF At
<1>3. SameProgram' /\ RemoveInv'
  BY <1>1, <1>2 DEF SameProgram, RemoveInv, Adding, At
<1>4. CountersInv'
  <2>1. \A e \in Exes : InExec(e)' => e \in registry
    BY <1>2 DEF InExec
  <2>2. \A e \in Exes : InExec(e)' => e \in DOMAIN appCounterReg
    BY <1>1, <2>1 DEF CountersInv
  <2> QED
    BY <1>1, <2>1, <2>2 DEF CountersInv, OnMain, PidsOf
<1>5. \A e \in Exes : Told(e)' <=> Told(e)
  BY <1>1, <1>2 DEF Told, Running, At
<1> QED
  BY <1>1, <1>3, <1>4, <1>5, ProgramsKept, CallsKept, TurnsKept

\* The appearance of the first process is signalled.
LEMMA SendExecBehaved == IInv /\ SendExec => Behaved'
<1> USE DEF IInv, AnyInv, TypeOK, Behaved
<1> SUFFICES ASSUME IInv, SendExec PROVE Behaved'
  OBVIOUS
<1>1. /\ At("running") /\ Goto("add")
      /\ UNCHANGED <<kernel, registry, main, appCounterReg, pidReg, wanted, calls, views>>
      /\ \/ Running(mon.app) /\ signals' = signals
         \/ ~Running(mon.app) /\ Send("exec", mon.app)
  BY DEF SendExec, session
<1>2. /\ mon # Idle /\ mon.pc = "running"
      /\ mon'.pc = "add" /\ mon'.pid = mon.pid /\ mon'.app = mon.app /\ mon' # Idle
  BY <1>1, GotoFacts DEF At
<1> PICK app \in Exes : app = mon.app
  BY <1>2 DEF HelperType
<1>3. SameProgram' /\ RemoveInv'
  BY <1>1, <1>2 DEF SameProgram, RemoveInv, Adding, At
<1>4. CountersInv'
  <2>1. \A e \in Exes : InExec(e)' <=> InExec(e)
    BY <1>2 DEF InExec
  <2> QED
    BY <1>1, <2>1 DEF CountersInv, OnMain, PidsOf
<1>5. \A e \in Exes \ {app} : Told(e)' <=> Told(e)
  BY <1>1, <1>2 DEF Told, Running, At
<1>6. Told(app)' /\ (Told(app) <=> Running(app))
  BY <1>2 DEF Told, At
<1>7. TurnsInv'
  <2>1. CASE Running(app) /\ signals' = signals
    BY <1>1, <1>5, <1>6, <2>1, TurnsKept
  <2>2. CASE ~Running(app) /\ Send("exec", app)
    <3>1. Turns(app) => Turns(app)'
      <4>1. Send(IF TRUE THEN "exec" ELSE "exit", app)
        BY <2>2
      <4> QED
        BY <1>1, <1>6, <2>2, <4>1, TurnSent
    <3>2. \A e \in Exes \ {app} : Turns(e) => Turns(e)'
      BY <1>1, <1>5, <2>2, TurnKept
    <3> QED
      BY <1>1, <3>1, <3>2 DEF TurnsInv
  <2> QED
    BY <1>1, <2>1, <2>2
<1> QED
  BY <1>1, <1>3, <1>4, <1>7, ProgramsKept, CallsKept

\* The process that is added makes its executable run, as the session was told.
LEMMA AddBehaved == IInv /\ Add => Behaved'
<1> USE DEF IInv, AnyInv, TypeOK, Behaved
<1> SUFFICES ASSUME IInv, Add PROVE Behaved'
  OBVIOUS
<1>1. /\ mon # Idle /\ mon.pc = "add" /\ mon' = Idle
      /\ UNCHANGED <<kernel, registry, main, wanted, calls, signals, views>>
  BY DEF Add, session, At
<1>2. mon.app \in Exes /\ mon.pid \in Pids
  BY <1>1, WorkFacts DEF HelperType
<1> PICK pid \in Pids, app \in Exes : pid = mon.pid /\ app = mon.app
  BY <1>2
<1>3. app \in DOMAIN appCounterReg /\ appCounterReg[app] = Cardinality(PidsOf(app))
  BY <1>1 DEF CountersInv, InExec
<1>4. \A e \in Exes : Cardinality(PidsOf(e)) \in Nat /\ (Cardinality(PidsOf(e)) = 0 <=> PidsOf(e) = {})
  BY PidsFinite
<1>5. SameProgram' /\ RemoveInv'
  BY <1>1 DEF SameProgram, RemoveInv, Adding, At
<1>6. /\ DOMAIN appCounterReg' = DOMAIN appCounterReg
      /\ appCounterReg'[app] = Cardinality(PidsOf(app)') /\ appCounterReg'[app] > 0
      /\ \A e \in Exes \ {app} : PidsOf(e)' = PidsOf(e)
                                 /\ (e \in DOMAIN appCounterReg => appCounterReg'[e] = appCounterReg[e])
  <2>1. CASE pid \in DOMAIN pidReg
    <3>1. UNCHANGED <<pidReg, appCounterReg>>
      BY <2>1 DEF Add
    <3>2. pid \in PidsOf(app)
      BY <1>1, <2>1 DEF SameProgram, Adding, PidsOf
    <3> QED
      BY <1>3, <1>4, <3>1, <3>2 DEF PidsOf
  <2>2. CASE pid \notin DOMAIN pidReg
    <3>1. pidReg' = Put(pidReg, pid, app) /\ appCounterReg' = [appCounterReg EXCEPT ![app] = @ + 1]
      BY <1>3, <2>2 DEF Add, Counted
    <3>2. /\ Cardinality(PidsOf(app)') = Cardinality(PidsOf(app)) + 1
          /\ \A e \in Exes \ {app} : PidsOf(e)' = PidsOf(e)
      BY <2>2, <3>1, PidAdded
    <3> QED
      BY <1>3, <1>4, <3>1, <3>2
  <2> QED
    BY <2>1, <2>2
<1>7. CountersInv'
  <2>1. \A e \in Exes : ~InExec(e)'
    BY <1>1 DEF InExec
  <2> SUFFICES ASSUME NEW e \in Exes
               PROVE  IF e \in DOMAIN appCounterReg
                        THEN appCounterReg'[e] = Cardinality(PidsOf(e)')
                        ELSE PidsOf(e)' = {}
    BY <1>1, <1>6, <2>1 DEF CountersInv, OnMain
  <2>2. CASE e = app
    BY <1>3, <1>6, <2>2
  <2>3. CASE e # app
    BY <1>6, <2>3 DEF CountersInv
  <2> QED
    BY <2>2, <2>3
<1>8. \A e \in Exes : Told(e)' <=> Told(e)
  <2>1. Told(app) /\ Told(app)'
    BY <1>1, <1>3, <1>6 DEF Told, At, Running
  <2>2. \A e \in Exes \ {app} : Told(e)' <=> Told(e)
    BY <1>1, <1>6 DEF Told, At, Running
  <2> QED
    BY <2>1, <2>2
<1> QED
  BY <1>1, <1>5, <1>7, <1>8, ProgramsKept, CallsKept, TurnsKept

\* The process that is removed made its executable run as long as the session wants it.
LEMMA RemoveBehaved == IInv /\ Remove => Behaved'
<1> USE DEF IInv, AnyInv, TypeOK, Behaved
<1> SUFFICES ASSUME IInv, Remove PROVE Behaved'
  OBVIOUS
<1>1. /\ At("remove") /\ Goto("gone")
      /\ UNCHANGED <<kernel, registry, main, wanted, calls, signals, views>>
  BY DEF Remove, session
<1>2. /\ mon # Idle /\ mon.pc = "remove" /\ mon.pid \in Pids
      /\ mon'.pc = "gone" /\ mon'.pid = mon.pid /\ mon'.app = mon.app /\ mon' # Idle
  BY <1>1, GotoFacts DEF At
<1> PICK app \in Exes, pid \in Pids : app = mon.app /\ pid = mon.pid
  BY <1>2 DEF HelperType
<1>3. \A e \in Exes : Cardinality(PidsOf(e)) \in Nat /\ (Cardinality(PidsOf(e)) = 0 <=> PidsOf(e) = {})
  BY PidsFinite
<1>4. SameProgram' /\ RemoveInv'
  BY <1>2 DEF SameProgram, RemoveInv, Adding, At
<1>5. \A e \in Exes : ~InExec(e)'
  BY <1>2 DEF InExec
<1>6. CASE pid \notin DOMAIN pidReg
  <2>1. UNCHANGED <<pidReg, appCounterReg>>
    BY <1>6 DEF Remove
  <2>2. CountersInv'
    BY <1>1, <1>5, <2>1 DEF CountersInv, OnMain, PidsOf
  <2>3. app \notin wanted
    BY <1>1, <1>6 DEF RemoveInv
  <2>4. \A e \in Exes \ {app} : Told(e)' <=> Told(e)
    BY <1>2, <2>1 DEF Told, Running, At
  <2>5. TurnsInv'
    BY <1>1, <2>3, <2>4, TurnsUnchanged DEF TurnsInv
  <2> QED
    BY <1>1, <1>4, <2>2, <2>5, ProgramsKept, CallsKept
<1>7. CASE pid \in DOMAIN pidReg
  <2> PICK e \in Exes : e = pidReg[pid] /\ e = app
    BY <1>1, <1>7 DEF RemoveInv
  <2>1. /\ pid \in PidsOf(e) /\ e \in DOMAIN appCounterReg
        /\ appCounterReg[e] = Cardinality(PidsOf(e)) /\ appCounterReg[e] > 0
    <3>1. pid \in PidsOf(e)
      BY <1>7 DEF PidsOf
    <3> QED
      BY <1>3, <3>1 DEF CountersInv
  <2>2. /\ pidReg' = Restrict(pidReg, DOMAIN pidReg \ {pid})
        /\ appCounterReg' = [appCounterReg EXCEPT ![e] = @ + (-1)]
    BY <1>7, <2>1 DEF Remove, Counted
  <2>3. /\ Cardinality(PidsOf(e)') = Cardinality(PidsOf(e)) - 1
        /\ \A x \in Exes \ {e} : PidsOf(x)' = PidsOf(x)
    BY <1>7, <2>2, PidRemoved
  <2>4. /\ DOMAIN appCounterReg' = DOMAIN appCounterReg
        /\ appCounterReg'[e] = Cardinality(PidsOf(e)')
        /\ \A x \in DOMAIN appCounterReg \ {e} : appCounterReg'[x] = appCounterReg[x]
    BY <1>3, <2>1, <2>2, <2>3
  <2>5. CountersInv'
    <3> SUFFICES ASSUME NEW x \in Exes
                 PROVE  IF x \in DOMAIN appCounterReg
                          THEN appCounterReg'[x] = Cardinality(PidsOf(x)')
                          ELSE PidsOf(x)' = {}
      BY <1>1, <1>5, <2>4 DEF CountersInv, OnMain
    <3>1. CASE x = e
      BY <2>1, <2>4, <3>1
    <3>2. CASE x # e
      BY <2>3, <2>4, <3>2 DEF CountersInv
    <3> QED
      BY <3>1, <3>2
  <2>6. \A x \in Exes : Told(x)' <=> Told(x)
    <3>1. Told(e) /\ Told(e)'
      BY <1>2, <2>1 DEF Told, Running, At
    <3>2. \A x \in Exes \ {e} : Told(x)' <=> Told(x)
      BY <1>2, <2>4 DEF Told, Running, At
    <3> QED
      BY <3>1, <3>2
  <2> QED
    BY <1>1, <1>4, <2>5, <2>6, ProgramsKept, CallsKept, TurnsKept
<1> QED
  BY <1>6, <1>7

\* The end of the last process is signalled.
LEMMA SendExitBehaved == IInv /\ SendExit => Behaved'
<1> USE DEF IInv, AnyInv, TypeOK, Behaved
<1> SUFFICES ASSUME IInv, SendExit PROVE Behaved'
  OBVIOUS
<1>1. /\ At("gone") /\ mon # Idle /\ mon.pc = "gone" /\ mon' = Idle
      /\ UNCHANGED <<kernel, registry, main, appCounterReg, pidReg, wanted, calls, views>>
      /\ \/ Running(mon.app) /\ signals' = signals
         \/ ~Running(mon.app) /\ Send("exit", mon.app)
  BY DEF SendExit, session, At
<1> PICK app \in Exes : app = mon.app
  BY <1>1 DEF HelperType
<1>2. SameProgram' /\ RemoveInv'
  BY <1>1 DEF SameProgram, RemoveInv, Adding, At
<1>3. CountersInv'
  <2>1. \A e \in Exes : ~InExec(e)'
    BY <1>1 DEF InExec
  <2> QED
    BY <1>1, <2>1 DEF CountersInv, OnMain, PidsOf
<1>4. \A e \in Exes \ {app} : Told(e)' <=> Told(e)
  BY <1>1 DEF Told, Running, At
<1>5. Told(app) /\ (Told(app)' <=> Running(app))
  BY <1>1 DEF Told, Running, At
<1>6. TurnsInv'
  <2>1. CASE Running(app) /\ signals' = signals
    BY <1>1, <1>4, <1>5, <2>1, TurnsKept
  <2>2. CASE ~Running(app) /\ Send("exit", app)
    <3>1. Turns(app) => Turns(app)'
      <4>1. Send(IF FALSE THEN "exec" ELSE "exit", app)
        BY <2>2
      <4> QED
        BY <1>1, <1>5, <2>2, <4>1, TurnSent
    <3>2. \A e \in Exes \ {app} : Turns(e) => Turns(e)'
      BY <1>1, <1>4, <2>2, TurnKept
    <3> QED
      BY <1>1, <3>1, <3>2 DEF TurnsInv
  <2> QED
    BY <1>1, <2>1, <2>2
<1> QED
  BY <1>1, <1>2, <1>3, <1>6, ProgramsKept, CallsKept

\* The registry gets the executable the oldest request is for.
LEMMA BeginWatchBehaved == IInv /\ BeginWatch => Behaved'
<1> USE DEF IInv, AnyInv, TypeOK, Behaved
<1> SUFFICES ASSUME IInv, BeginWatch PROVE Behaved'
  OBVIOUS
<1>1. /\ main = Idle /\ calls # <<>> /\ Head(calls).op = "watch" /\ calls' = Tail(calls)
      /\ main' = Head(calls) /\ registry' = registry \cup {Head(calls).app}
      /\ UNCHANGED <<kernel, appCounterReg, pidReg, mon, wanted, views, signals>>
  BY DEF BeginWatch, Begin, session
<1>2. /\ Len(calls) \in Nat \ {0}
      /\ DOMAIN calls = 1..Len(calls) /\ DOMAIN calls' = 1..(Len(calls) - 1)
      /\ \A i \in DOMAIN calls' : i + 1 \in DOMAIN calls /\ calls'[i] = calls[i + 1]
      /\ 1 \in DOMAIN calls /\ Head(calls) = calls[1] /\ Head(calls) \in Requests
      /\ Head(calls).app \in Exes /\ Head(calls) # Idle
  BY <1>1, CallTaken
<1> PICK app \in Exes : app = Head(calls).app
  BY <1>2
<1>3. calls[1] = [op |-> "watch", app |-> app]
  BY <1>1, <1>2 DEF Requests
<1>4. Called("watch", app)
  BY <1>2, <1>3 DEF Called
<1>5. /\ app \notin registry /\ app \notin DOMAIN appCounterReg
      /\ \A i \in DOMAIN calls : i > 1 /\ calls[i].app = app => calls[i].op = "forget"
  BY <1>1, <1>2, <1>3, <1>4 DEF CallsInv, CountersInv
<1>6. \A op \in {"watch", "forget"}, e \in Exes :
        Called(op, e) <=> Called(op, e)' \/ (op = "watch" /\ e = app)
  BY <1>1, <1>3, CalledTaken
<1>7. ~Called("watch", app)'
  BY <1>1, <1>2, <1>5 DEF Called
<1>8. \A i, j \in DOMAIN calls' : \A e \in Exes :
        calls'[i].app = e /\ calls'[j].app = e /\ i < j => calls'[i].op = "watch" /\ calls'[j].op = "forget"
  BY <1>2 DEF CallsInv
<1>9. CallsInv'
  <2> SUFFICES ASSUME NEW e \in Exes
               PROVE  /\ e \in wanted => ~Called("forget", e)' /\ (Called("watch", e)' \/ e \in registry')
                      /\ Called("watch", e)' => e \notin registry' /\ (main' # Idle => main'.app # e)
                      /\ Called("forget", e)' => Called("watch", e)' \/ e \in registry'
                      /\ Called("watch", e)' \/ e \in registry' => e \in wanted \/ Called("forget", e)'
    BY <1>1, <1>8 DEF CallsInv
  <2>1. CASE e = app
    <3>1. app \in wanted \/ Called("forget", app)
      BY <1>1, <1>4 DEF CallsInv
    <3> QED
      BY <1>1, <1>6, <1>7, <2>1, <3>1 DEF CallsInv
  <2>2. CASE e # app
    BY <1>1, <1>2, <1>6, <2>2 DEF CallsInv
  <2> QED
    BY <2>1, <2>2
<1>10. CountersInv'
  <2>1. \A e \in Exes : InExec(e)' <=> InExec(e)
    BY <1>1 DEF InExec
  <2>2. \A e \in Exes \ {app} : ~OnMain("watch", e)' /\ ~OnMain("forget", e)'
    BY <1>1 DEF OnMain
  <2>3. main'.app = app /\ main' # Idle /\ ~OnMain("forget", app)'
    BY <1>1, <1>2 DEF OnMain
  <2>4. \A e \in Exes : PidsOf(e)' = PidsOf(e)
    BY <1>1 DEF PidsOf
  <2> SUFFICES ASSUME NEW e \in Exes
               PROVE  /\ OnMain("watch", e)' => e \in registry' /\ e \notin DOMAIN appCounterReg
                      /\ main'.app # e => (e \in registry' <=> e \in DOMAIN appCounterReg)
                      /\ IF e \in DOMAIN appCounterReg
                           THEN appCounterReg[e] = Cardinality(PidsOf(e))
                           ELSE PidsOf(e) = {}
                      /\ InExec(e) => e \in registry' /\ e \in DOMAIN appCounterReg
    BY <1>1, <2>1, <2>2, <2>3, <2>4 DEF CountersInv
  <2>5. CASE e = app
    BY <1>1, <1>5, <2>3, <2>5 DEF CountersInv
  <2>6. CASE e # app
    BY <1>1, <2>2, <2>6 DEF CountersInv
  <2> QED
    BY <2>5, <2>6
<1>11. \A e \in Exes : Told(e)' <=> Told(e)
  BY <1>1, ToldUnchanged
<1> QED
  BY <1>1, <1>9, <1>10, <1>11, ProgramsKept, RemoveKept, SameKept, TurnsKept

\* An executable is unregistered when nothing but its end is handled.
LEMMA BeginForgetBehaved == IInv /\ BeginForget => Behaved'
<1> USE DEF IInv, AnyInv, TypeOK, Behaved
<1> SUFFICES ASSUME IInv, BeginForget PROVE Behaved'
  OBVIOUS
<1>1. /\ main = Idle /\ calls # <<>> /\ Head(calls).op = "forget" /\ calls' = Tail(calls)
      /\ registry' = registry \ {Head(calls).app} /\ ~InExec(Head(calls).app)
      /\ main' = IF Head(calls).app \in registry THEN Head(calls) ELSE Idle
      /\ UNCHANGED <<kernel, appCounterReg, pidReg, mon, wanted, views, signals>>
  BY DEF BeginForget, Begin, session
<1>2. /\ Len(calls) \in Nat \ {0}
      /\ DOMAIN calls = 1..Len(calls) /\ DOMAIN calls' = 1..(Len(calls) - 1)
      /\ \A i \in DOMAIN calls' : i + 1 \in DOMAIN calls /\ calls'[i] = calls[i + 1]
      /\ 1 \in DOMAIN calls /\ Head(calls) = calls[1] /\ Head(calls) \in Requests
      /\ Head(calls).app \in Exes /\ Head(calls) # Idle
  BY <1>1, CallTaken
<1> PICK app \in Exes : app = Head(calls).app
  BY <1>2
<1>3. calls[1] = [op |-> "forget", app |-> app]
  BY <1>1, <1>2 DEF Requests
<1>4. Called("forget", app)
  BY <1>2, <1>3 DEF Called
<1>5. \A i \in DOMAIN calls : calls[i].app = app => i = 1
  <2> SUFFICES ASSUME NEW i \in DOMAIN calls, calls[i].app = app, i # 1 PROVE FALSE
    OBVIOUS
  <2>1. calls[1].op = "forget" /\ calls[1].app = app /\ 1 < i
    BY <1>2, <1>3
  <2>2. calls[1].op = "watch"
    BY <1>2, <2>1 DEF CallsInv
  <2> QED
    BY <2>1, <2>2
<1>6. ~Called("watch", app)
  <2> SUFFICES ASSUME NEW i \in DOMAIN calls, calls[i] = [op |-> "watch", app |-> app] PROVE FALSE
    BY DEF Called
  <2> QED
    BY <1>3, <1>5
<1>7. app \notin wanted /\ app \in registry /\ app \in DOMAIN appCounterReg
  BY <1>1, <1>4, <1>6 DEF CallsInv, CountersInv
<1>8. main' = Head(calls) /\ main' # Idle /\ main'.op = "forget" /\ main'.app = app
  BY <1>1, <1>2, <1>7
<1>9. \A op \in {"watch", "forget"}, e \in Exes :
        Called(op, e) <=> Called(op, e)' \/ (op = "forget" /\ e = app)
  BY <1>1, <1>2, <1>3, CalledTaken
<1>10. ~Called("forget", app)' /\ ~Called("watch", app)'
  <2>1. \A i \in DOMAIN calls' : calls'[i].app # app
    BY <1>2, <1>5
  <2> QED
    BY <2>1 DEF Called
<1>11. \A i, j \in DOMAIN calls' : \A e \in Exes :
         calls'[i].app = e /\ calls'[j].app = e /\ i < j => calls'[i].op = "watch" /\ calls'[j].op = "forget"
  BY <1>2 DEF CallsInv
<1>12. CallsInv'
  <2> SUFFICES ASSUME NEW e \in Exes
               PROVE  /\ e \in wanted => ~Called("forget", e)' /\ (Called("watch", e)' \/ e \in registry')
                      /\ Called("watch", e)' => e \notin registry' /\ (main' # Idle => main'.app # e)
                      /\ Called("forget", e)' => Called("watch", e)' \/ e \in registry'
                      /\ Called("watch", e)' \/ e \in registry' => e \in wanted \/ Called("forget", e)'
    BY <1>1, <1>11 DEF CallsInv
  <2>1. CASE e = app
    BY <1>1, <1>7, <1>10, <2>1
  <2>2. CASE e # app
    BY <1>1, <1>8, <1>9, <2>2 DEF CallsInv
  <2> QED
    BY <2>1, <2>2
<1>13. CountersInv'
  <2>1. \A e \in Exes : InExec(e)' <=> InExec(e)
    BY <1>1 DEF InExec
  <2>2. \A e \in Exes \ {app} : OnMain("watch", e)' = FALSE /\ OnMain("forget", e)' = FALSE
    BY <1>8 DEF OnMain
  <2>3. ~OnMain("watch", app)' /\ ~InExec(app)
    BY <1>1, <1>8 DEF OnMain
  <2> QED
    BY <1>1, <1>7, <1>8, <2>1, <2>2, <2>3 DEF CountersInv, PidsOf
<1>14. \A e \in Exes : Told(e)' <=> Told(e)
  BY <1>1, ToldUnchanged
<1> QED
  BY <1>1, <1>12, <1>13, <1>14, ProgramsKept, RemoveKept, SameKept, TurnsKept

\* The observer gives the executable a counter.
LEMMA EndWatchBehaved == IInv /\ EndWatch => Behaved'
<1> USE DEF IInv, AnyInv, TypeOK, Behaved
<1> SUFFICES ASSUME IInv, EndWatch PROVE Behaved'
  OBVIOUS
<1>1. /\ main # Idle /\ main.op = "watch" /\ main' = Idle
      /\ UNCHANGED <<kernel, registry, pidReg, mon, wanted, views, calls, signals>>
  BY DEF EndWatch, session
<1> PICK app \in Exes : app = main.app
  BY <1>1, RequestFacts DEF HelperType
<1>2. app \in registry /\ app \notin DOMAIN appCounterReg /\ PidsOf(app) = {}
  BY <1>1 DEF CountersInv, OnMain
<1>3. /\ DOMAIN appCounterReg' = DOMAIN appCounterReg \cup {app}
      /\ appCounterReg'[app] = 0
      /\ \A e \in DOMAIN appCounterReg : appCounterReg'[e] = appCounterReg[e]
  <2>1. appCounterReg' = Put(appCounterReg, app, 0)
    BY <1>2 DEF EndWatch
  <2> QED
    BY <1>2, <2>1 DEF Put
<1>4. CallsInv'
  BY <1>1 DEF CallsInv, Called
<1>5. CountersInv'
  <2>1. Cardinality({}) = 0
    BY FS_EmptySet
  <2>2. \A e \in Exes : PidsOf(e)' = PidsOf(e) /\ (InExec(e)' <=> InExec(e))
    BY <1>1 DEF PidsOf, InExec
  <2> SUFFICES ASSUME NEW e \in Exes
               PROVE  /\ e \in registry <=> e \in DOMAIN appCounterReg'
                      /\ IF e \in DOMAIN appCounterReg'
                           THEN appCounterReg'[e] = Cardinality(PidsOf(e))
                           ELSE PidsOf(e) = {}
                      /\ InExec(e) => e \in registry /\ e \in DOMAIN appCounterReg'
    BY <1>1, <2>2 DEF CountersInv, OnMain
  <2>3. CASE e = app
    BY <1>2, <1>3, <2>1, <2>3
  <2>4. CASE e # app
    BY <1>3, <2>4 DEF CountersInv
  <2> QED
    BY <2>3, <2>4
<1>6. \A e \in Exes : Told(e)' <=> Told(e)
  <2>1. ~Running(app) /\ ~Running(app)'
    BY <1>2, <1>3 DEF Running
  <2>2. \A e \in Exes \ {app} : Running(e)' <=> Running(e)
    BY <1>3 DEF Running
  <2> QED
    BY <1>1, <2>1, <2>2 DEF Told, At
<1> QED
  BY <1>1, <1>4, <1>5, <1>6, ProgramsKept, RemoveKept, SameKept, TurnsKept

\* The observer drops the counter and the processes of an executable nobody wants.
LEMMA EndForgetBehaved == IInv /\ EndForget => Behaved'
<1> USE DEF IInv, AnyInv, TypeOK, Behaved
<1> SUFFICES ASSUME IInv, EndForget PROVE Behaved'
  OBVIOUS
<1>1. /\ main # Idle /\ main.op = "forget" /\ main' = Idle
      /\ UNCHANGED <<kernel, registry, mon, wanted, views, calls, signals>>
      /\ pidReg' = Restrict(pidReg, DOMAIN pidReg \ PidsOf(main.app))
      /\ appCounterReg' = Restrict(appCounterReg, DOMAIN appCounterReg \ {main.app})
  BY DEF EndForget, session
<1> PICK app \in Exes : app = main.app
  BY <1>1, RequestFacts DEF HelperType
<1>2. app \notin registry /\ app \notin wanted /\ ~InExec(app)
  BY <1>1 DEF CountersInv, OnMain
<1>3. /\ DOMAIN pidReg' \subseteq DOMAIN pidReg
      /\ \A q \in DOMAIN pidReg' : pidReg'[q] = pidReg[q]
      /\ \A q \in DOMAIN pidReg : pidReg[q] # app => q \in DOMAIN pidReg'
      /\ PidsOf(app)' = {}
      /\ \A e \in Exes \ {app} : PidsOf(e)' = PidsOf(e)
  <2>1. pidReg' = Restrict(pidReg, DOMAIN pidReg \ PidsOf(app))
    BY <1>1
  <2> QED
    BY <2>1, PidsErased
<1>4. /\ DOMAIN appCounterReg' = DOMAIN appCounterReg \ {app}
      /\ \A e \in DOMAIN appCounterReg' : appCounterReg'[e] = appCounterReg[e]
  BY <1>1 DEF Restrict
<1>5. CallsInv'
  BY <1>1 DEF CallsInv, Called
<1>6. SameProgram'
  BY <1>1, <1>3 DEF SameProgram, Adding
<1>7. RemoveInv'
  <2> SUFFICES ASSUME At("remove")
               PROVE  /\ mon.pid \in DOMAIN pidReg' => pidReg'[mon.pid] = mon.app
                      /\ mon.app \in wanted => mon.pid \in DOMAIN pidReg'
    BY <1>1 DEF RemoveInv, At
  <2> QED
    BY <1>2, <1>3 DEF RemoveInv
<1>8. CountersInv'
  <2>1. \A e \in Exes : InExec(e)' <=> InExec(e)
    BY <1>1 DEF InExec
  <2> SUFFICES ASSUME NEW e \in Exes
               PROVE  /\ e \in registry <=> e \in DOMAIN appCounterReg'
                      /\ IF e \in DOMAIN appCounterReg'
                           THEN appCounterReg'[e] = Cardinality(PidsOf(e)')
                           ELSE PidsOf(e)' = {}
                      /\ InExec(e) => e \in registry /\ e \in DOMAIN appCounterReg'
    BY <1>1, <2>1 DEF CountersInv, OnMain
  <2>2. CASE e = app
    BY <1>2, <1>3, <1>4, <2>2
  <2>3. CASE e # app
    BY <1>3, <1>4, <2>3 DEF CountersInv
  <2> QED
    BY <2>2, <2>3
<1>9. \A e \in Exes \ {app} : Told(e)' <=> Told(e)
  <2>1. \A e \in Exes \ {app} : Running(e)' <=> Running(e)
    BY <1>4 DEF Running
  <2> QED
    BY <1>1, <2>1 DEF Told, At
<1>10. TurnsInv'
  <2> SUFFICES ASSUME NEW e \in wanted, e \in Exes PROVE Turns(e)'
    BY <1>1 DEF TurnsInv
  <2> QED
    BY <1>1, <1>2, <1>9, TurnsUnchanged DEF TurnsInv
<1> QED
  BY <1>1, <1>5, <1>6, <1>7, <1>8, <1>10, ProgramsKept

\* Nothing of an earlier watch is under way: the executable starts from nothing.
LEMMA WatchBehaved ==
  ASSUME IInv, NEW e \in Exes, Watch(e)
  PROVE  Behaved'
<1> USE DEF IInv, AnyInv, TypeOK, Behaved
<1>1. /\ \A i \in DOMAIN calls : calls[i].app # e
      /\ main = Idle \/ main.app # e
      /\ mon = Idle \/ mon.app # e
      /\ \A i \in DOMAIN signals : signals[i].app # e
      /\ e \notin wanted /\ wanted' = wanted \cup {e} /\ Request("watch", e)
      /\ UNCHANGED <<kernel, registry, main, appCounterReg, pidReg, mon, signals, views>>
  BY DEF Watch, WatchApp, Settled, helper
<1>2. ~Called("watch", e) /\ ~Called("forget", e)
  BY <1>1 DEF Called
<1>3. e \notin registry /\ e \notin DOMAIN appCounterReg
  BY <1>1, <1>2 DEF CallsInv, CountersInv
<1>4. /\ Len(calls) \in Nat
      /\ DOMAIN calls = 1..Len(calls) /\ DOMAIN calls' = 1..(Len(calls) + 1)
      /\ \A i \in DOMAIN calls : calls'[i] = calls[i]
      /\ calls'[Len(calls) + 1] = [op |-> "watch", app |-> e]
  BY <1>1, CallMade
<1>5. \A op \in {"watch", "forget"}, x \in Exes : Called(op, x)' <=> Called(op, x) \/ (op = "watch" /\ x = e)
  BY <1>1, CalledMade
<1>6. \A i, j \in DOMAIN calls' : \A x \in Exes :
        calls'[i].app = x /\ calls'[j].app = x /\ i < j => calls'[i].op = "watch" /\ calls'[j].op = "forget"
  <2> SUFFICES ASSUME NEW i \in DOMAIN calls', NEW j \in DOMAIN calls', NEW x \in Exes,
                      calls'[i].app = x, calls'[j].app = x, i < j
               PROVE  calls'[i].op = "watch" /\ calls'[j].op = "forget"
    OBVIOUS
  <2>1. i \in DOMAIN calls
    BY <1>4
  <2>2. j \in DOMAIN calls
    BY <1>1, <1>4, <2>1
  <2> QED
    BY <1>4, <2>1, <2>2 DEF CallsInv
<1>7. CallsInv'
  <2> SUFFICES ASSUME NEW x \in Exes
               PROVE  /\ x \in wanted' => ~Called("forget", x)' /\ (Called("watch", x)' \/ x \in registry)
                      /\ Called("watch", x)' => x \notin registry /\ (main # Idle => main.app # x)
                      /\ Called("forget", x)' => Called("watch", x)' \/ x \in registry
                      /\ Called("watch", x)' \/ x \in registry => x \in wanted' \/ Called("forget", x)'
    BY <1>1, <1>6 DEF CallsInv
  <2>1. CASE x = e
    BY <1>1, <1>2, <1>3, <1>5, <2>1
  <2>2. CASE x # e
    BY <1>1, <1>5, <2>2 DEF CallsInv
  <2> QED
    BY <2>1, <2>2
<1>8. CountersInv'
  <2>1. \A x \in Exes : InExec(x)' <=> InExec(x)
    BY <1>1 DEF InExec
  <2>2. \A x \in Exes : PidsOf(x)' = PidsOf(x)
    BY <1>1 DEF PidsOf
  <2>3. \A op, x : OnMain(op, x)' <=> OnMain(op, x)
    BY <1>1 DEF OnMain
  <2>4. \A x \in Exes : OnMain("forget", x) => x \notin wanted'
    BY <1>1 DEF CountersInv, OnMain
  <2> QED
    BY <1>1, <2>1, <2>2, <2>3, <2>4 DEF CountersInv
<1>9. RemoveInv'
  BY <1>1 DEF RemoveInv, At
<1>10. TurnsInv'
  <2>1. views[e] = 0 /\ ~Told(e)
    BY <1>1, <1>3 DEF TurnsInv, Told, Running, At
  <2>2. \A x \in Exes : Told(x)' <=> Told(x)
    BY <1>1, ToldUnchanged
  <2>3. Turns(e)
    BY <1>1, <2>1 DEF Turns, FirstOf, LastOf, Follows, About
  <2>4. \A x \in wanted' : x \in Exes => Turns(x)
    BY <1>1, <2>3 DEF TurnsInv
  <2>5. \A x \in wanted' : x \in Exes => Turns(x)'
    BY <1>1, <2>2, <2>4, TurnsUnchanged
  <2> QED
    BY <1>1, <2>5 DEF TurnsInv
<1> QED
  BY <1>1, <1>7, <1>8, <1>9, <1>10, ProgramsKept, SameKept

\* The session forgets an executable and takes its view away.
LEMMA ForgetBehaved ==
  ASSUME IInv, NEW e \in Exes, Forget(e)
  PROVE  Behaved'
<1> USE DEF IInv, AnyInv, TypeOK, Behaved
<1>1. /\ e \in wanted /\ wanted' = wanted \ {e} /\ views' = Unstacked(e) /\ Request("forget", e)
      /\ UNCHANGED <<kernel, registry, main, appCounterReg, pidReg, mon, signals>>
  BY DEF Forget, helper
<1>2. views'[e] = 0 /\ \A x \in Exes \ {e} : views'[x] = views[x]
  BY <1>1, UnstackedFacts DEF TurnsInv, Turns
<1>3. /\ Len(calls) \in Nat
      /\ DOMAIN calls = 1..Len(calls) /\ DOMAIN calls' = 1..(Len(calls) + 1)
      /\ \A i \in DOMAIN calls : calls'[i] = calls[i]
      /\ calls'[Len(calls) + 1] = [op |-> "forget", app |-> e]
  BY <1>1, CallMade
<1>4. \A op \in {"watch", "forget"}, x \in Exes : Called(op, x)' <=> Called(op, x) \/ (op = "forget" /\ x = e)
  BY <1>1, CalledMade
<1>5. \A i \in DOMAIN calls : calls[i].app = e => calls[i].op = "watch"
  <2> SUFFICES ASSUME NEW i \in DOMAIN calls, calls[i].app = e, calls[i].op # "watch" PROVE FALSE
    OBVIOUS
  <2>1. calls[i] \in Requests
    BY DEF SessionType
  <2>2. calls[i] = [op |-> "forget", app |-> e]
    BY <2>1 DEF Requests
  <2> QED
    BY <1>1, <2>2 DEF CallsInv, Called
<1>6. \A i, j \in DOMAIN calls' : \A x \in Exes :
        calls'[i].app = x /\ calls'[j].app = x /\ i < j => calls'[i].op = "watch" /\ calls'[j].op = "forget"
  <2> SUFFICES ASSUME NEW i \in DOMAIN calls', NEW j \in DOMAIN calls', NEW x \in Exes,
                      calls'[i].app = x, calls'[j].app = x, i < j
               PROVE  calls'[i].op = "watch" /\ calls'[j].op = "forget"
    OBVIOUS
  <2>1. i \in DOMAIN calls
    BY <1>3
  <2>2. CASE j \in DOMAIN calls
    BY <1>3, <2>1, <2>2 DEF CallsInv
  <2>3. CASE j = Len(calls) + 1
    <3>1. calls'[j].app = e /\ calls'[j].op = "forget"
      BY <1>3, <2>3
    <3> QED
      BY <1>3, <1>5, <2>1, <3>1
  <2> QED
    BY <1>3, <2>2, <2>3
<1>7. CallsInv'
  <2> SUFFICES ASSUME NEW x \in Exes
               PROVE  /\ x \in wanted' => ~Called("forget", x)' /\ (Called("watch", x)' \/ x \in registry)
                      /\ Called("watch", x)' => x \notin registry /\ (main # Idle => main.app # x)
                      /\ Called("forget", x)' => Called("watch", x)' \/ x \in registry
                      /\ Called("watch", x)' \/ x \in registry => x \in wanted' \/ Called("forget", x)'
    BY <1>1, <1>6 DEF CallsInv
  <2>1. CASE x = e
    BY <1>1, <1>4, <2>1 DEF CallsInv
  <2>2. CASE x # e
    BY <1>1, <1>4, <2>2 DEF CallsInv
  <2> QED
    BY <2>1, <2>2
<1>8. CountersInv'
  <2>1. \A x \in Exes : InExec(x)' <=> InExec(x)
    BY <1>1 DEF InExec
  <2>2. \A x \in Exes : PidsOf(x)' = PidsOf(x)
    BY <1>1 DEF PidsOf
  <2>3. \A op, x : OnMain(op, x)' <=> OnMain(op, x)
    BY <1>1 DEF OnMain
  <2>4. \A x \in Exes : OnMain("forget", x) => x \notin wanted'
    BY <1>1 DEF CountersInv
  <2> QED
    BY <1>1, <2>1, <2>2, <2>3, <2>4 DEF CountersInv
<1>9. RemoveInv'
  BY <1>1 DEF RemoveInv, At
<1>10. TurnsInv'
  <2>1. \A x \in Exes : Told(x)' <=> Told(x)
    BY <1>1, ToldUnchanged
  <2> SUFFICES ASSUME NEW x \in Exes \ {e} PROVE IF x \in wanted THEN Turns(x)' ELSE views[x] = 0
    BY <1>1, <1>2 DEF TurnsInv
  <2> QED
    BY <1>1, <1>2, <2>1, TurnsUnchanged DEF TurnsInv
<1> QED
  BY <1>1, <1>7, <1>8, <1>9, <1>10, ProgramsKept, SameKept

\* A signal changes the view of an executable the session wants, and of no other.
LEMMA DeliverBehaved == IInv /\ Deliver => Behaved'
<1> USE DEF IInv, AnyInv, TypeOK, Behaved
<1> SUFFICES ASSUME IInv, Deliver PROVE Behaved'
  OBVIOUS
<1>1. /\ signals # <<>> /\ signals' = Tail(signals)
      /\ UNCHANGED <<kernel, registry, main, appCounterReg, pidReg, mon, wanted, calls>>
      /\ LET s == Head(signals)
         IN  \/ s.app \in wanted /\ s.kind = "exec" /\ views' = [views EXCEPT ![s.app] = @ + 1]
             \/ s.app \in wanted /\ s.kind = "exit" /\ views' = Unstacked(s.app)
             \/ s.app \notin wanted /\ views' = views
  BY DEF Deliver, helper
<1>2. Head(signals).app \in Exes
  BY <1>1, SignalTaken
<1> PICK app \in Exes : app = Head(signals).app
  BY <1>2
<1>3. \A e \in Exes : Told(e)' <=> Told(e)
  BY <1>1, ToldUnchanged
<1>4. /\ \A e \in Exes \ {app} : views'[e] = views[e]
      /\ app \in wanted => \/ Head(signals).kind = "exec" /\ views'[app] = views[app] + 1
                           \/ Head(signals).kind = "exit" /\ views'[app] = 0
      /\ app \notin wanted => views' = views
  <2>1. CASE app \in wanted /\ Head(signals).kind = "exec" /\ views' = [views EXCEPT ![app] = @ + 1]
    BY <2>1 DEF SessionType
  <2>2. CASE app \in wanted /\ Head(signals).kind = "exit" /\ views' = Unstacked(app)
    <3>1. views[app] \in {0, 1}
      BY <2>2 DEF TurnsInv, Turns
    <3> QED
      BY <2>2, <3>1, UnstackedFacts
  <2> QED
    BY <1>1, <2>1, <2>2
<1>5. TurnsInv'
  <2> SUFFICES ASSUME NEW e \in Exes PROVE IF e \in wanted THEN Turns(e)' ELSE views'[e] = 0
    BY <1>1 DEF TurnsInv
  <2>1. CASE e \in wanted
    <3>1. Turns(e)
      BY <2>1 DEF TurnsInv
    <3>2. Head(signals).app # e => views'[e] = views[e]
      BY <1>4
    <3>3. Head(signals).app = e => \/ Head(signals).kind = "exec" /\ views'[e] = views[e] + 1
                                   \/ Head(signals).kind = "exit" /\ views'[e] = 0
      BY <1>4, <2>1
    <3>4. signals # <<>> /\ signals' = Tail(signals) /\ (Told(e)' <=> Told(e))
      BY <1>1, <1>3
    <3>5. SessionType
      OBVIOUS
    <3>6. Turns(e)'
      BY ONLY <3>1, <3>2, <3>3, <3>4, <3>5, e \in Exes, TurnTaken
    <3> QED
      BY <2>1, <3>6
  <2>2. CASE e \notin wanted
    BY <1>4, <2>2 DEF TurnsInv
  <2> QED
    BY <2>1, <2>2
<1> QED
  BY <1>1, <1>5, ProgramsKept, CallsKept, CountersKept, RemoveKept, SameKept

LEMMA NextStep == IInv /\ [Next]_vars => IInv'
<1> SUFFICES ASSUME IInv, [Next]_vars PROVE IInv'
  OBVIOUS
<1>1. AnyInv'
  BY NextStepAny DEF IInv, NextAny, NextChain
<1>2. ASSUME Processes PROVE Behaved'
  BY <1>2, ExecBehaved, ExitBehaved DEF Processes
<1>3. ASSUME Monitor PROVE Behaved'
  BY <1>3, TakeBehaved, RegisteredBehaved, SendExecBehaved, AddBehaved, RemoveBehaved, SendExitBehaved
     DEF Monitor
<1>4. ASSUME BeginWatch \/ BeginForget \/ EndWatch \/ EndForget PROVE Behaved'
  BY <1>4, BeginWatchBehaved, BeginForgetBehaved, EndWatchBehaved, EndForgetBehaved
<1>5. ASSUME Session PROVE Behaved'
  BY <1>5, WatchBehaved, ForgetBehaved, DeliverBehaved DEF Session
<1>6. ASSUME UNCHANGED vars PROVE Behaved'
  <2>1. UNCHANGED <<kernel, registry, main, appCounterReg, pidReg, mon, wanted, views, calls, signals>>
    BY <1>6 DEF vars, helper, session
  <2>2. \A e \in Exes : Told(e)' <=> Told(e)
    BY <2>1, ToldUnchanged
  <2> QED
    BY <2>1, <2>2, ProgramsKept, CallsKept, CountersKept, RemoveKept, SameKept, TurnsKept DEF IInv, Behaved
<1> QED
  BY <1>1, <1>2, <1>3, <1>4, <1>5, <1>6 DEF IInv, Next, Helper

LEMMA Invariant == Spec => []IInv
<1>1. Init => IInv
  BY InitAny, InitBehaved DEF IInv
<1> QED
  BY <1>1, NextStep, PTL DEF Spec

\* The session never gets a second appearance of a program before its end, so that no profile
\* has two views.
THEOREM OneView == Spec => []SingleView
<1>1. IInv => SingleView
  BY DEF IInv, Behaved, TurnsInv, Turns, SingleView
<1> QED
  BY <1>1, Invariant, PTL

\* With nothing under way, a wanted executable has a view exactly if it has a known process.
LEMMA QuietViews ==
  ASSUME IInv, Quiet, NEW e \in Exes
  PROVE  views[e] > 0 <=> PidsOf(e) # {}
<1> USE DEF IInv, AnyInv, TypeOK, Behaved
<1>1. /\ mon = Idle /\ main = Idle /\ DOMAIN calls = {} /\ DOMAIN signals = {}
  BY DEF Quiet
<1>2. Cardinality(PidsOf(e)) \in Nat /\ (Cardinality(PidsOf(e)) = 0 <=> PidsOf(e) = {})
  BY PidsFinite
<1>3. e \in wanted <=> e \in DOMAIN appCounterReg
  BY <1>1 DEF CallsInv, CountersInv, Called
<1>4. CASE e \in wanted
  <2>1. views[e] \in {0, 1} /\ (views[e] = 1 <=> Told(e))
    BY <1>1, <1>4 DEF TurnsInv, Turns
  <2>2. Told(e) <=> appCounterReg[e] > 0
    BY <1>1, <1>3, <1>4 DEF Told, At, Running
  <2>3. appCounterReg[e] = Cardinality(PidsOf(e))
    BY <1>3, <1>4 DEF CountersInv
  <2> QED
    BY <1>2, <2>1, <2>2, <2>3
<1>5. CASE e \notin wanted
  BY <1>3, <1>5 DEF TurnsInv, CountersInv
<1> QED
  BY <1>4, <1>5

\* Once everything under way has arrived, the session has a view of a profile exactly when the
\* helper knows a process of its executable.
THEOREM ViewsAgree == Spec => []ViewsMatch
<1>1. IInv => ViewsMatch
  BY QuietViews DEF ViewsMatch
<1> QED
  BY <1>1, Invariant, PTL

\* Once everything under way has arrived, a view means that a process that ran the executable
\* is alive (README.md:7).
THEOREM LeavesWithItsProgram == Spec => []LeavesWithProgram
<1>1. IInv => LeavesWithProgram
  <2> SUFFICES ASSUME IInv, Quiet, NEW e \in Exes, views[e] > 0
               PROVE  \E pid \in Pids : e \in life[pid]
    BY DEF LeavesWithProgram
  <2>1. PICK pid \in DOMAIN pidReg : pidReg[pid] = e
    BY QuietViews DEF PidsOf
  <2>2. mon = Idle /\ DOMAIN events = {}
    BY DEF Quiet
  <2>3. pidReg[pid] \in life[pid] /\ pid \in Pids
    BY <2>2 DEF IInv, AnyInv, TypeOK, HelperType, NoLeak, At
  <2> QED
    BY <2>1, <2>3
<1> QED
  BY <1>1, Invariant, PTL
=============================================================================
