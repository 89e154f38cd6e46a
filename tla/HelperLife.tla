------------------------------ MODULE HelperLife ------------------------------
(***************************************************************************)
(* The application and its helper, a privileged process the bus activates  *)
(* (src/helper/helpercontrol.cpp, helper.cpp, helperkiller.cpp).           *)
(*                                                                         *)
(* The application asks whether a helper has been started, has one that a  *)
(* former application left behind killed, and starts its own: they         *)
(* exchange keys, and each verifies what the other signs.  A started       *)
(* helper ends when its timer elapses; the application defers that, and    *)
(* checks now and then that the helper is still there.  A call to a helper *)
(* that is not running activates a process that has not been started.      *)
(*                                                                         *)
(* Calls to the bus arrive in order.  Time is counted in ticks, and what   *)
(* is due is done, and a call handled, before the next tick: only a        *)
(* stalled application is late.                                            *)
(***************************************************************************)
EXTENDS Integers, Sequences

CONSTANTS
  Timeout,      \* App's helper-timeout, in ticks
  Nothing,      \* no key; a timer that is not active
  MaxLaunches,  \* bounds: launches of the application,
  MaxFaults     \* and kills, refusals, slow answers and stalls

ASSUME HelperLifeAssumption ==
  /\ Timeout \in Nat /\ Timeout >= 2
  /\ Nothing \notin Nat
  /\ MaxLaunches \in Nat /\ MaxFaults \in Nat

VARIABLES
  pc,           \* what the application does: see Waiting
  key,          \* its key, the number of its launch
  opKey,        \* the key of the helper it uses
  defer,        \* ticks left of deferHelperAutoExitSignalTimer_
  checked,      \* deferHelperHealthCheckTimer_ has elapsed in this tick
  calls,        \* calls under way to the helper
  reply,        \* the answer to the call the application waits for
  up,           \* a helper process runs
  quitting,     \* it has queued QCoreApplication::quit
  autoExit,     \* ticks left of autoExitTimer_
  hKey,         \* key of the helper
  appKey,       \* key of the application the helper verifies with
  starts, faults, stalls

app    == <<pc, key, opKey, defer, checked>>
helper == <<up, quitting, autoExit, hKey, appKey, starts>>
vars   == <<app, helper, calls, reply, faults, stalls>>

NoHelper == [up |-> FALSE, quitting |-> FALSE, autoExit |-> Nothing,
             hKey |-> Nothing, appKey |-> Nothing]
Becomes(h) == /\ up' = h.up /\ quitting' = h.quitting /\ autoExit' = h.autoExit
              /\ hKey' = h.hKey /\ appKey' = h.appKey

Started == autoExit # Nothing           \* Helper::started
IntervalOfTimeout == Timeout
Interval == (2 * Timeout) \div 3        \* deferAutoExitSignalInterval_

(* An answer to the application: yes or no, a key, or an error. *)
Says(what)  == [is |-> what]
Gives(k)    == [is |-> "key", key |-> k]
NoReply     == Says("none")

(* The application waits for the answer to a call, and handles nothing else. *)
Waiting == {"FindOther", "CheckKilled", "Starting", "Checking", "Restarting"}
Off     == {"Off", "Failed", "Crashed"}

Fault == faults < MaxFaults /\ faults' = faults + 1
Call(name) == calls' = Append(calls, [name |-> name, from |-> key])

Init == /\ pc = "Off" /\ key = 0 /\ opKey = Nothing /\ defer = Nothing /\ checked = FALSE
        /\ up = FALSE /\ quitting = FALSE /\ autoExit = Nothing
        /\ hKey = Nothing /\ appKey = Nothing
        /\ calls = <<>> /\ reply = NoReply
        /\ starts = 0 /\ faults = 0 /\ stalls = 0

-----------------------------------------------------------------------------
(***************************************************************************)
(* The application starts                                                  *)
(***************************************************************************)

(* HelperControl::init up to the first call of killOtherHelperInstance. *)
Launch ==
  /\ pc \in Off /\ key < MaxLaunches
  /\ key' = key + 1 /\ pc' = "FindOther" /\ reply' = NoReply
  /\ opKey' = Nothing /\ defer' = Nothing /\ checked' = FALSE
  /\ calls' = Append(calls, [name |-> "started", from |-> key + 1])
  /\ UNCHANGED <<helper, faults, stalls>>

(* The answer to a call; an error when the helper has ended or refuses. *)
Answered(p) == pc = p /\ reply # NoReply
SaidYes == reply.is = "yes"
StaysAs == UNCHANGED <<helper, key, checked, faults, stalls>>

AskStart(p) ==
  pc' = p /\ reply' = NoReply /\ Call("start") /\ UNCHANGED opKey

(* As if the other helper were left alone. *)
FoundOtherAndStarts ==
  /\ Answered("FindOther") /\ StaysAs /\ UNCHANGED defer
  /\ AskStart("Starting")

(* killOtherHelperInstance *)
FoundOther ==
  /\ Answered("FindOther") /\ StaysAs /\ UNCHANGED defer
  /\ \/ SaidYes  /\ pc' = "Killing" /\ reply' = NoReply /\ UNCHANGED <<calls, opKey>>
     \/ ~SaidYes /\ AskStart("Starting")

(* A call of a helper that has ended is answered with an error, or activates one. *)
Lost(cs) ==
  \/ calls' = cs /\ UNCHANGED reply
  \/ /\ calls' = <<>>
     /\ reply' = IF \E i \in DOMAIN cs : pc \in Waiting /\ cs[i].from = key
                                         /\ cs[i].name \in {"started", "start"}
                   THEN Says("error") ELSE reply

(* HelperKiller::start *)
KillsHelper == up /\ Becomes(NoHelper)

(* startHelperKiller: it is started, has nothing to kill, or is refused. *)
KillOther ==
  /\ pc = "Killing"
  /\ UNCHANGED <<key, opKey, defer, checked, starts, stalls>>
  /\ \/ /\ KillsHelper
        /\ pc' = "CheckKilled" /\ Call("started")
        /\ UNCHANGED <<reply, faults>>
     \/ /\ ~up /\ pc' = "Failed"
        /\ UNCHANGED <<up, quitting, autoExit, hKey, appKey, calls, reply, faults>>
     \/ /\ Fault /\ pc' = "Failed"
        /\ UNCHANGED <<up, quitting, autoExit, hKey, appKey, calls, reply>>

CheckedKilled ==
  /\ Answered("CheckKilled") /\ StaysAs /\ UNCHANGED defer
  /\ \/ SaidYes  /\ pc' = "Failed" /\ UNCHANGED <<calls, reply, opKey>>
     \/ ~SaidYes /\ AskStart("Starting")

(* As if the deferral timer were only started by init. *)
UseHelperOnce ==
  /\ reply.is = "key" /\ pc' = "Running"
  /\ opKey' = reply.key /\ defer' = IF pc = "Starting" THEN Interval ELSE defer
  /\ reply' = NoReply /\ UNCHANGED calls

(* startHelper with an answer, and usePublicKey. *)
UseHelper ==
  /\ reply.is = "key" /\ pc' = "Running"
  /\ opKey' = reply.key /\ defer' = Interval
  /\ reply' = NoReply /\ UNCHANGED calls

(* init throws, and the application ends without a word to the helper. *)
InitEnds ==
  /\ Answered("Starting") /\ StaysAs
  /\ \/ UseHelper
     \/ reply.is # "key" /\ pc' = "Failed" /\ UNCHANGED <<opKey, defer, calls, reply>>

-----------------------------------------------------------------------------
(***************************************************************************)
(* The application runs                                                    *)
(***************************************************************************)

(* helperExitDeferrerTimeout *)
DeferExit ==
  /\ pc = "Running" /\ defer = 0
  /\ defer' = Interval
  /\ Call("delayAutoExit")
  /\ UNCHANGED <<helper, pc, key, opKey, checked, reply, faults, stalls>>

(* helperHealthCheckTimeout: nothing to check when the deferral timer is stopped. *)
HealthCheck ==
  /\ pc = "Running" /\ ~checked
  /\ checked' = TRUE
  /\ \/ defer # Nothing /\ pc' = "Checking" /\ Call("started")
     \/ defer = Nothing /\ UNCHANGED <<pc, calls>>
  /\ UNCHANGED <<helper, key, opKey, defer, reply, faults, stalls>>

Checked ==
  /\ Answered("Checking") /\ StaysAs
  /\ \/ /\ SaidYes /\ pc' = "Running" /\ reply' = NoReply
        /\ UNCHANGED <<calls, opKey, defer>>
     \/ ~SaidYes /\ defer' = Nothing /\ AskStart("Restarting")

(* The end of the check.  The value of a missing key throws out of a slot, *)
(* which ends the application.                                             *)
Restarted ==
  /\ Answered("Restarting") /\ StaysAs
  /\ \/ UseHelper
     \/ reply.is # "key" /\ pc' = "Crashed" /\ UNCHANGED <<opKey, defer, calls, reply>>

(* stop *)
Quit ==
  /\ pc = "Running"
  /\ pc' = "Off" /\ defer' = Nothing
  /\ Call("exit")
  /\ UNCHANGED <<helper, key, opKey, checked, reply, faults, stalls>>

(* The application is killed: the helper is told nothing. *)
AppKilled ==
  /\ pc \notin Off /\ Fault
  /\ pc' = "Off" /\ defer' = Nothing
  /\ UNCHANGED <<helper, key, opKey, checked, calls, reply, stalls>>

(* The call of start is not answered in time, while the user is asked to   *)
(* authorise it; the helper handles it all the same.                       *)
SlowAnswer ==
  /\ pc \in {"Starting", "Restarting"} /\ reply = NoReply /\ Fault
  /\ reply' = Says("error")
  /\ UNCHANGED <<app, helper, calls, stalls>>

-----------------------------------------------------------------------------
(***************************************************************************)
(* The helper                                                              *)
(***************************************************************************)
Self == [up |-> TRUE, quitting |-> quitting, autoExit |-> autoExit,
         hKey |-> hKey, appKey |-> appKey]

(* The answer to the call c reaches the application that made it. *)
Answer(c, a) ==
  reply' = IF pc \in Waiting /\ c.from = key /\ reply = NoReply THEN a ELSE reply

Authorised(c) ==
  /\ Becomes([Self EXCEPT !.autoExit = Timeout, !.hKey = starts + 1, !.appKey = c.from])
  /\ starts' = starts + 1
  /\ Answer(c, Gives(starts + 1)) /\ UNCHANGED faults

(* Refused, or the monitor or the receiver cannot be set up: exitHelper. *)
Refused(c) ==
  /\ \/ Fault
     \/ (c.from # key \/ pc \in Off) /\ UNCHANGED faults
  /\ Becomes([Self EXCEPT !.quitting = TRUE])
  /\ UNCHANGED starts /\ Answer(c, Says("no"))

(* Helper::start *)
Start(c) ==
  \/ Started  /\ Becomes(Self) /\ Answer(c, Gives(hKey)) /\ UNCHANGED <<starts, faults>>
  \/ ~Started /\ Authorised(c)
  \/ ~Started /\ Refused(c)

(* CryptoLayer: the helper knows the key of the application that signed c. *)
Verifies(c) == appKey = c.from

(* Helper::exit.  A helper that was not started has no key to verify with, *)
(* and dereferences a null pointer.                                        *)
Exit(c) ==
  /\ \/ hKey = Nothing /\ Becomes(NoHelper)
     \/ /\ hKey # Nothing /\ Verifies(c)
        /\ Becomes([Self EXCEPT !.autoExit = Nothing, !.quitting = TRUE])
     \/ hKey # Nothing /\ ~Verifies(c) /\ Becomes(Self)
  /\ UNCHANGED <<starts, faults, reply>>

(* Helper::delayAutoExit *)
DelayAutoExit ==
  /\ Becomes([Self EXCEPT !.autoExit = IF Started THEN Timeout ELSE Nothing])
  /\ UNCHANGED <<starts, faults, reply>>

(* The next call; the bus activates the helper for it. *)
Serve ==
  /\ calls # <<>>
  /\ calls' = Tail(calls)
  /\ LET c == Head(calls)
     IN \/ c.name = "started" /\ Becomes(Self) /\ Answer(c, Says(IF Started THEN "yes" ELSE "no")) /\ UNCHANGED <<starts, faults>>
        \/ c.name = "start" /\ Start(c)
        \/ c.name = "exit" /\ Exit(c)
        \/ c.name = "delayAutoExit" /\ DelayAutoExit
  /\ UNCHANGED <<app, stalls>>

(* As if the elapsed timer ended no process. *)
AutoExitStays ==
  /\ autoExit = 0
  /\ Becomes([Self EXCEPT !.autoExit = Nothing])
  /\ UNCHANGED <<app, calls, reply, starts, faults, stalls>>

(* autoExitTimeout *)
AutoExit ==
  /\ autoExit = 0
  /\ Becomes([Self EXCEPT !.autoExit = Nothing, !.quitting = TRUE])
  /\ UNCHANGED <<app, calls, reply, starts, faults, stalls>>

(* The event loop ends, and main with it.  A call that came in between has *)
(* been served.                                                            *)
HelperEnds ==
  /\ quitting /\ Becomes(NoHelper) /\ Lost(calls)
  /\ UNCHANGED <<app, starts, faults, stalls>>

HelperKilled ==
  /\ up /\ Fault /\ Becomes(NoHelper) /\ Lost(calls)
  /\ UNCHANGED <<app, starts, stalls>>

-----------------------------------------------------------------------------
(* Time passes once what is due is done. *)
Due == calls # <<>> \/ quitting \/ autoExit = 0 \/ pc \in Waiting \cup {"Killing"}
AppDue == pc = "Running" /\ (defer = 0 \/ ~checked)

Less(t) == IF t = Nothing \/ t = 0 THEN t ELSE t - 1

Tick ==
  /\ ~Due
  /\ \/ ~AppDue /\ UNCHANGED <<faults, stalls>>
     \/ AppDue /\ Fault /\ stalls' = stalls + 1
  /\ defer' = Less(defer) /\ autoExit' = Less(autoExit)
  /\ checked' = FALSE
  /\ UNCHANGED <<pc, key, opKey, up, quitting, hKey, appKey, starts, calls, reply>>

Step == FoundOther \/ KillOther \/ CheckedKilled \/ InitEnds \/ DeferExit
        \/ HealthCheck \/ Checked \/ Restarted \/ Serve \/ AutoExit \/ HelperEnds
Next == \/ Step \/ Tick
        \/ Launch \/ Quit \/ AppKilled \/ SlowAnswer \/ HelperKilled

(* The processes run, the bus delivers, and time passes. *)
Fairness ==
  /\ WF_vars(FoundOther) /\ WF_vars(KillOther) /\ WF_vars(CheckedKilled)
  /\ WF_vars(InitEnds) /\ WF_vars(DeferExit) /\ WF_vars(HealthCheck)
  /\ WF_vars(Checked) /\ WF_vars(Restarted)
  /\ WF_vars(Serve) /\ WF_vars(AutoExit) /\ WF_vars(HelperEnds)
  /\ WF_vars(Tick)
Spec == Init /\ [][Next]_vars /\ Fairness

-----------------------------------------------------------------------------
(***************************************************************************)
(* Properties                                                              *)
(***************************************************************************)
InTouch == opKey = hKey /\ appKey = key

(* A running application never shares the bus with a started helper that   *)
(* would reject what it signs: no helper of a former application, no       *)
(* helper that was restarted without a new exchange of keys                *)
(* (killOtherHelperInstance, helperHealthCheckTimeout).                    *)
NeverDeaf == pc = "Running" /\ Started => InTouch

(* The helper's timer never elapses under an application that runs and is  *)
(* not stalled: the deferral is always in time, through restarts of either *)
(* (helperExitDeferrerTimeout, delayAutoExit).                             *)
NoNeedlessExit ==
  [][AutoExit => pc # "Running" \/ ~InTouch \/ stalls > 0]_vars

(* Whatever ended the helper, an application that keeps running ends up    *)
(* with a started helper it understands, and keeps it.                     *)
ServesAgain == <>[](pc = "Running" \/ pc \in Waiting) => <>[](Started /\ InTouch)

(* A started helper does not outlive its application: once no application  *)
(* comes back, no helper that was ever started remains, killed             *)
(* applications and lost exit calls included.                              *)
LeavesBehind == <>[](pc \in Off) => <>[](hKey = Nothing)

(* The application outlives a helper that cannot be started again, as the  *)
(* note in helperHealthCheckTimeout says.                                  *)
OutlivesHelper == pc # "Crashed"
=============================================================================
