-------------------------- MODULE HelperLifeProofs ---------------------------
(***************************************************************************)
(* A running application is understood by the helper it shares the bus     *)
(* with, whatever the timeout and however often either is killed, refused, *)
(* slow or stalled: NeverDeaf, for every value of the constants.           *)
(*                                                                         *)
(* NeverDeaf is not inductive: whether the keys of a running application   *)
(* match those of its helper is decided by the calls that are still under  *)
(* way when it asks, and by what it knows once it is answered.             *)
(***************************************************************************)
EXTENDS HelperLife, TLAPS

CallNames == {"started", "start", "exit", "delayAutoExit"}
Messages  == [name : CallNames, from : Nat]
MaybeKey  == Nat \cup {Nothing}

(* The types the argument needs. *)
LifeTypeOK ==
  /\ key \in Nat /\ starts \in Nat
  /\ calls \in Seq(Messages)
  /\ autoExit \in MaybeKey

Asking   == {"FindOther", "CheckKilled", "Checking"}
Exchange == {"Starting", "Restarting"}
Own(name) == [name |-> name, from |-> key]

(* No call is older than its application's launch. *)
SentBefore == \A i \in 1 .. Len(calls) : calls[i].from <= key

(* Whoever waits to hear whether a helper is started has asked it last of  *)
(* all, after nothing of its own that is answered.                         *)
AskedLast ==
  pc \in Asking /\ reply = NoReply =>
    /\ Len(calls) > 0 /\ calls[Len(calls)] = Own("started")
    /\ \A i \in 1 .. Len(calls) - 1 :
         calls[i].from = key => calls[i].name = "delayAutoExit"

(* When it is told, nothing is under way that could make the answer false. *)
ToldLast ==
  pc \in Asking /\ reply # NoReply =>
    /\ calls = <<>>
    /\ reply.is # "yes" => ~Started

(* The application that exchanges keys is the only one the helper hears,   *)
(* and the helper has not been started by another.                         *)
Exchanges ==
  pc \in Exchange =>
    /\ reply = NoReply   => ~Started /\ calls = <<Own("start")>>
    /\ reply.is = "key"  => /\ calls = <<>>
                            /\ Started => reply.key = hKey /\ appKey = key

(* Nothing is under way while a helper is being killed. *)
KillsAlone == pc = "Killing" => calls = <<>> /\ reply = NoReply

(* An application that runs waits for nothing, and only defers the exit. *)
OnlyDefers ==
  /\ pc = "Running" => reply = NoReply /\ \A i \in 1 .. Len(calls) : calls[i].name = "delayAutoExit"
  /\ pc = "Checking" => \A i \in 1 .. Len(calls) : calls[i].name # "start"

Agreed == pc \in {"Running", "Checking"} /\ Started => InTouch

LifeInv == LifeTypeOK /\ SentBefore /\ AskedLast /\ ToldLast /\ Exchanges
           /\ KillsAlone /\ OnlyDefers /\ Agreed

-----------------------------------------------------------------------------
USE DEF Asking, Exchange

(* It holds before anything is launched. *)
LEMMA LifeInit == Init => LifeInv
  BY HelperLifeAssumption DEF Init, LifeInv, LifeTypeOK, SentBefore, AskedLast, ToldLast,
     Exchanges, KillsAlone, OnlyDefers, Agreed, Started, CallNames, Messages, MaybeKey, Own,
     NoReply, Says

(* What is known of the calls after one is made. *)
LEMMA CallMade ==
  ASSUME NEW cs \in Seq(Messages), NEW m \in Messages
  PROVE  /\ Append(cs, m) \in Seq(Messages)
         /\ Len(Append(cs, m)) = Len(cs) + 1 /\ Len(cs) \in Nat
         /\ Append(cs, m)[Len(cs) + 1] = m
         /\ \A i \in 1 .. Len(cs) : Append(cs, m)[i] = cs[i]
  OBVIOUS

(* The messages, and the calls made of them. *)
LEMMA Message ==
  /\ \A k \in Nat, name \in CallNames : [name |-> name, from |-> k] \in Messages
  /\ \A m \in Messages : m.name \in CallNames /\ m.from \in Nat
  /\ \A cs \in Seq(Messages) : \A i \in 1 .. Len(cs) : cs[i] \in Messages
  /\ <<>> \in Seq(Messages) /\ Len(<<>>) = 0
<1>1. \A k \in Nat, name \in CallNames : [name |-> name, from |-> k] \in Messages
  BY DEF Messages
<1>2. \A m \in Messages : m.name \in CallNames /\ m.from \in Nat
  BY DEF Messages
<1>3. \A cs \in Seq(Messages) : \A i \in 1 .. Len(cs) : cs[i] \in Messages
  OBVIOUS
<1>4. <<>> \in Seq(Messages) /\ Len(<<>>) = 0
  OBVIOUS
<1> QED  BY <1>1, <1>2, <1>3, <1>4

(* A call of the application keeps the calls typed. *)
LEMMA TypedCall ==
  ASSUME LifeTypeOK,
         calls' = calls \/ \E name \in CallNames : calls' = Append(calls, Own(name))
  PROVE  calls' \in Seq(Messages)
<1>1. calls \in Seq(Messages) /\ key \in Nat
  BY DEF LifeTypeOK
<1>2. CASE calls' = calls
  BY <1>1, <1>2
<1>3. CASE \E name \in CallNames : calls' = Append(calls, Own(name))
  <2>1. PICK name \in CallNames : calls' = Append(calls, Own(name))
    BY <1>3
  <2>2. Own(name) \in Messages
    BY <1>1, Message DEF Own
  <2> QED  BY <1>1, <2>1, <2>2, CallMade
<1> QED  BY <1>2, <1>3

(* Time passes only when nothing is under way. *)
LEMMA TickKeeps == LifeInv /\ Tick => LifeInv'
  BY HelperLifeAssumption DEF LifeInv, LifeTypeOK, SentBefore, AskedLast, ToldLast, Exchanges,
     KillsAlone, OnlyDefers, Agreed, Started, CallNames, Messages, MaybeKey, Own, InTouch, Tick,
     Due, Less, NoReply, Says, Waiting

(* A launch asks behind whatever its predecessors left under way. *)
LEMMA LaunchKeeps == LifeInv /\ Launch => LifeInv'
<1> SUFFICES ASSUME LifeInv, Launch PROVE LifeInv'
  OBVIOUS
<1>a. calls' = Append(calls, [name |-> "started", from |-> key + 1])
  BY DEF Launch
<1>1. LifeTypeOK'
  BY <1>a, HelperLifeAssumption DEF LifeInv, LifeTypeOK, MaybeKey, Messages, CallNames, Launch,
     Off, app, helper, NoReply, Says, Gives
<1>2. SentBefore'
  <2> SUFFICES ASSUME NEW i \in 1 .. Len(calls') PROVE calls'[i].from <= key'
    BY DEF SentBefore
  <2>1. key \in Nat /\ key' = key + 1
    BY DEF LifeInv, LifeTypeOK, Launch
  <2>2. CASE i = Len(calls) + 1
    BY <1>a, <2>1, <2>2, CallMade, Message DEF LifeInv, LifeTypeOK, CallNames
  <2>3. CASE i \in 1 .. Len(calls)
    <3>1. calls'[i] = calls[i]
      BY <1>a, <2>1, <2>3, CallMade, Message DEF CallNames, LifeInv, LifeTypeOK
    <3>2. calls[i].from <= key /\ calls[i].from \in Nat
      BY <2>3, Message DEF LifeInv, LifeTypeOK, SentBefore
    <3> QED  BY <2>1, <3>1, <3>2
  <2> QED  BY <1>a, <2>1, <2>2, <2>3, CallMade, Message DEF CallNames, LifeInv, LifeTypeOK
<1>3. AskedLast'
  BY <1>a DEF LifeInv, AskedLast, SentBefore, LifeTypeOK, OnlyDefers, Messages, Own, Launch,
     Off, app, helper, NoReply, Says, Gives
<1>4. ToldLast'
  BY <1>a DEF LifeInv, ToldLast, AskedLast, LifeTypeOK, Started, Own, Launch, Off, app, helper,
     NoReply, Says, Gives
<1>5. Exchanges'
  BY <1>a DEF LifeInv, Exchanges, ToldLast, Started, Own, Launch, Off, app, helper, NoReply,
     Says, Gives
<1>6. KillsAlone'
  BY <1>a DEF LifeInv, KillsAlone, ToldLast, Launch, Off, app, helper, NoReply, Says, Gives
<1>7. OnlyDefers'
  BY <1>a DEF LifeInv, OnlyDefers, Exchanges, ToldLast, LifeTypeOK, Messages, Own, Launch, Off,
     app, helper, NoReply, Says, Gives
<1>8. Agreed'
  BY <1>a DEF LifeInv, Agreed, Exchanges, ToldLast, InTouch, Started, Launch, Off, app, helper,
     NoReply, Says, Gives
<1> QED  BY <1>1, <1>2, <1>3, <1>4, <1>5, <1>6, <1>7, <1>8 DEF LifeInv

(* The start is asked for of a helper that is not started, with nothing else under way. *)
LEMMA FoundOtherKeeps == LifeInv /\ FoundOther => LifeInv'
<1> SUFFICES ASSUME LifeInv, FoundOther PROVE LifeInv'
  OBVIOUS
<1>1. LifeTypeOK'
  <2>1. calls' = calls \/ \E name \in CallNames : calls' = Append(calls, Own(name))
    BY DEF FoundOther, AskStart, Call, Own, CallNames
  <2>2. calls' \in Seq(Messages)
    BY <2>1, TypedCall DEF LifeInv
  <2> QED  BY <2>2 DEF LifeInv, LifeTypeOK, MaybeKey, FoundOther, StaysAs, helper
<1>2. SentBefore'
  BY DEF LifeInv, SentBefore, LifeTypeOK, Messages, Own, FoundOther, Answered, SaidYes, StaysAs,
     AskStart, Call, app, helper, NoReply, Says, Gives
<1>3. AskedLast'
  BY DEF LifeInv, AskedLast, SentBefore, LifeTypeOK, OnlyDefers, Messages, Own, FoundOther,
     Answered, SaidYes, StaysAs, AskStart, Call, app, helper, NoReply, Says, Gives
<1>4. ToldLast'
  BY DEF LifeInv, ToldLast, AskedLast, LifeTypeOK, Started, Own, FoundOther, Answered, SaidYes,
     StaysAs, AskStart, Call, app, helper, NoReply, Says, Gives
<1>5. Exchanges'
  BY DEF LifeInv, Exchanges, ToldLast, Started, Own, FoundOther, Answered, SaidYes, StaysAs,
     AskStart, Call, app, helper, NoReply, Says, Gives
<1>6. KillsAlone'
  BY DEF LifeInv, KillsAlone, ToldLast, FoundOther, Answered, SaidYes, StaysAs, AskStart, Call,
     app, helper, NoReply, Says, Gives
<1>7. OnlyDefers'
  BY DEF LifeInv, OnlyDefers, Exchanges, ToldLast, LifeTypeOK, Messages, Own, FoundOther,
     Answered, SaidYes, StaysAs, AskStart, Call, app, helper, NoReply, Says, Gives
<1>8. Agreed'
  BY DEF LifeInv, Agreed, Exchanges, ToldLast, InTouch, Started, FoundOther, Answered, SaidYes,
     StaysAs, AskStart, Call, app, helper, NoReply, Says, Gives
<1> QED  BY <1>1, <1>2, <1>3, <1>4, <1>5, <1>6, <1>7, <1>8 DEF LifeInv

(* The question after the kill is alone. *)
LEMMA KillOtherKeeps == LifeInv /\ KillOther => LifeInv'
<1> SUFFICES ASSUME LifeInv, KillOther PROVE LifeInv'
  OBVIOUS
<1>1. LifeTypeOK'
  <2>1. calls' = calls \/ \E name \in CallNames : calls' = Append(calls, Own(name))
    BY DEF KillOther, KillsHelper, Call, Own, CallNames
  <2>2. calls' \in Seq(Messages)
    BY <2>1, TypedCall DEF LifeInv
  <2> QED  BY <2>2 DEF LifeInv, LifeTypeOK, MaybeKey, KillOther, KillsHelper, NoHelper, Becomes
<1>2. SentBefore'
  <2>1. calls = <<>> /\ (calls' = calls \/ calls' = Append(calls, Own("started"))) /\ key' = key
    BY DEF LifeInv, KillsAlone, KillOther, Call, KillsHelper, Own
  <2>2. calls' = <<>> \/ calls' = <<Own("started")>>
    BY <2>1
  <2> QED  BY <2>1, <2>2 DEF SentBefore, LifeInv, LifeTypeOK, Own
<1>3. AskedLast'
  <2>1. pc' \in Asking => calls' = Append(<<>>, Own("started")) /\ key' = key
    BY DEF LifeInv, KillsAlone, KillOther, Call, KillsHelper, Own
  <2>2. pc' \in Asking => Len(calls') = 1 /\ calls'[1] = Own("started")
    BY <2>1
  <2> QED  BY <2>1, <2>2 DEF AskedLast, Own
<1>4. ToldLast'
  BY DEF LifeInv, ToldLast, AskedLast, LifeTypeOK, Started, Own, KillsAlone, KillOther,
     KillsHelper, NoHelper, Becomes, Fault, Call, helper, NoReply, Says, Gives
<1>5. Exchanges'
  BY DEF LifeInv, Exchanges, ToldLast, Started, Own, KillOther, KillsHelper, NoHelper, Becomes,
     Fault, Call, helper, NoReply, Says, Gives
<1>6. KillsAlone'
  BY DEF LifeInv, KillsAlone, ToldLast, KillOther, KillsHelper, NoHelper, Becomes, Fault, Call,
     helper, NoReply, Says, Gives
<1>7. OnlyDefers'
  BY DEF LifeInv, OnlyDefers, Exchanges, ToldLast, LifeTypeOK, Messages, Own, KillOther,
     KillsHelper, NoHelper, Becomes, Fault, Call, helper, NoReply, Says, Gives
<1>8. Agreed'
  BY DEF LifeInv, Agreed, Exchanges, ToldLast, InTouch, Started, KillOther, KillsHelper,
     NoHelper, Becomes, Fault, Call, helper, NoReply, Says, Gives
<1> QED  BY <1>1, <1>2, <1>3, <1>4, <1>5, <1>6, <1>7, <1>8 DEF LifeInv

(* As for FoundOther. *)
LEMMA CheckedKilledKeeps == LifeInv /\ CheckedKilled => LifeInv'
<1> SUFFICES ASSUME LifeInv, CheckedKilled PROVE LifeInv'
  OBVIOUS
<1>1. LifeTypeOK'
  <2>1. calls' = calls \/ \E name \in CallNames : calls' = Append(calls, Own(name))
    BY DEF CheckedKilled, AskStart, Call, Own, CallNames
  <2>2. calls' \in Seq(Messages)
    BY <2>1, TypedCall DEF LifeInv
  <2> QED  BY <2>2 DEF LifeInv, LifeTypeOK, MaybeKey, CheckedKilled, StaysAs, helper
<1>2. SentBefore'
  BY DEF LifeInv, SentBefore, LifeTypeOK, Messages, Own, CheckedKilled, Answered, SaidYes,
     StaysAs, AskStart, Call, helper, NoReply, Says, Gives
<1>3. AskedLast'
  BY DEF LifeInv, AskedLast, SentBefore, LifeTypeOK, OnlyDefers, Messages, Own, CheckedKilled,
     Answered, SaidYes, StaysAs, AskStart, Call, helper, NoReply, Says, Gives
<1>4. ToldLast'
  BY DEF LifeInv, ToldLast, AskedLast, LifeTypeOK, Started, Own, CheckedKilled, Answered,
     SaidYes, StaysAs, AskStart, Call, helper, NoReply, Says, Gives
<1>5. Exchanges'
  BY DEF LifeInv, Exchanges, ToldLast, Started, Own, CheckedKilled, Answered, SaidYes, StaysAs,
     AskStart, Call, helper, NoReply, Says, Gives
<1>6. KillsAlone'
  BY DEF LifeInv, KillsAlone, ToldLast, CheckedKilled, Answered, SaidYes, StaysAs, AskStart,
     Call, helper, NoReply, Says, Gives
<1>7. OnlyDefers'
  BY DEF LifeInv, OnlyDefers, Exchanges, ToldLast, LifeTypeOK, Messages, Own, CheckedKilled,
     Answered, SaidYes, StaysAs, AskStart, Call, helper, NoReply, Says, Gives
<1>8. Agreed'
  BY DEF LifeInv, Agreed, Exchanges, ToldLast, InTouch, Started, CheckedKilled, Answered,
     SaidYes, StaysAs, AskStart, Call, helper, NoReply, Says, Gives
<1> QED  BY <1>1, <1>2, <1>3, <1>4, <1>5, <1>6, <1>7, <1>8 DEF LifeInv

(* The application runs with the keys that were exchanged. *)
LEMMA InitEndsKeeps == LifeInv /\ InitEnds => LifeInv'
  BY HelperLifeAssumption DEF LifeInv, LifeTypeOK, SentBefore, AskedLast, ToldLast, Exchanges,
     KillsAlone, OnlyDefers, Agreed, Started, CallNames, Messages, MaybeKey, Own, InTouch,
     InitEnds, Answered, StaysAs, UseHelper, helper, NoReply, Says

(* A deferral is the only call of an application that runs. *)
LEMMA DeferExitKeeps == LifeInv /\ DeferExit => LifeInv'
  BY HelperLifeAssumption DEF LifeInv, LifeTypeOK, SentBefore, AskedLast, ToldLast, Exchanges,
     KillsAlone, OnlyDefers, Agreed, Started, CallNames, Messages, MaybeKey, Own, InTouch,
     DeferExit, Call, helper, NoReply, Says

(* The check asks behind deferrals only. *)
LEMMA HealthCheckKeeps == LifeInv /\ HealthCheck => LifeInv'
<1> SUFFICES ASSUME LifeInv, HealthCheck PROVE LifeInv'
  OBVIOUS
<1>a. /\ pc = "Running" /\ key' = key /\ reply' = reply
      /\ \/ pc' = "Checking" /\ calls' = Append(calls, Own("started"))
         \/ pc' = "Running" /\ calls' = calls
  BY DEF HealthCheck, Call, Own
<1>b. key \in Nat /\ calls \in Seq(Messages) /\ Own("started") \in Messages
  BY Message DEF LifeInv, LifeTypeOK, Own, CallNames
<1>c. calls' = Append(calls, Own("started")) =>
        /\ calls' \in Seq(Messages) /\ Len(calls') = Len(calls) + 1
        /\ calls'[Len(calls) + 1] = Own("started")
        /\ \A i \in 1 .. Len(calls) : calls'[i] = calls[i]
  BY <1>b, CallMade
<1>d. Len(calls) \in Nat
  BY <1>b
<1>e. reply = NoReply /\ \A i \in 1 .. Len(calls) : calls[i].name = "delayAutoExit"
  BY <1>a DEF LifeInv, OnlyDefers
<1>f. Own("started").name = "started" /\ Own("started").from = key /\ Own("started")' = Own("started")
  BY <1>a DEF Own
<1>1. LifeTypeOK'
  BY <1>a, <1>b, <1>c DEF LifeInv, LifeTypeOK, HealthCheck, helper
<1>2. SentBefore'
  BY <1>a, <1>b, <1>c, <1>d, <1>f DEF SentBefore, LifeInv
<1>3. AskedLast'
  <2>1. CASE calls' = Append(calls, Own("started"))
    <3>1. calls'[Len(calls')] = Own("started") /\ Len(calls') > 0
      BY <2>1, <1>c, <1>d
    <3>2. \A i \in 1 .. Len(calls') - 1 : calls'[i].name = "delayAutoExit"
      BY <2>1, <1>c, <1>d, <1>e
    <3> QED  BY <3>1, <3>2, <1>f DEF AskedLast
  <2>2. CASE pc' = "Running"
    BY <2>2 DEF AskedLast
  <2> QED  BY <1>a, <2>1, <2>2
<1>4. ToldLast'
  BY DEF LifeInv, ToldLast, AskedLast, LifeTypeOK, Started, Own, OnlyDefers, HealthCheck, Call,
     helper, NoReply, Says, Gives
<1>5. Exchanges'
  BY DEF LifeInv, Exchanges, ToldLast, Started, Own, HealthCheck, Call, helper, NoReply, Says, Gives
<1>6. KillsAlone'
  BY DEF LifeInv, KillsAlone, ToldLast, HealthCheck, Call, helper, NoReply, Says, Gives
<1>7. OnlyDefers'
  <2>1. CASE calls' = Append(calls, Own("started")) /\ pc' = "Checking"
    <3>1. \A i \in 1 .. Len(calls') : calls'[i].name # "start"
      BY <2>1, <1>c, <1>d, <1>e, <1>f
    <3> QED  BY <2>1, <3>1 DEF OnlyDefers
  <2>2. CASE pc' = "Running" /\ calls' = calls
    BY <2>2, <1>a, <1>e DEF OnlyDefers, NoReply
  <2> QED  BY <1>a, <2>1, <2>2
<1>8. Agreed'
  BY DEF LifeInv, Agreed, Exchanges, ToldLast, InTouch, Started, HealthCheck, Call, helper,
     NoReply, Says, Gives
<1> QED  BY <1>1, <1>2, <1>3, <1>4, <1>5, <1>6, <1>7, <1>8 DEF LifeInv

(* A helper that was found started is the one that was agreed with. *)
LEMMA CheckedKeeps == LifeInv /\ Checked => LifeInv'
<1> SUFFICES ASSUME LifeInv, Checked PROVE LifeInv'
  OBVIOUS
<1>1. LifeTypeOK'
  <2>1. calls' = calls \/ \E name \in CallNames : calls' = Append(calls, Own(name))
    BY DEF Checked, AskStart, Call, Own, CallNames
  <2>2. calls' \in Seq(Messages)
    BY <2>1, TypedCall DEF LifeInv
  <2> QED  BY <2>2 DEF LifeInv, LifeTypeOK, MaybeKey, Checked, StaysAs, helper
<1>2. SentBefore'
  BY DEF LifeInv, SentBefore, LifeTypeOK, Messages, Own, Checked, Answered, SaidYes, StaysAs,
     AskStart, Call, helper, NoReply, Says, Gives
<1>3. AskedLast'
  BY DEF LifeInv, AskedLast, SentBefore, LifeTypeOK, OnlyDefers, Messages, Own, Checked,
     Answered, SaidYes, StaysAs, AskStart, Call, helper, NoReply, Says, Gives
<1>4. ToldLast'
  BY DEF LifeInv, ToldLast, AskedLast, LifeTypeOK, Started, Own, Checked, Answered, SaidYes,
     StaysAs, AskStart, Call, helper, NoReply, Says, Gives
<1>5. Exchanges'
  BY DEF LifeInv, Exchanges, ToldLast, Started, Own, Checked, Answered, SaidYes, StaysAs,
     AskStart, Call, helper, NoReply, Says, Gives
<1>6. KillsAlone'
  BY DEF LifeInv, KillsAlone, ToldLast, Checked, Answered, SaidYes, StaysAs, AskStart, Call,
     helper, NoReply, Says, Gives
<1>7. OnlyDefers'
  BY DEF LifeInv, OnlyDefers, Exchanges, ToldLast, LifeTypeOK, Messages, Own, Checked, Answered,
     SaidYes, StaysAs, AskStart, Call, helper, NoReply, Says, Gives
<1>8. Agreed'
  BY DEF LifeInv, Agreed, Exchanges, ToldLast, InTouch, Started, Checked, Answered, SaidYes,
     StaysAs, AskStart, Call, helper, NoReply, Says, Gives
<1> QED  BY <1>1, <1>2, <1>3, <1>4, <1>5, <1>6, <1>7, <1>8 DEF LifeInv

(* As for InitEnds. *)
LEMMA RestartedKeeps == LifeInv /\ Restarted => LifeInv'
  BY HelperLifeAssumption DEF LifeInv, LifeTypeOK, SentBefore, AskedLast, ToldLast, Exchanges,
     KillsAlone, OnlyDefers, Agreed, Started, CallNames, Messages, MaybeKey, Own, InTouch,
     Restarted, Answered, StaysAs, UseHelper, helper, NoReply, Says

(* An application that has ended is promised nothing. *)
LEMMA QuitKeeps == LifeInv /\ Quit => LifeInv'
  BY HelperLifeAssumption DEF LifeInv, LifeTypeOK, SentBefore, AskedLast, ToldLast, Exchanges,
     KillsAlone, OnlyDefers, Agreed, Started, CallNames, Messages, MaybeKey, Own, InTouch, Quit,
     Call, helper, NoReply, Says

(* As for Quit. *)
LEMMA AppKilledKeeps == LifeInv /\ AppKilled => LifeInv'
  BY HelperLifeAssumption DEF LifeInv, LifeTypeOK, SentBefore, AskedLast, ToldLast, Exchanges,
     KillsAlone, OnlyDefers, Agreed, Started, CallNames, Messages, MaybeKey, Own, InTouch,
     AppKilled, Off, helper, NoReply, Says

(* Whoever is not answered in time does not run. *)
LEMMA SlowAnswerKeeps == LifeInv /\ SlowAnswer => LifeInv'
  BY HelperLifeAssumption DEF LifeInv, LifeTypeOK, SentBefore, AskedLast, ToldLast, Exchanges,
     KillsAlone, OnlyDefers, Agreed, Started, CallNames, Messages, MaybeKey, Own, InTouch,
     SlowAnswer, app, helper, NoReply, Says

(* A helper that ends itself is no longer started. *)
LEMMA AutoExitKeeps == LifeInv /\ AutoExit => LifeInv'
  BY HelperLifeAssumption DEF LifeInv, LifeTypeOK, SentBefore, AskedLast, ToldLast, Exchanges,
     KillsAlone, OnlyDefers, Agreed, Started, CallNames, Messages, MaybeKey, Own, InTouch,
     AutoExit, Becomes, Self, app, NoReply, Says

(* A helper that has ended is not started; its calls are lost together, or none is. *)
LEMMA HelperEndsKeeps == LifeInv /\ HelperEnds => LifeInv'
<1> SUFFICES ASSUME LifeInv, HelperEnds PROVE LifeInv'
  OBVIOUS
<1>1. LifeTypeOK'
  <2>1. calls' = calls \/ calls' = <<>>
    BY DEF HelperEnds, Lost
  <2>2. calls' \in Seq(Messages)
    BY <2>1, Message DEF LifeInv, LifeTypeOK
  <2> QED  BY <2>2 DEF LifeInv, LifeTypeOK, MaybeKey, HelperEnds, Becomes, NoHelper, app
<1>2. SentBefore'
  BY DEF LifeInv, SentBefore, LifeTypeOK, Messages, Own, HelperEnds, Becomes, NoHelper, Lost,
     Waiting, app, NoReply, Says, Gives
<1>3. AskedLast'
  BY DEF LifeInv, AskedLast, SentBefore, LifeTypeOK, OnlyDefers, Messages, Own, HelperEnds,
     Becomes, NoHelper, Lost, Waiting, app, NoReply, Says, Gives
<1>4. ToldLast'
  BY DEF LifeInv, ToldLast, AskedLast, LifeTypeOK, Started, Own, HelperEnds, Becomes, NoHelper,
     Lost, Waiting, app, NoReply, Says, Gives
<1>5. Exchanges'
  BY DEF LifeInv, Exchanges, ToldLast, Started, Own, HelperEnds, Becomes, NoHelper, Lost,
     Waiting, app, NoReply, Says, Gives
<1>6. KillsAlone'
  BY DEF LifeInv, KillsAlone, ToldLast, HelperEnds, Becomes, NoHelper, Lost, Waiting, app,
     NoReply, Says, Gives
<1>7. OnlyDefers'
  BY DEF LifeInv, OnlyDefers, Exchanges, ToldLast, LifeTypeOK, Messages, Own, HelperEnds,
     Becomes, NoHelper, Lost, Waiting, app, NoReply, Says, Gives
<1>8. Agreed'
  BY DEF LifeInv, Agreed, Exchanges, ToldLast, InTouch, Started, HelperEnds, Becomes, NoHelper,
     Lost, Waiting, app, NoReply, Says, Gives
<1> QED  BY <1>1, <1>2, <1>3, <1>4, <1>5, <1>6, <1>7, <1>8 DEF LifeInv

(* As for HelperEnds. *)
LEMMA HelperKilledKeeps == LifeInv /\ HelperKilled => LifeInv'
<1> SUFFICES ASSUME LifeInv, HelperKilled PROVE LifeInv'
  OBVIOUS
<1>1. LifeTypeOK'
  <2>1. calls' = calls \/ calls' = <<>>
    BY DEF HelperKilled, Lost
  <2>2. calls' \in Seq(Messages)
    BY <2>1, Message DEF LifeInv, LifeTypeOK
  <2> QED  BY <2>2 DEF LifeInv, LifeTypeOK, MaybeKey, HelperKilled, Becomes, NoHelper, app
<1>2. SentBefore'
  BY DEF LifeInv, SentBefore, LifeTypeOK, Messages, Own, HelperKilled, Becomes, NoHelper, Lost,
     Waiting, app, NoReply, Says, Gives
<1>3. AskedLast'
  BY DEF LifeInv, AskedLast, SentBefore, LifeTypeOK, OnlyDefers, Messages, Own, HelperKilled,
     Becomes, NoHelper, Lost, Waiting, app, NoReply, Says, Gives
<1>4. ToldLast'
  BY DEF LifeInv, ToldLast, AskedLast, LifeTypeOK, Started, Own, HelperKilled, Becomes,
     NoHelper, Lost, Waiting, app, NoReply, Says, Gives
<1>5. Exchanges'
  BY DEF LifeInv, Exchanges, ToldLast, Started, Own, HelperKilled, Becomes, NoHelper, Lost,
     Waiting, app, NoReply, Says, Gives
<1>6. KillsAlone'
  BY DEF LifeInv, KillsAlone, ToldLast, HelperKilled, Becomes, NoHelper, Lost, Waiting, app,
     NoReply, Says, Gives
<1>7. OnlyDefers'
  BY DEF LifeInv, OnlyDefers, Exchanges, ToldLast, LifeTypeOK, Messages, Own, HelperKilled,
     Becomes, NoHelper, Lost, Waiting, app, NoReply, Says, Gives
<1>8. Agreed'
  BY DEF LifeInv, Agreed, Exchanges, ToldLast, InTouch, Started, HelperKilled, Becomes,
     NoHelper, Lost, Waiting, app, NoReply, Says, Gives
<1> QED  BY <1>1, <1>2, <1>3, <1>4, <1>5, <1>6, <1>7, <1>8 DEF LifeInv

(* A call is handled: by its name, it tells, ends, defers or starts. *)
LEMMA ServeKeeps == LifeInv /\ Serve => LifeInv'
<1> SUFFICES ASSUME LifeInv, Serve PROVE LifeInv'
  OBVIOUS
<1> DEFINE c == Head(calls)
<1>1. /\ calls # <<>> /\ calls' = Tail(calls) /\ Len(calls) \in Nat \ {0}
      /\ c = calls[1] /\ c.name \in CallNames /\ c.from \in Nat /\ c.from <= key
      /\ calls' \in Seq(Messages) /\ Len(calls') = Len(calls) - 1
      /\ \A i \in 1 .. Len(calls') : calls'[i] = calls[i + 1]
  BY Message DEF Serve, LifeInv, LifeTypeOK, SentBefore
<1>2. UNCHANGED <<pc, key, opKey>>
  BY DEF Serve, app
<1>3. /\ c.name = "started" => Becomes(Self) /\ Answer(c, Says(IF Started THEN "yes" ELSE "no")) /\ UNCHANGED starts
      /\ c.name = "start" => Start(c)
      /\ c.name = "exit" => Exit(c)
      /\ c.name = "delayAutoExit" => DelayAutoExit
  BY DEF Serve
<1> HIDE DEF c
<1>4. CASE c.name = "started"
  <2>1. UNCHANGED <<autoExit, hKey, appKey, starts>>
    BY <1>3, <1>4 DEF Becomes, Self
  <2>2. /\ reply' # reply => pc \in Waiting /\ c.from = key /\ reply = NoReply
        /\ pc \in Waiting /\ c.from = key /\ reply = NoReply =>
              reply' = [is |-> IF Started THEN "yes" ELSE "no"]
    BY <1>3, <1>4 DEF Answer, Says
  <2>3. LifeTypeOK'
    BY <1>1, <1>2, <1>4, <2>1, <2>2, HelperLifeAssumption DEF LifeInv, LifeTypeOK, MaybeKey
  <2>4. SentBefore'
    BY <1>1, <1>2, <1>4, <2>1, <2>2, HelperLifeAssumption DEF LifeInv, SentBefore, LifeTypeOK
  <2>5. AskedLast'
    BY <1>1, <1>2, <1>4, <2>1, <2>2, HelperLifeAssumption DEF LifeInv, AskedLast, SentBefore,
       LifeTypeOK, NoReply, Says, Waiting, Own
  <2>6. ToldLast'
    BY <1>1, <1>2, <1>4, <2>1, <2>2, HelperLifeAssumption DEF LifeInv, ToldLast, AskedLast,
       LifeTypeOK, Started, NoReply, Says, Waiting, Own
  <2>7. Exchanges'
    BY <1>1, <1>2, <1>4, <2>1, <2>2, HelperLifeAssumption DEF LifeInv, Exchanges, LifeTypeOK,
       Started, NoReply, Says, Gives, Answer, Waiting, Own
  <2>8. KillsAlone'
    BY <1>1, <1>2, <1>4, <2>1, <2>2, HelperLifeAssumption DEF LifeInv, KillsAlone
  <2>9. OnlyDefers'
    BY <1>1, <1>2, <1>4, <2>1, <2>2, HelperLifeAssumption DEF LifeInv, OnlyDefers, Exchanges,
       NoReply, Says, Waiting, Answer, Gives
  <2>10. Agreed'
    BY <1>1, <1>2, <1>4, <2>1, <2>2, HelperLifeAssumption DEF LifeInv, Agreed, OnlyDefers,
       InTouch, Started
  <2> QED  BY <2>3, <2>4, <2>5, <2>6, <2>7, <2>8, <2>9, <2>10 DEF LifeInv
<1>5. CASE c.name = "exit" \/ c.name = "delayAutoExit"
  <2>1. /\ UNCHANGED <<reply, starts>> /\ autoExit' \in {autoExit, Timeout, Nothing}
        /\ Started' => Started /\ hKey' = hKey /\ appKey' = appKey
    BY <1>3, <1>5 DEF Exit, DelayAutoExit, Becomes, Self, NoHelper, Started
  <2>3. LifeTypeOK'
    BY <1>1, <1>2, <1>5, <2>1, HelperLifeAssumption DEF LifeInv, LifeTypeOK, MaybeKey
  <2>4. SentBefore'
    BY <1>1, <1>2, <1>5, <2>1, HelperLifeAssumption DEF LifeInv, SentBefore, LifeTypeOK
  <2>5. AskedLast'
    BY <1>1, <1>2, <1>5, <2>1, HelperLifeAssumption DEF LifeInv, AskedLast, SentBefore,
       LifeTypeOK, NoReply, Says, Waiting, Own
  <2>6. ToldLast'
    BY <1>1, <1>2, <1>5, <2>1, HelperLifeAssumption DEF LifeInv, ToldLast, AskedLast,
       LifeTypeOK, Started, NoReply, Says, Waiting, Own
  <2>7. Exchanges'
    BY <1>1, <1>2, <1>5, <2>1, HelperLifeAssumption DEF LifeInv, Exchanges, LifeTypeOK,
       Started, NoReply, Says, Gives, Answer, Waiting, Own
  <2>8. KillsAlone'
    BY <1>1, <1>2, <1>5, <2>1, HelperLifeAssumption DEF LifeInv, KillsAlone
  <2>9. OnlyDefers'
    BY <1>1, <1>2, <1>5, <2>1, HelperLifeAssumption DEF LifeInv, OnlyDefers, Exchanges,
       NoReply, Says, Waiting, Answer, Gives
  <2>10. Agreed'
    BY <1>1, <1>2, <1>5, <2>1, HelperLifeAssumption DEF LifeInv, Agreed, OnlyDefers, InTouch
  <2> QED  BY <2>3, <2>4, <2>5, <2>6, <2>7, <2>8, <2>9, <2>10 DEF LifeInv
<1>6. CASE c.name = "start"
  <2>1. \/ /\ UNCHANGED <<autoExit, hKey, appKey, starts>>
           /\ \E a \in {Gives(hKey), Says("no")} : Answer(c, a)
           /\ Started \/ Answer(c, Says("no"))
        \/ /\ ~Started /\ autoExit' = Timeout /\ hKey' = starts + 1 /\ appKey' = c.from
           /\ starts' = starts + 1 /\ Answer(c, Gives(starts + 1))
    BY <1>3, <1>6 DEF Start, Authorised, Refused, Becomes, Self
  <2>3. LifeTypeOK'
    BY <1>1, <1>2, <1>6, <2>1, HelperLifeAssumption DEF LifeInv, LifeTypeOK, MaybeKey
  <2>4. SentBefore'
    BY <1>1, <1>2, <1>6, <2>1, HelperLifeAssumption DEF LifeInv, SentBefore, LifeTypeOK
  <2>5. AskedLast'
    BY <1>1, <1>2, <1>6, <2>1, HelperLifeAssumption DEF LifeInv, AskedLast, SentBefore,
       LifeTypeOK, NoReply, Says, Waiting, Own, Answer, Gives, CallNames
  <2>6. ToldLast'
    BY <1>1, <1>2, <1>6, <2>1, HelperLifeAssumption DEF LifeInv, ToldLast, AskedLast,
       LifeTypeOK, Started, NoReply, Says, Waiting, Own, Answer, Gives, CallNames
  <2>7. Exchanges'
    BY <1>1, <1>2, <1>6, <2>1, HelperLifeAssumption DEF LifeInv, Exchanges, LifeTypeOK,
       Started, NoReply, Says, Gives, Answer, Waiting, Own
  <2>8. KillsAlone'
    BY <1>1, <1>2, <1>6, <2>1, HelperLifeAssumption DEF LifeInv, KillsAlone
  <2>9. OnlyDefers'
    BY <1>1, <1>2, <1>6, <2>1, HelperLifeAssumption DEF LifeInv, OnlyDefers, Exchanges,
       NoReply, Says, Waiting, Answer, Gives
  <2>10. Agreed'
    BY <1>1, <1>2, <1>6, <2>1, HelperLifeAssumption DEF LifeInv, Agreed, OnlyDefers, InTouch
  <2> QED  BY <2>3, <2>4, <2>5, <2>6, <2>7, <2>8, <2>9, <2>10 DEF LifeInv
<1> QED  BY <1>1, <1>4, <1>5, <1>6 DEF CallNames

(* Nothing changes. *)
LEMMA StutterKeeps == LifeInv /\ UNCHANGED vars => LifeInv'
  BY DEF LifeInv, LifeTypeOK, SentBefore, AskedLast, ToldLast, Exchanges, KillsAlone,
     OnlyDefers, Agreed, Started, CallNames, Messages, MaybeKey, Own, InTouch, vars, app, helper

(* Every step keeps it. *)
LEMMA NextKeeps == LifeInv /\ [Next]_vars => LifeInv'
  BY TickKeeps, LaunchKeeps, FoundOtherKeeps, KillOtherKeeps, CheckedKilledKeeps, InitEndsKeeps,
     DeferExitKeeps, HealthCheckKeeps, CheckedKeeps, RestartedKeeps, QuitKeeps, AppKilledKeeps,
     SlowAnswerKeeps, ServeKeeps, AutoExitKeeps, HelperEndsKeeps, HelperKilledKeeps, StutterKeeps
     DEF Next, Step

(* NeverDeaf, for every timeout and any number of launches and faults: what *)
(* killOtherHelperInstance and helperHealthCheckTimeout are for.            *)
THEOREM SpecNeverDeaf == Spec => []NeverDeaf
<1>1. LifeInv => NeverDeaf
  BY DEF LifeInv, Agreed, NeverDeaf
<1> QED  BY LifeInit, NextKeeps, <1>1, PTL DEF Spec

-----------------------------------------------------------------------------
(***************************************************************************)
(* The timers.  Between two ticks whatever is due is done, so that unless  *)
(* it stalls the application's timer elapses before the helper's, or its   *)
(* call to defer is under way.                                             *)
(***************************************************************************)
Serving   == {"Running", "Checking"}
Deferring == \E i \in 1 .. Len(calls) : calls[i].name = "delayAutoExit"

InTime ==
  /\ stalls \in Nat
  /\ pc \in Exchange /\ reply.is = "key" /\ Started => autoExit = Timeout
  /\ pc \in Serving => defer \in 0 .. Interval
  /\ pc \in Serving /\ Started /\ stalls = 0 =>
       autoExit > defer \/ (autoExit > 0 /\ Deferring)

(* The application's timer is the shorter one. *)
LEMMA Shorter == Timeout \in Nat /\ Interval \in Nat /\ Interval < Timeout /\ Nothing \notin Nat
  BY HelperLifeAssumption DEF Interval

(* A helper the application uses has all its time when the keys are exchanged. *)
LEMMA UseInTime ==
  ASSUME LifeInv, InTime, pc \in Exchange, UseHelper, UNCHANGED <<helper, stalls>>
  PROVE  InTime'
  BY Shorter DEF InTime, UseHelper, helper, Started, Serving

(* Whoever is neither serving nor exchanging keys is promised nothing. *)
LEMMA IdleInTime ==
  ASSUME InTime, stalls' = stalls, pc' \notin Exchange \cup Serving
  PROVE  InTime'
  BY DEF InTime, Serving

(* An application that has just asked for a start, or waits, has no key. *)
LEMMA AskInTime ==
  ASSUME InTime, stalls' = stalls, pc' \notin Serving, reply'.is # "key"
  PROVE  InTime'
  BY DEF InTime

(* Nothing the timers depend on changes. *)
LEMMA SameInTime ==
  ASSUME InTime, UNCHANGED <<defer, autoExit, stalls>>,
         pc' \in Serving => pc \in Serving /\ (Deferring => Deferring'),
         pc' \in Exchange => pc \in Exchange /\ (reply'.is = "key" => reply.is = "key")
  PROVE  InTime'
  BY DEF InTime, Started

(* The deferral that was asked for is under way still after a call was made. *)
LEMMA CallDefers ==
  ASSUME LifeTypeOK, NEW m \in Messages, calls' = Append(calls, m)
  PROVE  /\ Deferring => Deferring'
         /\ m.name = "delayAutoExit" => Deferring'
<1>1. /\ calls \in Seq(Messages) /\ Len(calls) \in Nat
      /\ Len(calls') = Len(calls) + 1 /\ calls'[Len(calls) + 1] = m
      /\ \A i \in 1 .. Len(calls) : calls'[i] = calls[i]
  BY CallMade DEF LifeTypeOK
<1>2. Deferring => Deferring'
  BY <1>1 DEF Deferring
<1>3. m.name = "delayAutoExit" => Deferring'
  BY <1>1 DEF Deferring
<1> QED  BY <1>2, <1>3

(* A tick takes as much from either timer, and comes before a due deferral   *)
(* only when the application stalls.                                         *)
LEMMA TickInTime == LifeInv /\ InTime /\ Tick => InTime'
<1> SUFFICES ASSUME LifeInv, InTime, Tick PROVE InTime'
  OBVIOUS
<1>1. /\ calls = <<>> /\ autoExit # 0 /\ pc \notin Exchange \cup {"Checking"}
      /\ defer' = Less(defer) /\ autoExit' = Less(autoExit) /\ pc' = pc
  BY DEF Tick, Due, Waiting
<1>2. ~Deferring
  BY <1>1 DEF Deferring
<1>3. \/ stalls' = stalls /\ (pc = "Running" => defer # 0)
      \/ stalls' = stalls + 1
  BY DEF Tick, AppDue
<1>4. autoExit \in MaybeKey /\ stalls \in Nat
  BY DEF LifeInv, LifeTypeOK, InTime
<1>5. CASE pc = "Running"
  <2>1. defer \in 0 .. Interval /\ defer' \in 0 .. Interval
    BY <1>1, <1>5, Shorter DEF InTime, Serving, Less
  <2>2. CASE stalls' = 0
    <3>1. stalls = 0 /\ defer # 0
      BY <1>3, <1>4, <1>5, <2>2
    <3>2. Started' => Started
      BY <1>1, Shorter DEF Started, Less
    <3>3. Started => autoExit > defer
      BY <1>2, <1>5, <3>1 DEF InTime, Serving
    <3>4. Started' => autoExit' > defer'
      BY <1>1, <1>4, <2>1, <3>1, <3>2, <3>3, Shorter DEF Less, Started, MaybeKey
    <3> QED  BY <1>1, <1>5, <2>1, <2>2, <3>4 DEF InTime, Serving
  <2>3. CASE stalls' # 0
    <3>1. stalls' \in Nat
      BY <1>3, <1>4
    <3> QED  BY <1>1, <1>5, <2>1, <2>3, <3>1 DEF InTime, Serving
  <2> QED  BY <2>2, <2>3
<1>6. CASE pc # "Running"
  <2>1. stalls' \in Nat
    BY <1>3, <1>4
  <2> QED  BY <1>1, <1>6, <2>1 DEF InTime, Serving
<1> QED  BY <1>5, <1>6

(* The deferral arrives, or another call does before it. *)
LEMMA ServeInTime == LifeInv /\ InTime /\ Serve => InTime'
<1> SUFFICES ASSUME LifeInv, InTime, Serve PROVE InTime'
  OBVIOUS
<1> DEFINE c == Head(calls)
<1>1. /\ calls # <<>> /\ calls' = Tail(calls) /\ Len(calls) \in Nat \ {0}
      /\ c = calls[1] /\ c.name \in CallNames /\ Len(calls') = Len(calls) - 1
      /\ \A i \in 1 .. Len(calls') : calls'[i] = calls[i + 1]
  BY Message DEF Serve, LifeInv, LifeTypeOK
<1>2. UNCHANGED <<pc, defer, stalls>>
  BY DEF Serve, app
<1>3. /\ c.name = "started" => Becomes(Self) /\ Answer(c, Says(IF Started THEN "yes" ELSE "no"))
      /\ c.name = "start" => Start(c)
      /\ c.name = "exit" => Exit(c)
      /\ c.name = "delayAutoExit" => DelayAutoExit
  BY DEF Serve
<1>4. c.name # "delayAutoExit" => (Deferring => Deferring')
  <2> SUFFICES ASSUME c.name # "delayAutoExit", NEW i \in 1 .. Len(calls), calls[i].name = "delayAutoExit"
               PROVE  Deferring'
    BY DEF Deferring
  <2>1. i # 1 /\ i - 1 \in 1 .. Len(calls') /\ calls'[i - 1] = calls[i]
    BY <1>1
  <2> QED  BY <2>1 DEF Deferring
<1> HIDE DEF c
<1>5. CASE c.name = "started"
  <2>1. autoExit' = autoExit
    BY <1>3, <1>5 DEF Becomes, Self
  <2>2. reply' = reply \/ reply'.is # "key"
    BY <1>3, <1>5 DEF Answer, Says
  <2> QED  BY <1>2, <1>4, <1>5, <2>1, <2>2, SameInTime
<1>6. CASE c.name = "exit"
  <2>1. autoExit' \in {autoExit, Nothing} /\ reply' = reply
    BY <1>3, <1>6 DEF Exit, Becomes, Self, NoHelper
  <2>2. CASE autoExit' = autoExit
    BY <1>2, <1>4, <1>6, <2>1, <2>2, SameInTime
  <2>3. CASE autoExit' = Nothing
    BY <1>2, <2>3 DEF InTime, Started
  <2> QED  BY <2>1, <2>2, <2>3
<1>7. CASE c.name = "delayAutoExit"
  <2>1. autoExit' \in {Timeout, Nothing} /\ reply' = reply
    BY <1>3, <1>7 DEF DelayAutoExit, Becomes, Self
  <2> QED  BY <1>2, <2>1, Shorter DEF InTime, Started
<1>8. CASE c.name = "start"
  <2>1. pc \notin Serving
    BY <1>1, <1>8 DEF LifeInv, OnlyDefers, Serving
  <2>2. \/ autoExit' = Timeout
        \/ autoExit' = autoExit /\ Started
        \/ autoExit' = autoExit /\ (reply' = reply \/ reply'.is # "key")
    <3>1. Start(c)
      BY <1>3, <1>8
    <3>2. CASE Started
      <4>1. autoExit' = autoExit
        BY <3>1, <3>2 DEF Start, Becomes, Self
      <4> QED  BY <3>2, <4>1
    <3>3. CASE ~Started /\ Authorised(c)
      BY <3>3 DEF Authorised, Becomes, Self
    <3>4. CASE ~Started /\ Refused(c)
      <4>1. autoExit' = autoExit
        BY <3>4 DEF Refused, Becomes, Self
      <4>2. reply' = reply \/ reply' = Says("no")
        BY <3>4 DEF Refused, Answer
      <4> QED  BY <4>1, <4>2 DEF Says
    <3> QED  BY <3>1, <3>2, <3>3, <3>4 DEF Start
  <2>3. pc \in Exchange /\ Started => reply # NoReply
    BY DEF LifeInv, Exchanges
  <2>4. reply # NoReply => reply' = reply
    BY <1>3, <1>8 DEF Start, Authorised, Refused, Answer
  <2> QED  BY <1>2, <2>1, <2>2, <2>3, <2>4 DEF InTime, Started
<1> QED  BY <1>1, <1>5, <1>6, <1>7, <1>8 DEF CallNames

(* Every step keeps the deferral in time. *)
LEMMA NextInTime == LifeInv /\ InTime /\ [Next]_vars => InTime'
<1> SUFFICES ASSUME LifeInv, InTime, [Next]_vars PROVE InTime'
  OBVIOUS
<1>1. CASE FoundOther \/ CheckedKilled
  BY <1>1, AskInTime DEF FoundOther, CheckedKilled, Answered, StaysAs, AskStart, SaidYes, NoReply, Says,
     Serving
<1>2. CASE KillOther
  BY <1>2, IdleInTime DEF KillOther, Serving
<1>3. CASE InitEnds \/ Restarted
  <2>1. pc \in Exchange /\ UNCHANGED <<helper, stalls>>
    BY <1>3 DEF InitEnds, Restarted, Answered, StaysAs
  <2>2. UseHelper \/ pc' \in Off
    BY <1>3 DEF InitEnds, Restarted, Off
  <2> QED  BY <2>1, <2>2, UseInTime, IdleInTime DEF Off, Serving
<1>4. CASE DeferExit
  <2>1. /\ pc = "Running" /\ pc' = pc /\ defer = 0 /\ defer' = Interval
        /\ UNCHANGED <<autoExit, stalls>> /\ calls' = Append(calls, Own("delayAutoExit"))
    BY <1>4 DEF DeferExit, Call, Own, helper
  <2>2. Own("delayAutoExit") \in Messages /\ Own("delayAutoExit").name = "delayAutoExit"
    BY Message DEF LifeInv, LifeTypeOK, Own, CallNames
  <2>3. Deferring'
    BY <2>1, <2>2, CallDefers DEF LifeInv
  <2>4. Started /\ stalls = 0 => autoExit > 0
    BY <2>1 DEF InTime, Serving
  <2> QED  BY <2>1, <2>3, <2>4, Shorter DEF InTime, Serving, Started
<1>5. CASE HealthCheck
  <2>1. /\ pc = "Running" /\ pc' \in Serving /\ UNCHANGED <<defer, autoExit, stalls, reply>>
        /\ calls' = calls \/ calls' = Append(calls, Own("started"))
    BY <1>5 DEF HealthCheck, Call, Own, helper, Serving
  <2>2. Own("started") \in Messages
    BY Message DEF LifeInv, LifeTypeOK, Own, CallNames
  <2>3. Deferring => Deferring'
    BY <2>1, <2>2, CallDefers DEF LifeInv, Deferring
  <2> QED  BY <2>1, <2>3, SameInTime DEF Serving
<1>6. CASE Checked
  <2>1. CASE SaidYes /\ pc' = "Running"
    BY <1>6, <2>1, SameInTime DEF Checked, Answered, StaysAs, helper, Serving, Deferring
  <2>2. CASE pc' = "Restarting" /\ reply' = NoReply
    BY <1>6, <2>2, AskInTime DEF Checked, StaysAs, Serving, NoReply, Says
  <2> QED  BY <1>6, <2>1, <2>2 DEF Checked, AskStart
<1>7. CASE AutoExit \/ HelperEnds \/ HelperKilled
  <2>1. autoExit' = Nothing /\ UNCHANGED <<pc, defer, stalls>>
    BY <1>7 DEF AutoExit, HelperEnds, HelperKilled, Becomes, Self, NoHelper, app
  <2> QED  BY <2>1 DEF InTime, Started
<1>8. CASE Launch \/ Quit \/ AppKilled
  BY <1>8, IdleInTime DEF Launch, Quit, AppKilled, Serving
<1>9. CASE SlowAnswer
  BY <1>9, AskInTime DEF SlowAnswer, app, Says, Serving
<1>10. CASE UNCHANGED vars
  BY <1>10, SameInTime DEF vars, app, helper, Deferring
<1> QED
  BY <1>1, <1>2, <1>3, <1>4, <1>5, <1>6, <1>7, <1>8, <1>9, <1>10, TickInTime, ServeInTime DEF Next, Step

(* NoNeedlessExit, for every timeout: the deferral is always in time, through *)
(* restarts of either (helperExitDeferrerTimeout, delayAutoExit).             *)
THEOREM SpecNoNeedlessExit == Spec => NoNeedlessExit
<1>1. Init => InTime
  BY DEF Init, InTime, Serving
<1>2. LifeInv /\ [Next]_vars => LifeInv'
  BY NextKeeps
<1>3. InTime => [AutoExit => pc # "Running" \/ ~InTouch \/ stalls > 0]_vars
  BY Shorter DEF InTime, Serving, AutoExit, Started
<1> QED  BY LifeInit, <1>1, <1>2, <1>3, NextInTime, PTL DEF Spec, NoNeedlessExit
=============================================================================
