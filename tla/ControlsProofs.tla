--------------------------- MODULE ControlsProofs ---------------------------
(***************************************************************************)
(* Proofs about the controls and their synchroniser, for every kernel,     *)
(* any profiles, other programs and bounds.                                *)
(*                                                                         *)
(* TableInEffect speaks of what the helper has done, and what makes it     *)
(* true is how the commands are queued: nothing comes between an edit of   *)
(* the overdrive table and the next command for the table (Closed), from   *)
(* the queue to the call and to what the helper executes.  Then a table    *)
(* that is not committed has its commit next, at the level where it is     *)
(* taken (InHand).  The queue is closed but for the edit of the pack that  *)
(* is open (QueueInv), which ends with a commit (AgendaInv) that sees it   *)
(* (PackInv).                                                              *)
(***************************************************************************)
EXTENDS Controls, TLAPS

\* What the variables hold.
Files ==
  [perf : Level, table : Value, committed : Value, profile : Value, dpm : Value, cap : Value,
   freqOd : Value]

Steps ==
  [op : {"clean"}, on : {"fixed", "overdrive", "fixedFreq", "freqOd", "powerProfile", "powerCap"}]
    \cup [op : {"sync"}, on : {"auto", "fixed", "overdrive", "freqRange", "dynamicFreq", "fixedFreq",
                               "freqOd", "powerProfile", "powerCap"}]
    \cup {Step("commit", "overdrive"), Step("send", "perfMode")}

TypeOK ==
  /\ setting \in Profiles
  /\ agenda \in Seq(Steps)
  /\ queue \in Seq(Command)
  /\ packIndex \in Nat
  /\ calls \in Seq(Seq(Command))
  /\ running \in Seq(Command)
  /\ hw \in Files

\* An edit of the table; the command after an edit is for the table too.
Edit(cmd) == cmd.file = "table" /\ cmd.value # "c"
ClosedAt(q, i) == Edit(q[i]) => i + 1 \in DOMAIN q /\ q[i + 1].file = "table"
Closed(q) == \A i \in DOMAIN q : ClosedAt(q, i)

\* The queue may end with an edit while its commit is next, which sees it behind packIndex.
OpenPack == Now("commit") /\ packIndex < Len(queue)
QueueInv == \A i \in DOMAIN queue : ClosedAt(queue, i) \/ (i = Len(queue) /\ OpenPack)

\* The overdrive control is followed by the control of its group, and that one by the commit.
Packed(s, i) ==
  /\ s[i] = Step("sync", "overdrive") => i + 1 \in DOMAIN s /\ s[i + 1] = Step("sync", "freqRange")
  /\ s[i] = Step("sync", "freqRange") => i + 1 \in DOMAIN s /\ s[i + 1] = Step("commit", "overdrive")
InPacks(s) == \A i \in DOMAIN s : Packed(s, i)
AgendaInv == InPacks(agenda)

\* A pack is open between the overdrive control and its commit.
PackInv ==
  packIndex # 0 =>
    \/ agenda # <<>> /\ Head(agenda) = Step("sync", "freqRange") /\ packIndex <= Len(queue)
    \/ Now("commit")

\* What was sent is closed, and a table that is not in effect is about to be committed.
InHand ==
  /\ \A i \in DOMAIN calls : Closed(calls[i])
  /\ Closed(running)
  /\ hw.committed # hw.table => running # <<>> /\ Head(running).file = "table" /\ hw.perf = "manual"

IInv == TypeOK /\ QueueInv /\ AgendaInv /\ PackInv /\ InHand

-----------------------------------------------------------------------------
(***************************************************************************)
(* The queue                                                               *)
(***************************************************************************)

\* Every edit but one at the end is followed by a command for the table.
ClosedBefore(q) == \A i \in DOMAIN q : ClosedAt(q, i) \/ i = Len(q)

ClosedQueue(q) == q \in Seq(Command) /\ Closed(q)

\* Whatever is added, what was closed remains so.
LEMMA AddBefore ==
  ASSUME NEW q \in Seq(Command), Closed(q), NEW cmd \in Command
  PROVE  Add(q, cmd) \in Seq(Command) /\ ClosedBefore(Add(q, cmd))
<1>1. CASE Add(q, cmd) = q
  BY <1>1 DEF Closed, ClosedBefore
<1>2. CASE Add(q, cmd) = Append(q, cmd)
  <2> PICK r : r = Append(q, cmd)
    OBVIOUS
  <2>1. /\ r \in Seq(Command)
        /\ Len(r) = Len(q) + 1
        /\ \A i \in DOMAIN q : r[i] = q[i]
        /\ \A i \in DOMAIN r : i \in DOMAIN q \/ i = Len(r)
        /\ \A i \in DOMAIN q : i \in DOMAIN r
    OBVIOUS
  <2>2. ASSUME NEW i \in DOMAIN r, i # Len(r), Edit(r[i])
        PROVE  i + 1 \in DOMAIN r /\ r[i + 1].file = "table"
    <3>1. i \in DOMAIN q /\ Edit(q[i])
      BY <2>1, <2>2
    <3>2. i + 1 \in DOMAIN q /\ q[i + 1].file = "table"
      BY <3>1 DEF Closed, ClosedAt
    <3> QED
      BY <3>2, <2>1
  <2>3. ClosedBefore(r)
    BY <2>2 DEF ClosedBefore, ClosedAt
  <2> QED
    BY <1>2, <2>1, <2>3
<1> QED
  BY <1>1, <1>2 DEF Add

\* A closed queue in which an edit is at the end has nothing to close but that.
LEMMA CloseLast ==
  ASSUME NEW q \in Seq(Command), ClosedBefore(q), q # <<>> => ~Edit(q[Len(q)])
  PROVE  Closed(q)
BY DEF Closed, ClosedBefore, ClosedAt

\* A command that is not an edit leaves a closed queue closed.
LEMMA AddPlain ==
  ASSUME NEW q, ClosedQueue(q), NEW cmd \in Command, ~Edit(cmd)
  PROVE  ClosedQueue(Add(q, cmd))
<1>1. CASE Add(q, cmd) = q
  BY <1>1
<1>2. CASE Add(q, cmd) = Append(q, cmd)
  <2> PICK r : r = Append(q, cmd)
    OBVIOUS
  <2>1. q \in Seq(Command) /\ Closed(q)
    BY DEF ClosedQueue
  <2>2. r \in Seq(Command) /\ ClosedBefore(r)
    BY <1>2, <2>1, AddBefore
  <2>3. r[Len(r)] = cmd
    BY <2>1
  <2> QED
    BY <1>2, <2>2, <2>3, CloseLast DEF ClosedQueue
<1> QED
  BY <1>1, <1>2 DEF Add

\* An edit is never dropped from a closed queue: the last command for the table is a commit.
LEMMA AddEdit ==
  ASSUME NEW q, ClosedQueue(q), NEW cmd \in Command, Edit(cmd)
  PROVE  Add(q, cmd) = Append(q, cmd)
<1>1. q \in Seq(Command) /\ Closed(q)
  BY DEF ClosedQueue
<1> SUFFICES ASSUME NEW i \in DOMAIN q, q[i] = cmd,
                    \A j \in i + 1 .. Len(q) : q[j].file # cmd.file
             PROVE  FALSE
  BY DEF Add
<1>2. i + 1 \in DOMAIN q /\ q[i + 1].file = "table"
  BY <1>1 DEF Closed, ClosedAt
<1>3. i + 1 \in i + 1 .. Len(q)
  BY <1>1, <1>2
<1> QED
  BY <1>2, <1>3 DEF Edit

\* A commit closes a queue that ends with an edit.
LEMMA AddCommit ==
  ASSUME NEW q \in Seq(Command), ClosedBefore(q), q # <<>>, Edit(q[Len(q)])
  PROVE  ClosedQueue(Add(q, Write("table", "c")))
<1> PICK cmd : cmd = Write("table", "c")
  OBVIOUS
<1>1. cmd \in Command /\ cmd.file = "table" /\ cmd.value = "c" /\ ~Edit(cmd)
  BY DEF Command, Write, Edit
<1>2. Len(q) \in DOMAIN q /\ q[Len(q)].file = "table"
  BY DEF Edit
<1>3. Add(q, cmd) = Append(q, cmd)
  <2> SUFFICES ASSUME NEW i \in DOMAIN q, q[i] = cmd,
                      \A j \in i + 1 .. Len(q) : q[j].file # cmd.file
               PROVE  FALSE
    BY DEF Add
  <2>1. i # Len(q)
    BY <1>1
  <2>2. Len(q) \in i + 1 .. Len(q)
    BY <2>1
  <2> QED
    BY <1>1, <1>2, <2>2
<1> PICK r : r = Append(q, cmd)
  OBVIOUS
<1>4. /\ r \in Seq(Command)
      /\ Len(r) = Len(q) + 1
      /\ r[Len(r)] = cmd
      /\ \A i \in DOMAIN q : r[i] = q[i] /\ i \in DOMAIN r
      /\ \A i \in DOMAIN r : i \in DOMAIN q \/ i = Len(r)
      /\ Len(r) \in DOMAIN r
  BY <1>1
<1>5. ASSUME NEW i \in DOMAIN r, Edit(r[i])
      PROVE  i + 1 \in DOMAIN r /\ r[i + 1].file = "table"
  <2>1. i \in DOMAIN q
    BY <1>1, <1>4, <1>5
  <2>2. CASE i = Len(q)
    BY <2>2, <1>1, <1>4
  <2>3. CASE i # Len(q)
    <3>1. ClosedAt(q, i) /\ Edit(q[i])
      BY <2>1, <2>3, <1>4, <1>5 DEF ClosedBefore
    <3> QED
      BY <3>1, <1>4 DEF ClosedAt
  <2> QED
    BY <2>2, <2>3
<1> QED
  BY <1>3, <1>4, <1>5 DEF ClosedQueue, Closed, ClosedAt

LEMMA ManualClosed ==
  ASSUME NEW q, ClosedQueue(q)
  PROVE  ClosedQueue(Manual(q))
<1>1. Write("perf", "manual") \in Command /\ ~Edit(Write("perf", "manual"))
  BY DEF Write, Command, Level, Edit
<1> QED
  BY <1>1, AddPlain DEF Manual

\* A file other than the table that is written when it holds something else.
LEMMA EnsureClosed ==
  ASSUME NEW q, ClosedQueue(q), NEW file, NEW value, file # "table", Write(file, value) \in Command
  PROVE  ClosedQueue(Ensure(q, file, value))
<1>1. ~Edit(Write(file, value))
  BY DEF Write, Edit
<1> QED
  BY <1>1, AddPlain DEF Ensure

\* The overdrive control resets the table and puts it into effect at once.
LEMMA CleanOverdriveClosed ==
  ASSUME NEW q, ClosedQueue(q)
  PROVE  ClosedQueue(CleanOverdrive(q))
<1> PICK m : m = Manual(q)
  OBVIOUS
<1> PICK r : r = Write("table", "r")
  OBVIOUS
<1>1. r \in Command /\ Edit(r)
  BY DEF Write, Command, Edit
<1>2. ClosedQueue(m)
  BY ManualClosed
<1> PICK a : a = Add(m, r)
  OBVIOUS
<1>3. a = Append(m, r)
  BY <1>1, <1>2, AddEdit
<1>4. m \in Seq(Command) /\ Closed(m)
  BY <1>2 DEF ClosedQueue
<1>5. a \in Seq(Command) /\ ClosedBefore(a)
  BY <1>1, <1>4, AddBefore
<1>6. a # <<>> /\ a[Len(a)] = r
  BY <1>1, <1>3, <1>4
<1> QED
  BY <1>1, <1>5, <1>6, AddCommit DEF CleanOverdrive

\* cleanControl of any control leaves the queue closed.
LEMMA CleanClosed ==
  ASSUME NEW q, ClosedQueue(q), NEW c, Step("clean", c) \in Steps
  PROVE  ClosedQueue(CleanControl(c, q))
<1>1. /\ Write("perf", "auto") \in Command /\ ~Edit(Write("perf", "auto"))
      /\ Write("profile", "default") \in Command /\ ~Edit(Write("profile", "default"))
      /\ Write("dpm", "default") \in Command /\ ~Edit(Write("dpm", "default"))
      /\ Write("cap", "default") \in Command /\ ~Edit(Write("cap", "default"))
      /\ Write("freqOd", "default") \in Command /\ ~Edit(Write("freqOd", "default"))
  BY DEF Write, Command, Level, Value, Edit
<1>2. ClosedQueue(Manual(q))
  BY ManualClosed
<1>3. c \in {"fixed", "overdrive", "fixedFreq", "freqOd", "powerProfile", "powerCap"}
  BY DEF Steps, Step
<1>4. CASE c = "fixed"
  BY <1>4, <1>1, AddPlain DEF CleanControl, CleanFixed
<1>5. CASE c = "overdrive"
  BY <1>5, CleanOverdriveClosed DEF CleanControl
<1>6. CASE c = "fixedFreq"
  BY <1>6, <1>1, <1>2, AddPlain DEF CleanControl, CleanFixedFreq
<1>7. CASE c = "freqOd"
  BY <1>7, <1>1, AddPlain DEF CleanControl, CleanFreqOd
<1>8. CASE c = "powerProfile"
  BY <1>8, <1>1, <1>2, AddPlain DEF CleanControl, CleanPowerProfile
<1>9. CASE c = "powerCap"
  BY <1>9, <1>1, AddPlain DEF CleanControl, CleanPowerCap
<1> QED
  BY <1>3, <1>4, <1>5, <1>6, <1>7, <1>8, <1>9

\* So does syncControl of any control but the one that edits the table.
LEMMA SyncClosed ==
  ASSUME NEW q, ClosedQueue(q), NEW c, Step("sync", c) \in Steps, c # "freqRange",
         NEW elsewhere, setting \in Settings
  PROVE  ClosedQueue(SyncControl(c, q, elsewhere))
<1>1. /\ Write("perf", "auto") \in Command
      /\ Write("perf", setting.level) \in Command
      /\ Write("cap", setting.cap) \in Command
      /\ Write("freqOd", setting.freqOd) \in Command
      /\ Write("profile", setting.profile) \in Command /\ ~Edit(Write("profile", setting.profile))
      /\ Write("dpm", "custom") \in Command /\ ~Edit(Write("dpm", "custom"))
  BY DEF Write, Command, Level, Value, Edit, Settings
<1>2. ClosedQueue(Manual(q))
  BY ManualClosed
<1>3. c \in {"auto", "fixed", "overdrive", "dynamicFreq", "fixedFreq", "freqOd", "powerProfile", "powerCap"}
  BY DEF Steps, Step
<1>4. CASE c = "auto"
  BY <1>4, <1>1, EnsureClosed DEF SyncControl, SyncAuto
<1>5. CASE c = "fixed"
  BY <1>5, <1>1, EnsureClosed DEF SyncControl, SyncFixed
<1>6. CASE c = "overdrive"
  BY <1>6, <1>2 DEF SyncControl, SyncOverdrive
<1>7. CASE c = "dynamicFreq"
  BY <1>7, <1>1, EnsureClosed DEF SyncControl, SyncDynamicFreq
<1>8. CASE c = "fixedFreq"
  BY <1>8, <1>1, <1>2, AddPlain DEF SyncControl, SyncFixedFreq
<1>9. CASE c = "freqOd"
  BY <1>9, <1>1, EnsureClosed DEF SyncControl, SyncFreqOd
<1>10. CASE c = "powerProfile"
  <2>1. ClosedQueue(Ensure(q, "profile", setting.profile))
    BY <1>1, EnsureClosed
  <2>2. ClosedQueue(Add(Manual(q), Write("profile", setting.profile)))
    BY <1>1, <1>2, AddPlain
  <2> QED
    BY <1>10, <2>1, <2>2 DEF SyncControl, SyncPowerProfile
<1>11. CASE c = "powerCap"
  BY <1>11, <1>1, EnsureClosed DEF SyncControl, SyncPowerCap
<1> QED
  BY <1>3, <1>4, <1>5, <1>6, <1>7, <1>8, <1>9, <1>10, <1>11

-----------------------------------------------------------------------------
(***************************************************************************)
(* The agenda                                                              *)
(***************************************************************************)

GoodAgenda(s) == s \in Seq(Steps) /\ InPacks(s)

LEMMA JoinedAgenda ==
  ASSUME NEW a, NEW b, GoodAgenda(a), GoodAgenda(b)
  PROVE  GoodAgenda(a \o b)
<1> PICK s : s = a \o b
  OBVIOUS
<1>1. /\ a \in Seq(Steps) /\ b \in Seq(Steps)
      /\ \A i \in DOMAIN a : Packed(a, i)
      /\ \A i \in DOMAIN b : Packed(b, i)
  BY DEF GoodAgenda, InPacks
<1>2. /\ s \in Seq(Steps)
      /\ \A i \in DOMAIN a : i \in DOMAIN s /\ s[i] = a[i]
      /\ \A i \in DOMAIN b : Len(a) + i \in DOMAIN s /\ s[Len(a) + i] = b[i]
      /\ \A i \in DOMAIN s : i \in DOMAIN a \/ \E j \in DOMAIN b : i = Len(a) + j
  <2>1. s \in Seq(Steps) /\ Len(s) = Len(a) + Len(b)
    BY <1>1
  <2>2. \A i \in DOMAIN a : i \in DOMAIN s /\ s[i] = a[i]
    BY <1>1, <2>1
  <2>3. \A i \in DOMAIN b : Len(a) + i \in DOMAIN s /\ s[Len(a) + i] = b[i]
    BY <1>1, <2>1
  <2>4. ASSUME NEW i \in DOMAIN s, i \notin DOMAIN a
        PROVE  \E j \in DOMAIN b : i = Len(a) + j
    <3>1. i - Len(a) \in DOMAIN b /\ i = Len(a) + (i - Len(a))
      BY <1>1, <2>1, <2>4
    <3> QED
      BY <3>1
  <2> QED
    BY <2>1, <2>2, <2>3, <2>4
<1>3. ASSUME NEW i \in DOMAIN a PROVE Packed(s, i)
  <2>1. Packed(a, i) /\ s[i] = a[i]
    BY <1>1, <1>2, <1>3
  <2>2. i + 1 \in DOMAIN a => i + 1 \in DOMAIN s /\ s[i + 1] = a[i + 1]
    BY <1>2
  <2> QED
    BY <2>1, <2>2 DEF Packed
<1>4. ASSUME NEW j \in DOMAIN b PROVE Packed(s, Len(a) + j)
  <2>1. Packed(b, j) /\ s[Len(a) + j] = b[j]
    BY <1>1, <1>2, <1>4
  <2>2. j + 1 \in DOMAIN b =>
          Len(a) + (j + 1) \in DOMAIN s /\ s[Len(a) + (j + 1)] = b[j + 1]
    BY <1>2
  <2>3. Len(a) + (j + 1) = (Len(a) + j) + 1
    BY <1>1, <1>4
  <2> QED
    BY <2>1, <2>2, <2>3 DEF Packed
<1> QED
  BY <1>2, <1>3, <1>4 DEF GoodAgenda, InPacks

LEMMA TailAgenda ==
  ASSUME NEW a, GoodAgenda(a), a # <<>>
  PROVE  /\ GoodAgenda(Tail(a))
         /\ Head(a) \in Steps
         /\ Head(a) = Step("sync", "overdrive") =>
              Tail(a) # <<>> /\ Head(Tail(a)) = Step("sync", "freqRange")
         /\ Head(a) = Step("sync", "freqRange") =>
              Tail(a) # <<>> /\ Head(Tail(a)) = Step("commit", "overdrive")
<1> PICK s : s = Tail(a)
  OBVIOUS
<1>1. a \in Seq(Steps) /\ \A i \in DOMAIN a : Packed(a, i)
  BY DEF GoodAgenda, InPacks
<1>2. /\ s \in Seq(Steps)
      /\ Head(a) = a[1] /\ 1 \in DOMAIN a /\ a[1] \in Steps
      /\ \A i \in DOMAIN s : i + 1 \in DOMAIN a /\ s[i] = a[i + 1]
      /\ \A i \in Nat : i + 1 \in DOMAIN a /\ i # 0 => i \in DOMAIN s
      /\ 2 \in DOMAIN a => s # <<>> /\ Head(s) = a[2]
  <2>1. s \in Seq(Steps) /\ Len(s) = Len(a) - 1 /\ Len(a) \in Nat \ {0}
    BY <1>1
  <2>2. \A i \in DOMAIN s : i + 1 \in DOMAIN a /\ s[i] = a[i + 1]
    BY <1>1
  <2>3. Head(a) = a[1] /\ 1 \in DOMAIN a /\ a[1] \in Steps
    BY <1>1
  <2>4. \A i \in Nat : i + 1 \in DOMAIN a /\ i # 0 => i \in DOMAIN s
    BY <1>1, <2>1
  <2>5. ASSUME 2 \in DOMAIN a PROVE s # <<>> /\ Head(s) = a[2]
    <3>1. Len(s) >= 1
      BY <1>1, <2>1, <2>5
    <3>2. 1 \in DOMAIN s
      BY <2>1, <3>1
    <3>3. s # <<>>
      BY ONLY <3>2
    <3>4. Head(s) = s[1]
      BY <2>1, <3>2
    <3> QED
      BY <2>2, <3>2, <3>3, <3>4
  <2> QED
    BY <2>1, <2>2, <2>3, <2>4, <2>5
<1>3. ASSUME NEW i \in DOMAIN s PROVE Packed(s, i)
  <2>1. Packed(a, i + 1) /\ s[i] = a[i + 1] /\ i \in Nat
    BY <1>1, <1>2, <1>3
  <2>2. (i + 1) + 1 \in DOMAIN a => i + 1 \in DOMAIN s /\ s[i + 1] = a[(i + 1) + 1]
    BY <1>1, <1>2, <2>1
  <2> QED
    BY <2>1, <2>2 DEF Packed
<1>4. Packed(a, 1)
  BY <1>1, <1>2
<1> QED
  BY <1>2, <1>3, <1>4 DEF GoodAgenda, InPacks, Packed

\* A step that opens nothing.
LEMMA SingleAgenda ==
  ASSUME NEW step \in Steps, step # Step("sync", "overdrive"), step # Step("sync", "freqRange")
  PROVE  GoodAgenda(<<step>>)
BY DEF GoodAgenda, InPacks, Packed

LEMMA NoAgenda == GoodAgenda(<<>>)
BY DEF GoodAgenda, InPacks, Packed

LEMMA CleanAgenda ==
  ASSUME NEW c, Step("clean", c) \in Steps
  PROVE  GoodAgenda(CleanSteps(c))
<1>1. Step("clean", c) # Step("sync", "overdrive") /\ Step("clean", c) # Step("sync", "freqRange")
  BY DEF Step
<1> QED
  BY <1>1, NoAgenda, SingleAgenda DEF CleanSteps

LEMMA SyncAgenda ==
  ASSUME NEW c, Step("sync", c) \in Steps, c \notin {"overdrive", "freqRange"}
  PROVE  GoodAgenda(SyncSteps(c))
<1>1. Step("sync", c) # Step("sync", "overdrive") /\ Step("sync", c) # Step("sync", "freqRange")
  BY DEF Step
<1> QED
  BY <1>1, NoAgenda, SingleAgenda DEF SyncSteps

LEMMA PackAgenda == GoodAgenda(PackSteps)
<1> PICK a, b, c : a = Step("sync", "overdrive") /\ b = Step("sync", "freqRange") /\ c = Step("commit", "overdrive")
  OBVIOUS
<1>1. a \in Steps /\ b \in Steps /\ c \in Steps /\ a # b /\ c # a /\ c # b
  BY DEF Steps, Step
<1> PICK s : s = <<a, b, c>>
  OBVIOUS
<1>2. s \in Seq(Steps) /\ DOMAIN s = {1, 2, 3} /\ s[1] = a /\ s[2] = b /\ s[3] = c
  BY <1>1
<1>3. \A i \in DOMAIN s : Packed(s, i)
  BY <1>1, <1>2 DEF Packed
<1>4. GoodAgenda(s)
  BY <1>2, <1>3 DEF GoodAgenda, InPacks
<1> QED
  BY <1>4, NoAgenda DEF PackSteps

LEMMA SendAgenda == GoodAgenda(<<Step("send", "perfMode")>>)
<1>1. /\ Step("send", "perfMode") \in Steps
      /\ Step("send", "perfMode") # Step("sync", "overdrive")
      /\ Step("send", "perfMode") # Step("sync", "freqRange")
  BY DEF Steps, Step
<1> QED
  BY <1>1, SingleAgenda

LEMMA VisitsAgenda == GoodAgenda(Visits)
<1>1. /\ GoodAgenda(CleanSteps("fixed")) /\ GoodAgenda(CleanSteps("overdrive"))
      /\ GoodAgenda(CleanSteps("fixedFreq")) /\ GoodAgenda(CleanSteps("freqOd"))
      /\ GoodAgenda(CleanSteps("powerProfile")) /\ GoodAgenda(CleanSteps("powerCap"))
  <2>1. \A c \in {"fixed", "overdrive", "fixedFreq", "freqOd", "powerProfile", "powerCap"} :
          Step("clean", c) \in Steps
    BY DEF Steps, Step
  <2> QED
    BY <2>1, CleanAgenda
<1>2. /\ GoodAgenda(SyncSteps("auto")) /\ GoodAgenda(SyncSteps("fixed"))
      /\ GoodAgenda(SyncSteps("dynamicFreq")) /\ GoodAgenda(SyncSteps("fixedFreq"))
      /\ GoodAgenda(SyncSteps("freqOd")) /\ GoodAgenda(SyncSteps("powerProfile"))
      /\ GoodAgenda(SyncSteps("powerCap"))
  <2>1. \A c \in {"auto", "fixed", "dynamicFreq", "fixedFreq", "freqOd", "powerProfile", "powerCap"} :
          Step("sync", c) \in Steps
    BY DEF Steps, Step
  <2> QED
    BY <2>1, SyncAgenda
<1> QED
  BY <1>1, <1>2, PackAgenda, SendAgenda, JoinedAgenda DEF Visits

-----------------------------------------------------------------------------
(***************************************************************************)
(* The invariant                                                           *)
(***************************************************************************)

\* Between the steps of a pack and only there the queue may end with an edit.
LEMMA QueueIsClosed ==
  ASSUME TypeOK, QueueInv, ~Now("commit")
  PROVE  ClosedQueue(queue)
BY DEF TypeOK, QueueInv, OpenPack, ClosedQueue, Closed

LEMMA ClosedKeepsQueueInv ==
  ASSUME ClosedQueue(queue')
  PROVE  QueueInv'
BY DEF QueueInv, ClosedQueue, Closed

LEMMA InitInv == Init => IInv
<1> SUFFICES ASSUME Init PROVE IInv
  OBVIOUS
<1>1. TypeOK
  BY DEF Init, TypeOK, Files, Level, Value
<1>2. QueueInv /\ AgendaInv /\ PackInv /\ InHand
  BY DEF Init, QueueInv, AgendaInv, InPacks, PackInv, InHand, Closed
<1> QED
  BY <1>1, <1>2 DEF IInv

\* What the helper has is left alone.
LEMMA SameInHand ==
  ASSUME InHand, UNCHANGED helper
  PROVE  InHand'
BY DEF InHand, helper

LEMMA ImportKeeps ==
  ASSUME IInv, NEW s \in Profiles, Import(s)
  PROVE  IInv'
<1>1. UNCHANGED <<agenda, queue, packIndex, calls, running, hw>> /\ setting' \in Profiles
  BY DEF Import, helper
<1>2. TypeOK'
  BY <1>1 DEF IInv, TypeOK
<1>3. QueueInv' /\ AgendaInv' /\ PackInv' /\ InHand'
  BY <1>1 DEF IInv, QueueInv, AgendaInv, InPacks, PackInv, InHand, OpenPack, Now
<1> QED
  BY <1>2, <1>3 DEF IInv

LEMMA BeginPassKeeps ==
  ASSUME IInv, BeginPass
  PROVE  IInv'
<1>1. agenda = <<>> /\ UNCHANGED <<setting, queue, packIndex, calls, running, hw>>
  BY DEF BeginPass, helper
<1>2. GoodAgenda(agenda')
  BY VisitsAgenda, SendAgenda DEF BeginPass
<1>3. ClosedQueue(queue) /\ packIndex = 0
  BY <1>1, QueueIsClosed DEF IInv, Now, PackInv
<1>4. QueueInv'
  <2>1. ClosedQueue(queue')
    BY <1>1, <1>3
  <2> QED
    BY <2>1, ClosedKeepsQueueInv
<1>5. TypeOK'
  BY <1>1, <1>2 DEF IInv, TypeOK, GoodAgenda
<1>6. AgendaInv' /\ PackInv'
  BY <1>1, <1>2, <1>3 DEF AgendaInv, PackInv, GoodAgenda
<1>7. InHand'
  BY <1>1, SameInHand DEF IInv, helper
<1> QED
  BY <1>4, <1>5, <1>6, <1>7 DEF IInv

\* What every further step of a pass does to its agenda.
LEMMA AdvanceAgenda ==
  ASSUME IInv, agenda # <<>>, Advance
  PROVE  /\ GoodAgenda(agenda')
         /\ Head(agenda) \in Steps
         /\ Head(agenda) = Step("sync", "overdrive") =>
              agenda' # <<>> /\ Head(agenda') = Step("sync", "freqRange")
         /\ Head(agenda) = Step("sync", "freqRange") =>
              agenda' # <<>> /\ Head(agenda') = Step("commit", "overdrive")
<1>1. GoodAgenda(agenda)
  BY DEF IInv, TypeOK, AgendaInv, GoodAgenda
<1> QED
  BY <1>1, TailAgenda DEF Advance

LEMMA CleanKeeps ==
  ASSUME IInv, Clean
  PROVE  IInv'
<1> PICK c : c = Head(agenda).on
  OBVIOUS
<1>1. /\ agenda # <<>> /\ Head(agenda).op = "clean" /\ Advance
      /\ queue' = CleanControl(c, queue)
      /\ UNCHANGED <<setting, packIndex, calls, running, hw>>
  BY DEF Clean, Now, helper
<1>2. GoodAgenda(agenda') /\ Head(agenda) \in Steps
  BY <1>1, AdvanceAgenda
<1>3. Step("clean", c) \in Steps
  BY <1>1, <1>2 DEF Steps, Step
<1>4. ~Now("commit") /\ packIndex = 0
  BY <1>1 DEF Now, IInv, PackInv, Step
<1>5. ClosedQueue(queue')
  <2>1. ClosedQueue(queue)
    BY <1>4, QueueIsClosed DEF IInv
  <2> QED
    BY <1>1, <1>3, <2>1, CleanClosed
<1>6. TypeOK'
  BY <1>1, <1>2, <1>5 DEF IInv, TypeOK, GoodAgenda, ClosedQueue
<1>7. QueueInv' /\ AgendaInv' /\ PackInv' /\ InHand'
  BY <1>1, <1>2, <1>4, <1>5, ClosedKeepsQueueInv, SameInHand
     DEF IInv, AgendaInv, PackInv, GoodAgenda, helper
<1> QED
  BY <1>6, <1>7 DEF IInv

LEMMA SyncKeeps ==
  ASSUME IInv, Sync
  PROVE  IInv'
<1> PICK c : c = Head(agenda).on
  OBVIOUS
<1>1. /\ agenda # <<>> /\ Head(agenda).op = "sync" /\ Advance
      /\ packIndex' = IF c = "overdrive" THEN Len(queue') ELSE packIndex
      /\ UNCHANGED <<setting, calls, running, hw>>
  BY DEF Sync, Now, helper
<1> PICK elsewhere \in BOOLEAN : queue' = SyncControl(c, queue, elsewhere)
  BY DEF Sync
<1>2. GoodAgenda(agenda') /\ Head(agenda) \in Steps
  BY <1>1, AdvanceAgenda
<1>3. Step("sync", c) \in Steps /\ Head(agenda) = Step("sync", c)
  BY <1>1, <1>2 DEF Steps, Step
<1>4. ~Now("commit")
  BY <1>1 DEF Now
<1>5. ClosedQueue(queue)
  BY <1>4, QueueIsClosed DEF IInv
<1>6. setting \in Settings
  BY ControlsAssumption DEF IInv, TypeOK
<1>7. CASE c # "freqRange"
  <2>1. ClosedQueue(queue')
    BY <1>3, <1>5, <1>6, <1>7, SyncClosed
  <2>2. TypeOK'
    BY <1>1, <1>2, <2>1 DEF IInv, TypeOK, GoodAgenda, ClosedQueue
  <2>3. PackInv'
    <3>1. CASE c = "overdrive"
      <4>1. agenda' # <<>> /\ Head(agenda') = Step("sync", "freqRange")
        BY <1>1, <1>3, <3>1, AdvanceAgenda
      <4>2. packIndex' = Len(queue') /\ Len(queue') \in Nat
        BY <1>1, <2>1, <3>1 DEF ClosedQueue
      <4> QED
        BY <4>1, <4>2 DEF PackInv
    <3>2. CASE c # "overdrive"
      <4>1. packIndex = 0
        BY <1>3, <1>4, <1>7 DEF IInv, PackInv, Step
      <4> QED
        BY <1>1, <3>2, <4>1 DEF PackInv
    <3> QED
      BY <3>1, <3>2
  <2>4. QueueInv' /\ AgendaInv' /\ InHand'
    BY <1>1, <1>2, <2>1, ClosedKeepsQueueInv, SameInHand DEF IInv, AgendaInv, GoodAgenda, helper
  <2> QED
    BY <2>2, <2>3, <2>4 DEF IInv
<1>8. CASE c = "freqRange"
  <2> PICK cmd : cmd = Write("table", setting.table)
    OBVIOUS
  <2>1. cmd \in Command /\ Edit(cmd)
    BY <1>6 DEF Write, Command, Edit, Settings, Value
  <2>2. queue' = queue \/ queue' = Append(queue, cmd)
    BY <1>5, <1>8, <2>1, AddEdit DEF SyncControl, SyncFreqRange, Ensure
  <2>3. queue \in Seq(Command) /\ queue' \in Seq(Command) /\ ClosedBefore(queue')
    <3>1. queue \in Seq(Command) /\ Closed(queue)
      BY <1>5 DEF ClosedQueue
    <3>2. CASE queue' = queue
      BY <3>1, <3>2 DEF Closed, ClosedBefore
    <3>3. CASE queue' = Append(queue, cmd)
      <4>1. Append(queue, cmd) = Add(queue, cmd)
        BY <1>5, <2>1, AddEdit
      <4> QED
        BY <3>1, <3>3, <4>1, <2>1, AddBefore
    <3> QED
      BY <2>2, <3>1, <3>2, <3>3
  <2>4. agenda' # <<>> /\ Head(agenda') = Step("commit", "overdrive")
    BY <1>1, <1>3, <1>8, AdvanceAgenda
  <2>5. Now("commit")'
    BY <2>4 DEF Now, Step
  <2>6. packIndex' = packIndex /\ packIndex \in Nat /\ packIndex <= Len(queue)
    <3>1. packIndex' = packIndex /\ packIndex \in Nat
      BY <1>1, <1>8 DEF IInv, TypeOK
    <3>2. packIndex # 0 => packIndex <= Len(queue)
      BY <1>4 DEF IInv, PackInv
    <3> QED
      BY <2>3, <3>1, <3>2
  <2>7. QueueInv'
    <3>1. CASE queue' = queue
      <4>1. ClosedQueue(queue')
        BY <3>1, <1>5
      <4> QED
        BY <4>1, ClosedKeepsQueueInv
    <3>2. CASE queue' = Append(queue, cmd)
      <4>1. packIndex' < Len(queue')
        BY <2>3, <2>6, <3>2
      <4> QED
        BY <2>3, <2>5, <4>1 DEF QueueInv, OpenPack, ClosedBefore
    <3> QED
      BY <2>2, <3>1, <3>2
  <2>8. TypeOK'
    BY <1>1, <1>2, <2>3, <2>6 DEF IInv, TypeOK, GoodAgenda
  <2>9. AgendaInv' /\ PackInv' /\ InHand'
    BY <1>1, <1>2, <2>5, SameInHand DEF IInv, AgendaInv, GoodAgenda, PackInv, helper
  <2> QED
    BY <2>7, <2>8, <2>9 DEF IInv
<1> QED
  BY <1>7, <1>8

\* The commit is not dropped behind the edits of the pack.
LEMMA CommitClosed ==
  ASSUME IInv, Now("commit")
  PROVE  ClosedQueue(Commit(queue))
<1>1. queue \in Seq(Command) /\ packIndex \in Nat
  BY DEF IInv, TypeOK
<1>2. ClosedBefore(queue)
  BY DEF IInv, QueueInv, ClosedBefore
<1>3. CASE queue # <<>> /\ Edit(queue[Len(queue)])
  <2>1. Len(queue) \in DOMAIN queue /\ ~ClosedAt(queue, Len(queue))
    BY <1>1, <1>3 DEF ClosedAt
  <2>2. packIndex < Len(queue)
    BY <2>1 DEF IInv, QueueInv, OpenPack
  <2>3. Len(queue) \in packIndex + 1 .. Len(queue) /\ queue[Len(queue)].file = "table"
    BY <1>1, <1>3, <2>2 DEF Edit
  <2>4. Commit(queue) = Add(queue, Write("table", "c"))
    BY <2>3 DEF Commit
  <2> QED
    BY <1>1, <1>2, <1>3, <2>4, AddCommit
<1>4. CASE ~(queue # <<>> /\ Edit(queue[Len(queue)]))
  <2>1. ClosedQueue(queue)
    BY <1>1, <1>2, <1>4, CloseLast DEF ClosedQueue
  <2>2. Write("table", "c") \in Command /\ ~Edit(Write("table", "c"))
    BY DEF Write, Command, Edit
  <2> QED
    BY <2>1, <2>2, AddPlain DEF Commit
<1> QED
  BY <1>3, <1>4

LEMMA CommitTableKeeps ==
  ASSUME IInv, CommitTable
  PROVE  IInv'
<1>1. /\ Now("commit") /\ agenda # <<>> /\ Advance
      /\ queue' = Commit(queue) /\ packIndex' = 0
      /\ UNCHANGED <<setting, calls, running, hw>>
  BY DEF CommitTable, Now, control, helper
<1>2. GoodAgenda(agenda')
  BY <1>1, AdvanceAgenda
<1>3. ClosedQueue(queue')
  BY <1>1, CommitClosed
<1>4. TypeOK'
  BY <1>1, <1>2, <1>3 DEF IInv, TypeOK, GoodAgenda, ClosedQueue
<1>5. QueueInv' /\ AgendaInv' /\ PackInv' /\ InHand'
  BY <1>1, <1>2, <1>3, ClosedKeepsQueueInv, SameInHand DEF IInv, AgendaInv, PackInv, GoodAgenda, helper
<1> QED
  BY <1>4, <1>5 DEF IInv

LEMMA SendKeeps ==
  ASSUME IInv, Send
  PROVE  IInv'
<1>1. /\ agenda # <<>> /\ Head(agenda).op = "send" /\ Advance
      /\ calls' = calls \/ calls' = Append(calls, queue)
      /\ queue' = <<>>
      /\ UNCHANGED <<setting, packIndex, running, hw>>
  BY DEF Send, Now, control
<1>2. GoodAgenda(agenda')
  BY <1>1, AdvanceAgenda
<1>3. ~Now("commit") /\ packIndex = 0
  BY <1>1 DEF Now, IInv, PackInv, Step
<1>4. ClosedQueue(queue)
  BY <1>3, QueueIsClosed DEF IInv
<1>5. calls \in Seq(Seq(Command)) /\ queue \in Seq(Command) /\ Closed(queue)
  BY <1>4 DEF IInv, TypeOK, ClosedQueue
<1>6. calls' \in Seq(Seq(Command)) /\ \A i \in DOMAIN calls' : Closed(calls'[i])
  <2>1. \A i \in DOMAIN calls : Closed(calls[i])
    BY DEF IInv, InHand
  <2>2. CASE calls' = calls
    BY <1>5, <2>1, <2>2
  <2>3. CASE calls' = Append(calls, queue)
    <3>1. \A i \in DOMAIN calls' : (i \in DOMAIN calls /\ calls'[i] = calls[i]) \/ calls'[i] = queue
      BY <1>5, <2>3
    <3> QED
      BY <1>5, <2>1, <2>3, <3>1
  <2> QED
    BY <1>1, <2>2, <2>3
<1>7. TypeOK'
  BY <1>1, <1>2, <1>6 DEF IInv, TypeOK, GoodAgenda
<1>8. QueueInv' /\ AgendaInv' /\ PackInv'
  BY <1>1, <1>2, <1>3 DEF QueueInv, AgendaInv, PackInv, GoodAgenda
<1>9. InHand'
  BY <1>1, <1>6 DEF IInv, InHand
<1> QED
  BY <1>7, <1>8, <1>9 DEF IInv

\* The synchroniser is left alone by what the helper and others do.
LEMMA SameQueue ==
  ASSUME IInv, UNCHANGED <<setting, agenda, queue, packIndex>>, InHand',
         calls' \in Seq(Seq(Command)), running' \in Seq(Command), hw' \in Files
  PROVE  IInv'
<1>1. TypeOK'
  BY DEF IInv, TypeOK
<1>2. QueueInv' /\ AgendaInv' /\ PackInv'
  BY DEF IInv, QueueInv, AgendaInv, InPacks, PackInv, OpenPack, Now
<1> QED
  BY <1>1, <1>2 DEF IInv

LEMMA TailCalls ==
  ASSUME IInv, calls # <<>>
  PROVE  /\ Head(calls) \in Seq(Command) /\ Closed(Head(calls))
         /\ Tail(calls) \in Seq(Seq(Command))
         /\ \A i \in DOMAIN Tail(calls) : Closed(Tail(calls)[i])
<1>1. calls \in Seq(Seq(Command)) /\ \A i \in DOMAIN calls : Closed(calls[i])
  BY DEF IInv, TypeOK, InHand
<1>2. 1 \in DOMAIN calls /\ Head(calls) = calls[1] /\ calls[1] \in Seq(Command)
  BY <1>1
<1>3. /\ Tail(calls) \in Seq(Seq(Command))
      /\ \A i \in DOMAIN Tail(calls) : i + 1 \in DOMAIN calls /\ Tail(calls)[i] = calls[i + 1]
  BY <1>1
<1> QED
  BY <1>1, <1>2, <1>3

LEMMA ReceiveKeeps ==
  ASSUME IInv, Receive
  PROVE  IInv'
<1>1. /\ running = <<>> /\ calls # <<>> /\ running' = Head(calls) /\ calls' = Tail(calls)
      /\ UNCHANGED <<setting, agenda, queue, packIndex, hw>>
  BY DEF Receive, control
<1>2. hw.committed = hw.table
  BY <1>1 DEF IInv, InHand
<1>3. InHand'
  BY <1>1, <1>2, TailCalls DEF InHand
<1>4. hw' \in Files
  BY <1>1 DEF IInv, TypeOK
<1> QED
  BY <1>1, <1>3, <1>4, TailCalls, SameQueue

LEMMA LoseKeeps ==
  ASSUME IInv, Lose
  PROVE  IInv'
<1>1. calls # <<>> /\ calls' = Tail(calls) /\ UNCHANGED <<setting, agenda, queue, packIndex, running, hw>>
  BY DEF Lose, control
<1>2. InHand'
  BY <1>1, TailCalls DEF IInv, InHand
<1>3. hw' \in Files /\ running' \in Seq(Command)
  BY <1>1 DEF IInv, TypeOK
<1> QED
  BY <1>1, <1>2, <1>3, TailCalls, SameQueue

-----------------------------------------------------------------------------
(***************************************************************************)
(* The files                                                               *)
(***************************************************************************)

\* What a command may leave in the files: the type of each, and the table, which takes edits and
\* commits at the manual level and nothing else.
LEMMA WrittenFiles ==
  ASSUME hw \in Files, NEW cmd \in Command, NEW new \in Written(cmd)
  PROVE  /\ new \in Files
         /\ cmd.file # "table" => new.table = hw.table /\ new.committed = hw.committed
         /\ cmd.file # "perf" => new.perf = hw.perf
         /\ cmd.file = "table" /\ hw.perf # "manual" => new = hw
         /\ cmd.file = "table" /\ hw.perf = "manual" /\ ~Edit(cmd) => new.committed = new.table
<1>1. CASE cmd.file = "perf"
  <2>1. cmd.value \in Level
    BY <1>1 DEF Command
  <2>2. \/ new = [hw EXCEPT !.perf = "manual"]
        \/ new = [hw EXCEPT !.perf = cmd.value]
        \/ new = [hw EXCEPT !.perf = cmd.value, !.profile = "default", !.dpm = "default"]
    <3>1. CASE cmd.value = "manual"
      BY <1>1, <3>1 DEF Written, Write
    <3>2. CASE cmd.value # "manual"
      BY <1>1, <3>2 DEF Written, Write
    <3> QED
      BY <3>1, <3>2
  <2> QED
    BY <1>1, <2>1, <2>2 DEF Files, Level, Value
<1>2. CASE cmd.file \in {"table", "profile", "dpm"} /\ hw.perf # "manual"
  <2>1. new = hw
    BY <1>2 DEF Written
  <2> QED
    BY <1>2, <2>1
<1>3. CASE cmd.file = "table" /\ hw.perf = "manual"
  <2>1. CASE cmd.value = "r"
    <3>1. cmd = Write("table", "r")
      BY <1>3, <2>1 DEF Command, Write
    <3>2. new = [hw EXCEPT !.table = "default"]
      BY <1>3, <3>1 DEF Written, Write
    <3> QED
      BY <1>3, <2>1, <3>2 DEF Files, Value, Edit
  <2>2. CASE cmd.value = "c"
    <3>1. cmd = Write("table", "c") /\ cmd # Write("table", "r")
      BY <1>3, <2>2 DEF Command, Write
    <3>2. new = [hw EXCEPT !.committed = hw.table]
      BY <1>3, <3>1 DEF Written, Write
    <3> QED
      BY <1>3, <2>2, <3>2 DEF Files, Value, Edit
  <2>3. CASE cmd.value \in Value
    <3>1. cmd # Write("table", "c") /\ cmd # Write("table", "r")
      BY <2>3 DEF Value, Write
    <3>2. new = [hw EXCEPT !["table"] = cmd.value]
      BY <1>3, <3>1 DEF Written
    <3> QED
      BY <1>3, <2>3, <3>2 DEF Files, Value, Edit
  <2> QED
    BY <1>3, <2>1, <2>2, <2>3 DEF Command
<1>4. CASE cmd.file \in {"cap", "freqOd"} \/ (cmd.file \in {"profile", "dpm"} /\ hw.perf = "manual")
  <2>1. cmd.value \in Value
    BY <1>4 DEF Command
  <2>2. cmd # Write("table", "c") /\ cmd # Write("table", "r")
    BY <1>4 DEF Write
  <2>3. new = [hw EXCEPT ![cmd.file] = cmd.value]
    BY <1>4, <2>2 DEF Written
  <2>4. CASE cmd.file = "cap"
    BY <2>1, <2>3, <2>4 DEF Files
  <2>5. CASE cmd.file = "freqOd"
    BY <2>1, <2>3, <2>5 DEF Files
  <2>6. CASE cmd.file = "profile"
    BY <2>1, <2>3, <2>6 DEF Files
  <2>7. CASE cmd.file = "dpm"
    BY <2>1, <2>3, <2>7 DEF Files
  <2> QED
    BY <1>4, <2>4, <2>5, <2>6, <2>7
<1> QED
  BY <1>1, <1>2, <1>3, <1>4 DEF Command

LEMMA ExecuteKeeps ==
  ASSUME IInv, Execute
  PROVE  IInv'
<1> PICK cmd : cmd = Head(running)
  OBVIOUS
<1>1. /\ running # <<>> /\ hw' \in Written(cmd) /\ running' = Tail(running)
      /\ UNCHANGED <<setting, agenda, queue, packIndex, calls>>
  BY DEF Execute, control
<1>2. running \in Seq(Command) /\ hw \in Files /\ Closed(running) /\ calls \in Seq(Seq(Command))
  BY DEF IInv, TypeOK, InHand
<1>3. /\ cmd \in Command /\ cmd = running[1] /\ 1 \in DOMAIN running
      /\ running' \in Seq(Command)
      /\ \A i \in DOMAIN running' : i + 1 \in DOMAIN running /\ running'[i] = running[i + 1]
      /\ \A i \in DOMAIN running' : (i + 1) + 1 \in DOMAIN running => i + 1 \in DOMAIN running'
  BY <1>1, <1>2
<1>4. Closed(running')
  <2>1. ASSUME NEW i \in DOMAIN running', Edit(running'[i])
        PROVE  i + 1 \in DOMAIN running' /\ running'[i + 1].file = "table"
    <3>1. i + 1 \in DOMAIN running /\ Edit(running[i + 1])
      BY <1>3, <2>1
    <3>2. (i + 1) + 1 \in DOMAIN running /\ running[(i + 1) + 1].file = "table"
      BY <1>2, <3>1 DEF Closed, ClosedAt
    <3> QED
      BY <1>3, <2>1, <3>2
  <2> QED
    BY <2>1 DEF Closed, ClosedAt
<1> PICK new : new = hw'
  OBVIOUS
<1>5. /\ new \in Files
      /\ cmd.file # "table" => new.table = hw.table /\ new.committed = hw.committed
      /\ cmd.file # "perf" => new.perf = hw.perf
      /\ cmd.file = "table" /\ hw.perf # "manual" => new = hw
      /\ cmd.file = "table" /\ hw.perf = "manual" /\ ~Edit(cmd) => new.committed = new.table
  BY <1>1, <1>2, <1>3, WrittenFiles
<1>6. hw.committed # hw.table => cmd.file = "table" /\ hw.perf = "manual"
  BY DEF IInv, InHand
<1>7. ASSUME new.committed # new.table
      PROVE  running' # <<>> /\ Head(running').file = "table" /\ new.perf = "manual"
  <2>1. cmd.file = "table" /\ hw.perf = "manual" /\ Edit(cmd)
    BY <1>5, <1>6, <1>7
  <2>2. 2 \in DOMAIN running /\ running[2].file = "table"
    BY <1>2, <1>3, <2>1 DEF Closed, ClosedAt
  <2>3. 1 \in DOMAIN running' /\ running'[1] = running[2]
    BY <1>1, <1>2, <2>2
  <2>4. running' # <<>> /\ Head(running') = running'[1]
    BY <1>3, <2>3
  <2> QED
    BY <1>5, <2>1, <2>2, <2>3, <2>4
<1>8. InHand'
  BY <1>1, <1>4, <1>7 DEF IInv, InHand
<1> QED
  BY <1>1, <1>2, <1>3, <1>5, <1>8, SameQueue

LEMMA InterfereKeeps ==
  ASSUME IInv, Interfere
  PROVE  IInv'
<1> PICK cmd \in Foreign :
      /\ cmd.file = "perf" => \A i \in DOMAIN running : running[i].file # "table"
      /\ hw' \in Written(cmd)
  BY DEF Interfere
<1>1. UNCHANGED <<setting, agenda, queue, packIndex, calls, running>>
  BY DEF Interfere, control
<1>2. cmd \in Command /\ cmd.file # "table"
  BY ControlsAssumption
<1>3. running \in Seq(Command) /\ hw \in Files /\ calls \in Seq(Seq(Command))
  BY DEF IInv, TypeOK
<1> PICK new : new = hw'
  OBVIOUS
<1>4. /\ new \in Files /\ new.table = hw.table /\ new.committed = hw.committed
      /\ cmd.file # "perf" => new.perf = hw.perf
  BY <1>2, <1>3, WrittenFiles
<1>5. ASSUME new.committed # new.table
      PROVE  running # <<>> /\ Head(running).file = "table" /\ new.perf = "manual"
  <2>1. running # <<>> /\ Head(running).file = "table" /\ hw.perf = "manual"
    BY <1>4, <1>5 DEF IInv, InHand
  <2>2. 1 \in DOMAIN running /\ Head(running) = running[1]
    BY <1>3, <2>1
  <2> QED
    BY <1>4, <2>1, <2>2
<1>6. InHand'
  BY <1>1, <1>5 DEF IInv, InHand
<1> QED
  BY <1>1, <1>3, <1>4, <1>6, SameQueue

LEMMA NextInv == IInv /\ [Next]_vars => IInv'
<1> SUFFICES ASSUME IInv, [Next]_vars PROVE IInv'
  OBVIOUS
<1>1. CASE UNCHANGED vars
  BY <1>1 DEF vars, IInv, TypeOK, QueueInv, AgendaInv, InPacks, PackInv, InHand, OpenPack, Now
<1> QED
  BY <1>1, BeginPassKeeps, CleanKeeps, SyncKeeps, CommitTableKeeps, SendKeeps, ReceiveKeeps,
     ExecuteKeeps, LoseKeeps, InterfereKeeps, ImportKeeps DEF Next, Pass

\* Whatever profiles are imported, however late the helper is, whichever calls are lost: once the
\* helper has done what it was sent, the table in effect is the one that shows in the file, which
\* is what PMOverdrive::syncControl compares (the commit of its pack, packWritesTo).
THEOREM TableIsInEffect == Spec => []TableInEffect
<1>1. IInv => TableInEffect
  BY DEF IInv, InHand, TableInEffect
<1> QED
  BY <1>1, InitInv, NextInv, PTL DEF Spec
=============================================================================
