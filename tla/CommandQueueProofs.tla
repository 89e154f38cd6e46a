------------------------- MODULE CommandQueueProofs -------------------------
(***************************************************************************)
(* The queue of commands, proved for any files, values and bound: the      *)
(* queue that is sent has the outcome of what the controls asked for, and  *)
(* packing keeps the commands of a file in order, together and behind what *)
(* was queued before.                                                      *)
(***************************************************************************)
EXTENDS CommandQueue, Integers, SequenceTheorems, WellFoundedInduction, TLAPS

(***************************************************************************)
(* The last write to a file                                                *)
(***************************************************************************)

\* A set of positions that is not empty has a greatest one.
LEMMA Greatest ==
  ASSUME NEW n \in Nat, NEW T \in SUBSET (1 .. n), T # {}
  PROVE  \E i \in T : \A j \in T : j <= i
<1> DEFINE U == {n - i : i \in T}
<1>0. \A i \in T : i \in Int /\ n - i \in Nat
  OBVIOUS
<1>1. U \subseteq Nat /\ U # {}
  <2>1. \A y \in U : y \in Nat
    BY <1>0
  <2> QED
    BY <2>1
<1>2. PICK x \in U : \A y \in U : ~(<<y, x>> \in OpToRel(<, Nat))
  BY <1>1, NatLessThanWellFounded, WFMin
<1>3. \A y \in U : ~(y < x)
  BY <1>1, <1>2 DEF OpToRel
<1>4. PICK i \in T : x = n - i
  BY <1>2
<1>5. \A j \in T : n - j \in U
  OBVIOUS
<1>6. \A j \in T : j <= i
  <2>1. SUFFICES ASSUME NEW j \in T PROVE j <= i
    OBVIOUS
  <2>2. ~(n - j < n - i)
    BY <1>3, <1>4, <1>5
  <2> QED
    BY <1>0, <2>2
<1> QED
  BY <1>6

\* LastWrite is 0 when nothing writes to the file, and the greatest position otherwise.
LEMMA LastWriteMax ==
  ASSUME NEW cmds \in Seq(Command), NEW f
  PROVE  \/ Writes(cmds, f) = {} /\ LastWrite(cmds, f) = 0
         \/ /\ LastWrite(cmds, f) \in Writes(cmds, f)
            /\ \A j \in Writes(cmds, f) : j <= LastWrite(cmds, f)
<1>1. CASE Writes(cmds, f) = {}
  BY <1>1 DEF LastWrite
<1>2. CASE Writes(cmds, f) # {}
  <2>1. Len(cmds) \in Nat /\ Writes(cmds, f) \subseteq 1 .. Len(cmds)
    BY LenProperties DEF Writes
  <2>2. \E i \in Writes(cmds, f) : \A j \in Writes(cmds, f) : j <= i
    BY <1>2, <2>1, Greatest
  <2> QED
    BY <1>2, <2>2 DEF LastWrite
<1> QED
  BY <1>1, <1>2

\* A write behind which there is none is the last one.
LEMMA LastWriteIs ==
  ASSUME NEW cmds \in Seq(Command), NEW f,
         NEW i \in Writes(cmds, f), \A j \in Writes(cmds, f) : j <= i
  PROVE  LastWrite(cmds, f) = i
<1>1. Writes(cmds, f) \subseteq Nat
  BY LenProperties DEF Writes
<1> QED
  BY <1>1, LastWriteMax

(***************************************************************************)
(* Insertion                                                               *)
(***************************************************************************)

\* new is old with cmd put in at position p.
IsInsertion(old, new, p, cmd) ==
  /\ Len(new) = Len(old) + 1
  /\ new[p] = cmd
  /\ \A i \in 1 .. Len(old) : i < p => new[i] = old[i]
  /\ \A i \in 1 .. Len(old) : p <= i => new[i + 1] = old[i]

LEMMA InsertAtInserts ==
  ASSUME NEW cmds \in Seq(Command), NEW cmd \in Command, NEW p \in 1 .. Len(cmds) + 1
  PROVE  InsertAt(cmds, p, cmd) \in Seq(Command) /\ IsInsertion(cmds, InsertAt(cmds, p, cmd), p, cmd)
<1> DEFINE front == SubSeq(cmds, 1, p - 1)
           back  == SubSeq(cmds, p, Len(cmds))
<1>1. Len(cmds) \in Nat /\ \A i \in 1 .. Len(cmds) : cmds[i] \in Command
  BY LenProperties
<1>2. /\ front \in Seq(Command) /\ Len(front) = p - 1
      /\ \A i \in 1 .. p - 1 : front[i] = cmds[i]
  <2>1. \A i \in 1 .. p - 1 : cmds[i] \in Command
    BY <1>1
  <2> QED
    BY <1>1, <2>1, SubSeqProperties
<1>3. /\ back \in Seq(Command) /\ Len(back) = Len(cmds) - p + 1
      /\ \A i \in 1 .. Len(cmds) - p + 1 : back[i] = cmds[p + i - 1]
  <2>1. \A i \in p .. Len(cmds) : cmds[i] \in Command
    BY <1>1
  <2> QED
    BY <1>1, <2>1, SubSeqProperties
<1>4. <<cmd>> \in Seq(Command) /\ Len(<<cmd>>) = 1 /\ <<cmd>>[1] = cmd
  OBVIOUS
<1> HIDE DEF front, back
<1>5. /\ front \o <<cmd>> \in Seq(Command) /\ Len(front \o <<cmd>>) = p
      /\ (front \o <<cmd>>)[p] = cmd
      /\ \A i \in 1 .. p - 1 : (front \o <<cmd>>)[i] = cmds[i]
  BY <1>1, <1>2, <1>4, ConcatProperties
<1>6. /\ (front \o <<cmd>>) \o back \in Seq(Command)
      /\ Len((front \o <<cmd>>) \o back) = Len(cmds) + 1
      /\ \A i \in 1 .. Len(cmds) + 1 : ((front \o <<cmd>>) \o back)[i] =
           IF i <= p THEN (front \o <<cmd>>)[i] ELSE back[i - p]
  <2> DEFINE s == front \o <<cmd>>
  <2>1. s \in Seq(Command) /\ back \in Seq(Command) /\ Len(s) = p /\ p + Len(back) = Len(cmds) + 1
    BY <1>1, <1>3, <1>5
  <2> HIDE DEF s
  <2>2. /\ s \o back \in Seq(Command)
        /\ Len(s \o back) = Len(s) + Len(back)
        /\ \A i \in 1 .. Len(s) + Len(back) : (s \o back)[i] = IF i <= Len(s) THEN s[i] ELSE back[i - Len(s)]
    BY <2>1, ConcatProperties
  <2>3. /\ s \o back \in Seq(Command)
        /\ Len(s \o back) = Len(cmds) + 1
        /\ \A i \in 1 .. Len(cmds) + 1 : (s \o back)[i] = IF i <= p THEN s[i] ELSE back[i - p]
    BY <2>1, <2>2
  <2> QED
    BY <2>3 DEF s
<1>7. IsInsertion(cmds, (front \o <<cmd>>) \o back, p, cmd)
  BY <1>1, <1>3, <1>5, <1>6 DEF IsInsertion
<1> QED
  BY <1>6, <1>7 DEF InsertAt, front, back

LEMMA AppendInserts ==
  ASSUME NEW cmds \in Seq(Command), NEW cmd \in Command
  PROVE  Append(cmds, cmd) \in Seq(Command) /\ IsInsertion(cmds, Append(cmds, cmd), Len(cmds) + 1, cmd)
BY AppendProperties, LenProperties DEF IsInsertion

\* A command put in behind the last write to its file becomes the last write to it, and the
\* last write to any other file keeps its value.
LEMMA InsertionOutcome ==
  ASSUME NEW old \in Seq(Command), NEW new \in Seq(Command), NEW cmd \in Command,
         NEW p \in 1 .. Len(old) + 1, IsInsertion(old, new, p, cmd),
         LastWrite(old, cmd.file) < p, NEW f
  PROVE  /\ f = cmd.file => LastWrite(new, f) = p
         /\ f # cmd.file => /\ LastWrite(new, f) = 0 <=> LastWrite(old, f) = 0
                            /\ LastWrite(old, f) # 0 =>
                                 new[LastWrite(new, f)] = old[LastWrite(old, f)]
<1>1. /\ Len(old) \in Nat /\ DOMAIN old = 1 .. Len(old)
      /\ DOMAIN new = 1 .. Len(old) + 1
  BY LenProperties DEF IsInsertion
<1>2. \A i \in 1 .. Len(old) + 1 : new[i] = CASE i < p -> old[i] [] i = p -> cmd [] i > p -> old[i - 1]
  <2> TAKE i \in 1 .. Len(old) + 1
  <2>1. CASE i < p
    BY <1>1, <2>1 DEF IsInsertion
  <2>2. CASE i = p
    BY <1>1, <2>2 DEF IsInsertion
  <2>3. CASE i > p
    <3>1. i - 1 \in 1 .. Len(old) /\ p <= i - 1 /\ i = (i - 1) + 1
      BY <1>1, <2>3
    <3>2. new[(i - 1) + 1] = old[i - 1]
      BY <3>1 DEF IsInsertion
    <3> QED
      BY <1>1, <2>3, <3>1, <3>2
  <2> QED
    BY <1>1, <2>1, <2>2, <2>3
<1>3. ASSUME f = cmd.file PROVE LastWrite(new, f) = p
  <2>1. p \in Writes(new, f)
    BY <1>1, <1>2, <1>3 DEF Writes
  <2>2. \A j \in Writes(new, f) : j <= p
    <3>1. SUFFICES ASSUME NEW j \in Writes(new, f), j > p PROVE FALSE
      BY <1>1 DEF Writes
    <3>2. j - 1 \in Writes(old, f) /\ j - 1 >= p
      BY <1>1, <1>2, <3>1 DEF Writes
    <3>3. Writes(old, f) \subseteq Nat
      BY <1>1 DEF Writes
    <3> QED
      BY <1>1, <1>3, <3>2, <3>3, LastWriteMax
  <2> QED
    BY <2>1, <2>2, LastWriteIs
<1>4. ASSUME f # cmd.file, Writes(old, f) = {} PROVE LastWrite(new, f) = 0 /\ LastWrite(old, f) = 0
  <2>1. Writes(new, f) = {}
    <3>1. SUFFICES ASSUME NEW j \in Writes(new, f) PROVE FALSE
      OBVIOUS
    <3>2. j \in 1 .. Len(old) + 1 /\ new[j].file = f
      BY <1>1 DEF Writes
    <3>3. j < p => j \in Writes(old, f)
      BY <1>1, <1>2, <3>2 DEF Writes
    <3>4. j > p => j - 1 \in Writes(old, f)
      BY <1>1, <1>2, <3>2 DEF Writes
    <3>5. j # p
      BY <1>2, <1>4, <3>2
    <3> QED
      BY <1>1, <1>4, <3>2, <3>3, <3>4, <3>5
  <2> QED
    BY <1>4, <2>1 DEF LastWrite
<1>5. ASSUME f # cmd.file, Writes(old, f) # {}
      PROVE  /\ LastWrite(new, f) # 0 /\ LastWrite(old, f) # 0
             /\ new[LastWrite(new, f)] = old[LastWrite(old, f)]
  <2> DEFINE l == LastWrite(old, f)
             m == IF l < p THEN l ELSE l + 1
  <2>1. /\ l \in 1 .. Len(old) /\ old[l].file = f
        /\ \A j \in Writes(old, f) : j <= l
    BY <1>1, <1>5, LastWriteMax DEF Writes
  <2> HIDE DEF l
  <2>2. m \in 1 .. Len(old) + 1 /\ new[m] = old[l]
    <3>1. CASE l < p
      BY <1>1, <1>2, <2>1, <3>1
    <3>2. CASE l >= p
      <4>1. l + 1 \in 1 .. Len(old) + 1 /\ l + 1 > p /\ (l + 1) - 1 = l
        BY <1>1, <2>1, <3>2
      <4>2. new[l + 1] = old[(l + 1) - 1]
        BY <1>1, <1>2, <4>1
      <4>3. m = l + 1
        BY <1>1, <2>1, <3>2
      <4> QED
        BY <4>1, <4>2, <4>3
    <3> QED
      BY <1>1, <2>1, <3>1, <3>2
  <2>3. m \in Writes(new, f)
    BY <1>1, <2>1, <2>2 DEF Writes
  <2>4. \A j \in Writes(new, f) : j <= m
    <3>1. SUFFICES ASSUME NEW j \in Writes(new, f) PROVE j <= m
      OBVIOUS
    <3>2. j \in 1 .. Len(old) + 1 /\ new[j].file = f
      BY <1>1 DEF Writes
    <3>3. j < p => j \in Writes(old, f)
      BY <1>1, <1>2, <3>2 DEF Writes
    <3>4. j > p => j - 1 \in Writes(old, f)
      BY <1>1, <1>2, <3>2 DEF Writes
    <3>5. j # p
      BY <1>2, <1>5, <3>2
    <3> QED
      BY <1>1, <2>1, <3>2, <3>3, <3>4, <3>5
  <2>5. LastWrite(new, f) = m
    BY <2>3, <2>4, LastWriteIs
  <2> QED
    <3>1. LastWrite(new, f) # 0 /\ new[LastWrite(new, f)] = old[l]
      BY <1>1, <2>2, <2>5
    <3>2. l # 0
      BY <1>1, <2>1
    <3> QED
      BY <3>1, <3>2 DEF l
<1> QED
  BY <1>3, <1>4, <1>5

(***************************************************************************)
(* The inductive invariant                                                 *)
(***************************************************************************)

\* SameOutcome does not say that a file has a queued command exactly when one was added for it
\* (the file may hold the value already), nor that the values agree: the invariant does.
SameLast == \A f \in Files :
  /\ LastWrite(commands, f) = 0 <=> LastWrite(added, f) = 0
  /\ LastWrite(added, f) # 0 =>
       commands[LastWrite(commands, f)].value = added[LastWrite(added, f)].value

IInv == TypeOK /\ SameLast /\ PackTogether

USE CommandQueueAssumption

LEMMA InitIInv == Init => IInv
<1> SUFFICES ASSUME Init PROVE IInv
  OBVIOUS
<1>1. commands = <<>> /\ added = <<>> /\ packIndex = NoIndex
  BY DEF Init
<1>2. TypeOK
  BY <1>1 DEF Init, TypeOK
<1>3. \A f : LastWrite(<<>>, f) = 0
  BY DEF LastWrite, Writes
<1>4. SameLast
  BY <1>1, <1>3 DEF SameLast
<1>5. PackTogether
  BY <1>1 DEF PackTogether
<1> QED
  BY <1>2, <1>4, <1>5 DEF IInv

\* Where a command goes: behind the last write to its file, and behind the open pack's start.
LEMMA PositionBehind ==
  ASSUME TypeOK, NEW f
  PROVE  /\ Position(f) \in 1 .. Len(commands) + 1
         /\ LastWrite(commands, f) < Position(f)
         /\ packIndex # NoIndex => packIndex < Position(f)
<1>1. Len(commands) \in Nat /\ DOMAIN commands = 1 .. Len(commands)
  BY LenProperties DEF TypeOK
<1>2. LastWrite(commands, f) \in 0 .. Len(commands)
  BY <1>1, LastWriteMax DEF TypeOK, Writes
<1>3. packIndex # NoIndex => packIndex \in 0 .. Len(commands)
  BY DEF TypeOK
<1> QED
  BY <1>1, <1>2, <1>3 DEF Position, InPack

\* What add does to the queue, when it does not drop the command.
LEMMA AddInserts ==
  ASSUME TypeOK, NEW cmd \in Command, Add(cmd), ~Repeats(cmd)
  PROVE  /\ commands' \in Seq(Command)
         /\ IsInsertion(commands, commands', Position(cmd.file), cmd)
<1>1. commands' = InsertAt(commands, Position(cmd.file), cmd)
  BY DEF Add
<1> QED
  BY <1>1, PositionBehind, InsertAtInserts DEF TypeOK

LEMMA AddTypeOK ==
  ASSUME TypeOK, NEW cmd \in Command, Add(cmd)
  PROVE  TypeOK'
<1>1. added' \in Seq(Command) /\ packIndex' = packIndex /\ device' = device
  BY AppendInserts DEF TypeOK, Add
<1>2. commands' \in Seq(Command) /\ Len(commands') >= Len(commands)
  <2>1. Len(commands) \in Nat
    BY LenProperties DEF TypeOK
  <2>2. CASE Repeats(cmd)
    BY <2>1, <2>2 DEF Add, TypeOK
  <2>3. CASE ~Repeats(cmd)
    BY <2>1, <2>3, AddInserts DEF IsInsertion
  <2> QED
    BY <2>2, <2>3
<1>3. packIndex \in (0 .. Len(commands')) \cup {NoIndex}
  BY <1>2, LenProperties DEF TypeOK
<1> QED
  BY <1>1, <1>2, <1>3 DEF TypeOK

LEMMA AddSameLast ==
  ASSUME TypeOK, SameLast, NEW cmd \in Command, Add(cmd)
  PROVE  SameLast'
<1> SUFFICES ASSUME NEW f \in Files
             PROVE  /\ LastWrite(commands', f) = 0 <=> LastWrite(added', f) = 0
                    /\ LastWrite(added', f) # 0 =>
                         commands'[LastWrite(commands', f)].value = added'[LastWrite(added', f)].value
  BY DEF SameLast
<1>1. /\ added \in Seq(Command) /\ Len(added) \in Nat
      /\ added' \in Seq(Command)
      /\ IsInsertion(added, added', Len(added) + 1, cmd)
  BY AppendInserts, LenProperties DEF TypeOK, Add
<1>2. LastWrite(added, cmd.file) < Len(added) + 1
  BY <1>1, LastWriteMax, LenProperties DEF Writes
<1>3. /\ f = cmd.file => LastWrite(added', f) = Len(added) + 1
      /\ f # cmd.file => /\ LastWrite(added', f) = 0 <=> LastWrite(added, f) = 0
                         /\ LastWrite(added, f) # 0 =>
                              added'[LastWrite(added', f)] = added[LastWrite(added, f)]
  <2>1. Len(added) + 1 \in 1 .. Len(added) + 1
    BY <1>1
  <2> QED
    BY <1>1, <1>2, <2>1, InsertionOutcome
<1>4. added'[Len(added) + 1] = cmd
  BY <1>1 DEF IsInsertion
<1>5. CASE Repeats(cmd)
  <2>1. /\ commands' = commands
        /\ LastWrite(commands, cmd.file) # 0
        /\ commands[LastWrite(commands, cmd.file)].value = cmd.value
    BY <1>5 DEF Add, Repeats
  <2>2. CASE f = cmd.file
    BY <1>1, <1>3, <1>4, <2>1, <2>2
  <2>3. CASE f # cmd.file
    BY <1>3, <2>1, <2>3 DEF SameLast
  <2> QED
    BY <2>2, <2>3
<1>6. CASE ~Repeats(cmd)
  <2> DEFINE p == Position(cmd.file)
  <2>1. /\ commands \in Seq(Command) /\ commands' \in Seq(Command)
        /\ IsInsertion(commands, commands', p, cmd)
        /\ p \in 1 .. Len(commands) + 1 /\ LastWrite(commands, cmd.file) < p
    BY <1>6, AddInserts, PositionBehind DEF TypeOK
  <2>2. commands'[p] = cmd /\ p # 0
    BY <2>1, LenProperties DEF IsInsertion
  <2> HIDE DEF p
  <2>3. /\ f = cmd.file => LastWrite(commands', f) = p
        /\ f # cmd.file => /\ LastWrite(commands', f) = 0 <=> LastWrite(commands, f) = 0
                           /\ LastWrite(commands, f) # 0 =>
                                commands'[LastWrite(commands', f)] = commands[LastWrite(commands, f)]
    BY <2>1, InsertionOutcome
  <2>4. CASE f = cmd.file
    BY <1>1, <1>3, <1>4, <2>2, <2>3, <2>4
  <2>5. CASE f # cmd.file
    BY <1>3, <2>3, <2>5 DEF SameLast
  <2> QED
    BY <2>4, <2>5
<1> QED
  BY <1>5, <1>6

LEMMA AddPackTogether ==
  ASSUME TypeOK, PackTogether, NEW cmd \in Command, Add(cmd)
  PROVE  PackTogether'
<1>1. CASE Repeats(cmd)
  BY <1>1 DEF Add, PackTogether
<1>2. CASE ~Repeats(cmd)
  <2> DEFINE p == Position(cmd.file)
             l == LastWrite(commands, cmd.file)
  <2>1. /\ Len(commands) \in Nat /\ DOMAIN commands = 1 .. Len(commands)
        /\ p \in 1 .. Len(commands) + 1
        /\ IsInsertion(commands, commands', p, cmd)
    BY <1>2, AddInserts, PositionBehind, LenProperties DEF TypeOK
  <2>2. packIndex' = packIndex
    BY DEF Add
  <2>3. \A x \in 1 .. Len(commands) : commands[x].file = cmd.file => x <= l
    BY <2>1, LastWriteMax DEF TypeOK, Writes
  <2>4. p = Len(commands) + 1 \/ (p = l + 1 /\ l \in 1 .. Len(commands) /\ commands[l].file = cmd.file)
    BY <2>1, LastWriteMax DEF TypeOK, Writes, Position, InPack
  <2> SUFFICES ASSUME packIndex # NoIndex,
                      NEW i \in packIndex + 1 .. Len(commands'),
                      NEW j \in packIndex + 1 .. Len(commands'),
                      NEW k \in packIndex + 1 .. Len(commands'),
                      i < j, j < k, commands'[i].file = commands'[k].file
               PROVE  commands'[j].file = commands'[i].file
    BY <2>2 DEF PackTogether
  <2>5. packIndex \in 0 .. Len(commands) /\ packIndex < p
    BY PositionBehind DEF TypeOK
  <2>6. l > packIndex => p = l + 1
    BY DEF Position, InPack
  <2>7. l \in 0 .. Len(commands) /\ (l # 0 => commands[l].file = cmd.file)
    BY <2>1, LastWriteMax DEF TypeOK, Writes
  <2> HIDE DEF p, l
  <2>8. Len(commands') = Len(commands) + 1
    BY <2>1 DEF IsInsertion
  <2>9. /\ i \in 1 .. Len(commands) + 1 /\ j \in 1 .. Len(commands) + 1 /\ k \in 1 .. Len(commands) + 1
        /\ i > packIndex /\ j > packIndex /\ k > packIndex
    BY <2>5, <2>8
  <2>10. \A x \in 1 .. Len(commands) + 1 :
           /\ x < p => x \in 1 .. Len(commands) /\ commands'[x] = commands[x]
           /\ x = p => commands'[x] = cmd
           /\ x > p => x - 1 \in 1 .. Len(commands) /\ commands'[x] = commands[x - 1]
    <3> TAKE x \in 1 .. Len(commands) + 1
    <3>1. CASE x < p
      BY <2>1, <3>1 DEF IsInsertion
    <3>2. CASE x = p
      BY <2>1, <3>2 DEF IsInsertion
    <3>3. CASE x > p
      <4>1. x - 1 \in 1 .. Len(commands) /\ p <= x - 1 /\ (x - 1) + 1 = x
        BY <2>1, <3>3
      <4>2. commands'[(x - 1) + 1] = commands[x - 1]
        BY <2>1, <4>1 DEF IsInsertion
      <4> QED
        BY <2>1, <3>3, <4>1, <4>2
    <3> QED
      BY <2>1, <3>1, <3>2, <3>3
  <2>11. \A x, y, z \in 1 .. Len(commands) :
           packIndex < x /\ x < y /\ y < z /\ commands[x].file = commands[z].file
             => commands[y].file = commands[x].file
    BY <2>5 DEF PackTogether
  <2>12. CASE k = p
    <3>1. i \in 1 .. Len(commands) /\ j \in 1 .. Len(commands)
          /\ commands'[i] = commands[i] /\ commands'[j] = commands[j] /\ commands[i].file = cmd.file
      BY <2>1, <2>9, <2>10, <2>12
    <3>2. i <= l /\ l > packIndex /\ j <= l
      <4>1. i <= l
        BY <2>3, <3>1
      <4>2. l > packIndex
        BY <2>1, <2>5, <2>7, <2>9, <4>1
      <4>3. p = l + 1
        BY <2>6, <4>2
      <4> QED
        BY <2>1, <2>7, <2>9, <2>12, <4>1, <4>2, <4>3
    <3>3. commands[l].file = cmd.file /\ l \in 1 .. Len(commands)
      <4>1. l # 0
        BY <2>1, <2>7, <3>1, <3>2
      <4> QED
        BY <2>1, <2>7, <4>1
    <3>4. commands[j].file = commands[i].file
      BY <2>9, <2>11, <3>1, <3>2, <3>3
    <3> QED
      BY <3>1, <3>4
  <2>13. CASE i = p
    <3>1. k - 1 \in 1 .. Len(commands) /\ commands[k - 1].file = cmd.file /\ k - 1 > i
      BY <2>1, <2>9, <2>10, <2>13
    <3>2. k - 1 <= l
      BY <2>3, <3>1
    <3> QED
      BY <2>1, <2>4, <2>7, <2>9, <2>13, <3>1, <3>2
  <2>14. CASE j = p
    <3>1. /\ i \in 1 .. Len(commands) /\ commands'[i] = commands[i]
          /\ k - 1 \in 1 .. Len(commands) /\ commands'[k] = commands[k - 1] /\ k - 1 >= p
          /\ commands'[j] = cmd
      BY <2>1, <2>9, <2>10, <2>14
    <3>2. p = l + 1 /\ l \in 1 .. Len(commands) /\ commands[l].file = cmd.file
      BY <2>1, <2>4, <3>1
    <3>3. commands[l].file = commands[i].file
      BY <2>9, <2>11, <2>14, <3>1, <3>2
    <3> QED
      BY <3>1, <3>2, <3>3
  <2>15. CASE i # p /\ j # p /\ k # p
    <3> DEFINE old(x) == IF x < p THEN x ELSE x - 1
    <3>1. /\ old(i) \in 1 .. Len(commands) /\ commands'[i] = commands[old(i)]
          /\ old(j) \in 1 .. Len(commands) /\ commands'[j] = commands[old(j)]
          /\ old(k) \in 1 .. Len(commands) /\ commands'[k] = commands[old(k)]
      <4>1. \A x \in 1 .. Len(commands) + 1 :
               x # p => old(x) \in 1 .. Len(commands) /\ commands'[x] = commands[old(x)]
        <5> TAKE x \in 1 .. Len(commands) + 1
        <5>1. CASE x < p
          BY <2>10, <5>1
        <5>2. CASE x >= p
          BY <2>1, <2>10, <5>2
        <5> QED
          BY <2>1, <5>1, <5>2
      <4> QED
        BY <2>9, <2>15, <4>1
    <3>2. packIndex < old(i) /\ old(i) < old(j) /\ old(j) < old(k)
      BY <2>1, <2>5, <2>9, <2>15
    <3> HIDE DEF old
    <3> QED
      BY <2>11, <3>1, <3>2
  <2> QED
    BY <2>12, <2>13, <2>14, <2>15
<1> QED
  BY <1>1, <1>2

LEMMA NextIInv == IInv /\ [Next]_vars => IInv'
<1> SUFFICES ASSUME IInv, [Next]_vars PROVE IInv'
  OBVIOUS
<1>1. Len(commands) \in Nat
  BY LenProperties DEF IInv, TypeOK
<1>2. CASE Pack
  <2>1. TypeOK'
    BY <1>1, <1>2 DEF IInv, TypeOK, Pack
  <2>2. SameLast'
    BY <1>2 DEF IInv, SameLast, Pack
  <2>3. PackTogether'
    <3>1. CASE packIndex = NoIndex
      <4>1. packIndex' = Len(commands) /\ commands' = commands
        BY <1>2, <3>1 DEF Pack
      <4> QED
        BY <1>1, <4>1 DEF PackTogether
    <3>2. CASE packIndex # NoIndex
      BY <1>2, <3>2 DEF IInv, PackTogether, Pack
    <3> QED
      BY <3>1, <3>2
  <2> QED
    BY <2>1, <2>2, <2>3 DEF IInv
<1>3. CASE Unpack
  <2>1. TypeOK'
    BY <1>3 DEF IInv, TypeOK, Unpack
  <2>2. SameLast'
    BY <1>3 DEF IInv, SameLast, Unpack
  <2>3. PackTogether'
    BY <1>3 DEF PackTogether, Unpack
  <2> QED
    BY <2>1, <2>2, <2>3 DEF IInv
<1>4. CASE ToRawData
  <2>1. commands' = <<>> /\ added' = <<>> /\ packIndex' = NoIndex
    BY <1>4 DEF ToRawData
  <2>2. device' \in [Files -> Values \cup {Unset}]
    <3>1. \A f : LastWrite(commands, f) # 0 => commands[LastWrite(commands, f)] \in Command
      BY LastWriteMax, ElementOfSeq, LenProperties DEF IInv, TypeOK, Writes
    <3> QED
      BY <1>4, <3>1 DEF IInv, TypeOK, ToRawData, Executed, Command
  <2>3. TypeOK'
    BY <2>1, <2>2 DEF TypeOK
  <2>4. \A f : LastWrite(<<>>, f) = 0
    BY DEF LastWrite, Writes
  <2>5. SameLast'
    BY <2>1, <2>4 DEF SameLast
  <2>6. PackTogether'
    BY <2>1 DEF PackTogether
  <2> QED
    BY <2>3, <2>5, <2>6 DEF IInv
<1>5. ASSUME NEW cmd \in Command, Add(cmd) PROVE IInv'
  BY <1>5, AddTypeOK, AddSameLast, AddPackTogether DEF IInv
<1>6. CASE UNCHANGED vars
  BY <1>6 DEF IInv, TypeOK, SameLast, PackTogether, vars
<1> QED
  BY <1>2, <1>3, <1>4, <1>5, <1>6 DEF Next

\* Invariance of the strengthening, from which the theorems below follow.
LEMMA SpecIInv == Spec => []IInv
<1> QED
  BY InitIInv, NextIInv, PTL DEF Spec

(***************************************************************************)
(* The order of the writes to a file                                       *)
(***************************************************************************)

\* Where an insertion at p moves the position i.
Shift(p, i) == IF i < p THEN i ELSE i + 1

\* What an insertion does to the writes to a file.
LEMMA InsertionWrites ==
  ASSUME NEW old \in Seq(Command), NEW new \in Seq(Command), NEW cmd \in Command,
         NEW p \in 1 .. Len(old) + 1, IsInsertion(old, new, p, cmd), NEW f
  PROVE  /\ Writes(old, f) \subseteq Nat /\ Writes(new, f) \subseteq Nat
         /\ \A i \in Writes(old, f) : Shift(p, i) \in Writes(new, f) /\ new[Shift(p, i)] = old[i]
         /\ f = cmd.file => p \in Writes(new, f) /\ new[p] = cmd
         /\ \A k \in Writes(new, f) : \/ k = p /\ f = cmd.file
                                      \/ \E i \in Writes(old, f) : Shift(p, i) = k
<1>1. /\ Len(old) \in Nat /\ DOMAIN old = 1 .. Len(old) /\ Len(new) = Len(old) + 1
      /\ DOMAIN new = 1 .. Len(old) + 1 /\ new[p] = cmd
  BY LenProperties DEF IsInsertion
<1>2. ASSUME NEW i \in 1 .. Len(old)
      PROVE  Shift(p, i) \in 1 .. Len(old) + 1 /\ new[Shift(p, i)] = old[i]
  <2>1. CASE i < p
    BY <1>1, <2>1 DEF Shift, IsInsertion
  <2>2. CASE ~(i < p)
    <3>1. p <= i /\ Shift(p, i) = i + 1
      BY <1>1, <2>2 DEF Shift
    <3>2. new[i + 1] = old[i]
      BY <3>1 DEF IsInsertion
    <3> QED
      BY <1>1, <3>1, <3>2
  <2> QED
    BY <2>1, <2>2
<1>3. ASSUME NEW i \in Writes(old, f)
      PROVE  Shift(p, i) \in Writes(new, f) /\ new[Shift(p, i)] = old[i]
  <2>1. i \in 1 .. Len(old) /\ old[i].file = f
    BY <1>1 DEF Writes
  <2>2. Shift(p, i) \in 1 .. Len(old) + 1 /\ new[Shift(p, i)] = old[i]
    BY <1>2, <2>1
  <2> QED
    BY <1>1, <2>1, <2>2 DEF Writes
<1>4. ASSUME NEW k \in Writes(new, f)
      PROVE  (k = p /\ f = cmd.file) \/ \E i \in Writes(old, f) : Shift(p, i) = k
  <2>1. k \in 1 .. Len(old) + 1 /\ new[k].file = f
    BY <1>1 DEF Writes
  <2>2. CASE k = p
    BY <1>1, <2>1, <2>2
  <2>3. CASE k < p
    <3>1. k \in 1 .. Len(old) /\ Shift(p, k) = k
      BY <1>1, <2>1, <2>3 DEF Shift
    <3>2. old[k].file = f
      BY <1>2, <2>1, <3>1
    <3> QED
      BY <1>1, <3>1, <3>2 DEF Writes
  <2>4. CASE k > p
    <3>1. k - 1 \in 1 .. Len(old) /\ Shift(p, k - 1) = k
      BY <1>1, <2>1, <2>4 DEF Shift
    <3>2. old[k - 1].file = f
      BY <1>2, <2>1, <3>1
    <3> QED
      BY <1>1, <3>1, <3>2 DEF Writes
  <2> QED
    BY <1>1, <2>1, <2>2, <2>3, <2>4
<1>5. Writes(old, f) \subseteq Nat /\ Writes(new, f) \subseteq Nat
  BY <1>1 DEF Writes
<1>6. f = cmd.file => p \in Writes(new, f)
  BY <1>1 DEF Writes
<1> QED
  BY <1>1, <1>3, <1>4, <1>5, <1>6

\* It keeps their order.
LEMMA ShiftOrder ==
  ASSUME NEW p \in Nat, NEW i \in Nat, NEW j \in Nat
  PROVE  /\ Shift(p, i) \in Nat
         /\ i <= j <=> Shift(p, i) <= Shift(p, j)
         /\ i < j <=> Shift(p, i) < Shift(p, j)
         /\ i < p => Shift(p, i) < p
BY DEF Shift

\* A command for another file is queued: those of f may move, together.
LEMMA OtherFileOrder ==
  ASSUME TypeOK, NEW cmd \in Command, Add(cmd), NEW f, f # cmd.file,
         NEW at \in [Writes(added, f) -> Writes(commands, f)], StandFor(at, f)
  PROVE  \E at2 \in [Writes(added', f) -> Writes(commands', f)] : StandFor(at2, f)'
<1>1. /\ added \in Seq(Command) /\ added' \in Seq(Command) /\ commands \in Seq(Command)
      /\ IsInsertion(added, added', Len(added) + 1, cmd) /\ Len(added) \in Nat
  BY AppendInserts, LenProperties DEF TypeOK, Add
<1>2. Writes(added', f) = Writes(added, f) /\ \A i \in Writes(added, f) : added'[i] = added[i]
  <2>1. Len(added) + 1 \in 1 .. Len(added) + 1
    BY <1>1
  <2>2. \A i \in Writes(added, f) : Shift(Len(added) + 1, i) = i
    BY <1>1, LenProperties DEF Writes, Shift
  <2>3. PICK n, new : n = Len(added) + 1 /\ new = added'
    OBVIOUS
  <2>4. /\ \A i \in Writes(added, f) : Shift(n, i) \in Writes(new, f) /\ new[Shift(n, i)] = added[i]
        /\ \A k \in Writes(new, f) : \E i \in Writes(added, f) : Shift(n, i) = k
    BY <1>1, <2>1, <2>3, InsertionWrites
  <2>5. \A i \in Writes(added, f) : i \in Writes(new, f) /\ new[i] = added[i]
    BY <2>2, <2>3, <2>4
  <2>6. \A k \in Writes(new, f) : k \in Writes(added, f)
    BY <2>2, <2>3, <2>4
  <2>7. Writes(new, f) = Writes(added, f)
    BY <2>5, <2>6
  <2> QED
    BY <2>3, <2>5, <2>7
<1>3. CASE Repeats(cmd)
  <2>1. commands' = commands
    BY <1>3 DEF Add
  <2> QED
    BY <1>2, <2>1 DEF StandFor
<1>4. CASE ~Repeats(cmd)
  <2> DEFINE W == Writes(commands, f)
             V == Writes(commands', f)
             p == Position(cmd.file)
  <2>1. /\ p \in 1 .. Len(commands) + 1 /\ p \in Nat
        /\ W \subseteq Nat /\ V \subseteq Nat
        /\ \A i \in W : Shift(p, i) \in V /\ commands'[Shift(p, i)] = commands[i]
        /\ \A k \in V : \E i \in W : Shift(p, i) = k
    BY <1>1, <1>4, AddInserts, PositionBehind, InsertionWrites, LenProperties
  <2>0. PICK at2 : at2 = [i \in Writes(added, f) |-> Shift(p, at[i])]
    OBVIOUS
  <2>2. at2 \in [Writes(added', f) -> V] /\ DOMAIN at2 = Writes(added, f)
    BY <1>2, <2>0, <2>1
  <2>3. \A i \in Writes(added, f) : at2[i] = Shift(p, at[i]) /\ at[i] \in W /\ at[i] \in Nat
    BY <2>0, <2>1
  <2>4. \A i \in Writes(added, f) : commands'[at2[i]].value = added'[i].value
    BY <1>2, <2>1, <2>3 DEF StandFor
  <2>5. \A i, j \in Writes(added, f) : i <= j => at2[i] <= at2[j]
    BY <2>1, <2>3, ShiftOrder DEF StandFor
  <2>6. \A k \in V : \E i \in Writes(added, f) : at2[i] = k
    BY <2>1, <2>3 DEF StandFor
  <2>7. ASSUME NEW k \in V, NEW l \in V, k < l, commands'[k].value = commands'[l].value
        PROVE  \E m \in V : k < m /\ m < l
    <3>1. PICK i \in W, j \in W : Shift(p, i) = k /\ Shift(p, j) = l
      BY <2>1
    <3>2. i < j /\ commands[i].value = commands[j].value
      BY <2>1, <2>7, <3>1, ShiftOrder
    <3>3. PICK m \in W : i < m /\ m < j
      BY <3>2 DEF StandFor
    <3>4. k < Shift(p, m) /\ Shift(p, m) < l /\ Shift(p, m) \in V
      BY <2>1, <3>1, <3>3, ShiftOrder
    <3> QED
      BY <3>4
  <2>8. StandFor(at2, f)'
    BY <1>2, <2>2, <2>4, <2>5, <2>6, <2>7 DEF StandFor
  <2> QED
    BY <2>2, <2>8
<1> QED
  BY <1>3, <1>4

\* A command for f is queued behind those there are, or stands already.
LEMMA OwnFileOrder ==
  ASSUME TypeOK, NEW cmd \in Command, Add(cmd), NEW f, f = cmd.file,
         NEW at \in [Writes(added, f) -> Writes(commands, f)], StandFor(at, f)
  PROVE  \E at2 \in [Writes(added', f) -> Writes(commands', f)] : StandFor(at2, f)'
<1> DEFINE n == Len(added) + 1
           A == Writes(added, f)
           W == Writes(commands, f)
           V == Writes(commands', f)
<1>1. /\ added \in Seq(Command) /\ added' \in Seq(Command) /\ commands \in Seq(Command)
      /\ IsInsertion(added, added', n, cmd) /\ Len(added) \in Nat
  BY AppendInserts, LenProperties DEF TypeOK, Add
<1>2. /\ A \subseteq Nat /\ n \in Nat /\ \A i \in A : i < n
      /\ Writes(added', f) = A \cup {n} /\ added'[n] = cmd
      /\ \A i \in A : added'[i] = added[i]
  <2>1. n \in 1 .. Len(added) + 1
    BY <1>1
  <2>2. \A i \in A : i \in 1 .. Len(added)
    BY <1>1, LenProperties DEF Writes
  <2>3. \A i \in A : Shift(n, i) = i /\ i < n
    BY <1>1, <2>2 DEF Shift
  <2>4. PICK m, new : m = n /\ new = added'
    OBVIOUS
  <2>5. /\ A \subseteq Nat
        /\ \A i \in A : Shift(m, i) \in Writes(new, f) /\ new[Shift(m, i)] = added[i]
        /\ m \in Writes(new, f) /\ new[m] = cmd
        /\ \A k \in Writes(new, f) : k = m \/ \E i \in A : Shift(m, i) = k
    BY <1>1, <2>1, <2>4, InsertionWrites
  <2>6. \A i \in A : i \in Writes(new, f) /\ new[i] = added[i]
    BY <2>3, <2>4, <2>5
  <2>7. \A k \in Writes(new, f) : k = m \/ k \in A
    BY <2>3, <2>4, <2>5
  <2>8. Writes(new, f) = A \cup {m}
    BY <2>5, <2>6, <2>7
  <2> QED
    BY <1>1, <2>3, <2>4, <2>5, <2>6, <2>8
\* The command last stands for it.
<1>3. ASSUME NEW last \in V, V \subseteq Nat, commands'[last].value = cmd.value,
             \A i \in A : at[i] \in V /\ commands'[at[i]] = commands[at[i]] /\ at[i] <= last,
             \A k \in V : k = last \/ \E i \in A : at[i] = k,
             \A k, l \in V : k < l /\ commands'[k].value = commands'[l].value => \E m \in V : k < m /\ m < l
      PROVE  \E at2 \in [Writes(added', f) -> V] : StandFor(at2, f)'
  <2>0. PICK at2 : at2 = [i \in A \cup {n} |-> IF i = n THEN last ELSE at[i]]
    OBVIOUS
  <2>1. at2[n] = last /\ \A i \in A : at2[i] = at[i]
    BY <1>2, <2>0
  <2>2. at2 \in [Writes(added', f) -> V] /\ DOMAIN at2 = A \cup {n}
    BY <1>2, <1>3, <2>0
  <2>3. \A i \in A \cup {n} : commands'[at2[i]].value = added'[i].value
    BY <1>2, <1>3, <2>1 DEF StandFor
  <2>4. \A i, j \in A \cup {n} : i <= j => at2[i] <= at2[j]
    <3>1. \A i, j \in A : i <= j => at2[i] <= at2[j]
      BY <2>1 DEF StandFor
    <3>2. \A i \in A : at2[i] <= at2[n] /\ ~(n <= i)
      BY <1>2, <1>3, <2>1
    <3>3. at2[n] <= at2[n]
      BY <1>3, <2>1
    <3> QED
      BY <3>1, <3>2, <3>3
  <2>5. \A k \in V : \E i \in A \cup {n} : at2[i] = k
    BY <1>3, <2>1
  <2>6. StandFor(at2, f)'
    BY <1>3, <2>2, <2>3, <2>4, <2>5 DEF StandFor
  <2> QED
    BY <2>2, <2>6
<1>4. CASE Repeats(cmd)
  <2> DEFINE last == LastWrite(commands, f)
  <2>1. commands' = commands /\ last # 0 /\ commands[last].value = cmd.value
    BY <1>4 DEF Add, Repeats
  <2>2. last \in W /\ W \subseteq Nat /\ \A i \in W : i <= last
    BY <1>1, <2>1, LastWriteMax, LenProperties DEF Writes
  <2> HIDE DEF last
  <2>3. \A i \in A : at[i] \in V /\ commands'[at[i]] = commands[at[i]] /\ at[i] <= last
    BY <2>1, <2>2
  <2> QED
    BY <1>3, <2>1, <2>2, <2>3 DEF StandFor
<1>5. CASE ~Repeats(cmd)
  <2> DEFINE p == Position(f)
             last == LastWrite(commands, f)
  <2>1. /\ p \in Nat /\ W \subseteq Nat /\ V \subseteq Nat
        /\ \A i \in W : Shift(p, i) \in V /\ commands'[Shift(p, i)] = commands[i]
        /\ p \in V /\ commands'[p] = cmd
        /\ \A k \in V : k = p \/ \E i \in W : Shift(p, i) = k
    BY <1>1, <1>5, AddInserts, PositionBehind, InsertionWrites, LenProperties
  <2>2. last < p /\ \A i \in W : i <= last /\ last \in W
    BY <1>1, PositionBehind, LastWriteMax
  <2>3. \A i \in W : i < p /\ Shift(p, i) = i
    BY <2>1, <2>2 DEF Shift
  <2>4. W # {} => commands[last].value # cmd.value
    <3> SUFFICES ASSUME W # {} PROVE commands[last].value # cmd.value
      OBVIOUS
    <3>1. last \in W /\ last # 0
      BY <1>1, <2>2, LenProperties DEF Writes
    <3> QED
      BY <1>5, <3>1 DEF Repeats
  <2> HIDE DEF p, last
  <2>5. \A i \in W : i \in V /\ commands'[i] = commands[i]
    BY <2>1, <2>3
  <2>6. \A k \in V : k = p \/ k \in W
    BY <2>1, <2>3
  <2>7. ASSUME NEW k \in V, NEW l \in V, k < l, commands'[k].value = commands'[l].value
        PROVE  \E m \in V : k < m /\ m < l
    <3>1. k # p
      BY <2>1, <2>3, <2>6, <2>7
    <3>2. k \in W
      BY <2>6, <3>1
    <3>3. CASE l = p
      <4>1. last \in W /\ k <= last /\ last < l
        BY <2>2, <3>2, <3>3
      <4>2. k # last
        BY <2>1, <2>4, <2>5, <2>7, <3>2, <3>3
      <4>3. k < last
        BY <2>1, <3>2, <4>1, <4>2
      <4> QED
        BY <2>5, <4>1, <4>3
    <3>4. CASE l \in W
      <4>1. commands[k].value = commands[l].value
        BY <2>5, <2>7, <3>2, <3>4
      <4>2. \E m \in W : k < m /\ m < l
        BY <2>7, <3>2, <3>4, <4>1 DEF StandFor
      <4> QED
        BY <2>5, <4>2
    <3> QED
      BY <2>6, <3>3, <3>4
  <2>8. \A i \in A : at[i] \in V /\ commands'[at[i]] = commands[at[i]] /\ at[i] <= p
    BY <2>1, <2>3, <2>5
  <2>9. \A k \in V : k = p \/ \E i \in A : at[i] = k
    BY <2>6 DEF StandFor
  <2> QED
    BY <1>3, <2>1, <2>7, <2>8, <2>9
<1> QED
  BY <1>4, <1>5

\* An empty queue has the order of nothing.
LEMMA EmptyFileOrder == commands = <<>> /\ added = <<>> => FileOrder
<1> SUFFICES ASSUME commands = <<>>, added = <<>>, NEW f
             PROVE  \E at \in [Writes(added, f) -> Writes(commands, f)] : StandFor(at, f)
  BY DEF FileOrder
<1>1. Writes(added, f) = {} /\ Writes(commands, f) = {}
  BY DEF Writes
<1>2. PICK at : at = [i \in {} |-> 0]
  OBVIOUS
<1>3. at \in [{} -> {}] /\ DOMAIN at = {}
  BY <1>2
<1>4. StandFor(at, f)
  BY <1>1, <1>3 DEF StandFor
<1> QED
  BY <1>1, <1>3, <1>4

\* Every step keeps the order.
LEMMA NextFileOrder == IInv /\ FileOrder /\ [Next]_vars => FileOrder'
<1> SUFFICES ASSUME IInv, FileOrder, [Next]_vars PROVE FileOrder'
  OBVIOUS
<1>1. CASE UNCHANGED <<commands, added>>
  BY <1>1 DEF FileOrder, StandFor
<1>2. CASE ToRawData
  <2>1. commands' = <<>> /\ added' = <<>>
    BY <1>2 DEF ToRawData
  <2> QED
    <3>1. (commands = <<>> /\ added = <<>> => FileOrder)'
      BY EmptyFileOrder, PTL
    <3> QED
      BY <2>1, <3>1
<1>3. ASSUME NEW cmd \in Command, Add(cmd) PROVE FileOrder'
  <2> SUFFICES ASSUME NEW f \in Files
               PROVE  \E at2 \in [Writes(added', f) -> Writes(commands', f)] : StandFor(at2, f)'
    BY DEF FileOrder
  <2>1. PICK at \in [Writes(added, f) -> Writes(commands, f)] : StandFor(at, f)
    BY DEF FileOrder
  <2> QED
    BY <1>3, <2>1, OwnFileOrder, OtherFileOrder DEF IInv
<1> QED
  BY <1>1, <1>2, <1>3 DEF Next, Pack, Unpack, vars

(***************************************************************************)
(* The theorems                                                            *)
(***************************************************************************)

\* CommandQueue::add and toRawData: the state of the queue stays well formed, and the index of
\* the open pack never points past the queue.
THEOREM TypeCorrect == Spec => []TypeOK
<1>1. IInv => TypeOK
  BY DEF IInv
<1> QED
  BY <1>1, SpecIInv, PTL

\* CommandQueue::add: what it drops and moves never changes the value any file ends up with.
THEOREM OutcomeKept == Spec => []SameOutcome
<1>1. IInv => SameOutcome
  BY DEF IInv, SameLast, SameOutcome, Executed
<1> QED
  BY <1>1, SpecIInv, PTL

\* CommandQueue::add: each file gets the values the controls asked for, in their order.
THEOREM OrderKept == Spec => []FileOrder
<1>1. Init => FileOrder
  BY EmptyFileOrder DEF Init
<1> QED
  BY InitIInv, NextIInv, NextFileOrder, <1>1, PTL DEF Spec

\* CommandQueue::pack: the packed commands for a file stay together.
THEOREM PackedTogether == Spec => []PackTogether
<1>1. IInv => PackTogether
  BY DEF IInv
<1> QED
  BY <1>1, SpecIInv, PTL

\* CommandQueue::add: what was queued before the pack is left where it was.
THEOREM PackKeepsPrefix == Spec => PrefixKept
<1> DEFINE Kept == packIndex # NoIndex /\ commands' # <<>> =>
                     SubSeq(commands', 1, packIndex) = SubSeq(commands, 1, packIndex)
<1>1. IInv /\ [Next]_vars => [Kept]_vars
  <2> SUFFICES ASSUME TypeOK, Next, packIndex # NoIndex, commands' # <<>>
               PROVE  SubSeq(commands', 1, packIndex) = SubSeq(commands, 1, packIndex)
    BY DEF IInv
  <2>1. CASE Pack \/ Unpack \/ ToRawData
    BY <2>1 DEF Pack, Unpack, ToRawData
  <2>2. ASSUME NEW cmd \in Command, Add(cmd), ~Repeats(cmd)
        PROVE  SubSeq(commands', 1, packIndex) = SubSeq(commands, 1, packIndex)
    <3>1. /\ commands \in Seq(Command) /\ commands' \in Seq(Command)
          /\ IsInsertion(commands, commands', Position(cmd.file), cmd)
          /\ packIndex \in 0 .. Len(commands) /\ packIndex < Position(cmd.file)
          /\ Position(cmd.file) \in Nat
      BY <2>2, AddInserts, PositionBehind, LenProperties DEF TypeOK
    <3>2. Len(commands) \in Nat /\ Len(commands') = Len(commands) + 1
      BY <3>1, LenProperties DEF IsInsertion
    <3>3. \A i \in 1 .. packIndex : i \in 1 .. Len(commands) /\ commands'[i] = commands[i]
      BY <3>1, <3>2 DEF IsInsertion
    <3>4. \A i \in 1 .. packIndex : commands[i] \in Command /\ commands'[i] \in Command
      BY <3>1, <3>2, <3>3, ElementOfSeq
    <3>5. /\ SubSeq(commands, 1, packIndex) \in Seq(Command)
          /\ Len(SubSeq(commands, 1, packIndex)) = packIndex
          /\ \A i \in 1 .. packIndex : SubSeq(commands, 1, packIndex)[i] = commands[i]
      BY <3>1, <3>2, <3>4, SubSeqProperties
    <3>6. /\ SubSeq(commands', 1, packIndex) \in Seq(Command)
          /\ Len(SubSeq(commands', 1, packIndex)) = packIndex
          /\ \A i \in 1 .. packIndex : SubSeq(commands', 1, packIndex)[i] = commands'[i]
      BY <3>1, <3>2, <3>4, SubSeqProperties
    <3> QED
      BY <3>3, <3>5, <3>6, SeqEqual
  <2>3. ASSUME NEW cmd \in Command, Add(cmd), Repeats(cmd)
        PROVE  SubSeq(commands', 1, packIndex) = SubSeq(commands, 1, packIndex)
    BY <2>3 DEF Add
  <2> QED
    BY <2>1, <2>2, <2>3 DEF Next
<1> QED
  BY <1>1, SpecIInv, PTL DEF Spec, PrefixKept
=============================================================================
