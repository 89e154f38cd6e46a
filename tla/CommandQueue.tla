---------------------------- MODULE CommandQueue ----------------------------
(***************************************************************************)
(* The queue of hardware commands (src/core/commandqueue.cpp).             *)
(*                                                                         *)
(* A command writes a value to a file of the kernel.  The controls queue   *)
(* commands while the model is synchronised; the queue is then sent, and   *)
(* the helper executes it in order (src/helper/msgreceiver.cpp).  To write *)
(* less, the queue drops a command that repeats the last one queued for    *)
(* its file; and while packing is active it keeps the commands for one     *)
(* file together, because some files (the overdrive table) take several    *)
(* writes that must not be mixed with writes to other files.               *)
(***************************************************************************)
EXTENDS Naturals, SequencesExt

CONSTANTS
  Files, Values,
  NoIndex,      \* packing is not active
  Unset,        \* the value of a file nothing was written to
  MaxCommands   \* bound on the commands added between two flushes

ASSUME CommandQueueAssumption ==
  /\ NoIndex \notin Nat
  /\ Unset \notin Values
  /\ MaxCommands \in Nat

VARIABLES
  commands,     \* commands_
  packIndex,    \* packIndex_: commands queued when packing was activated, or NoIndex
  added,        \* every command the controls added since the queue was last sent
  device        \* what the files hold, once the helper has executed what was sent

vars == <<commands, packIndex, added, device>>

Command == [file : Files, value : Values]

\* Positions of the commands that write to file, and the last of them, 0 when there is none.
Writes(cmds, file) == {i \in DOMAIN cmds : cmds[i].file = file}
LastWrite(cmds, file) ==
  IF Writes(cmds, file) = {} THEN 0
  ELSE CHOOSE i \in Writes(cmds, file) : \A j \in Writes(cmds, file) : j <= i

\* Mutants of InPack: the first packed command is left out; any command counts as packed.
InPackStrictly(file) == packIndex # NoIndex /\ LastWrite(commands, file) > packIndex + 1
InPackOrBefore(file) == packIndex # NoIndex /\ LastWrite(commands, file) > 0

\* The last write to file is one of the commands queued since packing was activated.
InPack(file) ==
  /\ packIndex # NoIndex
  /\ LastWrite(commands, file) > packIndex

\* Mutant of Position: the position of the reverse iterator is taken for that of its base.
PositionOfLast(file) == IF InPack(file) THEN LastWrite(commands, file) ELSE Len(commands) + 1

\* Where a command for file goes: behind the last one of the pack, or at the end.
Position(file) == IF InPack(file) THEN LastWrite(commands, file) + 1 ELSE Len(commands) + 1

\* Mutant of Repeats: the command was queued before, whatever followed it.
RepeatsAny(cmd) == \E i \in DOMAIN commands : commands[i] = cmd

\* The command is the last one queued for its file already.
Repeats(cmd) ==
  LET last == LastWrite(commands, cmd.file)
  IN  last # 0 /\ commands[last].value = cmd.value

\* What the files hold after the helper executed cmds in order.
Executed(cmds) ==
  [f \in Files |-> IF LastWrite(cmds, f) = 0 THEN device[f] ELSE cmds[LastWrite(cmds, f)].value]

-----------------------------------------------------------------------------
Init ==
  /\ commands = <<>>
  /\ packIndex = NoIndex
  /\ added = <<>>
  /\ device = [f \in Files |-> Unset]

\* pack(true) does not overwrite a previous index.
Pack ==
  /\ packIndex' = IF packIndex = NoIndex THEN Len(commands) ELSE packIndex
  /\ UNCHANGED <<commands, added, device>>

Unpack ==
  /\ packIndex' = NoIndex
  /\ UNCHANGED <<commands, added, device>>

\* add(cmd).
Add(cmd) ==
  /\ Len(added) < MaxCommands
  /\ added' = Append(added, cmd)
  /\ commands' = IF Repeats(cmd) THEN commands ELSE InsertAt(commands, Position(cmd.file), cmd)
  /\ UNCHANGED <<packIndex, device>>

\* Mutant of ToRawData: the queue is sent and the pack stays open.
SendsOnly ==
  /\ commands' = <<>>
  /\ added' = <<>>
  /\ device' = Executed(commands)
  /\ UNCHANGED packIndex

\* toRawData: the queue is sent and emptied, and packing ends.
ToRawData ==
  /\ commands' = <<>>
  /\ packIndex' = NoIndex
  /\ added' = <<>>
  /\ device' = Executed(commands)

Next == Pack \/ Unpack \/ ToRawData \/ \E cmd \in Command : Add(cmd)

Spec == Init /\ [][Next]_vars

-----------------------------------------------------------------------------
(***************************************************************************)
(* Properties                                                              *)
(***************************************************************************)

TypeOK ==
  /\ commands \in Seq(Command)
  /\ packIndex \in (0 .. Len(commands)) \cup {NoIndex}
  /\ added \in Seq(Command)
  /\ device \in [Files -> Values \cup {Unset}]

\* Sending the queue leaves every file with the value it would have had if nothing had been
\* dropped or moved: what the controls asked for last wins.
SameOutcome == Executed(commands) = Executed(added)

\* The commands of the queue at[i] stand for the commands i the controls added for file: they
\* have their values and their order, and each stands for one, or for a few in a row that
\* repeat its value.
StandFor(at, file) ==
  /\ \A i \in DOMAIN at : commands[at[i]].value = added[i].value
  /\ \A i, j \in DOMAIN at : i <= j => at[i] <= at[j]
  /\ \A k \in Writes(commands, file) : \E i \in DOMAIN at : at[i] = k
  /\ \A k, l \in Writes(commands, file) :
       k < l /\ commands[k].value = commands[l].value =>
         \E m \in Writes(commands, file) : k < m /\ m < l

\* Each file gets the values the controls asked for, all of them and in their order, but for a
\* value that repeats the previous one: a table that is reset, edited and committed through
\* one file stays a sequence of those steps.
FileOrder == \A f \in Files :
  \E at \in [Writes(added, f) -> Writes(commands, f)] : StandFor(at, f)

\* While packing is active the packed commands that write to a file are neighbours
\* (icommandqueue.h:16, "packed together"; CHANGELOG.md:121, commands writing to different
\* files "won't be interleaved"), in whatever order the controls queue them.
PackTogether ==
  packIndex # NoIndex =>
    \A i, j, k \in packIndex + 1 .. Len(commands) :
      i < j /\ j < k /\ commands[i].file = commands[k].file => commands[j].file = commands[i].file

\* Nothing queued in a pack is moved among the commands queued before it, the clean commands
\* of other controls among them: those stay where they were until the queue is sent.
PrefixKept ==
  [][packIndex # NoIndex /\ commands' # <<>> =>
       SubSeq(commands', 1, packIndex) = SubSeq(commands, 1, packIndex)]_vars
=============================================================================
