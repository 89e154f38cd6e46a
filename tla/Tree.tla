-------------------------------- MODULE Tree --------------------------------
(***************************************************************************)
(* The trees of the program.  A component (a GPU or a CPU) has controls;   *)
(* a control may select one of its children (a mode), hold all of them (a  *)
(* group) or have none (a leaf).  Every profile has a tree of parts of the *)
(* same shape, and so have its file, a tree of nodes, and the view that    *)
(* shows it, a tree of items.  Each tree imports from the one next to it.  *)
(*                                                                         *)
(* The settings of a component are a record: which nodes of its tree are   *)
(* active, the selected mode of each mode, the value of each leaf (what    *)
(* values are is in Settings).  The passes are not interleaved with the    *)
(* helper: see Controls.                                                   *)
(***************************************************************************)
EXTENDS Naturals, FiniteSets, SequencesExt

CONSTANTS
  Machine,        \* the components of the machine: of each the class, the device (and its
                  \* revision), the driver and the leaves that are found
  Kernel,         \* the version of the kernel: 418 is 4.18
  Lifted,         \* the nodes that older versions did not save: their children's nodes are higher
  Values,         \* the values a user gives to the leaves that have settings
  Settable,       \* these leaves
  Factory,        \* the value of every leaf that the hardware starts with
  Absent,         \* no node, no attribute
  MaxLoads,       \* bound on the loads
  MaxChanges,     \* bound on the edits
  MaxRestarts     \* bound on the restarts

Profiles == {"global", "other"}

ASSUME TreeAssumption ==
  /\ \A c \in DOMAIN Machine : Machine[c].class \in {"GPU", "CPU"}
  /\ Kernel \in Nat
  /\ Lifted \subseteq {"PMPowerStateMode", "CPUFreqMode", "PMOverdrive"}
  /\ Absent \notin DOMAIN Machine /\ Absent \notin Values /\ Absent # Factory /\ Absent \notin BOOLEAN
  /\ MaxLoads \in Nat /\ MaxChanges \in Nat /\ MaxRestarts \in Nat

VARIABLES
  shape,          \* what the factory made: the trees of the components
  index, unique,  \* the index of a component, and its unique id if the kernel tells one
  parts,          \* the settings of the profiles: for each profile and component
  files,          \* what is saved of each profile: the node of each component
  controls,       \* the controls of each component: their settings and which are dirty
  used,           \* history: the leaves that were synced and not cleaned since then
  count           \* how often the bounded actions were taken

vars == <<shape, index, unique, parts, files, controls, used, count>>

-----------------------------------------------------------------------------
(* What the providers create.  A node has a name, is a "component", a       *)
(* "mode", a "group" or a "leaf", may be created active, and is held by    *)
(* the nodes of its path, the component first.  Which leaves there are is  *)
(* up to their own providers (in the modules of the leaves).               *)

Components == DOMAIN Machine

Made(name, kind, active) == <<[name |-> name, kind |-> kind, active |-> active, path |-> <<>>]>>

\* A node over the nodes of its children.
Over(node, children) ==
  node \o [k \in DOMAIN children |-> [children[k] EXCEPT !.path = <<node[1].name>> \o @]]

\* A group or a mode that would have no children is not created.
Holding(name, kind, active, children) ==
  IF children = <<>> THEN <<>> ELSE Over(Made(name, kind, active), children)

\* Most modes have a child that does nothing.
HoldingNoop(name, noop, children) ==
  IF children = <<>> THEN <<>> ELSE Over(Made(name, "mode", TRUE), children \o Made(noop, "leaf", TRUE))

\* A leaf whose provider finds its files.  Both providers of fixed frequencies create the same one.
Leaf(c, provider) ==
  IF provider \notin Machine[c].found THEN <<>>
  ELSE Made(IF provider = "PMFixedFreqAdv" THEN "PMFixedFreq" ELSE provider, "leaf",
            provider \notin {"PMFixed", "PMDynamicFreq", "FanFixed", "FanCurve"})

\* Kernels from 4.8 to 4.16 are overclocked by percentages, those since 4.18 by a table.
ByPercentage == 408 <= Kernel /\ Kernel < 417

\* With percentages the fixed frequencies are those of the frequency mode (pmfixedfreqadvprovider.cpp).
ASSUME FixedFreqAssumption ==
  ByPercentage => \A c \in Components : "PMFixedFreqAdv" \notin Machine[c].found

PMFreqMode(c) == Holding("PMFreqMode", "mode", TRUE, Leaf(c, "PMDynamicFreq") \o Leaf(c, "PMFixedFreq"))

PMOverclock(c) ==
  IF Machine[c].driver = "amdgpu" /\ ByPercentage
  THEN Holding("PMOverclock", "group", TRUE, PMFreqMode(c) \o Leaf(c, "PMFreqOd"))
  ELSE <<>>

PMOverdrive(c) ==
  IF Machine[c].driver = "amdgpu" /\ 418 <= Kernel
  THEN Holding("PMOverdrive", "group", FALSE,
               Leaf(c, "PMFreqRange") \o Leaf(c, "PMFreqVolt") \o Leaf(c, "PMVoltCurve") \o Leaf(c, "PMVoltOffset"))
  ELSE <<>>

PMAdvanced(c) ==
  Holding("PMAdvanced", "group", FALSE,
          PMOverclock(c) \o PMOverdrive(c)
            \o Leaf(c, "PMFixedFreqAdv") \o Leaf(c, "PMPowerProfile") \o Leaf(c, "PMPowerCap"))

PMPerfMode(c) ==
  HoldingNoop("PMPerfMode", "PMPerfModeNoop", Leaf(c, "PMAuto") \o Leaf(c, "PMFixed") \o PMAdvanced(c))

PMPowerStateMode(c) == HoldingNoop("PMPowerStateMode", "PMPowerStateModeNoop", Leaf(c, "PMPowerState"))
FanMode(c) ==
  HoldingNoop("FanMode", "FanModeNoop", Leaf(c, "FanAuto") \o Leaf(c, "FanFixed") \o Leaf(c, "FanCurve"))
CPUFreqMode(c) == HoldingNoop("CPUFreqMode", "CPUFreqModeNoop", Leaf(c, "CPUFreq"))

GPU(c) == Over(Made("GPU", "component", TRUE), PMPerfMode(c) \o PMPowerStateMode(c) \o FanMode(c))
CPU(c) == Over(Made("CPU", "component", TRUE), CPUFreqMode(c))

\* The nodes of every component, in the order they are created in.
SysModel == [c \in Components |-> IF Machine[c].class = "GPU" THEN GPU(c) ELSE CPU(c)]

ASSUME NamesAssumption == \A c \in Components : \A node \in Range(SysModel[c]) : node.name # Absent

-----------------------------------------------------------------------------
(* The shape of the trees, as the factory made them when the program started. *)

NamesOf(nodes) == {node.name : node \in nodes}
OfKind(nodes, kind) == {node \in nodes : node.kind = kind}
Held(nodes, n) == {node \in nodes : node.path # <<>> /\ Last(node.path) = n}

\* A node of one name is the same in every tree.
ShapeOf(model) ==
  LET nodes == UNION {Range(model[c]) : c \in Components}
      of(n) == CHOOSE node \in nodes : node.name = n
  IN  [made     |-> model,
       tree     |-> [c \in Components |-> NamesOf(Range(model[c]))],
       kind     |-> [n \in NamesOf(nodes) |-> of(n).kind],
       active   |-> [n \in NamesOf(nodes) |-> of(n).active],
       above    |-> [n \in NamesOf(nodes) |-> Range(of(n).path)],
       parent   |-> [n \in NamesOf(nodes) |-> IF of(n).path = <<>> THEN n ELSE Last(of(n).path)],
       modes    |-> [c \in Components |-> NamesOf(OfKind(Range(model[c]), "mode"))],
       leaves   |-> [c \in Components |-> NamesOf(OfKind(Range(model[c]), "leaf"))],
       children |-> [c \in Components |->
                      [n \in NamesOf(nodes) |-> NamesOf(Held(Range(model[c]), n))]]]

Root == [c \in Components |-> Machine[c].class]
TreeOf == shape.tree
Kind == shape.kind
Parent == shape.parent
Above == shape.above
ChildrenOf == shape.children
Modes == shape.modes
Leaves == shape.leaves
Under(n, kind) == Above[n] # {} /\ Kind[Parent[n]] = kind

\* The nodes that are active: a mode selects one child and a group all; the others are as asked.
ActiveNodes(c, asked, mode) ==
  [n \in TreeOf[c] |-> IF Under(n, "mode") THEN n = mode[Parent[n]]
                       ELSE IF Under(n, "group") THEN TRUE
                       ELSE asked[n]]

\* Only a child can be selected.
Selected(c, asked, old) ==
  [m \in Modes[c] |-> IF asked[m] \in ChildrenOf[c][m] THEN asked[m] ELSE old[m]]

-----------------------------------------------------------------------------
(* The controls.                                                           *)

\* Mutant of Dirty: a group does not mark its children.
DirtyAlone(c, own) == own

\* A group that becomes dirty passes it on to its children; a mode does not.
Dirty(c, own) ==
  [n \in TreeOf[c] |->
    own[n] \/ \E above \in Above[n] : own[above] /\ \A m \in Above[n] \ Above[above] : Kind[m] = "group"]

\* The first active child of a mode is selected, or the first one.
First(c, m) ==
  LET children == {k \in DOMAIN shape.made[c] : shape.made[c][k].name \in ChildrenOf[c][m]}
      active == {k \in children : shape.made[c][k].active}
  IN  shape.made[c][Min(IF active = {} THEN children ELSE active)].name

InitialControls ==
  LET mode(c) == [m \in Modes[c] |-> First(c, m)]
      active(c) == ActiveNodes(c, shape.active, mode(c))
  IN  [c \in Components |->
        [active |-> active(c), mode |-> mode(c), value |-> [leaf \in Leaves[c] |-> Factory],
         dirty |-> Dirty(c, [n \in TreeOf[c] |-> shape.active[n] /\ ~active(c)[n]])]]

\* A control is activated as the importer says, and then as its parent says.
ImportControls(c, t, i) ==
  LET mode == Selected(c, i.mode, t.mode)
      active == ActiveNodes(c, i.active, mode)
      left(n) == \/ t.active[n] /\ ~(i.active[n] /\ active[n])
                 \/ i.active[n] /\ ~active[n]
  IN  [active |-> active, mode |-> mode, value |-> i.value,
       dirty |-> Dirty(c, [n \in TreeOf[c] |-> t.dirty[n] \/ (Kind[n] # "component" /\ left(n))])]

\* A pass asks a control to clean itself when the groups above it are dirty; a mode always passes it on.
AskedToClean(c, t, n) ==
  t.active[Root[c]] /\ \A above \in Above[n] : Kind[above] = "group" => t.dirty[above]

\* It syncs a control when every control above it is active.
Synced(c, t, n) == \A m \in Above[n] \cup {n} : t.active[m]

SyncedLeaves(c, t) == {leaf \in Leaves[c] : Synced(c, t, leaf)}
CleanedLeaves(c, t) == {leaf \in Leaves[c] : AskedToClean(c, t, leaf) /\ t.dirty[leaf]}

-----------------------------------------------------------------------------
(* The parts of a profile.                                                 *)

SettingsOf(t) == [active |-> t.active, mode |-> t.mode, value |-> t.value]

\* The settings of a new profile are those of the controls.
DefaultPart == [c \in Components |-> SettingsOf(InitialControls[c])]

\* Mutant of ImportPart: the active nodes are those of the importer.
ImportPartAsAsked(c, p, i) ==
  [active |-> i.active, mode |-> Selected(c, i.mode, p.mode), value |-> i.value]

ImportPart(c, p, i) ==
  LET mode == Selected(c, i.mode, p.mode)
  IN  [active |-> ActiveNodes(c, i.active, mode), mode |-> mode, value |-> i.value]

-----------------------------------------------------------------------------
(* The file.  The node of a component has its identity, and the nodes      *)
(* below it: for each name the node it is under and its attributes.        *)

Identity(c, i, u) == [class |-> Root[c], device |-> Machine[c].device, index |-> i[c], unique |-> u[c]]
IdentityOf(c) == Identity(c, index, unique)

NodeOf(c, p, n) ==
  [under |-> IF Kind[n] = "component" THEN Absent ELSE Parent[n],
   active |-> p.active[n],
   mode |-> IF n \in Modes[c] THEN p.mode[n] ELSE Absent,
   value |-> IF n \in Leaves[c] THEN p.value[n] ELSE Absent]

SavedNode(c, p) == [id |-> IdentityOf(c), nodes |-> [n \in TreeOf[c] |-> NodeOf(c, p, n)]]

\* A node as older versions saved it.
Older(node) ==
  [id |-> node.id,
   nodes |-> [n \in DOMAIN node.nodes \ Lifted |->
               [node.nodes[n] EXCEPT !.under = IF @ \in Lifted THEN Parent[@] ELSE @]]]

\* Mutant of Matches: a node is found by the index although it has a unique id.
MatchesIndex(id, own) == id.class = own.class /\ id.index = own.index /\ id.device = own.device

\* A GPU is found by its unique id when the file and the kernel tell one, else by its index
\* and its device.
Matches(id, own) ==
  /\ id.class = own.class
  /\ IF id.unique # Absent /\ own.unique # Absent THEN id.unique = own.unique
     ELSE id.index = own.index /\ id.device = own.device

\* Mutant of Found: the nodes of older versions are not found.
FoundInThisVersion(nodes, n) == n \in DOMAIN nodes /\ nodes[n].under \in {Absent, Parent[n]}

\* A child is looked for in the node of its parent, or above it when an older version did not
\* save that one.
Found(nodes, n) ==
  /\ n \in DOMAIN nodes
  /\ Above[n] = {} \/ Above[n] \ (Above[nodes[n].under] \cup {nodes[n].under}) \subseteq Lifted \ DOMAIN nodes

Attribute(nodes, n, name, default) ==
  IF ~Found(nodes, n) THEN default ELSE IF nodes[n][name] = Absent THEN default ELSE nodes[n][name]

\* The mode of the power states takes the attribute "mode" for "active", where any text is true.
LoadedMode(nodes, m, default) == IF m = "PMPowerStateMode" THEN default ELSE Attribute(nodes, m, "mode", default)
LoadedActive(nodes, n, default) == n = "PMPowerStateMode" \/ Attribute(nodes, n, "active", default)

LoadedNode(c, nodes, d) ==
  [active |-> [n \in TreeOf[c] |-> LoadedActive(nodes, n, d.active[n])],
   mode |-> [m \in Modes[c] |-> LoadedMode(nodes, m, d.mode[m])],
   value |-> [leaf \in Leaves[c] |-> Attribute(nodes, leaf, "value", d.value[leaf])]]

\* What the parsers of a component make of a file: the node that matches, or none.
Loaded(c, own, file) ==
  LET matching == {d \in Components : Matches(file[d].id, own)}
      nodes == IF matching = {} THEN <<>> ELSE file[CHOOSE d \in matching : TRUE].nodes
  IN  LoadedNode(c, nodes, DefaultPart[c])

SavedFile(profile) == [c \in Components |-> SavedNode(c, parts[profile][c])]

-----------------------------------------------------------------------------
(* The view of a profile over the global one.                              *)

\* Of a profile that is stacked over the global one, a part that is not active shows the first of
\* the base that has its class: <<profile, component>>, for each part.
Composed(profile) ==
  {IF profile = "global" \/ parts[profile][c].active[Root[c]] THEN <<profile, c>>
   ELSE <<"global", CHOOSE d \in Components : Root[d] = Root[c] /\ index[d] = 0>> : c \in Components}

\* The profile whose part a component imports: its own comes first, and there may be none.
Shown(profile, c) ==
  IF <<profile, c>> \in Composed(profile) THEN profile
  ELSE IF <<"global", c>> \in Composed(profile) THEN "global" ELSE Absent

-----------------------------------------------------------------------------
\* GPUs are numbered as they are found; a kernel tells the unique ids of its GPUs, or none.
Indexes == {i \in [Components -> 0 .. Cardinality(Components) - 1] :
             \A c \in Components : i[c] \in 0 .. Cardinality({d \in Components : Root[d] = Root[c]}) - 1
                                   /\ \A d \in Components \ {c} : Root[c] = Root[d] => i[c] # i[d]}
\* The components of a machine can be numbered: they are finitely many.
ASSUME NumberedAssumption == Indexes # {}

Unknown == [c \in Components |-> Absent]
Known == [c \in Components |-> IF Root[c] = "GPU" THEN c ELSE Absent]

\* The program is started for the first time.
Init ==
  /\ shape = ShapeOf(SysModel)
  /\ index = CHOOSE i \in Indexes : TRUE
  /\ unique \in {Unknown, Known}
  /\ parts = [profile \in Profiles |-> [c \in Components |-> DefaultPart[c]]]
  /\ files = [profile \in Profiles |-> SavedFile(profile)]
  /\ controls = InitialControls
  /\ used = [c \in Components |-> {}]
  /\ count = [loads |-> 0, changes |-> 0, restarts |-> 0]

Counted(name, bound) ==
  /\ count[name] < bound
  /\ count' = [count EXCEPT ![name] = @ + 1]

\* A profile is loaded from a file: of this version, of an older one, or of another profile.
Load(profile) ==
  /\ Counted("loads", MaxLoads)
  /\ \E other \in Profiles, older \in BOOLEAN :
       LET file == [c \in Components |-> IF older THEN Older(files[other][c]) ELSE files[other][c]]
       IN  parts' = [parts EXCEPT ![profile] =
                      [c \in Components |-> ImportPart(c, @[c], Loaded(c, IdentityOf(c), file))]]
  /\ UNCHANGED <<shape, index, unique, files, controls, used>>

Save(profile) ==
  /\ files' = [files EXCEPT ![profile] = SavedFile(profile)]
  /\ UNCHANGED <<shape, index, unique, parts, controls, used, count>>

\* What the user changes in the items that show the part of a component; what is active in them
\* follows when the part is imported.
ComponentItem(c, p) == {[p EXCEPT !.active[Root[c]] = ~@]}
ControlModeItem(c, p) == UNION {{[p EXCEPT !.mode[m] = n] : n \in ChildrenOf[c][m]} : m \in Modes[c]}
ControlItem(c, p) == {[p EXCEPT !.value[leaf] = value] : leaf \in Leaves[c] \cap Settable, value \in Values}

Edits(c, p) == ComponentItem(c, p) \cup ControlModeItem(c, p) \cup ControlItem(c, p)

Change(profile, c) ==
  /\ Counted("changes", MaxChanges)
  /\ \E item \in Edits(c, parts[profile][c]) :
       parts' = [parts EXCEPT ![profile][c] = ImportPart(c, @, item)]
  /\ UNCHANGED <<shape, index, unique, files, controls, used>>

Apply(profile) ==
  /\ controls' = [c \in Components |->
       IF Shown(profile, c) = Absent THEN controls[c]
       ELSE ImportControls(c, controls[c], parts[Shown(profile, c)][c])]
  /\ UNCHANGED <<shape, index, unique, parts, files, used, count>>

Pass ==
  /\ controls' = [c \in Components |->
       [controls[c] EXCEPT !.dirty = [n \in TreeOf[c] |-> @[n] /\ ~AskedToClean(c, controls[c], n)]]]
  /\ used' = [c \in Components |->
       (used[c] \ CleanedLeaves(c, controls[c])) \cup SyncedLeaves(c, controls[c])]
  /\ UNCHANGED <<shape, index, unique, parts, files, count>>

\* The machine is restarted: its GPUs may be found in another order, by a kernel that may tell
\* their unique ids, and the profiles are what was saved of them.
Restart ==
  /\ Counted("restarts", MaxRestarts)
  /\ index' \in Indexes
  /\ unique' \in {unique, Known}
  /\ parts' = [profile \in Profiles |-> [c \in Components |->
                ImportPart(c, DefaultPart[c], Loaded(c, Identity(c, index', unique'), files[profile]))]]
  /\ controls' = InitialControls
  /\ used' = [c \in Components |-> {}]
  /\ UNCHANGED <<shape, files>>

Next ==
  \/ \E profile \in Profiles : Load(profile) \/ Save(profile) \/ Apply(profile)
  \/ \E profile \in Profiles, c \in Components : Change(profile, c)
  \/ Pass
  \/ Restart

Spec == Init /\ [][Next]_vars

-----------------------------------------------------------------------------
(* Properties.                                                             *)

ImportedFrom(c, node) == ImportPart(c, DefaultPart[c], LoadedNode(c, node.nodes, DefaultPart[c]))

\* Whatever a profile was loaded from and edited to, its file restores it; and a file of an older
\* version restores the value of every leaf
\* (profilexmlparser.cpp, controlmodexmlparser.cpp, pmoverdrivexmlparser.cpp).
FilesKeepSettings ==
  \A profile \in Profiles, c \in Components :
    LET p == parts[profile][c]
        saved == SavedNode(c, p)
    IN  /\ ImportedFrom(c, saved) = p
        /\ ImportedFrom(c, Older(saved)).value = p.value

\* After the view of a profile is imported, the tree of controls has the settings of the part
\* that is shown, whatever was active before (controlmode.cpp, controlgroup.cpp and the
\* parts of the same names activate their children each on their own).
AppliedIsView ==
  [][\A profile \in Profiles : Apply(profile) =>
       \A c \in Components : Shown(profile, c) # Absent =>
         SettingsOf(controls'[c]) = parts[Shown(profile, c)][c]]_vars

\* Every component has a part in the view of a profile (profileview.cpp).
ViewIsComplete == \A profile \in Profiles, c \in Components : Shown(profile, c) # Absent

Twins(c) == {d \in Components : Root[d] = Root[c] /\ Machine[d].device = Machine[c].device}
OfNoNode(c) == ImportPart(c, DefaultPart[c], LoadedNode(c, <<>>, DefaultPart[c]))

\* A component has its own settings again after a restart when its file and the kernel tell its
\* unique id, or when it is at its old place.  Any other, a GPU without unique ids that was numbered
\* anew, may be given those of a GPU of the same class and device, or none, but never those of another
\* kind (GPUXMLParser::loadPartFrom, CPUXMLParser).
OwnSettings ==
  [][Restart => \A profile \in Profiles, c \in Components :
       LET node == files[profile][c]
       IN  /\ (node.id.unique # Absent /\ unique'[c] # Absent) \/ node.id.index = index'[c] =>
                parts'[profile][c] = ImportedFrom(c, node)
           /\ \/ parts'[profile][c] = OfNoNode(c)
              \/ \E d \in Twins(c) : parts'[profile][c] = ImportedFrom(c, files[profile][d])]_vars

\* After a pass over a component that is active, what no control sets any more was cleaned
\* (Control::clean, ControlGroup::activate, ControlMode::cleanControl).
LeftIsCleaned ==
  [][Pass => \A c \in Components : controls[c].active[Root[c]] =>
       \A leaf \in used'[c] : leaf \in SyncedLeaves(c, controls[c])]_vars
=============================================================================
