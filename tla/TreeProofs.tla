----------------------------- MODULE TreeProofs -----------------------------
(***************************************************************************)
(* Proofs about the trees, for any machine, kernel, leaves and values.     *)
(*                                                                         *)
(* A part is in order when its active nodes follow from its selected modes *)
(* and every mode selects one of its children (IsPart): then a control     *)
(* that imports it neither refuses a mode nor activates anything else,     *)
(* whatever was selected in it before.  An import keeps a part in order;   *)
(* that the first parts are needs every mode of the factory to have a      *)
(* child (Forest).  A file belongs to one numbering of the GPUs (FilesOf), *)
(* by which no two of them match the same node.                            *)
(*                                                                         *)
(* Where a node is in its tree follows from its name, whatever machine and *)
(* kernel there are (TreesInv, from FactoryPlaced).  What is saved of it   *)
(* can be told from no attribute at all (SavedInv), and a leaf that was    *)
(* set waits for its component, or is dirty with every group above it      *)
(* (CleanInv).                                                             *)
(***************************************************************************)
EXTENDS Tree, TLAPS, WellFoundedInduction

-----------------------------------------------------------------------------
(***************************************************************************)
(* What the factory makes                                                  *)
(***************************************************************************)

\* The nodes, and the provider of fixed frequencies that creates a node of another name.
Names ==
  {"GPU", "CPU", "PMPerfMode", "PMAuto", "PMFixed", "PMAdvanced", "PMOverclock", "PMFreqMode",
   "PMDynamicFreq", "PMFixedFreq", "PMFixedFreqAdv", "PMFreqOd", "PMOverdrive", "PMFreqRange",
   "PMFreqVolt", "PMVoltCurve", "PMVoltOffset", "PMPowerProfile", "PMPowerCap", "PMPerfModeNoop",
   "PMPowerStateMode", "PMPowerState", "PMPowerStateModeNoop", "FanMode", "FanAuto", "FanFixed",
   "FanCurve", "FanModeNoop", "CPUFreqMode", "CPUFreq", "CPUFreqModeNoop"}

Node == [name : Names, kind : {"component", "mode", "group", "leaf"}, active : BOOLEAN, path : Seq(Names)]

HasChild(s, i) == \E j \in DOMAIN s : s[j].path # <<>> /\ Last(s[j].path) = s[i].name

\* Trees next to each other: the first node is a root, and every mode has a child.
Forest(s) ==
  /\ s \in Seq(Node)
  /\ s # <<>> => s[1].path = <<>>
  /\ \A i \in DOMAIN s : s[i].kind = "mode" => HasChild(s, i)

LEMMA NoForest == Forest(<<>>)
BY DEF Forest

LEMMA JoinedNodes ==
  ASSUME NEW a \in Seq(Node), NEW b \in Seq(Node)
  PROVE  /\ b # <<>> => a \o b # <<>>
         /\ Len(a) = 1 => \A k \in 1 .. Len(b) : (a \o b)[k + 1] = b[k]
<1> PICK s : s = a \o b
  OBVIOUS
<1>1. s \in Seq(Node) /\ Len(s) = Len(a) + Len(b) /\ Len(a) \in Nat /\ Len(b) \in Nat
  OBVIOUS
<1>2. ASSUME b # <<>> PROVE s # <<>>
  <2>1. Len(b) # 0
    BY <1>2
  <2>2. Len(s) # 0
    BY <1>1, <2>1
  <2> QED
    BY <2>2
<1>3. ASSUME Len(a) = 1, NEW k \in 1 .. Len(b) PROVE s[k + 1] = b[k]
  BY <1>1, <1>3
<1> QED
  BY <1>2, <1>3

\* The nodes r are root and then t.
Leads(r, root, t) ==
  /\ r \in Seq(Node) /\ r[1] = root /\ 1 \in DOMAIN r /\ Len(r) = Len(t) + 1
  /\ \A k \in DOMAIN t : k + 1 \in DOMAIN r /\ r[k + 1] = t[k]

LEMMA FirstAndRest ==
  ASSUME NEW root \in Node, NEW t \in Seq(Node)
  PROVE  Leads(<<root>> \o t, root, t)
<1> HIDE DEF Node
<1> PICK r : r = <<root>> \o t
  OBVIOUS
<1> PICK a : a = <<root>>
  OBVIOUS
<1>1. a \in Seq(Node) /\ Len(a) = 1 /\ a[1] = root /\ r = a \o t
  OBVIOUS
<1>2. r \in Seq(Node) /\ Len(r) = Len(t) + 1
  BY <1>1
<1>3. r[1] = root /\ 1 \in DOMAIN r
  BY <1>1
<1>4. ASSUME NEW k \in DOMAIN t PROVE k + 1 \in DOMAIN r /\ r[k + 1] = t[k]
  <2>1. DOMAIN t = 1 .. Len(t) /\ DOMAIN r = 1 .. Len(t) + 1 /\ Len(t) \in Nat
    BY <1>2
  <2>2. k \in 1 .. Len(t)
    BY <2>1
  <2>3. \A m \in 1 .. Len(t) : (a \o t)[m + 1] = t[m]
    BY <1>1, JoinedNodes
  <2>4. r[k + 1] = t[k]
    BY <1>1, <2>2, <2>3
  <2> QED
    BY <2>1, <2>2, <2>4
<1> QED
  BY <1>2, <1>3, <1>4 DEF Leads

LEMMA JoinedForest ==
  ASSUME NEW a, NEW b, Forest(a), Forest(b)
  PROVE  Forest(a \o b)
<1> PICK s : s = a \o b
  OBVIOUS
<1>1. a \in Seq(Node) /\ b \in Seq(Node)
  BY DEF Forest
<1>2. /\ s \in Seq(Node) /\ Len(s) = Len(a) + Len(b)
      /\ \A i \in DOMAIN a : i \in DOMAIN s /\ s[i] = a[i]
      /\ \A i \in DOMAIN b : Len(a) + i \in DOMAIN s /\ s[Len(a) + i] = b[i]
  BY <1>1
<1>3. ASSUME NEW i \in DOMAIN s, i \notin DOMAIN a
      PROVE  \E j \in DOMAIN b : i = Len(a) + j
  <2>1. i - Len(a) \in DOMAIN b /\ i = Len(a) + (i - Len(a))
    BY <1>1, <1>2, <1>3
  <2> QED
    BY <2>1
<1>4. s # <<>> => s[1].path = <<>>
  <2> SUFFICES ASSUME s # <<>> PROVE s[1].path = <<>>
    OBVIOUS
  <2>1. CASE a # <<>>
    <3>1. 1 \in DOMAIN a
      BY <1>1, <2>1
    <3> QED
      BY <1>2, <2>1, <3>1 DEF Forest
  <2>2. CASE a = <<>>
    <3>1. s = b
      BY <1>1, <2>2
    <3> QED
      BY <3>1 DEF Forest
  <2> QED
    BY <2>1, <2>2
<1>5. ASSUME NEW i \in DOMAIN s, s[i].kind = "mode"
      PROVE  HasChild(s, i)
  <2>1. CASE i \in DOMAIN a
    <3>1. HasChild(a, i)
      BY <1>2, <1>5, <2>1 DEF Forest
    <3> QED
      BY <1>2, <2>1, <3>1 DEF HasChild
  <2>2. CASE i \notin DOMAIN a
    <3> PICK j \in DOMAIN b : i = Len(a) + j
      BY <1>3, <2>2
    <3>1. HasChild(b, j) /\ s[i] = b[j]
      BY <1>2, <1>5 DEF Forest
    <3> QED
      BY <1>2, <3>1 DEF HasChild
  <2> QED
    BY <2>1, <2>2
<1> QED
  BY <1>2, <1>4, <1>5 DEF Forest

LEMMA LastOfPath ==
  ASSUME NEW x \in Names, NEW p \in Seq(Names)
  PROVE  /\ <<x>> \o p \in Seq(Names) /\ <<x>> \o p # <<>>
         /\ Last(<<x>> \o p) = IF p = <<>> THEN x ELSE Last(p)
<1> PICK q : q = <<x>> \o p
  OBVIOUS
<1> PICK a : a = <<x>>
  OBVIOUS
<1>5. a \in Seq(Names) /\ Len(a) = 1 /\ a[1] = x /\ DOMAIN a = {1}
  OBVIOUS
<1>6. q = a \o p
  OBVIOUS
<1>7. q \in Seq(Names) /\ Len(q) = Len(p) + 1
  BY <1>5, <1>6
<1>8. q[1] = x
  BY <1>5, <1>6
<1>9. \A k \in DOMAIN p : q[k + 1] = p[k]
  BY <1>5, <1>6
<1>1. q \in Seq(Names) /\ Len(q) = Len(p) + 1 /\ q[1] = x /\ \A k \in DOMAIN p : q[k + 1] = p[k]
  BY <1>7, <1>8, <1>9
<1>2. q # <<>>
  BY <1>1
<1>3. CASE p = <<>>
  <2>1. Len(p) = 0 /\ Len(q) = 1
    BY <1>1, <1>3
  <2> QED
    BY <1>1, <1>2, <1>3, <2>1 DEF Last
<1>4. CASE p # <<>>
  <2>1. Len(p) \in DOMAIN p
    BY <1>4
  <2> QED
    BY <1>1, <1>2, <1>4, <2>1 DEF Last
<1> QED
  BY <1>2, <1>1, <1>3, <1>4

\* A node over a forest: one tree, with children when there are some.
LEMMA OverForest ==
  ASSUME NEW name \in Names, NEW kind \in {"component", "mode", "group"}, NEW active \in BOOLEAN,
         NEW s, Forest(s), kind = "mode" => s # <<>>
  PROVE  Forest(Over(Made(name, kind, active), s))
<1> PICK root : root = [name |-> name, kind |-> kind, active |-> active, path |-> <<>>]
  OBVIOUS
<1>1. Made(name, kind, active) = <<root>> /\ root \in Node /\ root.name = name
  BY DEF Made, Node
<1> PICK t : t = [k \in DOMAIN s |-> [s[k] EXCEPT !.path = <<name>> \o @]]
  OBVIOUS
<1>2. s \in Seq(Node)
  BY DEF Forest
<1>3. ASSUME NEW k \in DOMAIN s
      PROVE  /\ t[k] \in Node /\ t[k].name = s[k].name /\ t[k].kind = s[k].kind
             /\ t[k].path # <<>>
             /\ Last(t[k].path) = IF s[k].path = <<>> THEN name ELSE Last(s[k].path)
  <2>1. s[k] \in Node
    BY <1>2, <1>3
  <2>2. s[k].path \in Seq(Names)
    BY <2>1 DEF Node
  <2> PICK p : p = <<name>> \o s[k].path
    OBVIOUS
  <2>3. p \in Seq(Names) /\ p # <<>> /\ Last(p) = IF s[k].path = <<>> THEN name ELSE Last(s[k].path)
    BY <2>2, LastOfPath
  <2>4. t[k] = [s[k] EXCEPT !.path = p]
    BY <1>3
  <2>5. t[k].path = p /\ t[k].name = s[k].name /\ t[k].kind = s[k].kind /\ t[k] \in Node
    BY <2>1, <2>3, <2>4 DEF Node
  <2> QED
    BY <2>3, <2>5
<1>4. t \in Seq(Node) /\ Len(t) = Len(s) /\ DOMAIN t = DOMAIN s
  <2>1. DOMAIN s = 1 .. Len(s) /\ Len(s) \in Nat
    BY <1>2
  <2>2. t \in [1 .. Len(s) -> Node]
    BY <1>3, <2>1
  <2> QED
    BY <2>1, <2>2
<1> PICK r : r = <<root>> \o t
  OBVIOUS
<1>5. r = Over(Made(name, kind, active), s)
  <2>1. Made(name, kind, active)[1] = root
    BY <1>1
  <2> QED
    BY <1>1, <2>1 DEF Over
<1>6. /\ r \in Seq(Node) /\ r[1] = root /\ 1 \in DOMAIN r /\ Len(r) = Len(t) + 1
      /\ \A k \in DOMAIN t : k + 1 \in DOMAIN r /\ r[k + 1] = t[k]
  <2>1. Leads(r, root, t)
    BY <1>1, <1>4, FirstAndRest
  <2> QED
    BY <2>1 DEF Leads
<1>7. ASSUME NEW i \in DOMAIN r, i # 1 PROVE \E k \in DOMAIN t : i = k + 1
  <2>1. i - 1 \in DOMAIN t /\ i = (i - 1) + 1
    BY <1>4, <1>6, <1>7
  <2> QED
    BY <2>1
<1>8. ASSUME kind = "mode" PROVE HasChild(r, 1)
  <2>1. 1 \in DOMAIN s /\ s[1].path = <<>>
    <3>1. s # <<>> /\ s[1].path = <<>>
      BY <1>8 DEF Forest
    <3> QED
      BY <1>2, <3>1
  <2>2. 1 \in DOMAIN t /\ t[1].path # <<>> /\ Last(t[1].path) = name
    BY <1>3, <1>4, <2>1
  <2> PICK j : j = 1 + 1
    OBVIOUS
  <2>3. j \in DOMAIN r /\ r[j] = t[1] /\ r[1].name = name
    BY <1>1, <1>6, <2>2
  <2>4. r[j].path # <<>> /\ Last(r[j].path) = r[1].name
    BY <2>2, <2>3
  <2> QED
    BY <2>3, <2>4 DEF HasChild
<1>9. ASSUME NEW i \in DOMAIN r, r[i].kind = "mode" PROVE HasChild(r, i)
  <2>1. CASE i = 1
    BY <1>1, <1>6, <1>8, <1>9, <2>1
  <2>2. CASE i # 1
    <3> PICK k \in DOMAIN t : i = k + 1
      BY <1>7, <2>2
    <3>1. k \in DOMAIN s /\ r[i] = t[k] /\ s[k].kind = "mode" /\ r[i].name = s[k].name
      BY <1>3, <1>4, <1>6, <1>9
    <3> PICK j \in DOMAIN s : s[j].path # <<>> /\ Last(s[j].path) = s[k].name
      BY <3>1 DEF Forest, HasChild
    <3>2. t[j].path # <<>> /\ Last(t[j].path) = s[k].name
      BY <1>3
    <3>3. j + 1 \in DOMAIN r /\ r[j + 1] = t[j]
      BY <1>4, <1>6
    <3> QED
      BY <3>1, <3>2, <3>3 DEF HasChild
  <2> QED
    BY <2>1, <2>2
<1>10. r[1].path = <<>>
  BY <1>6
<1> QED
  BY <1>5, <1>6, <1>9, <1>10 DEF Forest

LEMMA NoopForest ==
  ASSUME NEW name \in Names
  PROVE  Forest(Made(name, "leaf", TRUE)) /\ Made(name, "leaf", TRUE) # <<>>
<1> PICK leaf : leaf = [name |-> name, kind |-> "leaf", active |-> TRUE, path |-> <<>>]
  OBVIOUS
<1>1. leaf \in Node /\ leaf.path = <<>> /\ leaf.kind = "leaf"
  BY DEF Node
<1>2. Forest(<<leaf>>) /\ <<leaf>> # <<>>
  BY <1>1 DEF Forest
<1> QED
  BY <1>2 DEF Made

LEMMA LeafForest ==
  ASSUME NEW c, NEW provider \in Names
  PROVE  Forest(Leaf(c, provider))
<1> PICK name \in Names : name = IF provider = "PMFixedFreqAdv" THEN "PMFixedFreq" ELSE provider
  BY DEF Names
<1> PICK leaf : leaf = [name |-> name, kind |-> "leaf",
                        active |-> provider \notin {"PMFixed", "PMDynamicFreq", "FanFixed", "FanCurve"},
                        path |-> <<>>]
  OBVIOUS
<1>1. leaf \in Node /\ leaf.path = <<>> /\ leaf.kind = "leaf"
  BY DEF Node
<1>2. Forest(<<leaf>>)
  BY <1>1 DEF Forest
<1>3. Leaf(c, provider) = <<>> \/ Leaf(c, provider) = <<leaf>>
  BY DEF Leaf, Made
<1> QED
  BY <1>2, <1>3, NoForest

LEMMA HoldingForest ==
  ASSUME NEW name \in Names, NEW s, Forest(s)
  PROVE  /\ Forest(Holding(name, "mode", TRUE, s))
         /\ Forest(Holding(name, "group", TRUE, s))
         /\ Forest(Holding(name, "group", FALSE, s))
BY NoForest, OverForest, Zenon DEF Holding

LEMMA HoldingNoopForest ==
  ASSUME NEW name \in Names, NEW noop \in Names, NEW s, Forest(s)
  PROVE  Forest(HoldingNoop(name, noop, s))
<1> PICK n : n = Made(noop, "leaf", TRUE)
  OBVIOUS
<1>1. Forest(n) /\ n # <<>>
  BY NoopForest
<1>2. Forest(s \o n) /\ s \o n # <<>>
  <2>1. s \in Seq(Node) /\ n \in Seq(Node)
    BY <1>1 DEF Forest
  <2>2. s \o n # <<>>
    BY <1>1, <2>1, JoinedNodes
  <2> QED
    BY <1>1, <2>2, JoinedForest
<1>3. Forest(Over(Made(name, "mode", TRUE), s \o n))
  BY <1>2, OverForest
<1> QED
  BY <1>3, NoForest DEF HoldingNoop

\* Every mode of every component has a child, for any machine and kernel.
LEMMA FactoryForest ==
  ASSUME NEW c \in Components
  PROVE  Forest(SysModel[c])
<1>1. \A p \in Names : Forest(Leaf(c, p))
  BY LeafForest
<1>2. Forest(PMFreqMode(c))
  BY <1>1, JoinedForest, HoldingForest DEF Names, PMFreqMode
<1>3. Forest(PMOverclock(c))
  BY <1>1, <1>2, JoinedForest, HoldingForest, NoForest DEF Names, PMOverclock
<1>4. Forest(PMOverdrive(c))
  BY <1>1, JoinedForest, HoldingForest, NoForest DEF Names, PMOverdrive
<1>5. Forest(PMAdvanced(c))
  BY <1>1, <1>3, <1>4, JoinedForest, HoldingForest DEF Names, PMAdvanced
<1>6. Forest(PMPerfMode(c))
  BY <1>1, <1>5, JoinedForest, HoldingNoopForest DEF Names, PMPerfMode
<1>7. Forest(PMPowerStateMode(c)) /\ Forest(CPUFreqMode(c))
  BY <1>1, HoldingNoopForest DEF Names, PMPowerStateMode, CPUFreqMode
<1>8. Forest(FanMode(c))
  BY <1>1, JoinedForest, HoldingNoopForest DEF Names, FanMode
<1>9. Forest(GPU(c))
  BY <1>6, <1>7, <1>8, JoinedForest, OverForest DEF Names, GPU
<1>10. Forest(CPU(c))
  BY <1>7, OverForest DEF Names, CPU
<1> QED
  BY <1>9, <1>10 DEF SysModel

-----------------------------------------------------------------------------
(***************************************************************************)
(* The parts                                                               *)
(***************************************************************************)

\* The shape never changes.
ShapeInv == shape = ShapeOf(SysModel)

\* Every mode selects one of its children, and what is active follows from that.
ModesOK(c, mode) ==
  /\ mode = [m \in Modes[c] |-> mode[m]]
  /\ \A m \in Modes[c] : mode[m] \in ChildrenOf[c][m]

IsPart(c, p) ==
  /\ p = [active |-> ActiveNodes(c, p.active, p.mode), mode |-> p.mode, value |-> p.value]
  /\ ModesOK(c, p.mode)

PartsInv ==
  /\ DOMAIN parts = Profiles
  /\ \A profile \in Profiles :
       /\ DOMAIN parts[profile] = Components
       /\ \A c \in Components : IsPart(c, parts[profile][c])

\* What is asked of the nodes that follow from the modes makes no difference.
LEMMA ActiveTwice ==
  ASSUME NEW c, NEW asked, NEW mode
  PROVE  ActiveNodes(c, ActiveNodes(c, asked, mode), mode) = ActiveNodes(c, asked, mode)
<1> PICK a : a = ActiveNodes(c, asked, mode)
  OBVIOUS
<1>1. \A n \in TreeOf[c] : ~Under(n, "mode") /\ ~Under(n, "group") => a[n] = asked[n]
  BY DEF ActiveNodes
<1> QED
  BY <1>1 DEF ActiveNodes

LEMMA SelectedOK ==
  ASSUME NEW c, NEW asked, NEW old, ModesOK(c, old)
  PROVE  ModesOK(c, Selected(c, asked, old))
BY DEF ModesOK, Selected

LEMMA SelectedAsAsked ==
  ASSUME NEW c, NEW asked, NEW old, ModesOK(c, asked)
  PROVE  Selected(c, asked, old) = asked
BY DEF ModesOK, Selected

\* Whatever a part imports, it remains in order.
LEMMA ImportedPart ==
  ASSUME NEW c, NEW p, NEW i, ModesOK(c, p.mode)
  PROVE  IsPart(c, ImportPart(c, p, i))
<1> PICK mode : mode = Selected(c, i.mode, p.mode)
  OBVIOUS
<1> PICK active : active = ActiveNodes(c, i.active, mode)
  OBVIOUS
<1> PICK r : r = [active |-> active, mode |-> mode, value |-> i.value]
  OBVIOUS
<1>1. r = ImportPart(c, p, i)
  BY DEF ImportPart
<1>2. ModesOK(c, mode)
  BY SelectedOK
<1>3. ActiveNodes(c, active, mode) = active
  BY ActiveTwice
<1>4. r.active = active /\ r.mode = mode /\ r.value = i.value
  OBVIOUS
<1>5. IsPart(c, r)
  BY <1>2, <1>3, <1>4 DEF IsPart
<1> QED
  BY <1>1, <1>5

\* Min of FiniteSetsExt is in its set.
LEMMA MinIsIn ==
  ASSUME NEW S \in SUBSET Nat, S # {}
  PROVE  Min(S) \in S
<1>4. \A x, y \in Nat : ~(x <= y) => y < x
  OBVIOUS
<1> PICK R : R = OpToRel(<, Nat)
  OBVIOUS
<1>1. IsWellFoundedOn(R, Nat)
  BY NatLessThanWellFounded
<1>2. PICK x \in S : \A y \in S : ~ (<<y, x>> \in R)
  BY <1>1, WFMin
<1>3. \A y \in S : x <= y
  <2> SUFFICES ASSUME NEW y \in S, ~(x <= y) PROVE FALSE
    OBVIOUS
  <2>3. x \in Nat /\ y \in Nat
    OBVIOUS
  <2>1. <<y, x>> \in Nat \X Nat
    BY <2>3
  <2>4. y < x
    BY <1>4, <2>3
  <2>2. <<y, x>> \in R
    BY <2>1, <2>4 DEF OpToRel
  <2> QED
    BY <1>2, <2>2
<1> QED
  BY <1>3 DEF Min

\* Every mode of the tree has a child among the nodes the factory made.
LEMMA ModeHasChild ==
  ASSUME ShapeInv, NEW c \in Components, NEW m \in Modes[c]
  PROVE  /\ DOMAIN shape.made[c] \subseteq Nat
         /\ \E k \in DOMAIN shape.made[c] : shape.made[c][k].name \in ChildrenOf[c][m]
<1> PICK model : model = SysModel
  OBVIOUS
<1> PICK s : s = model[c]
  OBVIOUS
<1> PICK nodes : nodes = UNION {Range(model[d]) : d \in Components}
  OBVIOUS
<1>1. Forest(s)
  BY FactoryForest
<1>2. /\ shape.made = model
      /\ Modes[c] = NamesOf(OfKind(Range(s), "mode"))
      /\ ChildrenOf[c] = [n \in NamesOf(nodes) |-> NamesOf(Held(Range(s), n))]
  BY DEF ShapeInv, ShapeOf, Modes, ChildrenOf
<1>3. PICK i \in DOMAIN s : s[i].kind = "mode" /\ s[i].name = m
  BY <1>2 DEF NamesOf, OfKind, Range
<1>4. PICK j \in DOMAIN s : s[j].path # <<>> /\ Last(s[j].path) = m
  BY <1>1, <1>3 DEF Forest, HasChild
<1>5. s[i] \in nodes /\ m \in NamesOf(nodes)
  BY <1>3 DEF Range, NamesOf
<1>6. s[j] \in Held(Range(s), m)
  BY <1>4 DEF Held, Range
<1>7. s[j].name \in ChildrenOf[c][m]
  BY <1>2, <1>5, <1>6 DEF NamesOf
<1>8. DOMAIN s \subseteq Nat
  BY <1>1 DEF Forest
<1> QED
  BY <1>2, <1>4, <1>7, <1>8

\* The first child is one.
LEMMA FirstIsChild ==
  ASSUME ShapeInv, NEW c \in Components, NEW m \in Modes[c]
  PROVE  First(c, m) \in ChildrenOf[c][m]
<1> PICK made : made = shape.made[c]
  OBVIOUS
<1> PICK children : children = {k \in DOMAIN made : made[k].name \in ChildrenOf[c][m]}
  OBVIOUS
<1> PICK active : active = {k \in children : made[k].active}
  OBVIOUS
<1> PICK ks : ks = IF active = {} THEN children ELSE active
  OBVIOUS
<1>1. children # {} /\ children \subseteq Nat
  BY ModeHasChild
<1>2. ks # {} /\ ks \subseteq children
  BY <1>1
<1>3. Min(ks) \in ks
  BY <1>1, <1>2, MinIsIn
<1>4. First(c, m) = made[Min(ks)].name
  BY DEF First
<1> QED
  BY <1>2, <1>3, <1>4

\* The settings of a new profile are in order.
LEMMA DefaultIsPart ==
  ASSUME ShapeInv, NEW c \in Components
  PROVE  IsPart(c, DefaultPart[c])
<1> PICK mode : mode = [m \in Modes[c] |-> First(c, m)]
  OBVIOUS
<1> PICK active : active = ActiveNodes(c, shape.active, mode)
  OBVIOUS
<1> PICK d : d = DefaultPart[c]
  OBVIOUS
<1>1. d.active = active /\ d.mode = mode /\ d = [active |-> active, mode |-> mode, value |-> d.value]
  BY DEF DefaultPart, SettingsOf, InitialControls
<1>2. ModesOK(c, mode)
  BY FirstIsChild DEF ModesOK
<1>3. ActiveNodes(c, active, mode) = active
  BY ActiveTwice
<1> QED
  BY <1>1, <1>2, <1>3 DEF IsPart

-----------------------------------------------------------------------------
(***************************************************************************)
(* The files                                                               *)
(***************************************************************************)

\* The file of a profile was written under one numbering of the components.
Numbered(file, i, u) == \A c \in Components : file[c].id = Identity(c, i, u)
FilesOf(file) ==
  \E i \in Indexes, u \in {Unknown, Known} : Numbered(file, i, u)

FilesInv ==
  /\ index \in Indexes
  /\ unique \in {Unknown, Known}
  /\ DOMAIN files = Profiles
  /\ \A profile \in Profiles : FilesOf(files[profile])

IInv == ShapeInv /\ PartsInv /\ FilesInv

LEMMA SavedFileOf ==
  ASSUME FilesInv, NEW profile
  PROVE  FilesOf(SavedFile(profile))
<1>1. Numbered(SavedFile(profile), index, unique)
  BY DEF Numbered, SavedFile, SavedNode, IdentityOf
<1> QED
  BY <1>1 DEF FilesInv, FilesOf

LEMMA InitInv == Init => IInv
<1> SUFFICES ASSUME Init PROVE IInv
  OBVIOUS
<1>1. ShapeInv
  BY DEF Init, ShapeInv
<1>2. PartsInv
  <2>1. parts = [profile \in Profiles |-> [c \in Components |-> DefaultPart[c]]]
    BY DEF Init
  <2>2. \A c \in Components : IsPart(c, DefaultPart[c])
    BY <1>1, DefaultIsPart
  <2> QED
    BY <2>1, <2>2 DEF PartsInv
<1>3. FilesInv
  <2>1. index \in Indexes /\ unique \in {Unknown, Known}
    BY NumberedAssumption DEF Init
  <2>2. files = [profile \in Profiles |-> SavedFile(profile)]
    BY DEF Init
  <2>3. \A profile : Numbered(SavedFile(profile), index, unique)
    BY DEF Numbered, SavedFile, SavedNode, IdentityOf
  <2> QED
    BY <2>1, <2>2, <2>3 DEF FilesInv, FilesOf
<1> QED
  BY <1>1, <1>2, <1>3 DEF IInv

\* The files are left alone.
LEMMA SameFiles ==
  ASSUME FilesInv, UNCHANGED <<index, unique, files>>
  PROVE  FilesInv'
BY DEF FilesInv

\* While the shape is the same, a part in order remains so.
LEMMA SameIsPart ==
  ASSUME UNCHANGED shape, NEW c, NEW p, IsPart(c, p)
  PROVE  IsPart(c, p)'
BY DEF IsPart, ModesOK, ActiveNodes, TreeOf, Modes, ChildrenOf, Under, Above, Kind, Parent

LEMMA SameParts ==
  ASSUME PartsInv, ShapeInv, UNCHANGED <<shape, parts>>
  PROVE  PartsInv' /\ ShapeInv'
<1> PICK ps : ps = parts
  OBVIOUS
<1>1. ps = parts' /\ UNCHANGED shape
  OBVIOUS
<1>2. /\ DOMAIN ps = Profiles
      /\ \A q \in Profiles : DOMAIN ps[q] = Components
      /\ \A q \in Profiles, c \in Components : IsPart(c, ps[q][c])
  BY DEF PartsInv
<1>3. PartsInv'
  BY <1>1, <1>2, SameIsPart DEF PartsInv
<1> QED
  BY <1>1, <1>3 DEF ShapeInv

LEMMA LoadKeeps ==
  ASSUME IInv, NEW profile \in Profiles, Load(profile)
  PROVE  IInv'
<1>1. UNCHANGED <<shape, index, unique, files>>
  BY DEF Load
<1> PICK ps : ps = parts'
  OBVIOUS
<1>2. PICK q : /\ ps = [parts EXCEPT ![profile] = q] /\ DOMAIN q = Components
               /\ \A c \in Components : \E i : q[c] = ImportPart(c, parts[profile][c], i)
  <2>1. PICK other \in Profiles, older \in BOOLEAN :
          LET file == [c \in Components |-> IF older THEN Older(files[other][c]) ELSE files[other][c]]
          IN  ps = [parts EXCEPT ![profile] =
                     [c \in Components |-> ImportPart(c, @[c], Loaded(c, IdentityOf(c), file))]]
    BY DEF Load
  <2> PICK file : file = [c \in Components |-> IF older THEN Older(files[other][c]) ELSE files[other][c]]
    OBVIOUS
  <2> PICK q : q = [c \in Components |-> ImportPart(c, parts[profile][c], Loaded(c, IdentityOf(c), file))]
    OBVIOUS
  <2>2. ps = [parts EXCEPT ![profile] = q]
    BY <2>1
  <2>3. \A c \in Components : \E i : q[c] = ImportPart(c, parts[profile][c], i)
    OBVIOUS
  <2>4. DOMAIN q = Components
    OBVIOUS
  <2> QED
    BY <2>2, <2>3, <2>4
<1>3. /\ DOMAIN ps = Profiles
      /\ \A r \in Profiles : DOMAIN ps[r] = Components
      /\ \A r \in Profiles, c \in Components : IsPart(c, ps[r][c])
  <2>1. \A c \in Components : IsPart(c, q[c])
    <3> SUFFICES ASSUME NEW c \in Components PROVE IsPart(c, q[c])
      OBVIOUS
    <3> PICK i : q[c] = ImportPart(c, parts[profile][c], i)
      BY <1>2
    <3> PICK p : p = parts[profile][c]
      OBVIOUS
    <3>1. ModesOK(c, p.mode)
      BY DEF IInv, PartsInv, IsPart
    <3> QED
      BY <3>1, ImportedPart
  <2> QED
    BY <1>2, <2>1 DEF IInv, PartsInv
<1>4. PartsInv'
  BY <1>1, <1>3, SameIsPart DEF PartsInv
<1>5. ShapeInv' /\ FilesInv'
  BY <1>1, SameFiles DEF IInv, ShapeInv
<1> QED
  BY <1>4, <1>5 DEF IInv

LEMMA ChangeKeeps ==
  ASSUME IInv, NEW profile \in Profiles, NEW c \in Components, Change(profile, c)
  PROVE  IInv'
<1>1. UNCHANGED <<shape, index, unique, files>>
  BY DEF Change
<1> PICK ps : ps = parts'
  OBVIOUS
<1>2. PICK item : ps = [parts EXCEPT ![profile][c] = ImportPart(c, parts[profile][c], item)]
  BY DEF Change
<1>3. /\ DOMAIN ps = Profiles
      /\ \A q \in Profiles : DOMAIN ps[q] = Components
      /\ \A q \in Profiles, d \in Components : IsPart(d, ps[q][d])
  <2>1. IsPart(c, ImportPart(c, parts[profile][c], item))
    BY ImportedPart DEF IInv, PartsInv, IsPart
  <2> QED
    BY <1>2, <2>1 DEF IInv, PartsInv
<1>4. PartsInv'
  BY <1>1, <1>3, SameIsPart DEF PartsInv
<1>5. ShapeInv' /\ FilesInv'
  BY <1>1, SameFiles DEF IInv, ShapeInv
<1> QED
  BY <1>4, <1>5 DEF IInv

LEMMA SaveKeeps ==
  ASSUME IInv, NEW profile \in Profiles, Save(profile)
  PROVE  IInv'
<1>1. UNCHANGED <<shape, index, unique, parts>> /\ files' = [files EXCEPT ![profile] = SavedFile(profile)]
  BY DEF Save
<1>2. FilesOf(SavedFile(profile))
  BY SavedFileOf DEF IInv
<1> PICK fs : fs = files'
  OBVIOUS
<1>3. DOMAIN fs = Profiles /\ \A q \in Profiles : FilesOf(fs[q])
  BY <1>1, <1>2 DEF IInv, FilesInv
<1>4. FilesInv'
  BY <1>1, <1>3 DEF IInv, FilesInv
<1> QED
  BY <1>1, <1>4, SameParts DEF IInv

LEMMA RestartKeeps ==
  ASSUME IInv, Restart
  PROVE  IInv'
<1>1. UNCHANGED <<shape, files>> /\ index' \in Indexes /\ unique' \in {unique, Known}
  BY DEF Restart
<1> PICK ps : ps = parts'
  OBVIOUS
<1>2. ps = [profile \in Profiles |-> [c \in Components |->
             ImportPart(c, DefaultPart[c], Loaded(c, Identity(c, index', unique'), files[profile]))]]
  BY DEF Restart
<1>3. \A i : \A c \in Components : IsPart(c, ImportPart(c, DefaultPart[c], i))
  BY DefaultIsPart, ImportedPart DEF IInv, IsPart
<1>4. /\ DOMAIN ps = Profiles
      /\ \A q \in Profiles : DOMAIN ps[q] = Components
      /\ \A q \in Profiles, c \in Components : IsPart(c, ps[q][c])
  <2>1. ASSUME NEW q \in Profiles PROVE DOMAIN ps[q] = Components
    BY <1>2
  <2>2. ASSUME NEW q \in Profiles, NEW c \in Components
        PROVE  \E i : ps[q][c] = ImportPart(c, DefaultPart[c], i)
    <3> PICK i : i = Loaded(c, Identity(c, index', unique'), files[q])
      OBVIOUS
    <3>1. ps[q][c] = ImportPart(c, DefaultPart[c], i)
      BY <1>2
    <3> QED
      BY <3>1
  <2> QED
    BY <1>2, <1>3, <2>1, <2>2
<1>5. PartsInv'
  BY <1>1, <1>4, SameIsPart DEF PartsInv
<1>6. ShapeInv' /\ FilesInv'
  BY <1>1 DEF IInv, ShapeInv, FilesInv
<1> QED
  BY <1>5, <1>6 DEF IInv

LEMMA NextInv == IInv /\ [Next]_vars => IInv'
<1> SUFFICES ASSUME IInv, [Next]_vars PROVE IInv'
  OBVIOUS
<1>1. ASSUME UNCHANGED <<shape, index, unique, parts, files>> PROVE IInv'
  BY <1>1, SameParts, SameFiles DEF IInv
<1>2. ASSUME NEW profile \in Profiles, Apply(profile) PROVE IInv'
  BY <1>1, <1>2 DEF Apply
<1>3. CASE Pass
  BY <1>1, <1>3 DEF Pass
<1>4. CASE UNCHANGED vars
  BY <1>1, <1>4 DEF vars
<1> QED
  BY <1>2, <1>3, <1>4, LoadKeeps, SaveKeeps, ChangeKeeps, RestartKeeps DEF Next

-----------------------------------------------------------------------------
(***************************************************************************)
(* What is shown and what is found                                         *)
(***************************************************************************)

\* The controls take a part as it is: a mode refuses no selection, a group activates what is active
\* (ControlMode::importControl, ControlGroup::importControl and those of their parts).
THEOREM AppliedAsShown == Spec => AppliedIsView
<1>1. ASSUME IInv, NEW profile \in Profiles, Apply(profile),
             NEW c \in Components, Shown(profile, c) # Absent
      PROVE  SettingsOf(controls'[c]) = parts[Shown(profile, c)][c]
  <2> PICK shown : shown = Shown(profile, c)
    OBVIOUS
  <2> PICK p : p = parts[shown][c]
    OBVIOUS
  <2> PICK t : t = controls[c]
    OBVIOUS
  <2>1. shown \in Profiles
    BY <1>1 DEF Shown, Profiles
  <2>2. IsPart(c, p)
    BY <1>1, <2>1 DEF IInv, PartsInv
  <2>3. controls'[c] = ImportControls(c, t, p)
    BY <1>1 DEF Apply
  <2>4. Selected(c, p.mode, t.mode) = p.mode
    BY <2>2, SelectedAsAsked DEF IsPart
  <2>5. SettingsOf(ImportControls(c, t, p))
          = [active |-> ActiveNodes(c, p.active, p.mode), mode |-> p.mode, value |-> p.value]
    BY <2>4 DEF SettingsOf, ImportControls
  <2> QED
    BY <2>2, <2>3, <2>5 DEF IsPart
<1>2. IInv /\ [Next]_vars =>
        [\A profile \in Profiles : Apply(profile) =>
           \A c \in Components : Shown(profile, c) # Absent =>
             SettingsOf(controls'[c]) = parts[Shown(profile, c)][c]]_vars
  BY <1>1
<1> QED
  BY <1>2, InitInv, NextInv, PTL DEF Spec, AppliedIsView

\* By the numbers and unique ids of one file, a component finds its own node and no other: by its
\* unique id when both sides tell it, by its index and its device when it is at its place.
LEMMA FindsItsOwn ==
  ASSUME NEW i \in Indexes, NEW u \in {Unknown, Known}, NEW j \in Indexes, NEW v \in {Unknown, Known},
         NEW c \in Components, NEW d \in Components,
         (u[c] # Absent /\ v[c] # Absent) \/ i[c] = j[c]
  PROVE  Matches(Identity(d, i, u), Identity(c, j, v)) <=> d = c
<1>1. Absent \notin Components
  BY TreeAssumption DEF Components
<1>2. /\ u[d] = IF u = Known /\ Root[d] = "GPU" THEN d ELSE Absent
      /\ u[c] = IF u = Known /\ Root[c] = "GPU" THEN c ELSE Absent
      /\ v[c] = IF v = Known /\ Root[c] = "GPU" THEN c ELSE Absent
  BY DEF Known, Unknown
<1>3. d # c /\ Root[d] = Root[c] => i[d] # i[c]
  BY DEF Indexes
<1>4. ASSUME Matches(Identity(d, i, u), Identity(c, j, v)), d # c PROVE FALSE
  <2>1. /\ Root[d] = Root[c]
        /\ IF u[d] # Absent /\ v[c] # Absent THEN u[d] = v[c] ELSE i[d] = j[c]
    BY <1>4 DEF Matches, Identity
  <2>2. u[d] # Absent <=> u[c] # Absent
    BY <1>1, <1>2, <2>1
  <2>3. CASE u[d] # Absent /\ v[c] # Absent
    BY <1>2, <1>4, <2>1, <2>3
  <2>4. CASE ~(u[d] # Absent /\ v[c] # Absent)
    BY <1>3, <1>4, <2>1, <2>2, <2>4
  <2> QED
    BY <2>3, <2>4
<1>5. ASSUME d = c PROVE Matches(Identity(d, i, u), Identity(c, j, v))
  <2>1. u[c] # Absent /\ v[c] # Absent => u[c] = v[c]
    BY <1>2
  <2> QED
    BY <1>5, <2>1 DEF Matches, Identity
<1> QED
  BY <1>4, <1>5

LEMMA LoadsItsOwn ==
  ASSUME NEW i \in Indexes, NEW u \in {Unknown, Known}, NEW j \in Indexes, NEW v \in {Unknown, Known},
         NEW file, Numbered(file, i, u), NEW c \in Components,
         (u[c] # Absent /\ v[c] # Absent) \/ i[c] = j[c]
  PROVE  Loaded(c, Identity(c, j, v), file) = LoadedNode(c, file[c].nodes, DefaultPart[c])
<1> PICK own : own = Identity(c, j, v)
  OBVIOUS
<1>1. \A d \in Components : Matches(file[d].id, own) <=> d = c
  BY FindsItsOwn DEF Numbered
<1> PICK matching : matching = {d \in Components : Matches(file[d].id, own)}
  OBVIOUS
<1>2. matching = {c}
  BY <1>1
<1>3. matching # {} /\ (CHOOSE d \in matching : TRUE) = c
  BY <1>2
<1>4. Loaded(c, own, file)
        = LoadedNode(c, IF matching = {} THEN <<>> ELSE file[CHOOSE d \in matching : TRUE].nodes, DefaultPart[c])
  BY DEF Loaded
<1> QED
  BY <1>3, <1>4

\* What the file gives a component that may have been numbered anew: the node of one of its class and
\* device, or none.
LEMMA LoadsAKin ==
  ASSUME NEW i \in Indexes, NEW u \in {Unknown, Known}, NEW j \in Indexes, NEW v \in {Unknown, Known},
         NEW file, Numbered(file, i, u), NEW c \in Components
  PROVE  \/ Loaded(c, Identity(c, j, v), file) = LoadedNode(c, <<>>, DefaultPart[c])
         \/ \E d \in Twins(c) :
              Loaded(c, Identity(c, j, v), file) = LoadedNode(c, file[d].nodes, DefaultPart[c])
<1> PICK own : own = Identity(c, j, v)
  OBVIOUS
<1> PICK matching : matching = {d \in Components : Matches(file[d].id, own)}
  OBVIOUS
<1>1. Loaded(c, own, file)
        = LoadedNode(c, IF matching = {} THEN <<>> ELSE file[CHOOSE d \in matching : TRUE].nodes, DefaultPart[c])
  BY DEF Loaded
<1>2. CASE matching = {}
  BY <1>1, <1>2
<1>3. CASE matching # {}
  <2> PICK d : d = CHOOSE e \in matching : TRUE
    OBVIOUS
  <2>1. d \in Components /\ Matches(file[d].id, own)
    BY <1>3
  <2>2. file[d].id = Identity(d, i, u)
    BY <2>1 DEF Numbered
  <2>3. /\ Root[d] = Root[c]
        /\ IF u[d] # Absent /\ v[c] # Absent THEN u[d] = v[c] ELSE Machine[d].device = Machine[c].device
    <3>1. Matches(Identity(d, i, u), Identity(c, j, v))
      BY <2>1, <2>2
    <3> QED
      BY <3>1 DEF Matches, Identity
  <2>4. u[d] \in {d, Absent} /\ v[c] \in {c, Absent}
    BY <2>1 DEF Known, Unknown
  <2>5. d \in Twins(c)
    BY <2>1, <2>3, <2>4 DEF Twins
  <2>6. Loaded(c, own, file) = LoadedNode(c, file[d].nodes, DefaultPart[c])
    BY <1>1, <1>3
  <2> QED
    BY <2>5, <2>6
<1> QED
  BY <1>2, <1>3

\* After a restart a component that is at its old place, or whose unique id its file and the kernel
\* tell, is given its own settings; and one that was numbered anew without unique ids at most those of
\* a GPU of its class and device (GPUXMLParser::loadPartFrom, CPUXMLParser).
THEOREM FindsOwnSettings == Spec => OwnSettings
<1>1. ASSUME IInv, Restart, NEW profile \in Profiles, NEW c \in Components
      PROVE  /\ \/ files[profile][c].id.unique # Absent /\ unique'[c] # Absent
                \/ files[profile][c].id.index = index'[c]
                => parts'[profile][c] = ImportedFrom(c, files[profile][c])
             /\ \/ parts'[profile][c] = OfNoNode(c)
                \/ \E d \in Twins(c) : parts'[profile][c] = ImportedFrom(c, files[profile][d])
  <2> PICK j \in Indexes : j = index'
    BY <1>1 DEF Restart
  <2> PICK v \in {Unknown, Known} : v = unique'
    BY <1>1 DEF Restart, IInv, FilesInv
  <2> PICK file : file = files[profile]
    OBVIOUS
  <2> PICK i \in Indexes, u \in {Unknown, Known} : Numbered(file, i, u)
    BY <1>1 DEF IInv, FilesInv, FilesOf
  <2>1. file[c].id.unique = u[c] /\ file[c].id.index = i[c]
    <3>1. file[c].id = Identity(c, i, u)
      BY DEF Numbered
    <3> QED
      BY <3>1 DEF Identity
  <2>2. parts'[profile][c] = ImportPart(c, DefaultPart[c], Loaded(c, Identity(c, j, v), file))
    BY <1>1 DEF Restart
  <2>3. ASSUME (u[c] # Absent /\ v[c] # Absent) \/ i[c] = j[c]
        PROVE  parts'[profile][c] = ImportedFrom(c, file[c])
    <3>1. Loaded(c, Identity(c, j, v), file) = LoadedNode(c, file[c].nodes, DefaultPart[c])
      BY <2>3, LoadsItsOwn
    <3> QED
      BY <2>2, <3>1 DEF ImportedFrom
  <2>4. \/ parts'[profile][c] = OfNoNode(c)
        \/ \E d \in Twins(c) : parts'[profile][c] = ImportedFrom(c, file[d])
    BY <2>2, LoadsAKin DEF OfNoNode, ImportedFrom
  <2> QED
    BY <2>1, <2>3, <2>4
<1>2. IInv /\ [Next]_vars =>
        [Restart => \A profile \in Profiles, c \in Components :
           LET node == files[profile][c]
           IN  /\ (node.id.unique # Absent /\ unique'[c] # Absent) \/ node.id.index = index'[c] =>
                    parts'[profile][c] = ImportedFrom(c, node)
               /\ \/ parts'[profile][c] = OfNoNode(c)
                  \/ \E d \in Twins(c) : parts'[profile][c] = ImportedFrom(c, files[profile][d])]_vars
  BY <1>1
<1> QED
  BY <1>2, InitInv, NextInv, PTL DEF Spec, OwnSettings

-----------------------------------------------------------------------------
(***************************************************************************)
(* Where the factory puts the nodes                                        *)
(***************************************************************************)

ParentOf(n) ==
  CASE n \in {"PMPerfMode", "PMPowerStateMode", "FanMode"} -> "GPU"
    [] n = "CPUFreqMode" -> "CPU"
    [] n \in {"PMAuto", "PMFixed", "PMAdvanced", "PMPerfModeNoop"} -> "PMPerfMode"
    [] n \in {"PMPowerState", "PMPowerStateModeNoop"} -> "PMPowerStateMode"
    [] n \in {"FanAuto", "FanFixed", "FanCurve", "FanModeNoop"} -> "FanMode"
    [] n \in {"CPUFreq", "CPUFreqModeNoop"} -> "CPUFreqMode"
    [] n \in {"PMOverclock", "PMOverdrive", "PMPowerProfile", "PMPowerCap", "PMFixedFreqAdv"} -> "PMAdvanced"
    [] n \in {"PMFreqMode", "PMFreqOd"} -> "PMOverclock"
    [] n = "PMDynamicFreq" -> "PMFreqMode"
    [] n = "PMFixedFreq" -> IF ByPercentage THEN "PMFreqMode" ELSE "PMAdvanced"
    [] n \in {"PMFreqRange", "PMFreqVolt", "PMVoltCurve", "PMVoltOffset"} -> "PMOverdrive"
    [] OTHER -> n

TopModes == {"PMPerfMode", "PMPowerStateMode", "FanMode", "CPUFreqMode"}

KindOf(n) ==
  CASE n \in {"GPU", "CPU"} -> "component"
    [] n \in TopModes \cup {"PMFreqMode"} -> "mode"
    [] n \in {"PMAdvanced", "PMOverclock", "PMOverdrive"} -> "group"
    [] OTHER -> "leaf"

\* The path of a child of n.
PathBelow(n) ==
  CASE n \in {"GPU", "CPU"} -> {n}
    [] n = "CPUFreqMode" -> {"CPU", "CPUFreqMode"}
    [] n \in {"PMPerfMode", "PMPowerStateMode", "FanMode"} -> {"GPU", n}
    [] n = "PMAdvanced" -> {"GPU", "PMPerfMode", "PMAdvanced"}
    [] n \in {"PMOverclock", "PMOverdrive"} -> {"GPU", "PMPerfMode", "PMAdvanced", n}
    [] n = "PMFreqMode" -> {"GPU", "PMPerfMode", "PMAdvanced", "PMOverclock", "PMFreqMode"}

AboveOf(n) == IF n \in {"GPU", "CPU"} THEN {} ELSE PathBelow(ParentOf(n))

\* The names the factory uses: there is no mode of the power states without a leaf of theirs, and no
\* mode of the frequencies in a tree that is not overclocked by percentages.
PowerStateFound == \E c \in Components : "PMPowerState" \in Machine[c].found
Usable ==
  {n \in Names : (n = "PMPowerStateMode" => PowerStateFound) /\ (n = "PMFreqMode" => ByPercentage)}

\* Nodes that will be below top, and so below the nodes of above, are at their places.
At(s, i, top, above) ==
  /\ s[i].name \in Usable
  /\ above \cup Range(s[i].path) = AboveOf(s[i].name)
  /\ (IF s[i].path = <<>> THEN top ELSE Last(s[i].path)) = ParentOf(s[i].name)
  /\ s[i].kind = KindOf(s[i].name)
  /\ s[i].kind = "mode" => s[i].active = TRUE
  /\ \A x \in Range(s[i].path) : \E j \in DOMAIN s : s[j].name = x
Placed(s, top, above) == s \in Seq(Node) /\ \A i \in DOMAIN s : At(s, i, top, above)

LEMMA NonePlaced == \A top, above : Placed(<<>>, top, above)
BY DEF Placed

LEMMA JoinedPlaced ==
  ASSUME NEW top, NEW above, NEW a, NEW b, Placed(a, top, above), Placed(b, top, above)
  PROVE  Placed(a \o b, top, above)
<1> PICK s : s = a \o b
  OBVIOUS
<1>1. a \in Seq(Node) /\ b \in Seq(Node)
  BY DEF Placed
<1>2. /\ s \in Seq(Node) /\ Len(s) = Len(a) + Len(b)
      /\ \A i \in DOMAIN a : i \in DOMAIN s /\ s[i] = a[i]
      /\ \A i \in DOMAIN b : Len(a) + i \in DOMAIN s /\ s[Len(a) + i] = b[i]
  BY <1>1
<1>3. ASSUME NEW i \in DOMAIN s, i \notin DOMAIN a
      PROVE  \E j \in DOMAIN b : i = Len(a) + j
  <2>1. i - Len(a) \in DOMAIN b /\ i = Len(a) + (i - Len(a))
    BY <1>1, <1>2, <1>3
  <2> QED
    BY <2>1
<1>4. ASSUME NEW i \in DOMAIN a PROVE At(s, i, top, above)
  <2>1. At(a, i, top, above) /\ s[i] = a[i]
    BY <1>2, <1>4 DEF Placed
  <2> QED
    BY <1>2, <2>1 DEF At
<1>5. ASSUME NEW i \in DOMAIN b, NEW k, k = Len(a) + i PROVE At(s, k, top, above)
  <2>1. At(b, i, top, above) /\ s[k] = b[i]
    BY <1>2, <1>5 DEF Placed
  <2>2. \A x : (\E j \in DOMAIN b : b[j].name = x) => \E j \in DOMAIN s : s[j].name = x
    BY <1>2
  <2> QED
    BY <2>1, <2>2 DEF At
<1>6. \A i \in DOMAIN s : At(s, i, top, above)
  BY <1>3, <1>4, <1>5
<1> QED
  BY <1>2, <1>6 DEF Placed

\* The members of a longer path.
LEMMA PathMembers ==
  ASSUME NEW x \in Names, NEW p \in Seq(Names)
  PROVE  Range(<<x>> \o p) = {x} \cup Range(p)
<1> PICK a : a = <<x>>
  OBVIOUS
<1> PICK q : q = a \o p
  OBVIOUS
<1>1. a \in Seq(Names) /\ Len(a) = 1 /\ a[1] = x
  OBVIOUS
<1>2. /\ q \in Seq(Names) /\ Len(q) = 1 + Len(p) /\ Len(p) \in Nat
      /\ q[1] = x
  BY <1>1
<1>3. \A k \in DOMAIN p : k + 1 \in DOMAIN q /\ q[k + 1] = p[k]
  BY <1>1
<1>4. \A i \in DOMAIN q : i = 1 \/ \E k \in DOMAIN p : i = k + 1
  <2> SUFFICES ASSUME NEW i \in DOMAIN q, i # 1 PROVE \E k \in DOMAIN p : i = k + 1
    OBVIOUS
  <2>1. i - 1 \in DOMAIN p /\ i = (i - 1) + 1
    BY <1>2
  <2> QED
    BY <2>1
<1>5. 1 \in DOMAIN q
  BY <1>2
<1>6. ASSUME NEW y \in Range(q) PROVE y = x \/ y \in Range(p)
  <2> PICK i \in DOMAIN q : y = q[i]
    BY <1>6 DEF Range
  <2> QED
    BY <1>2, <1>3, <1>4 DEF Range
<1>7. x \in Range(q)
  BY <1>2, <1>5 DEF Range
<1>8. ASSUME NEW y \in Range(p) PROVE y \in Range(q)
  <2> PICK k \in DOMAIN p : y = p[k]
    BY <1>8 DEF Range
  <2> QED
    BY <1>3 DEF Range
<1> QED
  BY <1>6, <1>7, <1>8

\* A node at its place over nodes at theirs.
LEMMA OverPlaced ==
  ASSUME NEW name \in Usable, NEW kind \in {"component", "mode", "group"}, NEW active \in BOOLEAN,
         NEW top, NEW above, NEW s, Placed(s, name, above \cup {name}),
         kind = "mode" => active = TRUE,
         KindOf(name) = kind, ParentOf(name) = top, AboveOf(name) = above
  PROVE  Placed(Over(Made(name, kind, active), s), top, above)
<1> PICK root : root = [name |-> name, kind |-> kind, active |-> active, path |-> <<>>]
  OBVIOUS
<1>0. name \in Names
  BY DEF Usable
<1>1. Made(name, kind, active) = <<root>> /\ root \in Node /\ root.name = name
  BY <1>0 DEF Made, Node
<1> PICK t : t = [k \in DOMAIN s |-> [s[k] EXCEPT !.path = <<name>> \o @]]
  OBVIOUS
<1>2. s \in Seq(Node)
  BY DEF Placed
<1>3. ASSUME NEW k \in DOMAIN s
      PROVE  /\ t[k] \in Node /\ t[k].name = s[k].name /\ t[k].kind = s[k].kind
             /\ t[k].active = s[k].active /\ t[k].path # <<>>
             /\ Last(t[k].path) = IF s[k].path = <<>> THEN name ELSE Last(s[k].path)
             /\ Range(t[k].path) = {name} \cup Range(s[k].path)
  <2>1. s[k] \in Node
    BY <1>2, <1>3
  <2>2. s[k].path \in Seq(Names)
    BY <2>1 DEF Node
  <2> PICK p : p = <<name>> \o s[k].path
    OBVIOUS
  <2>3. /\ p \in Seq(Names) /\ p # <<>>
        /\ Last(p) = IF s[k].path = <<>> THEN name ELSE Last(s[k].path)
        /\ Range(p) = {name} \cup Range(s[k].path)
    BY <1>0, <2>2, LastOfPath, PathMembers
  <2>4. t[k] = [s[k] EXCEPT !.path = p]
    BY <1>3
  <2>5. /\ t[k].path = p /\ t[k].name = s[k].name /\ t[k].kind = s[k].kind
        /\ t[k].active = s[k].active /\ t[k] \in Node
    BY <2>1, <2>3, <2>4 DEF Node
  <2> QED
    BY <2>3, <2>5
<1>4. t \in Seq(Node) /\ Len(t) = Len(s) /\ DOMAIN t = DOMAIN s
  <2>1. DOMAIN s = 1 .. Len(s) /\ Len(s) \in Nat
    BY <1>2
  <2>2. t \in [1 .. Len(s) -> Node]
    BY <1>3, <2>1
  <2>3. DOMAIN t = 1 .. Len(s)
    BY <2>1
  <2>4. t \in Seq(Node)
    BY ONLY <2>1, <2>2
  <2>5. Len(t) = Len(s)
    BY ONLY <2>1, <2>3, <2>4
  <2> QED
    BY <2>1, <2>3, <2>4, <2>5
<1> PICK r : r = <<root>> \o t
  OBVIOUS
<1>5. r = Over(Made(name, kind, active), s)
  <2>1. Made(name, kind, active)[1] = root
    BY <1>1
  <2> QED
    BY <1>1, <2>1 DEF Over
<1>6. /\ r \in Seq(Node) /\ r[1] = root /\ 1 \in DOMAIN r /\ Len(r) = Len(t) + 1
      /\ \A k \in DOMAIN t : k + 1 \in DOMAIN r /\ r[k + 1] = t[k]
  <2>1. Leads(r, root, t)
    BY <1>1, <1>4, FirstAndRest
  <2> QED
    BY <2>1 DEF Leads
<1>7. ASSUME NEW i \in DOMAIN r, i # 1 PROVE \E k \in DOMAIN t : i = k + 1
  <2>1. i - 1 \in DOMAIN t /\ i = (i - 1) + 1
    BY <1>4, <1>6, <1>7
  <2> QED
    BY <2>1
<1>8. At(r, 1, top, above)
  <2>1. r[1].path = <<>> /\ r[1].name = name /\ r[1].kind = kind /\ r[1].active = active
    BY <1>6
  <2>2. Range(<<>>) = {}
    BY DEF Range
  <2> QED
    BY <2>1, <2>2 DEF At
<1>9. ASSUME NEW k \in DOMAIN s PROVE At(r, k + 1, top, above)
  <2>1. At(s, k, name, above \cup {name})
    BY DEF Placed
  <2>2. r[k + 1] = t[k]
    BY <1>4, <1>6
  <2>3. \A x : (\E j \in DOMAIN s : s[j].name = x) \/ x = name => \E j \in DOMAIN r : r[j].name = x
    <3>1. r[1].name = name
      BY <1>1, <1>6
    <3>2. \A j \in DOMAIN s : j + 1 \in DOMAIN r /\ r[j + 1].name = s[j].name
      BY <1>3, <1>4, <1>6
    <3>3. ASSUME NEW x, NEW j \in DOMAIN s, s[j].name = x PROVE \E m \in DOMAIN r : r[m].name = x
      BY <3>2, <3>3
    <3> SUFFICES ASSUME NEW x, (\E j \in DOMAIN s : s[j].name = x) \/ x = name
                 PROVE  \E m \in DOMAIN r : r[m].name = x
      OBVIOUS
    <3>4. CASE x = name
      BY <1>6, <3>1, <3>4
    <3> QED
      BY <3>3, <3>4
  <2>4. Range(r[k + 1].path) = {name} \cup Range(s[k].path)
    BY <1>3, <2>2
  <2>5. above \cup Range(r[k + 1].path) = AboveOf(r[k + 1].name)
    <3>1. (above \cup {name}) \cup Range(s[k].path) = AboveOf(s[k].name)
      BY <2>1 DEF At
    <3>2. r[k + 1].name = s[k].name
      BY <1>3, <2>2
    <3> QED
      BY <2>4, <3>1, <3>2
  <2>6. (IF r[k + 1].path = <<>> THEN top ELSE Last(r[k + 1].path)) = ParentOf(r[k + 1].name)
    <3>1. r[k + 1].path # <<>> /\ Last(r[k + 1].path) = IF s[k].path = <<>> THEN name ELSE Last(s[k].path)
      BY <1>3, <2>2
    <3>2. (IF s[k].path = <<>> THEN name ELSE Last(s[k].path)) = ParentOf(s[k].name)
      BY <2>1 DEF At
    <3>3. r[k + 1].name = s[k].name
      BY <1>3, <2>2
    <3> QED
      BY <3>1, <3>2, <3>3
  <2>7. r[k + 1].kind = KindOf(r[k + 1].name) /\ (r[k + 1].kind = "mode" => r[k + 1].active = TRUE)
    <3>1. s[k].kind = KindOf(s[k].name) /\ (s[k].kind = "mode" => s[k].active = TRUE)
      BY <2>1 DEF At
    <3>2. t[k].name = s[k].name /\ t[k].kind = s[k].kind /\ t[k].active = s[k].active
      BY <1>3
    <3> QED
      BY ONLY <2>2, <3>1, <3>2
  <2>8. \A x \in Range(r[k + 1].path) : \E j \in DOMAIN r : r[j].name = x
    BY <2>1, <2>3, <2>4 DEF At
  <2>9. r[k + 1].name \in Usable
    <3>1. s[k].name \in Usable
      BY <2>1 DEF At
    <3> QED
      BY <1>3, <2>2, <3>1
  <2> QED
    BY <2>5, <2>6, <2>7, <2>8, <2>9 DEF At
<1>10. \A i \in DOMAIN r : At(r, i, top, above)
  <2> SUFFICES ASSUME NEW i \in DOMAIN r, i # 1 PROVE At(r, i, top, above)
    BY <1>8
  <2>1. PICK k \in DOMAIN t : i = k + 1
    BY <1>7
  <2>2. At(r, k + 1, top, above)
    BY <1>4, <1>9
  <2> QED
    BY ONLY <2>1, <2>2
<1> QED
  BY <1>5, <1>6, <1>10 DEF Placed

LEMMA LeafPlaced ==
  ASSUME NEW c, NEW provider \in Names, NEW name, NEW top, NEW above,
         name = IF provider = "PMFixedFreqAdv" THEN "PMFixedFreq" ELSE provider,
         name \notin {"PMPowerStateMode", "PMFreqMode"},
         KindOf(name) = "leaf", ParentOf(name) = top, AboveOf(name) = above
  PROVE  Placed(Leaf(c, provider), top, above)
<1> PICK leaf : leaf = [name |-> name, kind |-> "leaf",
                        active |-> provider \notin {"PMFixed", "PMDynamicFreq", "FanFixed", "FanCurve"},
                        path |-> <<>>]
  OBVIOUS
<1>0. name \in Names /\ name \in Usable
  BY DEF Names, Usable
<1>1. leaf \in Node /\ leaf.path = <<>> /\ leaf.kind = "leaf" /\ leaf.name = name
  BY <1>0 DEF Node
<1>2. Placed(<<leaf>>, top, above)
  <2> PICK s : s = <<leaf>>
    OBVIOUS
  <2>1. s \in Seq(Node) /\ DOMAIN s = {1} /\ s[1] = leaf
    BY <1>1
  <2>2. Range(<<>>) = {}
    BY DEF Range
  <2>3. At(s, 1, top, above)
    BY <1>0, <1>1, <2>1, <2>2 DEF At
  <2> QED
    BY <2>1, <2>3 DEF Placed
<1>3. Leaf(c, provider) = <<>> \/ Leaf(c, provider) = <<leaf>>
  BY DEF Leaf, Made
<1> QED
  BY <1>2, <1>3, NonePlaced

LEMMA HoldingPlaced ==
  ASSUME NEW name \in Usable, NEW kind \in {"mode", "group"}, NEW active \in BOOLEAN,
         NEW top, NEW above, NEW s, Placed(s, name, above \cup {name}),
         kind = "mode" => active = TRUE,
         KindOf(name) = kind, ParentOf(name) = top, AboveOf(name) = above
  PROVE  Placed(Holding(name, kind, active, s), top, above)
<1>1. Placed(Over(Made(name, kind, active), s), top, above)
  BY OverPlaced
<1> QED
  BY <1>1, NonePlaced DEF Holding

LEMMA HoldingNoopPlaced ==
  ASSUME NEW name \in Usable, NEW noop \in Usable, NEW top, NEW above, NEW s,
         Placed(s, name, above \cup {name}),
         KindOf(name) = "mode", ParentOf(name) = top, AboveOf(name) = above,
         KindOf(noop) = "leaf", ParentOf(noop) = name, AboveOf(noop) = above \cup {name}
  PROVE  Placed(HoldingNoop(name, noop, s), top, above)
<1> PICK leaf : leaf = [name |-> noop, kind |-> "leaf", active |-> TRUE, path |-> <<>>]
  OBVIOUS
<1>1. leaf \in Node /\ leaf.path = <<>> /\ leaf.kind = "leaf" /\ leaf.name = noop
  BY DEF Node, Usable
<1> PICK n : n = <<leaf>>
  OBVIOUS
<1>2. n \in Seq(Node) /\ DOMAIN n = {1} /\ n[1] = leaf
  BY <1>1
<1>3. Range(<<>>) = {}
  BY DEF Range
<1>4. At(n, 1, name, above \cup {name})
  BY <1>1, <1>2, <1>3 DEF At
<1>5. Placed(n, name, above \cup {name})
  BY <1>2, <1>4 DEF Placed
<1>6. Placed(s \o n, name, above \cup {name})
  BY <1>5, JoinedPlaced
<1>7. Placed(Over(Made(name, "mode", TRUE), s \o n), top, above)
  BY <1>6, OverPlaced
<1>8. Made(noop, "leaf", TRUE) = n
  BY DEF Made
<1> QED
  BY <1>7, <1>8, NonePlaced DEF HoldingNoop

\* Every node of every component is at its place, for any machine and kernel.
LEMMA FactoryPlaced ==
  ASSUME NEW c \in Components
  PROVE  Placed(SysModel[c], Root[c], {})
<1> DEFINE G == {} \cup {"GPU"}
           P == G \cup {"PMPerfMode"}
           A == P \cup {"PMAdvanced"}
           O == A \cup {"PMOverclock"}
           F == O \cup {"PMFreqMode"}
           D == A \cup {"PMOverdrive"}
           S == G \cup {"PMPowerStateMode"}
           N == G \cup {"FanMode"}
           C == {} \cup {"CPU"}
           Q == C \cup {"CPUFreqMode"}
<1>1. \A n \in {"GPU", "CPU"} : KindOf(n) = "component" /\ ParentOf(n) = n /\ AboveOf(n) = {}
  BY DEF KindOf, ParentOf, AboveOf, TopModes
<1>2. \A n \in {"PMPerfMode", "PMPowerStateMode", "FanMode"} :
        KindOf(n) = "mode" /\ ParentOf(n) = "GPU" /\ AboveOf(n) = G
  BY DEF KindOf, ParentOf, AboveOf, TopModes, PathBelow
<1>3. KindOf("CPUFreqMode") = "mode" /\ ParentOf("CPUFreqMode") = "CPU" /\ AboveOf("CPUFreqMode") = C
  BY DEF KindOf, ParentOf, AboveOf, TopModes, PathBelow
<1>4. \A n \in {"PMAuto", "PMFixed", "PMPerfModeNoop"} :
        KindOf(n) = "leaf" /\ ParentOf(n) = "PMPerfMode" /\ AboveOf(n) = P
  BY DEF KindOf, ParentOf, AboveOf, TopModes, PathBelow
<1>5. KindOf("PMAdvanced") = "group" /\ ParentOf("PMAdvanced") = "PMPerfMode" /\ AboveOf("PMAdvanced") = P
  BY DEF KindOf, ParentOf, AboveOf, TopModes, PathBelow
<1>6. \A n \in {"PMPowerState", "PMPowerStateModeNoop"} :
        KindOf(n) = "leaf" /\ ParentOf(n) = "PMPowerStateMode" /\ AboveOf(n) = S
  BY DEF KindOf, ParentOf, AboveOf, TopModes, PathBelow
<1>7. \A n \in {"FanAuto", "FanFixed", "FanCurve", "FanModeNoop"} :
        KindOf(n) = "leaf" /\ ParentOf(n) = "FanMode" /\ AboveOf(n) = N
  BY DEF KindOf, ParentOf, AboveOf, TopModes, PathBelow
<1>8. \A n \in {"CPUFreq", "CPUFreqModeNoop"} :
        KindOf(n) = "leaf" /\ ParentOf(n) = "CPUFreqMode" /\ AboveOf(n) = Q
  BY DEF KindOf, ParentOf, AboveOf, TopModes, PathBelow
<1>9. \A n \in {"PMPowerProfile", "PMPowerCap"} :
        KindOf(n) = "leaf" /\ ParentOf(n) = "PMAdvanced" /\ AboveOf(n) = A
  BY DEF KindOf, ParentOf, AboveOf, TopModes, PathBelow
<1>10. \A n \in {"PMOverclock", "PMOverdrive"} :
        KindOf(n) = "group" /\ ParentOf(n) = "PMAdvanced" /\ AboveOf(n) = A
  BY DEF KindOf, ParentOf, AboveOf, TopModes, PathBelow
<1>11. KindOf("PMFreqMode") = "mode" /\ ParentOf("PMFreqMode") = "PMOverclock" /\ AboveOf("PMFreqMode") = O
  BY DEF KindOf, ParentOf, AboveOf, TopModes, PathBelow
<1>12. KindOf("PMFreqOd") = "leaf" /\ ParentOf("PMFreqOd") = "PMOverclock" /\ AboveOf("PMFreqOd") = O
  BY DEF KindOf, ParentOf, AboveOf, TopModes, PathBelow
<1>13. /\ KindOf("PMDynamicFreq") = "leaf" /\ ParentOf("PMDynamicFreq") = "PMFreqMode"
       /\ AboveOf("PMDynamicFreq") = F
  BY DEF KindOf, ParentOf, AboveOf, TopModes, PathBelow
<1>14. KindOf("PMFixedFreq") = "leaf"
  BY DEF KindOf, TopModes
<1>15. ByPercentage => ParentOf("PMFixedFreq") = "PMFreqMode" /\ AboveOf("PMFixedFreq") = F
  BY DEF ParentOf, AboveOf, PathBelow
<1>16. ~ByPercentage => ParentOf("PMFixedFreq") = "PMAdvanced" /\ AboveOf("PMFixedFreq") = A
  BY DEF ParentOf, AboveOf, PathBelow
<1>17. \A n \in {"PMFreqRange", "PMFreqVolt", "PMVoltCurve", "PMVoltOffset"} :
         KindOf(n) = "leaf" /\ ParentOf(n) = "PMOverdrive" /\ AboveOf(n) = D
  BY DEF KindOf, ParentOf, AboveOf, TopModes, PathBelow
<1>18. \A top, above : \A p \in Names \ {"PMFixedFreqAdv", "PMPowerStateMode", "PMFreqMode"} :
         KindOf(p) = "leaf" /\ ParentOf(p) = top /\ AboveOf(p) = above => Placed(Leaf(c, p), top, above)
  BY LeafPlaced
<1>19. ASSUME ByPercentage PROVE Placed(PMFreqMode(c), "PMOverclock", O)
  <2>1. Placed(Leaf(c, "PMDynamicFreq"), "PMFreqMode", F) /\ Placed(Leaf(c, "PMFixedFreq"), "PMFreqMode", F)
    BY <1>13, <1>14, <1>15, <1>18, <1>19 DEF Names
  <2>2. Placed(Leaf(c, "PMDynamicFreq") \o Leaf(c, "PMFixedFreq"), "PMFreqMode", F)
    BY <2>1, JoinedPlaced
  <2> QED
    BY <1>11, <1>19, <2>2, HoldingPlaced DEF Names, Usable, PMFreqMode
<1>20. Placed(PMOverclock(c), "PMAdvanced", A)
  <2>1. CASE ByPercentage
    <3>1. Placed(PMFreqMode(c) \o Leaf(c, "PMFreqOd"), "PMOverclock", O)
      BY <1>12, <1>18, <1>19, <2>1, JoinedPlaced DEF Names
    <3>2. Placed(Holding("PMOverclock", "group", TRUE, PMFreqMode(c) \o Leaf(c, "PMFreqOd")), "PMAdvanced", A)
      BY <1>10, <3>1, HoldingPlaced DEF Names, Usable
    <3> QED
      BY <3>2, NonePlaced DEF PMOverclock
  <2>2. CASE ~ByPercentage
    BY <2>2, NonePlaced DEF PMOverclock
  <2> QED
    BY <2>1, <2>2
<1>21. Placed(PMOverdrive(c), "PMAdvanced", A)
  <2>1. Placed(Leaf(c, "PMFreqRange") \o Leaf(c, "PMFreqVolt")
                 \o Leaf(c, "PMVoltCurve") \o Leaf(c, "PMVoltOffset"), "PMOverdrive", D)
    BY <1>17, <1>18, JoinedPlaced DEF Names
  <2>2. Placed(Holding("PMOverdrive", "group", FALSE,
                 Leaf(c, "PMFreqRange") \o Leaf(c, "PMFreqVolt")
                   \o Leaf(c, "PMVoltCurve") \o Leaf(c, "PMVoltOffset")),
               "PMAdvanced", A)
    BY <1>10, <2>1, HoldingPlaced DEF Names, Usable
  <2> QED
    BY <2>2, NonePlaced DEF PMOverdrive
<1>22. Placed(Leaf(c, "PMFixedFreqAdv"), "PMAdvanced", A)
  <2>1. CASE ByPercentage
    <3>1. Leaf(c, "PMFixedFreqAdv") = <<>>
      BY <2>1, FixedFreqAssumption DEF Leaf
    <3> QED
      BY <3>1, NonePlaced
  <2>2. CASE ~ByPercentage
    BY <1>14, <1>16, <2>2, LeafPlaced DEF Names
  <2> QED
    BY <2>1, <2>2
<1>23. Placed(PMAdvanced(c), "PMPerfMode", P)
  <2>1. Placed(PMOverclock(c) \o PMOverdrive(c)
                 \o Leaf(c, "PMFixedFreqAdv") \o Leaf(c, "PMPowerProfile") \o Leaf(c, "PMPowerCap"),
               "PMAdvanced", A)
    BY <1>9, <1>18, <1>20, <1>21, <1>22, JoinedPlaced DEF Names
  <2> QED
    BY <1>5, <2>1, HoldingPlaced DEF Names, Usable, PMAdvanced
<1>24. Placed(PMPerfMode(c), "GPU", G)
  <2>1. Placed(Leaf(c, "PMAuto") \o Leaf(c, "PMFixed") \o PMAdvanced(c), "PMPerfMode", P)
    BY <1>4, <1>18, <1>23, JoinedPlaced DEF Names
  <2> QED
    BY <1>2, <1>4, <2>1, HoldingNoopPlaced DEF Names, Usable, PMPerfMode
<1>25. Placed(PMPowerStateMode(c), "GPU", G)
  <2>1. Placed(Leaf(c, "PMPowerState"), "PMPowerStateMode", S)
    BY <1>6, <1>18 DEF Names
  <2>2. CASE PowerStateFound
    BY <1>2, <1>6, <2>1, <2>2, HoldingNoopPlaced DEF Names, Usable, PMPowerStateMode
  <2>3. CASE ~PowerStateFound
    <3>1. Leaf(c, "PMPowerState") = <<>>
      BY <2>3 DEF PowerStateFound, Leaf
    <3> QED
      BY <3>1, NonePlaced DEF PMPowerStateMode, HoldingNoop
  <2> QED
    BY <2>2, <2>3
<1>26. Placed(FanMode(c), "GPU", G)
  <2>1. Placed(Leaf(c, "FanAuto") \o Leaf(c, "FanFixed") \o Leaf(c, "FanCurve"), "FanMode", N)
    BY <1>7, <1>18, JoinedPlaced DEF Names
  <2>2. /\ KindOf("FanMode") = "mode" /\ ParentOf("FanMode") = "GPU" /\ AboveOf("FanMode") = G
        /\ KindOf("FanModeNoop") = "leaf" /\ ParentOf("FanModeNoop") = "FanMode" /\ AboveOf("FanModeNoop") = N
        /\ {"FanMode", "FanModeNoop"} \subseteq Usable
    BY <1>2, <1>7 DEF Names, Usable
  <2> QED
    BY <2>1, <2>2, HoldingNoopPlaced DEF FanMode
<1>27. Placed(CPUFreqMode(c), "CPU", C)
  <2>1. Placed(Leaf(c, "CPUFreq"), "CPUFreqMode", Q)
    BY <1>8, <1>18 DEF Names
  <2> QED
    BY <1>3, <1>8, <2>1, HoldingNoopPlaced DEF Names, Usable, CPUFreqMode
<1>28. Placed(GPU(c), "GPU", {})
  <2>1. Placed(PMPerfMode(c) \o PMPowerStateMode(c) \o FanMode(c), "GPU", G)
    BY <1>24, <1>25, <1>26, JoinedPlaced
  <2> QED
    BY <1>1, <2>1, OverPlaced DEF Names, Usable, GPU
<1>29. Placed(CPU(c), "CPU", {})
  BY <1>1, <1>27, OverPlaced DEF Names, Usable, CPU
<1>30. Root[c] \in {"GPU", "CPU"} /\ Root[c] = Machine[c].class
  BY TreeAssumption DEF Root, Components
<1> QED
  BY <1>28, <1>29, <1>30 DEF SysModel

\* The trees of the components are as the tables say.
NodeAt(c, n) ==
  /\ n \in Usable
  /\ Kind[n] = KindOf(n) /\ Parent[n] = ParentOf(n) /\ Above[n] = AboveOf(n)
  /\ AboveOf(n) \subseteq TreeOf[c]
  /\ KindOf(n) = "component" => n = Root[c]
  /\ shape.active[n] \in BOOLEAN /\ (KindOf(n) = "mode" => shape.active[n] = TRUE)
  /\ n # Absent

TreesInv ==
  \A c \in Components :
    /\ \A n \in TreeOf[c] : NodeAt(c, n)
    /\ Modes[c] = {n \in TreeOf[c] : KindOf(n) = "mode"}
    /\ Leaves[c] = {n \in TreeOf[c] : KindOf(n) = "leaf"}
    /\ \A m \in TreeOf[c] : ChildrenOf[c][m] \subseteq {n \in TreeOf[c] : ParentOf(n) = m}

Holders ==
  {"GPU", "CPU", "PMPerfMode", "PMPowerStateMode", "FanMode", "CPUFreqMode", "PMAdvanced", "PMOverclock",
   "PMOverdrive", "PMFreqMode"}

\* Every node but a component is below another one.
LEMMA HeldByParent ==
  ASSUME NEW n \in Names \ {"GPU", "CPU"}
  PROVE  ParentOf(n) \in Holders /\ ParentOf(n) \in AboveOf(n) /\ AboveOf(n) = PathBelow(ParentOf(n))
<1>1. ParentOf(n) \in Holders
  BY DEF ParentOf, Names, Holders
<1>2. \A h \in Holders : h \in PathBelow(h)
  BY DEF Holders, PathBelow
<1>3. AboveOf(n) = PathBelow(ParentOf(n))
  BY DEF AboveOf
<1> QED
  BY <1>1, <1>2, <1>3

\* What is known of a node, in whatever component it is.
LEMMA MadeAt ==
  ASSUME NEW c \in Components, NEW node \in Range(SysModel[c])
  PROVE  /\ node.name \in Usable /\ node.active \in BOOLEAN /\ node.name # Absent
         /\ node.kind = KindOf(node.name)
         /\ Range(node.path) = AboveOf(node.name)
         /\ (IF node.path = <<>> THEN node.name ELSE Last(node.path)) = ParentOf(node.name)
         /\ node.kind = "mode" => node.active = TRUE
         /\ AboveOf(node.name) \subseteq NamesOf(Range(SysModel[c]))
         /\ node.kind = "component" => node.name = Root[c]
<1> PICK s : s = SysModel[c]
  OBVIOUS
<1>1. Placed(s, Root[c], {})
  BY FactoryPlaced
<1> PICK i \in DOMAIN s : node = s[i]
  BY DEF Range
<1>2. node \in Node /\ At(s, i, Root[c], {})
  BY <1>1 DEF Placed
<1>3. node.name \in Names /\ node.active \in BOOLEAN
  BY <1>2 DEF Node
<1>14. node.name \in Usable
  BY <1>2 DEF At
<1>4. node.name # Absent
  BY NamesAssumption
<1>5. /\ Range(node.path) = AboveOf(node.name) /\ node.kind = KindOf(node.name)
      /\ (IF node.path = <<>> THEN Root[c] ELSE Last(node.path)) = ParentOf(node.name)
      /\ node.kind = "mode" => node.active = TRUE
      /\ \A x \in Range(node.path) : \E j \in DOMAIN s : s[j].name = x
  BY <1>2 DEF At
<1>6. AboveOf(node.name) \subseteq NamesOf(Range(s))
  BY <1>5 DEF NamesOf, Range
<1>7. AboveOf(node.name) = {} <=> node.name \in {"GPU", "CPU"}
  BY <1>3, HeldByParent DEF AboveOf
<1>8. KindOf(node.name) = "component" <=> node.name \in {"GPU", "CPU"}
  BY DEF KindOf, TopModes
<1>9. node.path = <<>> <=> Range(node.path) = {}
  <2>1. node.path \in Seq(Names)
    BY <1>2 DEF Node
  <2>2. ASSUME node.path # <<>> PROVE node.path[1] \in Range(node.path)
    BY <2>1, <2>2 DEF Range
  <2>3. Range(<<>>) = {}
    BY DEF Range
  <2> QED
    BY <2>2, <2>3
<1>10. node.name \in {"GPU", "CPU"} => ParentOf(node.name) = node.name
  BY DEF ParentOf
<1>11. ASSUME node.path = <<>> PROVE node.name = Root[c] /\ ParentOf(node.name) = node.name
  BY <1>5, <1>7, <1>9, <1>10, <1>11
<1>12. node.kind = "component" => node.name = Root[c]
  BY <1>5, <1>7, <1>8, <1>9, <1>11
<1>13. (IF node.path = <<>> THEN node.name ELSE Last(node.path)) = ParentOf(node.name)
  BY <1>5, <1>11
<1> QED
  BY <1>3, <1>4, <1>5, <1>6, <1>12, <1>13, <1>14

LEMMA ShapeIsTrees ==
  ASSUME ShapeInv
  PROVE  TreesInv
<1> PICK model : model = SysModel
  OBVIOUS
<1> PICK nodes : nodes = UNION {Range(model[d]) : d \in Components}
  OBVIOUS
<1>1. ASSUME NEW n \in NamesOf(nodes)
      PROVE  \E node \in nodes : node.name = n /\ node = CHOOSE x \in nodes : x.name = n
  BY <1>1 DEF NamesOf
<1>2. \A node \in nodes : \E d \in Components : node \in Range(SysModel[d])
  OBVIOUS
<1>3. /\ TreeOf = [c \in Components |-> NamesOf(Range(model[c]))]
      /\ Kind = [n \in NamesOf(nodes) |-> (CHOOSE x \in nodes : x.name = n).kind]
      /\ shape.active = [n \in NamesOf(nodes) |-> (CHOOSE x \in nodes : x.name = n).active]
      /\ Above = [n \in NamesOf(nodes) |-> Range((CHOOSE x \in nodes : x.name = n).path)]
      /\ Parent = [n \in NamesOf(nodes) |->
                    IF (CHOOSE x \in nodes : x.name = n).path = <<>> THEN n
                    ELSE Last((CHOOSE x \in nodes : x.name = n).path)]
      /\ Modes = [c \in Components |-> NamesOf(OfKind(Range(model[c]), "mode"))]
      /\ Leaves = [c \in Components |-> NamesOf(OfKind(Range(model[c]), "leaf"))]
      /\ ChildrenOf = [c \in Components |-> [n \in NamesOf(nodes) |-> NamesOf(Held(Range(model[c]), n))]]
  BY DEF ShapeInv, ShapeOf, TreeOf, Kind, Above, Parent, Modes, Leaves, ChildrenOf
<1>4. ASSUME NEW n \in NamesOf(nodes)
      PROVE  /\ n \in Usable /\ Kind[n] = KindOf(n) /\ Parent[n] = ParentOf(n) /\ Above[n] = AboveOf(n)
             /\ shape.active[n] \in BOOLEAN /\ (KindOf(n) = "mode" => shape.active[n] = TRUE) /\ n # Absent
  <2> PICK node \in nodes : node.name = n /\ node = CHOOSE x \in nodes : x.name = n
    BY <1>1
  <2> PICK d \in Components : node \in Range(SysModel[d])
    BY <1>2
  <2>1. Kind[n] = node.kind /\ shape.active[n] = node.active /\ Above[n] = Range(node.path)
        /\ Parent[n] = IF node.path = <<>> THEN n ELSE Last(node.path)
    BY <1>3
  <2> QED
    BY <2>1, MadeAt
<1> SUFFICES ASSUME NEW c \in Components
             PROVE  /\ \A n \in TreeOf[c] : NodeAt(c, n)
                    /\ Modes[c] = {n \in TreeOf[c] : KindOf(n) = "mode"}
                    /\ Leaves[c] = {n \in TreeOf[c] : KindOf(n) = "leaf"}
                    /\ \A m \in TreeOf[c] : ChildrenOf[c][m] \subseteq {n \in TreeOf[c] : ParentOf(n) = m}
  BY DEF TreesInv
<1>5. TreeOf[c] = NamesOf(Range(model[c])) /\ TreeOf[c] \subseteq NamesOf(nodes)
  BY <1>3 DEF NamesOf
<1>6. ASSUME NEW n \in TreeOf[c]
      PROVE  /\ \E node \in Range(SysModel[c]) : node.name = n
  BY <1>5, <1>6 DEF NamesOf
<1>7. ASSUME NEW n \in TreeOf[c] PROVE NodeAt(c, n)
  <2> PICK node \in Range(SysModel[c]) : node.name = n
    BY <1>6
  <2>1. AboveOf(n) \subseteq TreeOf[c] /\ (KindOf(n) = "component" => n = Root[c])
    BY <1>5, MadeAt
  <2> QED
    BY <1>4, <1>5, <2>1 DEF NodeAt
<1>8. \A k : NamesOf(OfKind(Range(model[c]), k)) = {n \in TreeOf[c] : KindOf(n) = k}
  <2> SUFFICES ASSUME NEW k, NEW n
               PROVE  n \in NamesOf(OfKind(Range(model[c]), k)) <=> n \in TreeOf[c] /\ KindOf(n) = k
    OBVIOUS
  <2>1. \A node \in Range(model[c]) : node.kind = KindOf(node.name)
    BY MadeAt
  <2> QED
    BY <1>5, <2>1 DEF NamesOf, OfKind
<1>9. ASSUME NEW m \in TreeOf[c], NEW n \in ChildrenOf[c][m] PROVE n \in TreeOf[c] /\ ParentOf(n) = m
  <2>1. ChildrenOf[c][m] = NamesOf(Held(Range(model[c]), m))
    BY <1>3, <1>5
  <2> PICK node \in Range(model[c]) : node.name = n /\ node.path # <<>> /\ Last(node.path) = m
    BY <1>9, <2>1 DEF NamesOf, Held
  <2>2. ParentOf(n) = m
    BY MadeAt
  <2> QED
    BY <1>5, <2>2 DEF NamesOf
<1> QED
  BY <1>3, <1>7, <1>8, <1>9

-----------------------------------------------------------------------------
(***************************************************************************)
(* What is saved                                                           *)
(***************************************************************************)

\* The attributes of a part can be told from no attribute, and its modes below the component are active.
Plain(c, p) ==
  /\ p.active \in [TreeOf[c] -> BOOLEAN]
  /\ \A n \in TreeOf[c] : n \in TopModes => p.active[n] = TRUE
  /\ p.value = [leaf \in Leaves[c] |-> p.value[leaf]]
  /\ \A leaf \in Leaves[c] : p.value[leaf] # Absent

\* So are those of the nodes of a file.
PlainNodes(nodes) ==
  \A n \in DOMAIN nodes : nodes[n].active \in BOOLEAN /\ (n \in TopModes => nodes[n].active = TRUE)

PlainParts == \A profile \in Profiles, c \in Components : Plain(c, parts[profile][c])
PlainFiles == \A profile \in Profiles, c \in Components : PlainNodes(files[profile][c].nodes)
SavedInv == IInv /\ PlainParts /\ PlainFiles

\* The parent of a node is the last above it.
LEMMA ParentIsLast ==
  ASSUME NEW n \in Names \ {"GPU", "CPU"}
  PROVE  AboveOf(n) = AboveOf(ParentOf(n)) \cup {ParentOf(n)}
<1> PICK m \in Holders : m = ParentOf(n)
  BY HeldByParent
<1>1. AboveOf(n) = PathBelow(m)
  BY HeldByParent
<1>2. CASE m \in {"GPU", "CPU"}
  BY <1>1, <1>2 DEF AboveOf, PathBelow
<1>3. CASE m \in {"PMPerfMode", "PMPowerStateMode", "FanMode"}
  <2>1. ParentOf(m) = "GPU"
    BY <1>3 DEF ParentOf
  <2> QED
    BY <1>1, <1>3, <2>1 DEF AboveOf, PathBelow
<1>4. CASE m = "CPUFreqMode"
  <2>1. ParentOf(m) = "CPU"
    BY <1>4 DEF ParentOf
  <2> QED
    BY <1>1, <1>4, <2>1 DEF AboveOf, PathBelow
<1>5. CASE m = "PMAdvanced"
  <2>1. ParentOf(m) = "PMPerfMode"
    BY <1>5 DEF ParentOf
  <2> QED
    BY <1>1, <1>5, <2>1 DEF AboveOf, PathBelow
<1>6. CASE m \in {"PMOverclock", "PMOverdrive"}
  <2>1. ParentOf(m) = "PMAdvanced"
    BY <1>6 DEF ParentOf
  <2> QED
    BY <1>1, <1>6, <2>1 DEF AboveOf, PathBelow
<1>7. CASE m = "PMFreqMode"
  <2>1. ParentOf(m) = "PMOverclock"
    BY <1>7 DEF ParentOf
  <2> QED
    BY <1>1, <1>7, <2>1 DEF AboveOf, PathBelow
<1> QED
  BY <1>2, <1>3, <1>4, <1>5, <1>6, <1>7 DEF Holders

\* Neither modes nor groups are over the modes below a component; the lifted nodes are no leaves.
LEMMA KindsOfNames ==
  /\ \A n : KindOf(n) = "component" <=> n \in {"GPU", "CPU"}
  /\ \A n \in TopModes : n \notin {"GPU", "CPU"} /\ KindOf(ParentOf(n)) = "component" /\ KindOf(n) = "mode"
  /\ \A n \in {"PMPowerStateMode", "CPUFreqMode", "PMOverdrive"} :
       n \notin {"GPU", "CPU"} /\ KindOf(n) # "leaf"
<1>1. \A n : KindOf(n) = "component" <=> n \in {"GPU", "CPU"}
  BY DEF KindOf, TopModes
<1>2. \A n \in TopModes : ParentOf(n) \in {"GPU", "CPU"}
  BY DEF ParentOf, TopModes
<1> QED
  BY <1>1, <1>2 DEF KindOf, TopModes

\* What is active in a part that was imported.
LEMMA ActivePlain ==
  ASSUME TreesInv, NEW c \in Components, NEW asked, NEW mode, asked \in [TreeOf[c] -> BOOLEAN],
         \A n \in TreeOf[c] : n \in TopModes => asked[n] = TRUE
  PROVE  /\ ActiveNodes(c, asked, mode) \in [TreeOf[c] -> BOOLEAN]
         /\ \A n \in TreeOf[c] : n \in TopModes => ActiveNodes(c, asked, mode)[n] = TRUE
<1> PICK a : a = ActiveNodes(c, asked, mode)
  OBVIOUS
<1>1. a = [n \in TreeOf[c] |-> IF Under(n, "mode") THEN n = mode[Parent[n]]
                               ELSE IF Under(n, "group") THEN TRUE
                               ELSE asked[n]]
  BY DEF ActiveNodes
<1>2. ASSUME NEW n \in TreeOf[c] PROVE a[n] \in BOOLEAN
  BY <1>1
<1>3. ASSUME NEW n \in TreeOf[c], n \in TopModes PROVE a[n] = TRUE
  <2>1. NodeAt(c, n)
    BY DEF TreesInv
  <2>2. Parent[n] = ParentOf(n) /\ Above[n] = AboveOf(n) /\ n \in Names /\ AboveOf(n) \subseteq TreeOf[c]
    BY <2>1 DEF NodeAt, Usable
  <2>3. ParentOf(n) \in TreeOf[c]
    BY <1>3, <2>2, HeldByParent, KindsOfNames
  <2>4. Kind[ParentOf(n)] = KindOf(ParentOf(n))
    BY <2>3 DEF TreesInv, NodeAt
  <2>5. ~Under(n, "mode") /\ ~Under(n, "group")
    BY <1>3, <2>2, <2>4, KindsOfNames DEF Under
  <2> QED
    BY <1>1, <1>3, <2>5
<1> QED
  BY <1>1, <1>2, <1>3

LEMMA ImportPlain ==
  ASSUME TreesInv, NEW c \in Components, NEW p, NEW i, Plain(c, i)
  PROVE  Plain(c, ImportPart(c, p, i))
<1> PICK mode : mode = Selected(c, i.mode, p.mode)
  OBVIOUS
<1> PICK r : r = [active |-> ActiveNodes(c, i.active, mode), mode |-> mode, value |-> i.value]
  OBVIOUS
<1>1. r = ImportPart(c, p, i)
  BY DEF ImportPart
<1>2. r.active = ActiveNodes(c, i.active, mode) /\ r.value = i.value
  OBVIOUS
<1>3. /\ ActiveNodes(c, i.active, mode) \in [TreeOf[c] -> BOOLEAN]
      /\ \A n \in TreeOf[c] : n \in TopModes => ActiveNodes(c, i.active, mode)[n] = TRUE
  BY ActivePlain DEF Plain
<1>4. Plain(c, r)
  BY <1>2, <1>3 DEF Plain
<1> QED
  BY <1>1, <1>4

LEMMA DefaultPlain ==
  ASSUME TreesInv, NEW c \in Components
  PROVE  Plain(c, DefaultPart[c])
<1> PICK d : d = DefaultPart[c]
  OBVIOUS
<1> PICK mode : mode = [m \in Modes[c] |-> First(c, m)]
  OBVIOUS
<1>1. d.active = ActiveNodes(c, shape.active, mode) /\ d.value = [leaf \in Leaves[c] |-> Factory]
  BY DEF DefaultPart, SettingsOf, InitialControls
<1> PICK asked : asked = [n \in TreeOf[c] |-> shape.active[n]]
  OBVIOUS
<1>2. ASSUME NEW n \in TreeOf[c] PROVE asked[n] \in BOOLEAN /\ (n \in TopModes => asked[n] = TRUE)
  BY KindsOfNames DEF TreesInv, NodeAt
<1>3. ActiveNodes(c, shape.active, mode) = ActiveNodes(c, asked, mode)
  BY DEF ActiveNodes
<1>4. /\ ActiveNodes(c, asked, mode) \in [TreeOf[c] -> BOOLEAN]
      /\ \A n \in TreeOf[c] : n \in TopModes => ActiveNodes(c, asked, mode)[n] = TRUE
  BY <1>2, ActivePlain
<1> QED
  BY <1>1, <1>3, <1>4, TreeAssumption DEF Plain

LEMMA LoadedPlain ==
  ASSUME TreesInv, NEW c \in Components, NEW nodes, PlainNodes(nodes)
  PROVE  Plain(c, LoadedNode(c, nodes, DefaultPart[c]))
<1> PICK d : d = DefaultPart[c]
  OBVIOUS
<1>1. Plain(c, d)
  BY DefaultPlain
<1> PICK r : r = LoadedNode(c, nodes, d)
  OBVIOUS
<1>2. /\ r.active = [n \in TreeOf[c] |-> LoadedActive(nodes, n, d.active[n])]
      /\ r.value = [leaf \in Leaves[c] |-> Attribute(nodes, leaf, "value", d.value[leaf])]
  BY DEF LoadedNode
<1>3. ASSUME NEW n \in TreeOf[c]
      PROVE  LoadedActive(nodes, n, d.active[n]) \in BOOLEAN
             /\ (n \in TopModes => LoadedActive(nodes, n, d.active[n]) = TRUE)
  <2>1. d.active[n] \in BOOLEAN /\ (n \in TopModes => d.active[n] = TRUE)
    BY <1>1 DEF Plain
  <2>2. Found(nodes, n) => nodes[n].active \in BOOLEAN /\ (n \in TopModes => nodes[n].active = TRUE)
    BY DEF Found, PlainNodes
  <2> PICK a : a = Attribute(nodes, n, "active", d.active[n])
    OBVIOUS
  <2>3. a = d.active[n] \/ (Found(nodes, n) /\ a = nodes[n].active)
    BY DEF Attribute
  <2>4. a \in BOOLEAN /\ (n \in TopModes => a = TRUE)
    BY <2>1, <2>2, <2>3
  <2> QED
    BY <2>4 DEF LoadedActive
<1>4. ASSUME NEW leaf \in Leaves[c] PROVE Attribute(nodes, leaf, "value", d.value[leaf]) # Absent
  BY <1>1 DEF Attribute, Plain
<1>5. Plain(c, r)
  BY <1>2, <1>3, <1>4 DEF Plain
<1> QED
  BY <1>5

LEMMA FilePlain ==
  ASSUME TreesInv, NEW c \in Components, NEW own, NEW file,
         \A d \in Components : PlainNodes(file[d].nodes)
  PROVE  Plain(c, Loaded(c, own, file))
<1> PICK matching : matching = {d \in Components : Matches(file[d].id, own)}
  OBVIOUS
<1> PICK nodes : nodes = IF matching = {} THEN <<>> ELSE file[CHOOSE d \in matching : TRUE].nodes
  OBVIOUS
<1>1. PlainNodes(<<>>)
  BY DEF PlainNodes
<1>2. PlainNodes(nodes)
  BY <1>1
<1>3. Loaded(c, own, file) = LoadedNode(c, nodes, DefaultPart[c])
  BY DEF Loaded
<1> QED
  BY <1>2, <1>3, LoadedPlain

LEMMA OlderPlain ==
  ASSUME NEW node, PlainNodes(node.nodes)
  PROVE  PlainNodes(Older(node).nodes)
<1> PICK nodes : nodes = node.nodes
  OBVIOUS
<1>1. Older(node).nodes = [n \in DOMAIN nodes \ Lifted |->
                            [nodes[n] EXCEPT !.under = IF @ \in Lifted THEN Parent[@] ELSE @]]
  BY DEF Older
<1>2. \A n \in DOMAIN nodes : \A u : [nodes[n] EXCEPT !.under = u].active = nodes[n].active
  OBVIOUS
<1> QED
  BY <1>1, <1>2 DEF PlainNodes

LEMMA SavedPlain ==
  ASSUME NEW c \in Components, NEW p, Plain(c, p)
  PROVE  PlainNodes(SavedNode(c, p).nodes)
<1>1. SavedNode(c, p).nodes = [n \in TreeOf[c] |-> NodeOf(c, p, n)]
  BY DEF SavedNode
<1>2. \A n : NodeOf(c, p, n).active = p.active[n]
  BY DEF NodeOf
<1> QED
  BY <1>1, <1>2 DEF PlainNodes, Plain

LEMMA EditPlain ==
  ASSUME TreesInv, NEW c \in Components, NEW p, Plain(c, p), NEW item \in Edits(c, p)
  PROVE  Plain(c, item)
<1>1. CASE item \in ComponentItem(c, p)
  <2> PICK b : b = ~p.active[Root[c]]
    OBVIOUS
  <2>1. item = [p EXCEPT !.active[Root[c]] = b]
    BY <1>1 DEF ComponentItem
  <2> PICK a : a = [p.active EXCEPT ![Root[c]] = b]
    OBVIOUS
  <2>2. item = [p EXCEPT !.active = a]
    BY <2>1
  <2>3. Root[c] \notin TopModes
    BY TreeAssumption DEF Root, Components, TopModes
  <2>4. b \in BOOLEAN
    OBVIOUS
  <2>5. a \in [TreeOf[c] -> BOOLEAN] /\ \A n \in TreeOf[c] : n \in TopModes => a[n] = TRUE
    BY <2>3, <2>4 DEF Plain
  <2> QED
    BY <2>2, <2>5 DEF Plain
<1>2. CASE item \in ControlModeItem(c, p)
  <2> PICK items \in {{[p EXCEPT !.mode[m] = n] : n \in ChildrenOf[c][m]} : m \in Modes[c]} : item \in items
    BY <1>2 DEF ControlModeItem
  <2> PICK m \in Modes[c] : items = {[p EXCEPT !.mode[m] = n] : n \in ChildrenOf[c][m]}
    OBVIOUS
  <2> PICK n : item = [p EXCEPT !.mode[m] = n]
    OBVIOUS
  <2>1. item.active = p.active /\ item.value = p.value
    OBVIOUS
  <2> QED
    BY <2>1 DEF Plain
<1>3. CASE item \in ControlItem(c, p)
  <2> PICK leaf \in Leaves[c], value \in Values : item = [p EXCEPT !.value[leaf] = value]
    BY <1>3 DEF ControlItem
  <2>1. item.active = p.active /\ item.value = [p.value EXCEPT ![leaf] = value]
    BY DEF Plain
  <2>2. value # Absent
    BY TreeAssumption
  <2> QED
    BY <2>1, <2>2 DEF Plain
<1> QED
  BY <1>1, <1>2, <1>3 DEF Edits

\* While the shape is the same, a plain part remains so.
LEMMA SamePlain ==
  ASSUME UNCHANGED shape, NEW c, NEW p, Plain(c, p)
  PROVE  Plain(c, p)'
BY DEF Plain, TreeOf, Leaves

LEMMA SavedInit == Init => SavedInv
<1> SUFFICES ASSUME Init PROVE SavedInv
  OBVIOUS
<1>1. IInv /\ TreesInv
  BY InitInv, ShapeIsTrees DEF IInv
<1>2. parts = [profile \in Profiles |-> [c \in Components |-> DefaultPart[c]]]
  BY DEF Init
<1>3. PlainParts
  BY <1>1, <1>2, DefaultPlain DEF PlainParts
<1>4. ASSUME NEW profile \in Profiles, NEW c \in Components PROVE PlainNodes(files[profile][c].nodes)
  <2>1. files[profile][c] = SavedNode(c, parts[profile][c])
    BY DEF Init, SavedFile
  <2>2. Plain(c, parts[profile][c])
    BY <1>3 DEF PlainParts
  <2> QED
    BY <2>1, <2>2, SavedPlain
<1> QED
  BY <1>1, <1>3, <1>4 DEF SavedInv, PlainFiles

LEMMA PlainLoad ==
  ASSUME SavedInv, TreesInv, NEW profile \in Profiles, Load(profile)
  PROVE  \A q \in Profiles, c \in Components : Plain(c, parts'[q][c])
<1> PICK ps : ps = parts'
  OBVIOUS
<1>1. PICK other \in Profiles, older \in BOOLEAN :
        LET file == [c \in Components |-> IF older THEN Older(files[other][c]) ELSE files[other][c]]
        IN  ps = [parts EXCEPT ![profile] =
                   [c \in Components |-> ImportPart(c, @[c], Loaded(c, IdentityOf(c), file))]]
  BY DEF Load
<1> PICK file : file = [c \in Components |-> IF older THEN Older(files[other][c]) ELSE files[other][c]]
  OBVIOUS
<1> PICK q : q = [c \in Components |-> ImportPart(c, parts[profile][c], Loaded(c, IdentityOf(c), file))]
  OBVIOUS
<1>2. ps = [parts EXCEPT ![profile] = q]
  BY <1>1
<1>3. \A d \in Components : PlainNodes(file[d].nodes)
  <2> SUFFICES ASSUME NEW d \in Components PROVE PlainNodes(file[d].nodes)
    OBVIOUS
  <2> PICK node : node = files[other][d]
    OBVIOUS
  <2>1. PlainNodes(node.nodes)
    BY DEF SavedInv, PlainFiles
  <2>2. PlainNodes(Older(node).nodes)
    BY <2>1, OlderPlain
  <2> QED
    BY <2>1, <2>2
<1>4. ASSUME NEW c \in Components PROVE Plain(c, q[c])
  <2>1. Plain(c, Loaded(c, IdentityOf(c), file))
    BY <1>3, FilePlain
  <2>2. q[c] = ImportPart(c, parts[profile][c], Loaded(c, IdentityOf(c), file))
    OBVIOUS
  <2> QED
    BY <2>1, <2>2, ImportPlain
<1>5. DOMAIN parts = Profiles
  BY DEF SavedInv, IInv, PartsInv
<1> QED
  BY <1>2, <1>4, <1>5 DEF SavedInv, PlainParts

LEMMA PlainChange ==
  ASSUME SavedInv, TreesInv, NEW profile \in Profiles, NEW c \in Components, Change(profile, c)
  PROVE  \A q \in Profiles, d \in Components : Plain(d, parts'[q][d])
<1> PICK ps : ps = parts'
  OBVIOUS
<1> PICK item \in Edits(c, parts[profile][c]) :
      ps = [parts EXCEPT ![profile][c] = ImportPart(c, parts[profile][c], item)]
  BY DEF Change
<1>1. Plain(c, item)
  BY EditPlain DEF SavedInv, PlainParts
<1>2. Plain(c, ImportPart(c, parts[profile][c], item))
  BY <1>1, ImportPlain
<1>3. DOMAIN parts = Profiles /\ \A q \in Profiles : DOMAIN parts[q] = Components
  BY DEF SavedInv, IInv, PartsInv
<1> QED
  BY <1>2, <1>3 DEF SavedInv, PlainParts

LEMMA PlainRestart ==
  ASSUME SavedInv, TreesInv, Restart
  PROVE  \A q \in Profiles, c \in Components : Plain(c, parts'[q][c])
<1> SUFFICES ASSUME NEW q \in Profiles, NEW c \in Components PROVE Plain(c, parts'[q][c])
  OBVIOUS
<1> PICK own : own = Identity(c, index', unique')
  OBVIOUS
<1> PICK file : file = files[q]
  OBVIOUS
<1>1. parts'[q][c] = ImportPart(c, DefaultPart[c], Loaded(c, own, file))
  BY DEF Restart
<1>2. Plain(c, Loaded(c, own, file))
  BY FilePlain DEF SavedInv, PlainFiles
<1> QED
  BY <1>1, <1>2, ImportPlain

LEMMA SavedNext == SavedInv /\ [Next]_vars => SavedInv'
<1> SUFFICES ASSUME SavedInv, [Next]_vars PROVE SavedInv'
  OBVIOUS
<1>1. IInv' /\ TreesInv /\ UNCHANGED shape
  BY NextInv, ShapeIsTrees DEF SavedInv, IInv, ShapeInv
<1> PICK ps : ps = parts'
  OBVIOUS
<1> PICK fs : fs = files'
  OBVIOUS
<1>2. ASSUME \A q \in Profiles, c \in Components : Plain(c, ps[q][c])
      PROVE  PlainParts'
  BY <1>1, <1>2, SamePlain DEF PlainParts
<1>3. ASSUME UNCHANGED parts PROVE PlainParts'
  BY <1>2, <1>3 DEF SavedInv, PlainParts
<1>4. ASSUME \A q \in Profiles, c \in Components : PlainNodes(fs[q][c].nodes)
      PROVE  PlainFiles'
  BY <1>4 DEF PlainFiles, PlainNodes
<1>5. ASSUME UNCHANGED files PROVE PlainFiles'
  BY <1>4, <1>5 DEF SavedInv, PlainFiles
<1>6. ASSUME NEW profile \in Profiles, Save(profile) PROVE SavedInv'
  <2>1. fs = [files EXCEPT ![profile] = SavedFile(profile)] /\ UNCHANGED parts
    BY <1>6 DEF Save
  <2>2. DOMAIN files = Profiles
    BY DEF SavedInv, IInv, FilesInv
  <2>3. ASSUME NEW c \in Components PROVE PlainNodes(SavedFile(profile)[c].nodes)
    <3>1. SavedFile(profile)[c] = SavedNode(c, parts[profile][c])
      BY DEF SavedFile
    <3> QED
      BY <3>1, SavedPlain DEF SavedInv, PlainParts
  <2>4. \A q \in Profiles, c \in Components : PlainNodes(fs[q][c].nodes)
    BY <2>1, <2>2, <2>3 DEF SavedInv, PlainFiles
  <2> QED
    BY <1>1, <1>3, <1>4, <2>1, <2>4 DEF SavedInv
<1>7. ASSUME NEW profile \in Profiles, Load(profile) PROVE SavedInv'
  BY <1>1, <1>2, <1>5, <1>7, PlainLoad DEF Load, SavedInv
<1>8. ASSUME NEW profile \in Profiles, NEW c \in Components, Change(profile, c) PROVE SavedInv'
  BY <1>1, <1>2, <1>5, <1>8, PlainChange DEF Change, SavedInv
<1>9. CASE Restart
  BY <1>1, <1>2, <1>5, <1>9, PlainRestart DEF Restart, SavedInv
<1>10. ASSUME UNCHANGED <<parts, files>> PROVE SavedInv'
  BY <1>1, <1>3, <1>5, <1>10 DEF SavedInv
<1> QED
  BY <1>6, <1>7, <1>8, <1>9, <1>10 DEF Next, Apply, Pass, vars


LEMMA Restored ==
  ASSUME TreesInv, ~PowerStateFound, NEW c \in Components, NEW p, IsPart(c, p), Plain(c, p)
  PROVE  ImportedFrom(c, SavedNode(c, p)) = p
<1> PICK d : d = DefaultPart[c]
  OBVIOUS
<1> PICK nodes : nodes = [n \in TreeOf[c] |-> NodeOf(c, p, n)]
  OBVIOUS
<1>1. SavedNode(c, p).nodes = nodes
  BY DEF SavedNode
<1>2. ASSUME NEW n \in TreeOf[c]
      PROVE  /\ Found(nodes, n) /\ n # "PMPowerStateMode"
             /\ nodes[n].active = p.active[n]
             /\ n \in Modes[c] => nodes[n].mode = p.mode[n]
             /\ n \in Leaves[c] => nodes[n].value = p.value[n]
  <2>1. NodeAt(c, n)
    BY DEF TreesInv
  <2>2. nodes[n] = NodeOf(c, p, n)
    OBVIOUS
  <2>3. n # "PMPowerStateMode" /\ n \in Names
    BY <2>1 DEF NodeAt, Usable
  <2>4. /\ Above[n] = AboveOf(n) /\ Parent[n] = ParentOf(n) /\ Kind[n] = KindOf(n)
        /\ AboveOf(n) \subseteq TreeOf[c]
    BY <2>1 DEF NodeAt
  <2>5. CASE n \in {"GPU", "CPU"}
    BY <2>2, <2>3, <2>4, <2>5 DEF NodeOf, Found, AboveOf
  <2>6. CASE n \notin {"GPU", "CPU"}
    <3>1. nodes[n].under = ParentOf(n)
      BY <2>2, <2>4, <2>6, KindsOfNames DEF NodeOf
    <3>2. ParentOf(n) \in TreeOf[c]
      BY <2>3, <2>4, <2>6, HeldByParent
    <3>3. Above[ParentOf(n)] = AboveOf(ParentOf(n))
      BY <3>2 DEF TreesInv, NodeAt
    <3>4. Above[n] = Above[ParentOf(n)] \cup {ParentOf(n)}
      BY <2>3, <2>4, <2>6, <3>3, ParentIsLast
    <3> QED
      BY <2>2, <2>3, <3>1, <3>4 DEF NodeOf, Found
  <2> QED
    BY <2>5, <2>6
<1>3. \A n \in TreeOf[c] : LoadedActive(nodes, n, d.active[n]) = p.active[n]
  <2> SUFFICES ASSUME NEW n \in TreeOf[c] PROVE LoadedActive(nodes, n, d.active[n]) = p.active[n]
    OBVIOUS
  <2>1. p.active[n] \in BOOLEAN
    BY DEF Plain
  <2>2. p.active[n] # Absent
    BY <2>1, TreeAssumption
  <2>3. Attribute(nodes, n, "active", d.active[n]) = p.active[n]
    BY <1>2, <2>2 DEF Attribute
  <2>4. LoadedActive(nodes, n, d.active[n])
          = (n = "PMPowerStateMode" \/ Attribute(nodes, n, "active", d.active[n]))
    BY DEF LoadedActive
  <2> QED
    BY <1>2, <2>1, <2>3, <2>4
<1>4. \A m \in Modes[c] : LoadedMode(nodes, m, d.mode[m]) = p.mode[m]
  <2> SUFFICES ASSUME NEW m \in Modes[c] PROVE LoadedMode(nodes, m, d.mode[m]) = p.mode[m]
    OBVIOUS
  <2>1. m \in TreeOf[c]
    BY DEF TreesInv
  <2>2. p.mode[m] \in TreeOf[c]
    BY <2>1 DEF IsPart, ModesOK, TreesInv
  <2>3. p.mode[m] # Absent
    BY <2>2 DEF TreesInv, NodeAt
  <2> QED
    BY <1>2, <2>1, <2>3 DEF LoadedMode, Attribute
<1>5. \A leaf \in Leaves[c] : Attribute(nodes, leaf, "value", d.value[leaf]) = p.value[leaf]
  <2> SUFFICES ASSUME NEW leaf \in Leaves[c]
               PROVE  Attribute(nodes, leaf, "value", d.value[leaf]) = p.value[leaf]
    OBVIOUS
  <2>1. leaf \in TreeOf[c] /\ p.value[leaf] # Absent
    BY DEF TreesInv, Plain
  <2> QED
    BY <1>2, <2>1 DEF Attribute
<1> PICK r : r = LoadedNode(c, nodes, d)
  OBVIOUS
<1>6. r.active = p.active
  <2>1. r.active = [n \in TreeOf[c] |-> LoadedActive(nodes, n, d.active[n])]
    BY DEF LoadedNode
  <2> QED
    BY <1>3, <2>1 DEF Plain
<1>7. r.mode = p.mode
  <2>1. r.mode = [m \in Modes[c] |-> LoadedMode(nodes, m, d.mode[m])]
    BY DEF LoadedNode
  <2>2. p.mode = [m \in Modes[c] |-> p.mode[m]]
    BY DEF IsPart, ModesOK
  <2> QED
    BY <1>4, <2>1, <2>2
<1>8. r.value = p.value
  <2>1. r.value = [leaf \in Leaves[c] |-> Attribute(nodes, leaf, "value", d.value[leaf])]
    BY DEF LoadedNode
  <2> QED
    BY <1>5, <2>1 DEF Plain
<1>9. Selected(c, r.mode, d.mode) = p.mode
  BY <1>7, SelectedAsAsked DEF IsPart
<1>10. ImportPart(c, d, r) = [active |-> ActiveNodes(c, p.active, p.mode), mode |-> p.mode, value |-> p.value]
  BY <1>6, <1>8, <1>9 DEF ImportPart
<1>11. ImportPart(c, d, r) = p
  BY <1>10 DEF IsPart
<1> QED
  BY <1>1, <1>11 DEF ImportedFrom

LEMMA RestoredFromOlder ==
  ASSUME TreesInv, NEW c \in Components, NEW p, Plain(c, p)
  PROVE  ImportedFrom(c, Older(SavedNode(c, p))).value = p.value
<1> PICK d : d = DefaultPart[c]
  OBVIOUS
<1> PICK saved : saved = [n \in TreeOf[c] |-> NodeOf(c, p, n)]
  OBVIOUS
<1> PICK nodes : nodes = [n \in DOMAIN saved \ Lifted |->
                           [saved[n] EXCEPT !.under = IF @ \in Lifted THEN Parent[@] ELSE @]]
  OBVIOUS
<1>1. Older(SavedNode(c, p)).nodes = nodes
  BY DEF SavedNode, Older
<1>2. ASSUME NEW leaf \in Leaves[c]
      PROVE  Attribute(nodes, leaf, "value", d.value[leaf]) = p.value[leaf]
  <2>1. leaf \in TreeOf[c] /\ KindOf(leaf) = "leaf" /\ p.value[leaf] # Absent
    BY DEF TreesInv, Plain
  <2>2. leaf \notin Lifted /\ leaf \notin {"GPU", "CPU"}
    BY <2>1, KindsOfNames, TreeAssumption
  <2>3. leaf \in Names /\ Above[leaf] = AboveOf(leaf) /\ Parent[leaf] = ParentOf(leaf)
        /\ Kind[leaf] = KindOf(leaf) /\ AboveOf(leaf) \subseteq TreeOf[c]
    BY <2>1 DEF TreesInv, NodeAt, Usable
  <2> PICK m : m = ParentOf(leaf)
    OBVIOUS
  <2>4. m \in TreeOf[c] /\ AboveOf(leaf) = AboveOf(m) \cup {m}
    BY <2>2, <2>3, HeldByParent, ParentIsLast
  <2>5. m \in Names /\ Above[m] = AboveOf(m) /\ Parent[m] = ParentOf(m) /\ AboveOf(m) \subseteq TreeOf[c]
    BY <2>4 DEF TreesInv, NodeAt, Usable
  <2> PICK under : under = IF m \in Lifted THEN ParentOf(m) ELSE m
    OBVIOUS
  <2>6. leaf \in DOMAIN nodes /\ nodes[leaf].under = under /\ nodes[leaf].value = p.value[leaf]
    <3>1. /\ saved[leaf] = NodeOf(c, p, leaf) /\ NodeOf(c, p, leaf).under = m
          /\ NodeOf(c, p, leaf).value = p.value[leaf]
      BY <2>1, <2>2, <2>3, KindsOfNames DEF NodeOf
    <3>2. nodes[leaf] = [saved[leaf] EXCEPT !.under = under]
      BY <2>1, <2>2, <2>5, <3>1
    <3> PICK node : node = saved[leaf]
      OBVIOUS
    <3>3. node = [under |-> node.under, active |-> node.active, mode |-> node.mode, value |-> node.value]
      BY <3>1 DEF NodeOf
    <3>4. nodes[leaf] = [under |-> under, active |-> node.active, mode |-> node.mode, value |-> node.value]
      BY <3>2, <3>3
    <3> QED
      BY <2>1, <2>2, <3>1, <3>4
  <2>7. CASE m \notin Lifted
    <3>1. Above[leaf] = Above[under] \cup {under}
      BY <2>3, <2>4, <2>5, <2>7
    <3>2. Found(nodes, leaf)
      BY <2>6, <3>1 DEF Found
    <3> QED
      BY <2>1, <2>6, <3>2 DEF Attribute
  <2>8. CASE m \in Lifted
    <3>1. m \in Names \ {"GPU", "CPU"}
      BY <2>5, <2>8, KindsOfNames, TreeAssumption
    <3> PICK g : g = ParentOf(m)
      OBVIOUS
    <3>2. AboveOf(m) = AboveOf(g) \cup {g} /\ g \in AboveOf(m)
      BY <3>1, ParentIsLast
    <3>3. Above[g] = AboveOf(g)
      BY <2>5, <3>2 DEF TreesInv, NodeAt
    <3>4. Above[leaf] \ (Above[under] \cup {under}) \subseteq {m}
      BY <2>3, <2>4, <2>8, <3>2, <3>3
    <3>5. m \in Lifted \ DOMAIN nodes
      BY <2>8
    <3>6. Found(nodes, leaf)
      BY <2>6, <3>4, <3>5 DEF Found
    <3> QED
      BY <2>1, <2>6, <3>6 DEF Attribute
  <2> QED
    BY <2>7, <2>8
<1> PICK r : r = LoadedNode(c, nodes, d)
  OBVIOUS
<1>3. r.value = p.value
  <2>1. r.value = [leaf \in Leaves[c] |-> Attribute(nodes, leaf, "value", d.value[leaf])]
    BY DEF LoadedNode
  <2> QED
    BY <1>2, <2>1 DEF Plain
<1>4. ImportPart(c, d, r).value = r.value
  BY DEF ImportPart
<1> QED
  BY <1>1, <1>3, <1>4 DEF ImportedFrom

\* On a machine without power states every file restores what was saved, whatever was done before,
\* and a file of an older version the values (ControlModeXMLParser, PMPowerStateModeXMLParser,
\* PMOverdriveXMLParser).
THEOREM FilesKeep ==
  ASSUME ~PowerStateFound
  PROVE  Spec => []FilesKeepSettings
<1>1. SavedInv => FilesKeepSettings
  <2> SUFFICES ASSUME SavedInv, NEW profile \in Profiles, NEW c \in Components, NEW p, p = parts[profile][c]
               PROVE  /\ ImportedFrom(c, SavedNode(c, p)) = p
                      /\ ImportedFrom(c, Older(SavedNode(c, p))).value = p.value
    BY DEF FilesKeepSettings
  <2>1. TreesInv /\ IsPart(c, p) /\ Plain(c, p)
    BY ShapeIsTrees DEF SavedInv, IInv, PartsInv, PlainParts
  <2> QED
    BY <2>1, Restored, RestoredFromOlder
<1> QED
  BY <1>1, SavedInit, SavedNext, PTL DEF Spec

-----------------------------------------------------------------------------
(***************************************************************************)
(* What is cleaned                                                         *)
(***************************************************************************)

IsControls(c, t) ==
  /\ t = [active |-> t.active, mode |-> t.mode, value |-> t.value, dirty |-> t.dirty]
  /\ t.active \in [TreeOf[c] -> BOOLEAN] /\ t.dirty \in [TreeOf[c] -> BOOLEAN]

\* A leaf that only waits for its component to be active, and one that the next pass cleans.
ActiveBelow(c, t, leaf) == \A m \in (Above[leaf] \cup {leaf}) \ {Root[c]} : t.active[m] = TRUE
Marked(t, leaf) == t.dirty[leaf] = TRUE /\ \A g \in Above[leaf] : Kind[g] = "group" => t.dirty[g] = TRUE
Kept(c, t, leaf) == leaf \in Leaves[c] /\ (ActiveBelow(c, t, leaf) \/ Marked(t, leaf))

ControlsInv == \A c \in Components : IsControls(c, controls[c])
UsedInv == \A c \in Components : \A leaf \in used[c] : Kept(c, controls[c], leaf)
CleanInv == SavedInv /\ ControlsInv /\ UsedInv

\* Without percentages, what is below the advanced group is only in groups there, and nothing but that
\* group and the leaves of a mode can be left.
LEMMA OnlyGroups ==
  ASSUME ~ByPercentage, NEW n \in Usable, "PMAdvanced" \in AboveOf(n), AboveOf(n) \subseteq Usable
  PROVE  \A m \in AboveOf(n) \ AboveOf("PMAdvanced") : KindOf(m) = "group"
<1>1. n \in Names \ {"GPU", "CPU"} /\ ParentOf(n) \in Holders /\ AboveOf(n) = PathBelow(ParentOf(n))
  BY HeldByParent DEF Usable, AboveOf
<1>2. AboveOf("PMAdvanced") = {"GPU", "PMPerfMode"}
  BY DEF AboveOf, ParentOf, PathBelow
<1>3. \A m \in {"PMAdvanced", "PMOverclock", "PMOverdrive"} : KindOf(m) = "group"
  BY DEF KindOf, TopModes
<1>4. ParentOf(n) # "PMFreqMode"
  BY <1>1, HeldByParent DEF Usable
<1>5. PathBelow(ParentOf(n)) \subseteq {"GPU", "PMPerfMode", "PMAdvanced", "PMOverclock", "PMOverdrive"}
  BY <1>1, <1>4 DEF PathBelow, Holders
<1> QED
  BY <1>1, <1>2, <1>3, <1>5

LEMMA NoGroups ==
  ASSUME ~ByPercentage, NEW n \in Usable \ {"GPU", "CPU"}, AboveOf(n) \subseteq Usable,
         KindOf(ParentOf(n)) # "group"
  PROVE  \A g \in AboveOf(n) : KindOf(g) # "group"
<1>1. ParentOf(n) \in Holders /\ AboveOf(n) = PathBelow(ParentOf(n)) /\ ParentOf(n) \in Usable
  BY HeldByParent DEF Usable
<1>2. ParentOf(n) # "PMFreqMode"
  BY <1>1 DEF Usable
<1>3. \A m \in {"PMAdvanced", "PMOverclock", "PMOverdrive"} : KindOf(m) = "group"
  BY DEF KindOf, TopModes
<1>4. ParentOf(n) \in {"GPU", "CPU"} \cup TopModes
  BY <1>1, <1>2, <1>3 DEF Holders, TopModes
<1>5. AboveOf(n) \subseteq {"GPU", "CPU"} \cup TopModes
  BY <1>1, <1>4 DEF PathBelow, TopModes
<1>6. \A m \in {"GPU", "CPU"} \cup TopModes : KindOf(m) # "group"
  BY DEF KindOf, TopModes
<1> QED
  BY <1>5, <1>6

LEMMA OnlyAdvanced ==
  ASSUME ~ByPercentage, NEW n \in Usable, NEW m \in AboveOf(n), m \in Usable \ ({"GPU", "CPU"} \cup TopModes),
         KindOf(ParentOf(m)) # "group"
  PROVE  m = "PMAdvanced"
<1>1. ParentOf(n) \in Holders /\ AboveOf(n) = PathBelow(ParentOf(n))
  BY HeldByParent DEF Usable, AboveOf
<1>2. m # "PMFreqMode"
  BY DEF Usable
<1>3. m \in {"PMAdvanced", "PMOverclock", "PMOverdrive"}
  BY <1>1, <1>2 DEF PathBelow, Holders, TopModes
<1>4. \A o \in {"PMOverclock", "PMOverdrive"} : ParentOf(o) = "PMAdvanced"
  BY DEF ParentOf
<1>5. KindOf("PMAdvanced") = "group"
  BY DEF KindOf, TopModes
<1> QED
  BY <1>3, <1>4, <1>5

LEMMA OverGroups ==
  ASSUME ~ByPercentage, NEW n \in Usable, NEW g \in AboveOf(n), KindOf(g) = "group", g # "PMAdvanced"
  PROVE  "PMAdvanced" \in AboveOf(g)
<1>1. ParentOf(n) \in Holders /\ AboveOf(n) = PathBelow(ParentOf(n))
  BY HeldByParent DEF Usable, AboveOf
<1>2. g \in Holders
  BY <1>1 DEF PathBelow, Holders
<1>3. g \in {"PMOverclock", "PMOverdrive"}
  BY <1>2 DEF Holders, KindOf, TopModes
<1> QED
  BY <1>3 DEF AboveOf, ParentOf, PathBelow

\* What a group or a control remembers when its tree is told what to be.
LEMMA OwnDirty ==
  ASSUME NEW c, NEW own, own \in [TreeOf[c] -> BOOLEAN]
  PROVE  /\ Dirty(c, own) \in [TreeOf[c] -> BOOLEAN]
         /\ \A n \in TreeOf[c] : own[n] = TRUE => Dirty(c, own)[n] = TRUE
         /\ \A n \in TreeOf[c] : \A above \in Above[n] :
              own[above] = TRUE /\ (\A m \in Above[n] \ Above[above] : Kind[m] = "group") =>
                Dirty(c, own)[n] = TRUE
<1> PICK dirty : dirty = Dirty(c, own)
  OBVIOUS
<1>1. dirty = [n \in TreeOf[c] |->
        own[n] \/ \E above \in Above[n] : own[above] /\ \A m \in Above[n] \ Above[above] : Kind[m] = "group"]
  BY DEF Dirty
<1>2. \A n \in TreeOf[c] : dirty[n] \in BOOLEAN
  BY <1>1
<1>3. \A n \in TreeOf[c] : own[n] = TRUE => dirty[n] = TRUE
  BY <1>1
<1>4. \A n \in TreeOf[c] : \A above \in Above[n] :
        own[above] = TRUE /\ (\A m \in Above[n] \ Above[above] : Kind[m] = "group") => dirty[n] = TRUE
  BY <1>1
<1> QED
  BY <1>1, <1>2, <1>3, <1>4

\* A leaf that was set remains so or is marked, whatever part its component imports.
LEMMA ImportKeepsLeaf ==
  ASSUME ~ByPercentage, TreesInv, NEW c \in Components, NEW t, IsControls(c, t),
         NEW i, IsPart(c, i), Plain(c, i)
  PROVE  /\ IsControls(c, ImportControls(c, t, i))
         /\ \A leaf : Kept(c, t, leaf) => Kept(c, ImportControls(c, t, i), leaf)
<1> PICK a : a = i.active
  OBVIOUS
<1>1. Selected(c, i.mode, t.mode) = i.mode /\ ActiveNodes(c, a, i.mode) = a
  BY SelectedAsAsked DEF IsPart
<1>2. a \in [TreeOf[c] -> BOOLEAN]
  BY DEF Plain
<1> PICK own : own = [n \in TreeOf[c] |->
      t.dirty[n] \/ (Kind[n] # "component" /\ ((t.active[n] /\ ~(a[n] /\ a[n])) \/ (a[n] /\ ~a[n])))]
  OBVIOUS
<1> PICK dirty : dirty = Dirty(c, own)
  OBVIOUS
<1> PICK r : r = [active |-> a, mode |-> i.mode, value |-> i.value, dirty |-> dirty]
  OBVIOUS
<1>3. r = ImportControls(c, t, i)
  BY <1>1 DEF ImportControls
<1>4. r.active = a /\ r.dirty = dirty
  OBVIOUS
<1>5. own \in [TreeOf[c] -> BOOLEAN]
  OBVIOUS
<1>6. \A n \in TreeOf[c] : t.dirty[n] = TRUE => own[n] = TRUE
  OBVIOUS
<1>7. \A n \in TreeOf[c] : Kind[n] # "component" /\ t.active[n] = TRUE /\ a[n] = FALSE => own[n] = TRUE
  OBVIOUS
<1>8. /\ dirty \in [TreeOf[c] -> BOOLEAN]
      /\ \A n \in TreeOf[c] : own[n] = TRUE => dirty[n] = TRUE
      /\ \A n \in TreeOf[c] : \A above \in Above[n] :
           own[above] = TRUE /\ (\A m \in Above[n] \ Above[above] : Kind[m] = "group") => dirty[n] = TRUE
  BY <1>5, OwnDirty
<1>9. IsControls(c, r)
  BY <1>2, <1>4, <1>8 DEF IsControls
<1>10. ASSUME NEW leaf, Kept(c, t, leaf) PROVE Kept(c, r, leaf)
  <2>1. leaf \in Leaves[c] /\ leaf \in TreeOf[c] /\ KindOf(leaf) = "leaf"
    BY <1>10 DEF Kept, TreesInv
  <2>2. leaf \in Usable \ {"GPU", "CPU"} /\ Above[leaf] = AboveOf(leaf) /\ AboveOf(leaf) \subseteq TreeOf[c]
    BY <2>1, KindsOfNames DEF TreesInv, NodeAt
  <2>3. \A m \in TreeOf[c] :
          /\ m \in Usable /\ Above[m] = AboveOf(m) /\ Kind[m] = KindOf(m) /\ Parent[m] = ParentOf(m)
          /\ AboveOf(m) \subseteq TreeOf[c] /\ (KindOf(m) = "component" => m = Root[c])
    BY DEF TreesInv, NodeAt
  <2>4. CASE Marked(t, leaf)
    <3>1. \A g \in Above[leaf] : Kind[g] = "group" => dirty[g] = TRUE
      BY <1>6, <1>8, <2>2, <2>4 DEF Marked
    <3>2. dirty[leaf] = TRUE
      BY <1>6, <1>8, <2>1, <2>4 DEF Marked
    <3> QED
      BY <1>4, <2>1, <3>1, <3>2 DEF Kept, Marked
  <2>5. CASE ActiveBelow(c, r, leaf)
    BY <2>1, <2>5 DEF Kept
  <2>6. CASE ActiveBelow(c, t, leaf) /\ ~ActiveBelow(c, r, leaf)
    <3>1. PICK m \in (Above[leaf] \cup {leaf}) \ {Root[c]} : a[m] # TRUE
      BY <1>4, <2>6 DEF ActiveBelow
    <3>2. m \in TreeOf[c] /\ a[m] = FALSE /\ t.active[m] = TRUE
      BY <1>2, <2>1, <2>2, <2>6, <3>1 DEF ActiveBelow
    <3>3. Kind[m] # "component" /\ m \in Usable \ ({"GPU", "CPU"} \cup TopModes)
      BY <2>3, <3>1, <3>2, KindsOfNames DEF Plain
    <3>4. own[m] = TRUE
      BY <1>7, <3>2, <3>3
    <3>5. ~Under(m, "group")
      BY <1>1, <3>2 DEF ActiveNodes, Under
    <3>6. KindOf(ParentOf(m)) # "group"
      <4>1. ParentOf(m) \in AboveOf(m)
        BY <3>3, HeldByParent DEF Usable
      <4>2. ParentOf(m) \in TreeOf[c] /\ Above[m] # {}
        BY <2>3, <3>2, <4>1
      <4> QED
        BY <2>3, <3>2, <3>5, <4>2 DEF Under
    <3>7. CASE m = leaf
      <4>1. \A g \in AboveOf(leaf) : KindOf(g) # "group"
        BY <2>2, <2>3, <3>6, <3>7, NoGroups
      <4>2. \A g \in Above[leaf] : Kind[g] # "group"
        BY <2>2, <2>3, <4>1
      <4>3. dirty[leaf] = TRUE
        BY <1>8, <3>2, <3>4, <3>7
      <4> QED
        BY <1>4, <2>1, <4>2, <4>3 DEF Kept, Marked
    <3>8. CASE m # leaf
      <4>1. m \in AboveOf(leaf) /\ m = "PMAdvanced"
        BY <2>2, <3>1, <3>3, <3>6, <3>8, OnlyAdvanced
      <4>2. ASSUME NEW n \in TreeOf[c], m \in AboveOf(n) PROVE dirty[n] = TRUE
        <5>1. AboveOf(n) \subseteq Usable /\ n \in Usable
          BY <2>3, <4>2
        <5>2. \A k \in AboveOf(n) \ AboveOf(m) : KindOf(k) = "group"
          BY <4>1, <4>2, <5>1, OnlyGroups
        <5>3. \A k \in Above[n] \ Above[m] : Kind[k] = "group"
          BY <2>3, <3>2, <5>2
        <5>4. m \in Above[n]
          BY <2>3, <4>2
        <5> QED
          BY ONLY <1>8, <3>4, <4>2, <5>3, <5>4
      <4>3. dirty[leaf] = TRUE
        BY <2>1, <4>1, <4>2
      <4>4. ASSUME NEW g \in Above[leaf], Kind[g] = "group" PROVE dirty[g] = TRUE
        <5>1. g \in TreeOf[c] /\ KindOf(g) = "group" /\ g \in AboveOf(leaf)
          BY <2>2, <2>3, <4>4
        <5>2. CASE g = m
          BY <1>8, <3>2, <3>4, <5>2
        <5>3. CASE g # m
          BY <2>2, <4>1, <4>2, <5>1, <5>3, OverGroups
        <5> QED
          BY <5>2, <5>3
      <4> QED
        BY <1>4, <2>1, <4>3, <4>4 DEF Kept, Marked
    <3> QED
      BY <3>7, <3>8
  <2> QED
    BY <1>10, <2>4, <2>5, <2>6 DEF Kept
<1> QED
  BY <1>3, <1>9, <1>10

\* While the shape is the same, so is what is known of the controls and their leaves.
LEMMA SameKept ==
  ASSUME UNCHANGED shape, NEW c, NEW t
  PROVE  /\ IsControls(c, t) => IsControls(c, t)'
         /\ \A leaf : Kept(c, t, leaf) => Kept(c, t, leaf)'
<1>1. IsControls(c, t) => IsControls(c, t)'
  BY DEF IsControls, TreeOf
<1>2. \A leaf : ActiveBelow(c, t, leaf) => ActiveBelow(c, t, leaf)'
  BY DEF ActiveBelow, Above, Root
<1>3. \A leaf : Marked(t, leaf) => Marked(t, leaf)'
  BY DEF Marked, Above, Kind
<1> QED
  BY <1>1, <1>2, <1>3 DEF Kept, Leaves

LEMMA InitialControlsOK ==
  ASSUME TreesInv, NEW c \in Components
  PROVE  IsControls(c, InitialControls[c])
<1> PICK mode : mode = [m \in Modes[c] |-> First(c, m)]
  OBVIOUS
<1> PICK active : active = ActiveNodes(c, shape.active, mode)
  OBVIOUS
<1> PICK own : own = [n \in TreeOf[c] |-> shape.active[n] /\ ~active[n]]
  OBVIOUS
<1> PICK dirty : dirty = Dirty(c, own)
  OBVIOUS
<1> PICK t : t = [active |-> active, mode |-> mode, value |-> [leaf \in Leaves[c] |-> Factory],
                  dirty |-> dirty]
  OBVIOUS
<1>1. InitialControls[c] = t
  BY DEF InitialControls
<1>2. active \in [TreeOf[c] -> BOOLEAN]
  <2>1. active = DefaultPart[c].active
    BY DEF DefaultPart, InitialControls, SettingsOf
  <2> QED
    BY <2>1, DefaultPlain DEF Plain
<1>3. own \in [TreeOf[c] -> BOOLEAN]
  OBVIOUS
<1>4. dirty \in [TreeOf[c] -> BOOLEAN]
  BY <1>3, OwnDirty
<1> QED
  BY <1>1, <1>2, <1>4 DEF IsControls

\* A leaf that a pass does not clean remains set or marked.
LEMMA PassKeeps ==
  ASSUME TreesInv, NEW c \in Components, NEW t, IsControls(c, t), NEW r,
         r = [t EXCEPT !.dirty = [n \in TreeOf[c] |-> t.dirty[n] /\ ~AskedToClean(c, t, n)]]
  PROVE  /\ IsControls(c, r)
         /\ \A leaf \in SyncedLeaves(c, t) : Kept(c, r, leaf)
         /\ \A leaf : Kept(c, t, leaf) /\ leaf \notin CleanedLeaves(c, t) => Kept(c, r, leaf)
<1> PICK dirty : dirty = [n \in TreeOf[c] |-> t.dirty[n] /\ ~AskedToClean(c, t, n)]
  OBVIOUS
<1>1. r = [active |-> t.active, mode |-> t.mode, value |-> t.value, dirty |-> dirty]
  BY DEF IsControls
<1>2. r.active = t.active /\ r.dirty = dirty
  BY <1>1
<1>3. dirty \in [TreeOf[c] -> BOOLEAN]
  BY DEF IsControls
<1>4. IsControls(c, r)
  BY <1>1, <1>2, <1>3 DEF IsControls
<1>5. ASSUME NEW leaf \in Leaves[c]
      PROVE  leaf \in TreeOf[c] /\ Above[leaf] \subseteq TreeOf[c]
  BY DEF TreesInv, NodeAt
<1>6. ASSUME NEW leaf \in SyncedLeaves(c, t) PROVE Kept(c, r, leaf)
  <2>1. leaf \in Leaves[c] /\ \A m \in Above[leaf] \cup {leaf} : t.active[m]
    BY <1>6 DEF SyncedLeaves, Synced
  <2>2. \A m \in Above[leaf] \cup {leaf} : t.active[m] = TRUE
    BY <1>5, <2>1 DEF IsControls
  <2> QED
    BY <1>2, <2>1, <2>2 DEF Kept, ActiveBelow
<1>7. ASSUME NEW leaf, Kept(c, t, leaf), leaf \notin CleanedLeaves(c, t) PROVE Kept(c, r, leaf)
  <2>1. CASE ActiveBelow(c, t, leaf)
    BY <1>2, <1>7, <2>1 DEF Kept, ActiveBelow
  <2>2. CASE Marked(t, leaf)
    <3>1. leaf \in Leaves[c] /\ t.dirty[leaf] = TRUE
      BY <1>7, <2>2 DEF Kept, Marked
    <3>2. \A g \in Above[leaf] : Kind[g] = "group" => t.dirty[g]
      BY <2>2 DEF Marked
    <3>3. ~t.active[Root[c]]
      BY <1>7, <3>1, <3>2 DEF CleanedLeaves, AskedToClean
    <3>4. \A n \in TreeOf[c] : dirty[n] = t.dirty[n]
      <4>1. \A n \in TreeOf[c] : ~AskedToClean(c, t, n)
        BY <3>3 DEF AskedToClean
      <4>2. \A n \in TreeOf[c] : t.dirty[n] \in BOOLEAN
        BY DEF IsControls
      <4> QED
        BY <4>1, <4>2
    <3> QED
      BY <1>2, <1>5, <2>2, <3>1, <3>4 DEF Kept, Marked
  <2> QED
    BY <1>7, <2>1, <2>2 DEF Kept
<1> QED
  BY <1>4, <1>6, <1>7

LEMMA CleanInit == Init => CleanInv
<1> SUFFICES ASSUME Init PROVE CleanInv
  OBVIOUS
<1>1. SavedInv /\ TreesInv
  BY SavedInit, ShapeIsTrees DEF SavedInv, IInv
<1>2. ControlsInv
  BY <1>1, InitialControlsOK DEF Init, ControlsInv
<1>3. UsedInv
  BY DEF Init, UsedInv
<1> QED
  BY <1>1, <1>2, <1>3 DEF CleanInv

LEMMA CleanNext ==
  ASSUME ~ByPercentage, CleanInv, [Next]_vars
  PROVE  CleanInv'
<1>1. SavedInv' /\ TreesInv /\ UNCHANGED shape
  <2>1. IInv /\ IInv'
    BY NextInv DEF CleanInv, SavedInv
  <2> QED
    BY <2>1, SavedNext, ShapeIsTrees DEF CleanInv, IInv, ShapeInv
<1> PICK cs : cs = controls'
  OBVIOUS
<1> PICK us : us = used'
  OBVIOUS
<1>2. ASSUME \A c \in Components : IsControls(c, cs[c]),
             \A c \in Components : \A leaf \in us[c] : Kept(c, cs[c], leaf)
      PROVE  CleanInv'
  <2>1. ControlsInv'
    BY <1>1, <1>2, SameKept DEF ControlsInv
  <2>2. UsedInv'
    BY <1>1, <1>2, SameKept DEF UsedInv
  <2> QED
    BY <1>1, <2>1, <2>2 DEF CleanInv
<1>3. ASSUME UNCHANGED <<controls, used>> PROVE CleanInv'
  BY <1>2, <1>3 DEF CleanInv, ControlsInv, UsedInv
<1>4. ASSUME NEW profile \in Profiles, Apply(profile) PROVE CleanInv'
  <2>1. us = used
    BY <1>4 DEF Apply
  <2>2. ASSUME NEW c \in Components
        PROVE  IsControls(c, cs[c]) /\ \A leaf : Kept(c, controls[c], leaf) => Kept(c, cs[c], leaf)
    <3> PICK shown : shown = Shown(profile, c)
      OBVIOUS
    <3>1. IsControls(c, controls[c])
      BY DEF CleanInv, ControlsInv
    <3>2. CASE shown = Absent
      <4>1. cs[c] = controls[c]
        BY <1>4, <3>2 DEF Apply
      <4> QED
        BY <3>1, <4>1
    <3>3. CASE shown # Absent
      <4>1. shown \in Profiles
        BY <3>3 DEF Shown, Profiles
      <4> PICK i : i = parts[shown][c]
        OBVIOUS
      <4>2. cs[c] = ImportControls(c, controls[c], i)
        BY <1>4, <3>3 DEF Apply
      <4>3. IsPart(c, i) /\ Plain(c, i)
        BY <4>1 DEF CleanInv, SavedInv, IInv, PartsInv, PlainParts
      <4> QED
        BY <1>1, <3>1, <4>2, <4>3, ImportKeepsLeaf
    <3> QED
      BY <3>2, <3>3
  <2> QED
    BY <1>2, <2>1, <2>2 DEF CleanInv, UsedInv
<1>5. CASE Pass
  <2>1. ASSUME NEW c \in Components
        PROVE  IsControls(c, cs[c]) /\ \A leaf \in us[c] : Kept(c, cs[c], leaf)
    <3> PICK t : t = controls[c]
      OBVIOUS
    <3>1. cs[c] = [t EXCEPT !.dirty = [n \in TreeOf[c] |-> t.dirty[n] /\ ~AskedToClean(c, t, n)]]
      BY <1>5 DEF Pass
    <3>2. us[c] = (used[c] \ CleanedLeaves(c, t)) \cup SyncedLeaves(c, t)
      BY <1>5 DEF Pass
    <3>3. IsControls(c, t) /\ \A leaf \in used[c] : Kept(c, t, leaf)
      BY DEF CleanInv, ControlsInv, UsedInv
    <3>4. /\ IsControls(c, cs[c])
          /\ \A leaf \in SyncedLeaves(c, t) : Kept(c, cs[c], leaf)
          /\ \A leaf : Kept(c, t, leaf) /\ leaf \notin CleanedLeaves(c, t) => Kept(c, cs[c], leaf)
      BY <1>1, <3>1, <3>3, PassKeeps
    <3> QED
      BY <3>2, <3>3, <3>4
  <2> QED
    BY <1>2, <2>1
<1>6. CASE Restart
  <2>1. \A c \in Components : IsControls(c, cs[c]) /\ us[c] = {}
    BY <1>1, <1>6, InitialControlsOK DEF Restart
  <2> QED
    BY <1>2, <2>1
<1> QED
  BY <1>3, <1>4, <1>5, <1>6 DEF Next, Load, Save, Change, vars

\* On a kernel that is not overclocked by percentages, a pass cleans everything that was set and is
\* not any more, whatever was activated, left and activated again since it was set: it is clean, or
\* it is dirty with every group above it (ControlGroup::activate, Control::clean).
THEOREM CleansWhatIsLeft ==
  ASSUME ~ByPercentage
  PROVE  Spec => LeftIsCleaned
<1>1. ASSUME CleanInv, Pass, NEW c \in Components, controls[c].active[Root[c]], NEW leaf \in used'[c]
      PROVE  leaf \in SyncedLeaves(c, controls[c])
  <2> PICK t : t = controls[c]
    OBVIOUS
  <2>1. leaf \in (used[c] \ CleanedLeaves(c, t)) \cup SyncedLeaves(c, t)
    BY <1>1 DEF Pass
  <2> SUFFICES ASSUME leaf \in used[c], leaf \notin CleanedLeaves(c, t) PROVE leaf \in SyncedLeaves(c, t)
    BY <2>1
  <2>2. Kept(c, t, leaf)
    BY <1>1 DEF CleanInv, UsedInv
  <2>3. CASE Marked(t, leaf)
    BY <1>1, <2>2, <2>3 DEF Kept, Marked, CleanedLeaves, AskedToClean
  <2>4. CASE ActiveBelow(c, t, leaf)
    BY <1>1, <2>2, <2>4 DEF Kept, ActiveBelow, SyncedLeaves, Synced
  <2> QED
    BY <2>2, <2>3, <2>4 DEF Kept
<1>2. CleanInv /\ [Next]_vars =>
        [Pass => \A c \in Components : controls[c].active[Root[c]] =>
           \A leaf \in used'[c] : leaf \in SyncedLeaves(c, controls[c])]_vars
  BY <1>1
<1>3. CleanInv /\ [Next]_vars => CleanInv'
  BY CleanNext
<1> QED
  BY <1>2, <1>3, CleanInit, PTL DEF Spec, LeftIsCleaned
=============================================================================
