------------------------------ MODULE Session ------------------------------
(***************************************************************************)
(* The session of CoreCtrl: which profile is in effect, and what each part *)
(* of the system takes its settings from.                                  *)
(*                                                                         *)
(* src/core/session.cpp keeps a stack of profile views.  Its bottom is the *)
(* global profile, above it are the profiles of the watched programs that  *)
(* are running, in the order they started, and on top is the view of the   *)
(* manual profile while one is toggled on.  A view composes its profile    *)
(* with a base view: a part that is not active in the profile comes from   *)
(* the base (src/core/profileview.cpp).  The session is an observer of the *)
(* profile manager and of the helper, and the system tray is an observer   *)
(* of both the manager and the session; every operation below runs on the  *)
(* main thread from the user's event, or the helper's signal, through all  *)
(* the observers it notifies, so it is one action.                         *)
(***************************************************************************)
EXTENDS Naturals, FiniteSets, SequencesExt

CONSTANTS
  Names,      \* names a profile can have, Global among them
  Exes,       \* names of executables the automatic profiles are for
  Parts,      \* parts of a profile: one per controllable component
  Global,     \* IProfile::Info::GlobalID, name and executable of the global profile
  Manual,     \* IProfile::Info::ManualID, executable of every manual profile
  None        \* no manual profile, no base view, no profile for an executable

ASSUME SessionAssumption ==
  /\ Global \in Names
  /\ Global \notin Exes
  /\ Manual \notin Exes \cup {Global}
  /\ None \notin Names

VARIABLES
  profiles,   \* profiles_ of the manager: name -> [exe, active, parts that are active]
  index,      \* profileExeIndex_: executable -> name
  watched,    \* executables the helper was told to watch
  running,    \* watched executables the helper has reported as running
  manual,     \* manualProfile_
  pViews,     \* pViews_, bottom first
  applied,    \* the view handed to the applicator last
  menu        \* manual profile entries of the system tray: name -> checked

vars == <<profiles, index, watched, running, manual, pViews, applied, menu>>

Profile == [exe : Exes \cup {Global, Manual}, active : BOOLEAN, parts : SUBSET Parts]
ProfileView == [name : Names, owner : [Parts -> Names]]
NoView == [name |-> None]

Put(f, k, v) == [x \in DOMAIN f \cup {k} |-> IF x = k THEN v ELSE f[x]]
Erase(f, k) == Restrict(f, DOMAIN f \ {k})

-----------------------------------------------------------------------------
(***************************************************************************)
(* Profile views                                                           *)
(***************************************************************************)

\* What the profile n of the directory ps shows over the view base: its own parts when they
\* are active or when there is no base, the part of the base otherwise.
View(ps, n, base) ==
  [name  |-> n,
   owner |-> [k \in Parts |->
                IF k \notin ps[n].parts /\ base # NoView THEN base.owner[k] ELSE n]]

\* The base the session takes from the stack vs for the views it is about to create.
BaseView(vs, man) ==
  CASE man = None /\ vs # <<>>    -> Last(vs)
    [] man # None /\ Len(vs) >= 2 -> vs[Len(vs) - 1]
    [] OTHER                      -> NoView

\* The names that are profiles, in their order.
Known(ps, names) ==
  LET kept == {i \in DOMAIN names : names[i] \in DOMAIN ps}
  IN  [j \in 1 .. Cardinality(kept) |->
         names[CHOOSE i \in kept : Cardinality({h \in kept : h <= i}) = j]]

\* Views for the names that are profiles, all of them over the same base.
CreateViews(ps, base, names) ==
  LET known == Known(ps, names)
  IN  [i \in DOMAIN known |-> View(ps, known[i], base)]

NamesOf(vs) == [i \in DOMAIN vs |-> vs[i].name]
AppendManual(names, man) == IF man = None THEN names ELSE Append(names, man)

\* The position of the first view of n, 0 when there is none.
Find(vs, n) == SelectInSeq(vs, LAMBDA v : v.name = n)
NamesAbove(vs, i) == NamesOf(SubSeq(vs, i + 1, Len(vs)))

\* Erases the view at i and every view above it, and creates views for names in their place.
Recreate(ps, man, vs, i, names) ==
  LET kept == SubSeq(vs, 1, i - 1)
  IN  kept \o CreateViews(ps, BaseView(kept, man), names)

\* queueProfileView: a view of n under that of the manual profile.
Queue(ps, man, vs, n) ==
  (IF man = None THEN vs ELSE Front(vs))
    \o CreateViews(ps, BaseView(vs, man), AppendManual(<<n>>, man))

\* The stack is stale after step: it is replaced, and its top applied.
Stack(vs) ==
  /\ pViews' = vs
  /\ applied' = IF vs = <<>> THEN NoView ELSE Last(vs)

\* Mutant of Dequeue: the views above are lost.
DequeueAllAbove(ps, man, n) ==
  LET i == Find(pViews, n)
  IN  IF i = 0 THEN UNCHANGED <<pViews, applied>> ELSE Stack(SubSeq(pViews, 1, i - 1))

\* Mutant of Dequeue: the new top is not applied.
DequeueSilently(ps, man, n) ==
  LET i == Find(pViews, n)
  IN  /\ pViews' = IF i = 0 THEN pViews ELSE Recreate(ps, man, pViews, i, NamesAbove(pViews, i))
      /\ UNCHANGED applied

\* dequeueProfileView: drops the view of n and recreates those above it.
Dequeue(ps, man, n) ==
  LET i == Find(pViews, n)
  IN  IF i = 0 THEN UNCHANGED <<pViews, applied>>
               ELSE Stack(Recreate(ps, man, pViews, i, NamesAbove(pViews, i)))

-----------------------------------------------------------------------------
(***************************************************************************)
(* What the session and the tray do when the manager notifies them         *)
(***************************************************************************)

\* Session::profileAdded: an active automatic profile is indexed and its executable watched.
IndexAdded(ps, n) ==
  LET exe == ps[n].exe
  IN  IF ps[n].active /\ exe # Manual /\ exe \notin DOMAIN index
        THEN /\ index' = Put(index, exe, n)
             /\ watched' = watched \cup {exe}
        ELSE UNCHANGED <<index, watched>>

\* Mutant of Forget: the helper is not told.
ForgetIndexOnly(e) == index' = Erase(index, e) /\ UNCHANGED <<watched, running>>

\* An executable leaves the index, and the helper forgets what it knows of it.
Forget(e) ==
  /\ index' = Erase(index, e)
  /\ watched' = watched \ {e}
  /\ running' = running \ {e}

\* Session::profileRemoved, also called when a profile is deactivated.  The manual profile is
\* not in the index, any other may be.
SessionRemoved(ps, n) ==
  LET indexed == {e \in DOMAIN index : index[e] = n}
  IN  /\ manual' = IF manual = n THEN None ELSE manual
      /\ IF manual = n \/ indexed = {}
           THEN UNCHANGED <<index, watched, running>>
           ELSE \E e \in indexed : Forget(e)
      /\ Dequeue(ps, manual', n)

\* Mutant of Reindexed: the old entry stays.
IndexKeepsOld(oldExe, newName, newExe) ==
  IF newExe = Manual \/ newExe \in DOMAIN index THEN index ELSE Put(index, newExe, newName)

\* Session::profileInfoChanged, the index: the entry of the old executable is replaced.
Reindexed(oldExe, newName, newExe) ==
  LET rest == Erase(index, oldExe)
  IN  IF newExe = Manual \/ newExe \in DOMAIN rest THEN rest ELSE Put(rest, newExe, newName)

\* Session::profileInfoChanged, index and monitor: a change of executable
\* makes the helper forget the old one and watch the new one.
IndexInfoChanged(oldExe, newName, newExe) ==
  /\ index' = Reindexed(oldExe, newName, newExe)
  /\ IF oldExe = newExe
       THEN UNCHANGED <<watched, running>>
       ELSE /\ watched' = (watched \ {oldExe}) \cup ({newExe} \ {Manual})
            /\ running' = running \ {oldExe}

\* Mutant of ManualInfoChanged: the manual profile keeps its old name.
ManualKeepsName(oldName, oldExe, newName, newExe) ==
  manual' = IF oldExe = Manual /\ manual = oldName /\ newExe # Manual THEN None ELSE manual

\* Session::profileInfoChanged, the manual profile: renamed, or no longer manual.
ManualInfoChanged(oldName, oldExe, newName, newExe) ==
  manual' = CASE oldExe = Manual /\ manual = oldName /\ newExe # Manual -> None
              [] oldExe = Manual /\ manual = oldName /\ newExe = Manual -> newName
              [] OTHER -> manual

\* Mutant of ViewsInfoChanged: a renamed profile moves to the top.
ViewsRenamedOnTop(ps, man, oldName, oldExe, newName, newExe) ==
  LET i    == Find(pViews, oldName)
      self == IF oldExe = newExe /\ oldName # newName THEN <<newName>> ELSE <<>>
  IN  IF i = 0
        THEN UNCHANGED <<pViews, applied>>
        ELSE Stack(Recreate(ps, man, pViews, i, NamesAbove(pViews, i) \o self))

\* Session::profileInfoChanged, the views: the view of the profile is recreated when only its
\* name changed, and dropped when its executable did.
ViewsInfoChanged(ps, man, oldName, oldExe, newName, newExe) ==
  LET i    == Find(pViews, oldName)
      self == IF oldExe = newExe /\ oldName # newName THEN <<newName>> ELSE <<>>
  IN  IF i = 0
        THEN UNCHANGED <<pViews, applied>>
        ELSE Stack(Recreate(ps, man, pViews, i, self \o NamesAbove(pViews, i)))

\* SysTray::profileInfoChanged: the entry of a manual profile follows its name.
MenuInfoChanged(oldName, oldExe, newName, newExe) ==
  menu' = CASE oldExe # Manual /\ newExe = Manual -> Put(menu, newName, FALSE)
            [] oldExe = Manual /\ newExe # Manual -> Erase(menu, oldName)
            [] oldExe = Manual /\ newExe = Manual /\ oldName \in DOMAIN menu ->
                 Put(Erase(menu, oldName), newName, menu[oldName])
            [] OTHER -> menu

-----------------------------------------------------------------------------
(***************************************************************************)
(* Initial state: any set of profiles the manager accepts from its storage *)
(***************************************************************************)

ManualProfiles(ps) == {n \in DOMAIN ps : ps[n].exe = Manual}

DistinctExes(ps) ==
  \A n, m \in DOMAIN ps : ps[n].exe = ps[m].exe /\ ps[n].exe # Manual => n = m

IsDirectory(ps) ==
  /\ Global \in DOMAIN ps
  /\ ps[Global].active
  /\ \A n \in DOMAIN ps : ps[n].exe = Global <=> n = Global
  /\ DistinctExes(ps)

\* Session::init: the active automatic profiles are indexed and watched.
Indexed(ps) == {n \in DOMAIN ps : ps[n].active /\ ps[n].exe # Manual}

Init ==
  /\ \E D \in SUBSET (Names \ {Global}) : profiles \in [D \cup {Global} -> Profile]
  /\ IsDirectory(profiles)
  /\ index = [e \in {profiles[n].exe : n \in Indexed(profiles)} |->
                CHOOSE n \in Indexed(profiles) : profiles[n].exe = e]
  /\ watched = DOMAIN index \ {Global}
  /\ running = {}
  /\ manual = None
  /\ pViews = <<View(profiles, Global, NoView)>>
  /\ applied = Last(pViews)
  /\ menu = [n \in ManualProfiles(profiles) |-> FALSE]

-----------------------------------------------------------------------------
(***************************************************************************)
(* Actions: the user edits the profiles                                    *)
(***************************************************************************)

\* A new profile p called n, created or cloned: the manager ignores a used name.
NewProfile(n, p) ==
  /\ n \notin DOMAIN profiles
  /\ LET ps == Put(profiles, n, p)
     IN  /\ profiles' = ps
         /\ IndexAdded(ps, n)
  /\ menu' = IF p.exe = Manual THEN Put(menu, n, FALSE) ELSE menu
  /\ UNCHANGED <<running, manual, pViews, applied>>

\* The default profile is active, as all its parts are.
AddProfile(n, e) == NewProfile(n, [exe |-> e, active |-> TRUE, parts |-> Parts])

\* Manual profiles are always active.
CloneProfile(m, n, e) == NewProfile(n, [profiles[m] EXCEPT !.exe = e, !.active = @ \/ e = Manual])

RemoveProfile(n) ==
  /\ n # Global
  /\ profiles' = Erase(profiles, n)
  /\ SessionRemoved(profiles', n)
  /\ menu' = Erase(menu, n)

\* The user enables or disables an automatic profile.
Activate(n) ==
  /\ n # Global
  /\ profiles[n].exe # Manual
  /\ profiles' = [profiles EXCEPT ![n].active = ~@]
  /\ IF profiles'[n].active
       THEN IndexAdded(profiles', n) /\ UNCHANGED <<running, manual, pViews, applied>>
       ELSE SessionRemoved(profiles', n)
  /\ UNCHANGED menu

\* The name or the executable of n changes.  When another profile has the new name the manager
\* cannot put n back and destroys it, and its observers are told of a change of name all the same.
UpdateInfo(n, newName, newExe) ==
  /\ n # Global
  /\ <<newName, newExe>> # <<n, profiles[n].exe>>
  /\ LET oldExe == profiles[n].exe
         new    == [profiles[n] EXCEPT !.exe = newExe, !.active = @ \/ newExe = Manual]
         others == Erase(profiles, n)
         ps     == IF newName \in DOMAIN others THEN others ELSE Put(others, newName, new)
     IN  /\ profiles' = ps
         /\ IndexInfoChanged(oldExe, newName, newExe)
         /\ ManualInfoChanged(n, oldExe, newName, newExe)
         /\ ViewsInfoChanged(ps, manual', n, oldExe, newName, newExe)
         /\ MenuInfoChanged(n, oldExe, newName, newExe)

\* Mutant of ChangeSettings: only the top of the stack is recreated.
ChangeTopSettings(n, parts) ==
  /\ profiles' = [profiles EXCEPT ![n].parts = parts]
  /\ LET i == Find(pViews, n)
     IN  IF i # Len(pViews)
           THEN UNCHANGED <<pViews, applied>>
           ELSE Stack(Recreate(profiles', manual, pViews, i, <<n>>))
  /\ UNCHANGED <<index, watched, running, manual, menu>>

\* The settings of n are edited, reset, restored or loaded from a file: its parts may become
\* active or inactive.  The views from that of n up are recreated.
ChangeSettings(n, parts) ==
  /\ profiles' = [profiles EXCEPT ![n].parts = parts]
  /\ LET i == Find(pViews, n)
     IN  IF i = 0
           THEN UNCHANGED <<pViews, applied>>
           ELSE Stack(Recreate(profiles', manual, pViews, i, NamesAbove(pViews, i - 1)))
  /\ UNCHANGED <<index, watched, running, manual, menu>>

-----------------------------------------------------------------------------
(***************************************************************************)
(* Actions: manual profiles, and the signals of the helper                 *)
(***************************************************************************)

\* toggleManualProfile(n), from the main window, the tray or a second instance of the program.
ToggleManualProfile(n) ==
  LET on == IF manual = n THEN None ELSE n
  IN  /\ manual' = on
      /\ Stack((IF manual = None THEN pViews ELSE Front(pViews))
                 \o CreateViews(profiles, BaseView(pViews, manual), AppendManual(<<>>, on)))
      /\ menu' = [m \in DOMAIN menu |->
                    IF m \in {manual, n} THEN m = on ELSE menu[m]]
      /\ UNCHANGED <<profiles, index, watched, running>>

\* The helper reports the first process of a watched executable, or, late, one of an
\* executable that is no longer in the index.
AppExec(e) ==
  /\ e \in watched \ running \/ e \notin DOMAIN index
  /\ running' = running \cup ({e} \cap watched)
  /\ Stack(Queue(profiles, manual, pViews, IF e \in DOMAIN index THEN index[e] ELSE None))
  /\ UNCHANGED <<profiles, index, watched, manual, menu>>

\* The helper reports that the last process of a watched executable is gone.
AppExit(e) ==
  /\ e \in running
  /\ running' = running \ {e}
  /\ Dequeue(profiles, manual, IF e \in DOMAIN index THEN index[e] ELSE None)
  /\ UNCHANGED <<profiles, index, watched, manual, menu>>

-----------------------------------------------------------------------------
(***************************************************************************)
(* The environment.  The dialogs refuse a name or an executable in use     *)
(* when it is typed, and Spec assumes that the user leaves it at that.     *)
(* They do accept it once the activation mode is changed and changed back, *)
(* and an executable after they were cancelled for its profile             *)
(* (ProfileInfoDialog.qml:158, Profiles.qml:324): see SpecForced.          *)
(***************************************************************************)
FreeNames == Names \ DOMAIN profiles
FreeExes == (Exes \ {profiles[n].exe : n \in DOMAIN profiles}) \cup {Manual}

NewInfo(n, e) == AddProfile(n, e) \/ \E m \in DOMAIN profiles : CloneProfile(m, n, e)

Edit ==
  \/ \E n \in FreeNames, e \in FreeExes : NewInfo(n, e)
  \/ \E n \in DOMAIN profiles :
       \/ RemoveProfile(n)
       \/ Activate(n)
       \/ \E newName \in FreeNames \cup {n}, newExe \in FreeExes \cup {profiles[n].exe} :
            UpdateInfo(n, newName, newExe)
       \/ \E parts \in SUBSET Parts : ChangeSettings(n, parts)

Signal == \E e \in Exes : AppExec(e) \/ AppExit(e)

\* The main window and the tray offer the manual profiles.
Next == Edit \/ Signal \/ \E n \in ManualProfiles(profiles) : ToggleManualProfile(n)

Spec == Init /\ [][Next]_vars

\* The command line option --toggle-manual-profile takes any name.  Nothing is defined once the
\* stack is empty: the session dereferences its top.
NextCli ==
  /\ pViews # <<>>
  /\ Edit \/ Signal \/ \E n \in Names : ToggleManualProfile(n)

SpecCli == Init /\ [][NextCli]_vars

\* The dialogs are made to accept used names and executables.  Nothing is defined, again, once the
\* stack is empty, nor when a profile is made manual under a used name: the manager goes on with
\* the profile it has destroyed (profilemanager.cpp:292).
NextForced ==
  /\ pViews # <<>>
  /\ \/ Next
     \/ \E n \in Names, e \in Exes \cup {Manual} : NewInfo(n, e)
     \/ \E n \in DOMAIN profiles, newName \in Names, newExe \in Exes \cup {Manual} :
          /\ newExe = Manual => newName \in FreeNames \cup {n}
          /\ UpdateInfo(n, newName, newExe)

SpecForced == Init /\ [][NextForced]_vars

-----------------------------------------------------------------------------
(***************************************************************************)
(* Properties                                                              *)
(***************************************************************************)

TablesTypeOK ==
  /\ DOMAIN profiles \subseteq Names /\ profiles \in [DOMAIN profiles -> Profile]
  /\ DOMAIN index \subseteq Exes \cup {Global} /\ index \in [DOMAIN index -> Names]
  /\ watched \subseteq Exes
  /\ running \subseteq Exes
  /\ manual \in Names \cup {None}
  /\ DOMAIN menu \subseteq Names /\ menu \in [DOMAIN menu -> BOOLEAN]

\* Every entry of the index leads to a profile for that executable, and every enabled automatic
\* profile is indexed: the signals of the helper find the right profile after any sequence of
\* additions, removals, renames, activations and changes of executable.
IndexInv ==
  /\ \A e \in DOMAIN index : index[e] \in DOMAIN profiles /\ profiles[index[e]].exe = e
  /\ \A n \in Indexed(profiles) : profiles[n].exe \in DOMAIN index

\* The helper watches nothing the session could not map back to a profile, and never the
\* global profile's pseudo executable.
WatchInv == running \subseteq watched /\ watched \subseteq DOMAIN index \ {Global}

\* The tray offers exactly the manual profiles, and the one it shows checked is the one the
\* session has toggled on, whatever renames and conversions happened since.
MenuInv ==
  /\ DOMAIN menu = ManualProfiles(profiles)
  /\ \A n \in DOMAIN menu : menu[n] <=> manual = n
  /\ manual # None => manual \in DOMAIN menu

\* The view of the active manual profile is the top of the stack: popping the stack removes it
\* and nothing else (session.cpp:147, "remove profile view of the active manual profile").
ManualViewOnTop == manual # None => pViews # <<>> /\ Last(pViews).name = manual

\* The names of the views of automatic profiles, in the order they were stacked.
AutomaticNames ==
  NamesOf(SubSeq(pViews, 2, Len(pViews) - (IF manual = None THEN 0 ELSE 1)))

\* The automatic profiles in effect are those of the programs the helper reports running: no
\* profile outlives its program, none is dropped by an operation on another profile.
RunningInv == ToSet(AutomaticNames) = {index[e] : e \in running}

\* The hardware has the settings of the top of the stack: no path changes the stack and forgets
\* to apply it.
AppliedInv == pViews # <<>> /\ applied = Last(pViews)

\* A view takes every active part from its own profile, and any other part from its own profile
\* or from one whose view is below it: nothing applied comes from a profile that is not in
\* effect, and no view is stale after its profile changed.
ViewsInv ==
  \A i \in DOMAIN pViews, k \in Parts :
    LET v == pViews[i]
    IN  /\ v.name \in DOMAIN profiles
        /\ v.owner[k] \in {pViews[j].name : j \in 1 .. i}
        /\ k \in profiles[v.name].parts => v.owner[k] = v.name

\* The applied view and its abstraction: the session implements EffectiveProfiles.
Effective == INSTANCE EffectiveProfiles
               WITH order <- AutomaticNames, override <- manual, top <- applied.name
EffectiveSpec == Effective!Spec

\* A view leaves alone what is not active in its profile: such a part is what the view below it
\* shows (CHANGELOG.md:48, manual profiles "partially or completely override the settings
\* applied by the global and per-application profiles").
PartialOverride ==
  \A i \in 2 .. Len(pViews), k \in Parts :
    k \notin profiles[pViews[i].name].parts => pViews[i].owner[k] = pViews[i - 1].owner[k]

\* The programs that are watched are those of the enabled automatic profiles (README.md:11,
\* "to automatically configure your system when a program is launched"; ProfileButton.qml:146,
\* the button that says "Disable").
EnabledAreWatched == watched = {profiles[n].exe : n \in Indexed(profiles) \ {Global}}
=============================================================================
