---------------------------- MODULE SessionProofs ----------------------------
(***************************************************************************)
(* The session, proved for any names, executables and parts.               *)
(*                                                                         *)
(* First its tables: the directory, the index from executables to          *)
(* profiles, what the helper watches and the menu of the tray agree after  *)
(* every operation.  Then the stack of views, which rests on them: which   *)
(* profiles are in effect, what their views show, that the top is what is  *)
(* applied, and that the session implements EffectiveProfiles.  The tables *)
(* say which profile a signal of the helper is about; every operation is   *)
(* then a change of the names of the stack, with views created anew over   *)
(* the ones it keeps.                                                      *)
(***************************************************************************)
EXTENDS Session, FiniteSetTheorems, TLAPS

USE SessionAssumption

(***************************************************************************)
(* Tables                                                                  *)
(***************************************************************************)

LEMMA EraseTable ==
  ASSUME NEW f, NEW k
  PROVE  /\ DOMAIN Erase(f, k) = DOMAIN f \ {k}
         /\ \A x \in DOMAIN f \ {k} : Erase(f, k)[x] = f[x]
BY DEF Erase, Restrict

\* Putting and erasing keep a table over keys and values of the same sets.
LEMMA PutType ==
  ASSUME NEW K, NEW V, NEW f, DOMAIN f \subseteq K, f \in [DOMAIN f -> V], NEW k \in K, NEW v \in V
  PROVE  DOMAIN Put(f, k, v) \subseteq K /\ Put(f, k, v) \in [DOMAIN Put(f, k, v) -> V]
BY DEF Put

LEMMA EraseType ==
  ASSUME NEW K, NEW V, NEW f, DOMAIN f \subseteq K, f \in [DOMAIN f -> V], NEW k
  PROVE  DOMAIN Erase(f, k) \subseteq K /\ Erase(f, k) \in [DOMAIN Erase(f, k) -> V]
BY DEF Erase, Restrict

(***************************************************************************)
(* The inductive invariant: each table is right because of the others      *)
(***************************************************************************)

\* The directory stays one the manager accepts from its storage, while the user takes no name or
\* executable that is in use: the environment of Spec.
DirectoryInv == IsDirectory(profiles)

IInv == TablesTypeOK /\ DirectoryInv /\ IndexInv /\ WatchInv /\ MenuInv

\* The parts of the state the invariant speaks of.
tables == <<profiles, index, watched, running, manual, menu>>

LEMMA TablesUnchanged == IInv /\ UNCHANGED tables => IInv'
BY DEF IInv, tables, TablesTypeOK, DirectoryInv, IndexInv, WatchInv, MenuInv

LEMMA InitIInv == Init => IInv
<1> SUFFICES ASSUME Init PROVE IInv
  OBVIOUS
<1>1. PICK D \in SUBSET (Names \ {Global}) : profiles \in [D \cup {Global} -> Profile]
  BY DEF Init
<1>2. DOMAIN profiles = D \cup {Global} /\ \A n \in DOMAIN profiles : profiles[n] \in Profile
  BY <1>1
<1>3. DirectoryInv
  BY DEF Init, DirectoryInv
<1>4. \A n \in Indexed(profiles) : profiles[n].exe \in Exes \cup {Global}
  BY <1>2 DEF Indexed, Profile
<1>5. IndexInv
  <2>1. DOMAIN index = {profiles[n].exe : n \in Indexed(profiles)}
    BY DEF Init
  <2>2. \A e \in DOMAIN index : index[e] \in Indexed(profiles) /\ profiles[index[e]].exe = e
    BY DEF Init
  <2> QED
    BY <2>1, <2>2 DEF IndexInv, Indexed
<1>6. TablesTypeOK
  <2>1. DOMAIN index \subseteq Exes \cup {Global} /\ index \in [DOMAIN index -> Names]
    <3> DEFINE E == {profiles[n].exe : n \in Indexed(profiles)}
               profileOf(e) == CHOOSE n \in Indexed(profiles) : profiles[n].exe = e
    <3>0. index = [e \in E |-> profileOf(e)]
      BY DEF Init
    <3> HIDE DEF E, profileOf
    <3>1. DOMAIN index = E /\ index = [e \in DOMAIN index |-> index[e]]
      BY <3>0
    <3>2. \A e \in DOMAIN index : index[e] \in Names
      BY <1>2, <1>5 DEF IndexInv
    <3> QED
      BY <1>4, <3>1, <3>2 DEF E
  <2>2. DOMAIN menu \subseteq Names /\ menu \in [DOMAIN menu -> BOOLEAN]
    BY <1>2 DEF Init, ManualProfiles
  <2>3. watched \subseteq Exes /\ running = {} /\ manual = None
    BY <2>1 DEF Init
  <2> QED
    BY <1>1, <1>2, <2>1, <2>2, <2>3 DEF TablesTypeOK
<1>7. WatchInv
  BY DEF Init, WatchInv
<1>8. MenuInv
  BY <1>2 DEF Init, MenuInv, ManualProfiles
<1> QED
  BY <1>3, <1>5, <1>6, <1>7, <1>8 DEF IInv

(***************************************************************************)
(* The steps                                                               *)
(***************************************************************************)

\* profileAdded with an executable no other profile is for.
LEMMA NewProfileStep ==
  ASSUME IInv, NEW n \in Names, NEW p \in Profile, p.exe \in FreeExes, p.exe # Global, NewProfile(n, p)
  PROVE  IInv'
<1> DEFINE ps == Put(profiles, n, p)
<1>1. /\ n \notin DOMAIN profiles
      /\ \A m \in DOMAIN profiles : p.exe = Manual \/ profiles[m].exe # p.exe
      /\ profiles' = ps /\ IndexAdded(ps, n)
      /\ menu' = IF p.exe = Manual THEN Put(menu, n, FALSE) ELSE menu
      /\ running' = running /\ manual' = manual
  BY DEF NewProfile, FreeExes
<1>2. /\ DOMAIN ps = DOMAIN profiles \cup {n} /\ ps[n] = p
      /\ \A m \in DOMAIN profiles : ps[m] = profiles[m]
  BY <1>1 DEF Put
<1>3. DOMAIN ps \subseteq Names /\ ps \in [DOMAIN ps -> Profile]
  BY PutType DEF IInv, TablesTypeOK
<1> HIDE DEF ps
<1>4. p.exe \in Exes \cup {Global, Manual}
  BY DEF Profile
<1>5. n # Global /\ DirectoryInv'
  BY <1>1, <1>2 DEF IInv, DirectoryInv, IsDirectory, DistinctExes
<1>6. \/ /\ p.active /\ p.exe # Manual /\ p.exe \notin DOMAIN index
         /\ index' = Put(index, p.exe, n) /\ watched' = watched \cup {p.exe}
      \/ /\ ~p.active \/ p.exe = Manual \/ p.exe \in DOMAIN index
         /\ index' = index /\ watched' = watched
  BY <1>1, <1>2 DEF IndexAdded
<1>7. p.exe # Manual => p.exe \notin DOMAIN index
  BY <1>1 DEF IInv, IndexInv
<1>8. menu' = menu \/ menu' = Put(menu, n, FALSE)
  BY <1>1
<1>9. TablesTypeOK'
  <2>1. DOMAIN index' \subseteq Exes \cup {Global} /\ index' \in [DOMAIN index' -> Names]
    <3>1. DOMAIN index \subseteq Exes \cup {Global} /\ index \in [DOMAIN index -> Names]
      BY DEF IInv, TablesTypeOK
    <3>2. CASE index' = index
      BY <3>1, <3>2
    <3>3. CASE index' = Put(index, p.exe, n) /\ p.exe \in Exes \cup {Global}
      BY <3>1, <3>3, PutType
    <3> QED
      BY <1>4, <1>6, <3>2, <3>3
  <2>2. DOMAIN menu' \subseteq Names /\ menu' \in [DOMAIN menu' -> BOOLEAN]
    <3>1. DOMAIN menu \subseteq Names /\ menu \in [DOMAIN menu -> BOOLEAN]
      BY DEF IInv, TablesTypeOK
    <3>2. CASE menu' = menu
      BY <3>1, <3>2
    <3>3. CASE menu' = Put(menu, n, FALSE)
      <4>1. FALSE \in BOOLEAN
        OBVIOUS
      <4> QED
        BY ONLY <3>1, <3>3, <4>1, n \in Names, PutType
    <3> QED
      BY <1>8, <3>2, <3>3
  <2>3. watched' \subseteq Exes
    BY <1>4, <1>6 DEF IInv, TablesTypeOK
  <2> QED
    BY <1>1, <1>3, <2>1, <2>2, <2>3 DEF IInv, TablesTypeOK
<1>10. IndexInv'
  <2>1. \A e \in DOMAIN index : index[e] \in DOMAIN ps /\ ps[index[e]].exe = e
    BY <1>2 DEF IInv, IndexInv
  <2>2. \A m \in Indexed(ps) : m # n => m \in Indexed(profiles) /\ ps[m].exe = profiles[m].exe
    BY <1>2 DEF Indexed
  <2>3. \A m \in Indexed(profiles) : profiles[m].exe \in DOMAIN index
    BY DEF IInv, IndexInv
  <2>4. CASE p.active /\ p.exe # Manual
    <3>1. /\ DOMAIN index' = DOMAIN index \cup {p.exe} /\ index'[p.exe] = n
          /\ \A e \in DOMAIN index : index'[e] = index[e]
      BY <1>6, <1>7, <2>4 DEF Put
    <3> QED
      BY <1>1, <1>2, <2>1, <2>2, <2>3, <3>1 DEF IndexInv
  <2>5. CASE ~(p.active /\ p.exe # Manual)
    <3>1. index' = index /\ n \notin Indexed(ps)
      BY <1>2, <1>6, <2>5 DEF Indexed
    <3> QED
      BY <1>1, <2>1, <2>2, <2>3, <3>1 DEF IndexInv
  <2> QED
    BY <2>4, <2>5
<1>11. WatchInv'
  <2>1. DOMAIN index \subseteq DOMAIN index'
    BY <1>6 DEF Put
  <2>2. watched' = watched \/ (watched' = watched \cup {p.exe} /\ p.exe \in DOMAIN index')
    BY <1>6 DEF Put
  <2> QED
    BY <1>1, <2>1, <2>2 DEF IInv, WatchInv
<1>12. MenuInv'
  <2>1. ManualProfiles(ps) = ManualProfiles(profiles) \cup (IF p.exe = Manual THEN {n} ELSE {})
    BY <1>2 DEF ManualProfiles
  <2>2. manual # n
    BY <1>1 DEF IInv, TablesTypeOK, MenuInv, ManualProfiles
  <2>3. CASE p.exe = Manual
    <3>1. menu' = Put(menu, n, FALSE)
      BY <1>1, <2>3
    <3>2. n \notin DOMAIN menu
      BY <1>1 DEF IInv, MenuInv, ManualProfiles
    <3>3. /\ DOMAIN menu' = DOMAIN menu \cup {n} /\ menu'[n] = FALSE
          /\ \A m \in DOMAIN menu : menu'[m] = menu[m]
      BY <3>1, <3>2 DEF Put
    <3> QED
      BY <1>1, <2>1, <2>2, <2>3, <3>3 DEF IInv, MenuInv
  <2>4. CASE p.exe # Manual
    BY <1>1, <2>1, <2>4 DEF IInv, MenuInv
  <2> QED
    BY <2>3, <2>4
<1> QED
  BY <1>5, <1>9, <1>10, <1>11, <1>12 DEF IInv

\* profileRemoved, on its own: every entry of n leaves the index, and what leaves the index is
\* no longer watched.
LEMMA RemovedTables ==
  ASSUME IInv, NEW n \in DOMAIN profiles, n # Global, NEW ps, SessionRemoved(ps, n)
  PROVE  /\ manual' = IF manual = n THEN None ELSE manual
         /\ DOMAIN index' = {e \in DOMAIN index : index[e] # n}
         /\ \A e \in DOMAIN index' : index'[e] = index[e]
         /\ index' \in [DOMAIN index' -> Names]
         /\ watched' \subseteq watched \cap DOMAIN index'
         /\ running' \subseteq watched'
<1>1. manual' = IF manual = n THEN None ELSE manual
  BY DEF SessionRemoved
<1>2. CASE {e \in DOMAIN index : index[e] = n} = {}
  <2>1. index' = index /\ watched' = watched /\ running' = running
    BY <1>2 DEF SessionRemoved
  <2> QED
    BY <1>1, <1>2, <2>1 DEF IInv, TablesTypeOK, WatchInv
<1>3. CASE {e \in DOMAIN index : index[e] = n} # {}
  <2>1. profiles[n].exe # Manual
    BY <1>3 DEF IInv, IndexInv, TablesTypeOK
  <2>2. manual # n
    BY <2>1 DEF IInv, MenuInv, ManualProfiles, TablesTypeOK
  <2>3. PICK e \in DOMAIN index : index[e] = n /\ Forget(e)
    BY <1>3, <2>2 DEF SessionRemoved
  <2>4. \A x \in DOMAIN index : index[x] = n => x = e
    BY <2>3 DEF IInv, IndexInv
  <2>5. index' = Erase(index, e) /\ watched' = watched \ {e} /\ running' = running \ {e}
    BY <2>3 DEF Forget
  <2>6. /\ DOMAIN index' = DOMAIN index \ {e}
        /\ \A x \in DOMAIN index \ {e} : index'[x] = index[x]
        /\ index' \in [DOMAIN index' -> Names]
    BY <2>5, EraseTable, EraseType DEF IInv, TablesTypeOK
  <2>7. DOMAIN index' = {x \in DOMAIN index : index[x] # n}
    BY <2>3, <2>4, <2>6
  <2>8. watched' \subseteq watched \cap DOMAIN index' /\ running' \subseteq watched'
    BY <2>5, <2>6 DEF IInv, WatchInv
  <2> QED
    BY <1>1, <2>6, <2>7, <2>8
<1> QED
  BY <1>2, <1>3

LEMMA RemoveProfileStep ==
  ASSUME IInv, NEW n \in DOMAIN profiles, RemoveProfile(n)
  PROVE  IInv'
<1>1. n # Global /\ profiles' = Erase(profiles, n) /\ menu' = Erase(menu, n)
      /\ SessionRemoved(profiles', n)
  BY DEF RemoveProfile
<1>2. /\ manual' = IF manual = n THEN None ELSE manual
      /\ DOMAIN index' = {e \in DOMAIN index : index[e] # n}
      /\ \A e \in DOMAIN index' : index'[e] = index[e]
      /\ index' \in [DOMAIN index' -> Names]
      /\ watched' \subseteq watched \cap DOMAIN index'
      /\ running' \subseteq watched'
  BY <1>1, RemovedTables
<1>3. /\ DOMAIN profiles' = DOMAIN profiles \ {n}
      /\ \A m \in DOMAIN profiles \ {n} : profiles'[m] = profiles[m]
      /\ DOMAIN profiles' \subseteq Names /\ profiles' \in [DOMAIN profiles' -> Profile]
  BY <1>1, EraseTable, EraseType DEF IInv, TablesTypeOK
<1>4. /\ DOMAIN menu' = DOMAIN menu \ {n}
      /\ \A m \in DOMAIN menu \ {n} : menu'[m] = menu[m]
      /\ DOMAIN menu' \subseteq Names /\ menu' \in [DOMAIN menu' -> BOOLEAN]
  BY <1>1, EraseTable, EraseType DEF IInv, TablesTypeOK
<1>5. TablesTypeOK'
  BY <1>2, <1>3, <1>4 DEF IInv, TablesTypeOK
<1>6. DirectoryInv'
  BY <1>1, <1>3 DEF IInv, DirectoryInv, IsDirectory, DistinctExes
<1>7. IndexInv'
  <2>1. \A e \in DOMAIN index' : index'[e] \in DOMAIN profiles' /\ profiles'[index'[e]].exe = e
    BY <1>2, <1>3 DEF IInv, IndexInv
  <2>2. ASSUME NEW m \in Indexed(profiles') PROVE profiles'[m].exe \in DOMAIN index'
    <3>1. m # n /\ m \in Indexed(profiles) /\ profiles'[m] = profiles[m]
      BY <1>3 DEF Indexed
    <3>2. profiles[m].exe \in DOMAIN index /\ profiles[m].exe # Manual
      BY <3>1 DEF IInv, IndexInv, Indexed
    <3>3. index[profiles[m].exe] # n
      BY <3>1, <3>2 DEF IInv, IndexInv, DirectoryInv, IsDirectory, DistinctExes, Indexed
    <3> QED
      BY <1>2, <3>1, <3>2, <3>3
  <2> QED
    BY <2>1, <2>2 DEF IndexInv
<1>8. WatchInv'
  BY <1>2 DEF IInv, WatchInv
<1>9. MenuInv'
  <2>1. ManualProfiles(profiles') = ManualProfiles(profiles) \ {n}
    BY <1>3 DEF ManualProfiles
  <2>2. \A m \in DOMAIN menu' : menu'[m] <=> manual' = m
    BY <1>2, <1>4 DEF IInv, MenuInv, TablesTypeOK
  <2>3. manual' # None => manual' \in DOMAIN menu'
    BY <1>2, <1>4 DEF IInv, MenuInv
  <2> QED
    BY <1>4, <2>1, <2>2, <2>3 DEF IInv, MenuInv
<1> QED
  BY <1>5, <1>6, <1>7, <1>8, <1>9 DEF IInv

\* A profile that is enabled or disabled, or whose settings change, keeps the rest of the directory.
LEMMA SameInfo ==
  ASSUME IInv, NEW n \in DOMAIN profiles, NEW p \in Profile, p.exe = profiles[n].exe,
         n = Global => p.active,
         profiles' = [profiles EXCEPT ![n] = p]
  PROVE  /\ DOMAIN profiles' = DOMAIN profiles
         /\ profiles'[n] = p
         /\ \A m \in DOMAIN profiles : m # n => profiles'[m] = profiles[m]
         /\ \A m \in DOMAIN profiles : profiles'[m].exe = profiles[m].exe
         /\ profiles' \in [DOMAIN profiles' -> Profile]
         /\ DirectoryInv'
         /\ ManualProfiles(profiles') = ManualProfiles(profiles)
<1>1. /\ DOMAIN profiles' = DOMAIN profiles
      /\ profiles'[n] = p
      /\ \A m \in DOMAIN profiles : m # n => profiles'[m] = profiles[m]
      /\ \A m \in DOMAIN profiles : profiles'[m].exe = profiles[m].exe
      /\ profiles' \in [DOMAIN profiles' -> Profile]
  BY DEF IInv, TablesTypeOK
<1>2. DirectoryInv'
  BY <1>1 DEF IInv, DirectoryInv, IsDirectory, DistinctExes
<1>3. ManualProfiles(profiles') = ManualProfiles(profiles)
  BY <1>1 DEF ManualProfiles
<1> QED
  BY <1>1, <1>2, <1>3

LEMMA ActivateStep ==
  ASSUME IInv, NEW n \in DOMAIN profiles, Activate(n)
  PROVE  IInv'
<1> DEFINE p == [profiles[n] EXCEPT !.active = ~@]
<1>1. n # Global /\ profiles[n].exe # Manual /\ menu' = menu
      /\ profiles' = [profiles EXCEPT ![n] = p]
  BY DEF Activate
<1>2. profiles[n] \in Profile
  BY DEF IInv, TablesTypeOK
<1>3. p \in Profile /\ p.exe = profiles[n].exe /\ (p.active <=> ~profiles[n].active)
  BY <1>2 DEF Profile
<1> HIDE DEF p
<1>4. /\ DOMAIN profiles' = DOMAIN profiles
      /\ profiles'[n] = p
      /\ \A m \in DOMAIN profiles : m # n => profiles'[m] = profiles[m]
      /\ \A m \in DOMAIN profiles : profiles'[m].exe = profiles[m].exe
      /\ profiles' \in [DOMAIN profiles' -> Profile]
      /\ DirectoryInv'
      /\ ManualProfiles(profiles') = ManualProfiles(profiles)
  BY <1>1, <1>3, SameInfo
<1>5. profiles[n].exe \in Exes
  BY <1>1, <1>2 DEF Profile, IInv, DirectoryInv, IsDirectory
<1>6. CASE p.active
  <2> DEFINE exe == profiles[n].exe
  <2>1. IndexAdded(profiles', n) /\ running' = running /\ manual' = manual
    BY <1>4, <1>6 DEF Activate
  <2>2. profiles'[n].active /\ profiles'[n].exe = exe /\ exe # Manual
    BY <1>1, <1>3, <1>4, <1>6
  <2>3. \/ /\ exe \notin DOMAIN index
           /\ index' = Put(index, exe, n) /\ watched' = watched \cup {exe}
        \/ /\ exe \in DOMAIN index
           /\ index' = index /\ watched' = watched
    BY <2>1, <2>2 DEF IndexAdded
  <2> HIDE DEF exe
  <2>4. /\ DOMAIN index' = DOMAIN index \cup {exe}
        /\ \A e \in DOMAIN index : index'[e] = index[e]
        /\ exe \notin DOMAIN index => index'[exe] = n
    BY <2>3 DEF Put
  <2>5. DOMAIN index' \subseteq Exes \cup {Global} /\ index' \in [DOMAIN index' -> Names]
    <3>1. /\ DOMAIN index \subseteq Exes \cup {Global} /\ index \in [DOMAIN index -> Names]
          /\ exe \in Exes \cup {Global} /\ n \in Names
      BY <1>5 DEF IInv, TablesTypeOK, exe
    <3>2. CASE index' = index
      BY <3>1, <3>2
    <3>3. CASE index' = Put(index, exe, n)
      BY <3>1, <3>3, PutType
    <3> QED
      BY <2>3, <3>2, <3>3
  <2>6. watched' \subseteq watched \cup {exe} /\ watched \subseteq watched'
    BY <2>3
  <2>7. TablesTypeOK'
    BY <1>1, <1>4, <1>5, <2>1, <2>5, <2>6 DEF IInv, TablesTypeOK, exe
  <2>8. IndexInv'
    <3>1. \A e \in DOMAIN index' : index'[e] \in DOMAIN profiles' /\ profiles'[index'[e]].exe = e
      BY <1>4, <2>2, <2>4 DEF IInv, IndexInv
    <3>2. ASSUME NEW m \in Indexed(profiles') PROVE profiles'[m].exe \in DOMAIN index'
      <4>1. CASE m = n
        BY <2>2, <2>4, <4>1
      <4>2. CASE m # n
        <5>1. m \in Indexed(profiles) /\ profiles'[m] = profiles[m]
          BY <1>4, <4>2 DEF Indexed
        <5> QED
          BY <2>4, <5>1 DEF IInv, IndexInv
      <4> QED
        BY <4>1, <4>2
    <3> QED
      BY <3>1, <3>2 DEF IndexInv
  <2>9. WatchInv'
    BY <1>5, <2>1, <2>4, <2>6 DEF IInv, WatchInv, exe
  <2>10. MenuInv'
    BY <1>1, <1>4, <2>1 DEF IInv, MenuInv
  <2> QED
    BY <1>4, <2>7, <2>8, <2>9, <2>10 DEF IInv
<1>7. CASE ~p.active
  <2>1. SessionRemoved(profiles', n)
    BY <1>4, <1>7 DEF Activate
  <2>2. /\ manual' = IF manual = n THEN None ELSE manual
        /\ DOMAIN index' = {e \in DOMAIN index : index[e] # n}
        /\ \A e \in DOMAIN index' : index'[e] = index[e]
        /\ index' \in [DOMAIN index' -> Names]
        /\ watched' \subseteq watched \cap DOMAIN index'
        /\ running' \subseteq watched'
    BY <1>1, <2>1, RemovedTables
  <2>3. manual # n /\ manual' = manual
    BY <1>1, <2>2 DEF IInv, MenuInv, ManualProfiles, TablesTypeOK
  <2>4. TablesTypeOK'
    BY <1>1, <1>4, <2>2, <2>3 DEF IInv, TablesTypeOK
  <2>5. IndexInv'
    <3>1. \A e \in DOMAIN index' : index'[e] \in DOMAIN profiles' /\ profiles'[index'[e]].exe = e
      BY <1>4, <2>2 DEF IInv, IndexInv
    <3>2. ASSUME NEW m \in Indexed(profiles') PROVE profiles'[m].exe \in DOMAIN index'
      <4>1. m # n /\ m \in Indexed(profiles) /\ profiles'[m] = profiles[m]
        BY <1>4, <1>7 DEF Indexed
      <4>2. profiles[m].exe \in DOMAIN index /\ profiles[m].exe # Manual
        BY <4>1 DEF IInv, IndexInv, Indexed
      <4>3. index[profiles[m].exe] # n
        BY <4>1, <4>2 DEF IInv, IndexInv, DirectoryInv, IsDirectory, DistinctExes, Indexed
      <4> QED
        BY <2>2, <4>1, <4>2, <4>3
    <3> QED
      BY <3>1, <3>2 DEF IndexInv
  <2>6. WatchInv'
    BY <2>2 DEF IInv, WatchInv
  <2>7. MenuInv'
    BY <1>1, <1>4, <2>3 DEF IInv, MenuInv
  <2> QED
    BY <1>4, <2>4, <2>5, <2>6, <2>7 DEF IInv
<1> QED
  BY <1>6, <1>7

\* What Spec lets the user change n to.
FreeInfo(n, newName, newExe) ==
  newName \in FreeNames \cup {n} /\ newExe \in FreeExes \cup {profiles[n].exe}

LEMMA FreeInfoType ==
  ASSUME IInv, NEW n \in DOMAIN profiles, n # Global, NEW newName \in FreeNames \cup {n},
         NEW newExe \in FreeExes \cup {profiles[n].exe}
  PROVE  newName \in Names /\ newExe \in Exes \cup {Manual}
<1>1. profiles[n] \in Profile /\ n \in Names /\ profiles[n].exe # Global
  BY DEF IInv, TablesTypeOK, DirectoryInv, IsDirectory
<1>2. profiles[n].exe \in Exes \cup {Manual}
  BY <1>1 DEF Profile
<1> QED
  BY <1>1, <1>2 DEF FreeNames, FreeExes

\* A name and an executable that are free: the profile keeps its place in the directory.
LEMMA UpdatedProfiles ==
  ASSUME IInv, NEW n \in DOMAIN profiles, NEW newName \in Names, NEW newExe \in Exes \cup {Manual},
         FreeInfo(n, newName, newExe), UpdateInfo(n, newName, newExe)
  PROVE  LET oldExe == profiles[n].exe
             new    == [profiles[n] EXCEPT !.exe = newExe, !.active = @ \/ newExe = Manual]
         IN  /\ n # Global
             /\ newName = n \/ newName \notin DOMAIN profiles
             /\ newExe = oldExe \/ newExe = Manual \/ \A m \in DOMAIN profiles : profiles[m].exe # newExe
             /\ newName = n => newExe # oldExe
             /\ profiles' = Put(Erase(profiles, n), newName, new)
             /\ IndexInfoChanged(oldExe, newName, newExe)
             /\ ManualInfoChanged(n, oldExe, newName, newExe)
             /\ ViewsInfoChanged(profiles', manual', n, oldExe, newName, newExe)
             /\ MenuInfoChanged(n, oldExe, newName, newExe)
<1>1. newName \notin DOMAIN Erase(profiles, n)
  <2>1. DOMAIN Erase(profiles, n) = DOMAIN profiles \ {n}
    BY EraseTable
  <2>2. newName = n \/ newName \notin DOMAIN profiles
    BY DEF FreeInfo, FreeNames
  <2> QED
    BY <2>1, <2>2
<1>2. /\ newName = n \/ newName \notin DOMAIN profiles
      /\ newExe = profiles[n].exe \/ newExe = Manual \/ \A m \in DOMAIN profiles : profiles[m].exe # newExe
  BY DEF FreeInfo, FreeNames, FreeExes
<1> QED
  BY <1>1, <1>2 DEF UpdateInfo

\* profileInfoChanged: the entries of the tables follow the name and the executable.
LEMMA UpdateInfoStep ==
  ASSUME IInv, NEW n \in DOMAIN profiles, NEW newName \in Names, NEW newExe \in Exes \cup {Manual},
         FreeInfo(n, newName, newExe), UpdateInfo(n, newName, newExe)
  PROVE  IInv'
<1> DEFINE oldExe == profiles[n].exe
           new    == [profiles[n] EXCEPT !.exe = newExe, !.active = @ \/ newExe = Manual]
<1>1. /\ n # Global
      /\ newName = n \/ newName \notin DOMAIN profiles
      /\ newExe = oldExe \/ newExe = Manual \/ \A m \in DOMAIN profiles : profiles[m].exe # newExe
      /\ profiles' = Put(Erase(profiles, n), newName, new)
      /\ IndexInfoChanged(oldExe, newName, newExe)
      /\ ManualInfoChanged(n, oldExe, newName, newExe)
      /\ MenuInfoChanged(n, oldExe, newName, newExe)
  BY UpdatedProfiles
<1>2. profiles[n] \in Profile
  BY DEF IInv, TablesTypeOK
<1>3. new \in Profile /\ new.exe = newExe
  BY <1>2 DEF Profile
<1>4. oldExe \in Exes \cup {Manual}
  BY <1>1, <1>2 DEF Profile, IInv, DirectoryInv, IsDirectory
<1>5. \A m \in DOMAIN profiles : profiles[m].exe = oldExe /\ oldExe # Manual => m = n
  BY DEF IInv, DirectoryInv, IsDirectory, DistinctExes
<1> HIDE DEF new
<1>6. /\ DOMAIN profiles' = (DOMAIN profiles \ {n}) \cup {newName}
      /\ profiles'[newName] = new
      /\ newName \notin DOMAIN profiles \ {n}
      /\ \A m \in DOMAIN profiles \ {n} : profiles'[m] = profiles[m]
  BY <1>1, EraseTable DEF Put
<1>7. DOMAIN profiles' \subseteq Names /\ profiles' \in [DOMAIN profiles' -> Profile]
  BY <1>1, <1>3, EraseType, PutType DEF IInv, TablesTypeOK
<1>8. DirectoryInv'
  <2>1. newName # Global
    BY <1>1 DEF IInv, DirectoryInv, IsDirectory
  <2>2. newExe # Global
    OBVIOUS
  <2>3. Global \in DOMAIN profiles' /\ profiles'[Global].active
    BY <1>1, <1>6 DEF IInv, DirectoryInv, IsDirectory
  <2>4. \A m \in DOMAIN profiles' : profiles'[m].exe = Global <=> m = Global
    BY <1>3, <1>6, <2>1, <2>2 DEF IInv, DirectoryInv, IsDirectory
  <2>5. \A m \in DOMAIN profiles \ {n} : newExe = Manual \/ profiles'[m].exe # newExe
    BY <1>1, <1>5, <1>6
  <2>6. DistinctExes(profiles')
    BY <1>3, <1>6, <2>5 DEF IInv, DirectoryInv, IsDirectory, DistinctExes
  <2> QED
    BY <2>3, <2>4, <2>6 DEF DirectoryInv, IsDirectory
<1> HIDE DEF oldExe
<1>9. \A e \in DOMAIN index :
        /\ e # Manual
        /\ e # oldExe => index[e] \in DOMAIN profiles \ {n} /\ profiles[index[e]].exe = e
  BY DEF IInv, TablesTypeOK, IndexInv, oldExe
<1>10. \A e \in DOMAIN index : e = newExe => e = oldExe
  BY <1>1, <1>9 DEF IInv, IndexInv
<1>11. index' = IF newExe = Manual THEN Erase(index, oldExe) ELSE Put(Erase(index, oldExe), newExe, newName)
  <2>1. newExe \notin DOMAIN Erase(index, oldExe)
    BY <1>10, EraseTable
  <2>2. index' = Reindexed(oldExe, newName, newExe)
    BY <1>1 DEF IndexInfoChanged
  <2> QED
    BY <2>1, <2>2, Zenon DEF Reindexed
<1>12. /\ DOMAIN index' = (DOMAIN index \ {oldExe}) \cup ({newExe} \ {Manual})
       /\ newExe # Manual => index'[newExe] = newName
       /\ \A e \in DOMAIN index \ {oldExe} : index'[e] = index[e]
  <2>1. /\ DOMAIN Erase(index, oldExe) = DOMAIN index \ {oldExe}
        /\ \A e \in DOMAIN index \ {oldExe} : Erase(index, oldExe)[e] = index[e]
    BY EraseTable
  <2>2. CASE newExe = Manual
    BY <1>11, <2>1, <2>2
  <2>3. CASE newExe # Manual
    BY <1>10, <1>11, <2>1, <2>3 DEF Put
  <2> QED
    BY <2>2, <2>3
<1>13. DOMAIN index' \subseteq Exes \cup {Global} /\ index' \in [DOMAIN index' -> Names]
  <2>1. /\ DOMAIN Erase(index, oldExe) \subseteq Exes \cup {Global}
        /\ Erase(index, oldExe) \in [DOMAIN Erase(index, oldExe) -> Names]
    BY EraseType DEF IInv, TablesTypeOK
  <2>2. CASE newExe = Manual
    BY <1>11, <2>1, <2>2
  <2>3. CASE newExe # Manual
    <3>1. newExe \in Exes \cup {Global}
      BY <2>3
    <3> QED
      BY <1>11, <2>1, <2>3, <3>1, PutType
  <2> QED
    BY <2>2, <2>3
<1>14. IndexInv'
  <2>1. \A e \in DOMAIN index' : index'[e] \in DOMAIN profiles' /\ profiles'[index'[e]].exe = e
    <3> TAKE e \in DOMAIN index'
    <3>1. CASE e = newExe /\ newExe # Manual
      BY <1>3, <1>6, <1>12, <3>1
    <3>2. CASE e \in DOMAIN index \ {oldExe}
      BY <1>6, <1>9, <1>12, <3>2
    <3> QED
      BY <1>12, <3>1, <3>2
  <2>2. ASSUME NEW m \in Indexed(profiles') PROVE profiles'[m].exe \in DOMAIN index'
    <3>1. CASE m = newName
      BY <1>3, <1>6, <1>12, <3>1 DEF Indexed
    <3>2. CASE m # newName
      <4>1. /\ m \in DOMAIN profiles \ {n} /\ profiles'[m] = profiles[m] /\ m \in Indexed(profiles)
            /\ profiles[m].exe # Manual
        BY <1>6, <3>2 DEF Indexed
      <4>2. profiles[m].exe # oldExe
        BY <1>5, <4>1 DEF oldExe
      <4> QED
        BY <1>12, <4>1, <4>2 DEF IInv, IndexInv
    <3> QED
      BY <3>1, <3>2
  <2> QED
    BY <2>1, <2>2 DEF IndexInv
<1>15. \/ oldExe = newExe /\ watched' = watched /\ running' = running
       \/ /\ watched' = (watched \ {oldExe}) \cup ({newExe} \ {Manual})
          /\ running' = running \ {oldExe}
  BY <1>1 DEF IndexInfoChanged
<1>16. WatchInv'
  BY <1>9, <1>12, <1>15 DEF IInv, WatchInv
<1>17. /\ manual = n <=> (oldExe = Manual /\ menu[n])
       /\ oldExe = Manual <=> n \in DOMAIN menu
  BY DEF IInv, MenuInv, ManualProfiles, TablesTypeOK, oldExe
<1>18. manual # newName \/ newName = n
  BY <1>1 DEF IInv, MenuInv, ManualProfiles, TablesTypeOK
<1>19. ManualProfiles(profiles') = (ManualProfiles(profiles) \ {n}) \cup (IF newExe = Manual THEN {newName} ELSE {})
  BY <1>3, <1>6 DEF ManualProfiles
<1>20. newName = n \/ newName \notin DOMAIN menu
  BY <1>1 DEF IInv, MenuInv, ManualProfiles
<1>21. DOMAIN menu = ManualProfiles(profiles) /\ DOMAIN menu \subseteq Names /\ menu \in [DOMAIN menu -> BOOLEAN]
       /\ (\A m \in DOMAIN menu : menu[m] <=> manual = m) /\ (manual # None => manual \in DOMAIN menu)
       /\ manual \in Names \cup {None}
  BY DEF IInv, MenuInv, TablesTypeOK
<1>22. MenuInv' /\ DOMAIN menu' \subseteq Names /\ menu' \in [DOMAIN menu' -> BOOLEAN]
       /\ manual' \in Names \cup {None}
  <2>1. CASE oldExe # Manual /\ newExe = Manual
    <3>1. menu' = Put(menu, newName, FALSE) /\ manual' = manual /\ n \notin DOMAIN menu
      BY <1>1, <1>17, <2>1 DEF MenuInfoChanged, ManualInfoChanged
    <3>2. /\ DOMAIN menu' = DOMAIN menu \cup {newName} /\ menu'[newName] = FALSE
          /\ \A m \in DOMAIN menu : menu'[m] = menu[m]
      BY <1>20, <3>1 DEF Put
    <3>3. DOMAIN menu' \subseteq Names /\ menu' \in [DOMAIN menu' -> BOOLEAN]
      BY <1>21, <3>1, PutType
    <3>4. manual # newName
      BY <1>17, <1>18, <2>1
    <3> QED
      BY <1>19, <1>21, <2>1, <3>1, <3>2, <3>3, <3>4 DEF MenuInv
  <2>2. CASE oldExe = Manual /\ newExe # Manual
    <3>1. menu' = Erase(menu, n) /\ manual' = IF manual = n THEN None ELSE manual
      <4>1. menu' = Erase(menu, n)
        BY <1>1, <2>2 DEF MenuInfoChanged
      <4>2. manual' = IF manual = n THEN None ELSE manual
        BY <1>1, <2>2 DEF ManualInfoChanged
      <4> QED
        BY <4>1, <4>2
    <3>2. /\ DOMAIN menu' = DOMAIN menu \ {n}
          /\ \A m \in DOMAIN menu \ {n} : menu'[m] = menu[m]
          /\ DOMAIN menu' \subseteq Names /\ menu' \in [DOMAIN menu' -> BOOLEAN]
      BY <1>21, <3>1, EraseTable, EraseType
    <3>3. DOMAIN menu' = ManualProfiles(profiles')
      BY <1>19, <1>21, <2>2, <3>2
    <3>4. \A m \in DOMAIN menu' : menu'[m] <=> manual' = m
      BY <1>21, <3>1, <3>2
    <3>5. manual' # None => manual' \in DOMAIN menu'
      BY <1>21, <3>1, <3>2
    <3> QED
      BY <1>21, <3>1, <3>2, <3>3, <3>4, <3>5 DEF MenuInv
  <2>3. CASE oldExe = Manual /\ newExe = Manual
    <3>1. menu' = Put(Erase(menu, n), newName, menu[n]) /\ manual' = IF manual = n THEN newName ELSE manual
      BY <1>1, <1>17, <2>3 DEF MenuInfoChanged, ManualInfoChanged
    <3>2. /\ DOMAIN Erase(menu, n) = DOMAIN menu \ {n}
          /\ \A m \in DOMAIN menu \ {n} : Erase(menu, n)[m] = menu[m]
          /\ DOMAIN Erase(menu, n) \subseteq Names
          /\ Erase(menu, n) \in [DOMAIN Erase(menu, n) -> BOOLEAN]
      BY <1>21, EraseTable, EraseType
    <3>3. /\ DOMAIN menu' = (DOMAIN menu \ {n}) \cup {newName} /\ menu'[newName] = menu[n]
          /\ \A m \in DOMAIN menu \ {n} : menu'[m] = menu[m]
      BY <1>20, <3>1, <3>2 DEF Put
    <3>4. DOMAIN menu' \subseteq Names /\ menu' \in [DOMAIN menu' -> BOOLEAN]
      <4>1. menu[n] \in BOOLEAN
        BY <1>17, <1>21, <2>3
      <4> QED
        BY <3>1, <3>2, <4>1, PutType
    <3>5. DOMAIN menu' = ManualProfiles(profiles')
      BY <1>19, <1>21, <2>3, <3>3
    <3>6. \A m \in DOMAIN menu' : menu'[m] <=> manual' = m
      <4> TAKE m \in DOMAIN menu'
      <4>1. CASE m = newName
        BY <1>17, <1>18, <2>3, <3>1, <3>3, <4>1
      <4>2. CASE m # newName
        BY <1>21, <3>1, <3>3, <4>2
      <4> QED
        BY <4>1, <4>2
    <3>7. manual' # None => manual' \in DOMAIN menu'
      BY <1>21, <3>1, <3>3
    <3> QED
      BY <1>21, <3>1, <3>4, <3>5, <3>6, <3>7 DEF MenuInv
  <2>4. CASE oldExe # Manual /\ newExe # Manual
    <3>1. menu' = menu /\ manual' = manual /\ n \notin DOMAIN menu
      <4>1. menu' = menu
        BY <1>1, <2>4 DEF MenuInfoChanged
      <4>2. manual' = manual
        BY <1>1, <2>4 DEF ManualInfoChanged
      <4> QED
        BY <1>17, <2>4, <4>1, <4>2
    <3> QED
      BY <1>19, <1>21, <2>4, <3>1 DEF MenuInv
  <2> QED
    BY <2>1, <2>2, <2>3, <2>4
<1>23. TablesTypeOK'
  <2>1. watched' \subseteq Exes /\ running' \subseteq Exes
    BY <1>15 DEF IInv, TablesTypeOK
  <2> QED
    BY <1>7, <1>13, <1>22, <2>1 DEF TablesTypeOK
<1> QED
  BY <1>8, <1>14, <1>16, <1>22, <1>23 DEF IInv

LEMMA ChangeSettingsStep ==
  ASSUME IInv, NEW n \in DOMAIN profiles, NEW parts \in SUBSET Parts, ChangeSettings(n, parts)
  PROVE  IInv'
<1> DEFINE p == [profiles[n] EXCEPT !.parts = parts]
<1>1. /\ profiles' = [profiles EXCEPT ![n] = p]
      /\ UNCHANGED <<index, watched, running, manual, menu>>
  BY DEF ChangeSettings
<1>2. profiles[n] \in Profile
  BY DEF IInv, TablesTypeOK
<1>3. p \in Profile /\ p.exe = profiles[n].exe /\ p.active = profiles[n].active
  BY <1>2 DEF Profile
<1>4. n = Global => p.active
  BY <1>3 DEF IInv, DirectoryInv, IsDirectory
<1> HIDE DEF p
<1>5. /\ DOMAIN profiles' = DOMAIN profiles
      /\ profiles'[n] = p
      /\ \A m \in DOMAIN profiles : m # n => profiles'[m] = profiles[m]
      /\ \A m \in DOMAIN profiles : profiles'[m].exe = profiles[m].exe
      /\ profiles' \in [DOMAIN profiles' -> Profile]
      /\ DirectoryInv'
      /\ ManualProfiles(profiles') = ManualProfiles(profiles)
  BY <1>1, <1>3, <1>4, SameInfo
<1>6. Indexed(profiles') = Indexed(profiles)
  BY <1>3, <1>5 DEF Indexed
<1>7. IndexInv'
  BY <1>1, <1>5, <1>6 DEF IInv, IndexInv, Indexed
<1>8. TablesTypeOK' /\ WatchInv' /\ MenuInv'
  BY <1>1, <1>5 DEF IInv, TablesTypeOK, WatchInv, MenuInv
<1> QED
  BY <1>5, <1>7, <1>8 DEF IInv

LEMMA ToggleStep ==
  ASSUME IInv, NEW n \in ManualProfiles(profiles), ToggleManualProfile(n)
  PROVE  IInv'
<1>1. /\ manual' = IF manual = n THEN None ELSE n
      /\ menu' = [m \in DOMAIN menu |-> IF m \in {manual, n} THEN m = manual' ELSE menu[m]]
      /\ UNCHANGED <<profiles, index, watched, running>>
  BY DEF ToggleManualProfile
<1>2. n \in DOMAIN menu /\ n \in Names
  BY DEF IInv, MenuInv, TablesTypeOK, ManualProfiles
<1>3. MenuInv'
  <2>1. \A m \in DOMAIN menu : m # None
    BY DEF IInv, TablesTypeOK
  <2>2. DOMAIN menu' = DOMAIN menu
    BY <1>1
  <2>3. \A m \in DOMAIN menu : menu'[m] <=> manual' = m
    BY <1>1, <2>1 DEF IInv, MenuInv
  <2> QED
    BY <1>1, <1>2, <2>2, <2>3 DEF IInv, MenuInv
<1>4. TablesTypeOK'
  <2>1. \A m \in DOMAIN menu : (IF m \in {manual, n} THEN m = manual' ELSE menu[m]) \in BOOLEAN
    BY DEF IInv, TablesTypeOK
  <2>2. menu' \in [DOMAIN menu' -> BOOLEAN] /\ DOMAIN menu' = DOMAIN menu
    BY <1>1, <2>1
  <2> QED
    BY <1>1, <1>2, <2>2 DEF IInv, TablesTypeOK
<1>5. DirectoryInv' /\ IndexInv' /\ WatchInv'
  BY <1>1 DEF IInv, DirectoryInv, IndexInv, WatchInv
<1> QED
  BY <1>3, <1>4, <1>5 DEF IInv

\* A signal of the helper changes what is known to run, and the views.
LEMMA SignalStep ==
  ASSUME IInv, Signal
  PROVE  IInv'
<1>1. /\ UNCHANGED <<profiles, index, watched, manual, menu>>
      /\ running' \subseteq watched
  BY DEF Signal, AppExec, AppExit, IInv, WatchInv
<1> QED
  BY <1>1 DEF IInv, TablesTypeOK, DirectoryInv, IndexInv, WatchInv, MenuInv

\* A profile is added, or cloned from another one.
LEMMA NewInfoProfile ==
  ASSUME IInv, NEW n, NEW e \in FreeExes, NewInfo(n, e)
  PROVE  \E p \in Profile : p.exe = e /\ NewProfile(n, p)
<1>1. e \in Exes \cup {Manual}
  BY DEF FreeExes
<1>2. CASE AddProfile(n, e)
  <2> DEFINE p == [exe |-> e, active |-> TRUE, parts |-> Parts]
  <2>1. p \in Profile /\ p.exe = e
    BY <1>1 DEF Profile
  <2> QED
    BY <1>2, <2>1 DEF AddProfile
<1>3. ASSUME NEW m \in DOMAIN profiles, CloneProfile(m, n, e) PROVE \E p \in Profile : p.exe = e /\ NewProfile(n, p)
  <2>1. profiles[m] \in Profile
    BY DEF IInv, TablesTypeOK
  <2> DEFINE p == [profiles[m] EXCEPT !.exe = e, !.active = @ \/ e = Manual]
  <2>2. p \in Profile /\ p.exe = e
    BY <1>1, <2>1 DEF Profile
  <2> QED
    BY <1>3, <2>2 DEF CloneProfile
<1> QED
  BY <1>2, <1>3 DEF NewInfo

LEMMA NextIInv == IInv /\ [Next]_vars => IInv'
<1> SUFFICES ASSUME IInv, [Next]_vars PROVE IInv'
  OBVIOUS
<1>1. ASSUME NEW n \in FreeNames, NEW e \in FreeExes, NewInfo(n, e) PROVE IInv'
  <2>1. PICK p \in Profile : p.exe = e /\ NewProfile(n, p)
    BY <1>1, NewInfoProfile
  <2>2. n \in Names /\ e # Global
    BY DEF FreeNames, FreeExes
  <2> QED
    BY <2>1, <2>2, NewProfileStep
<1>3. CASE Edit
  <2>1. ASSUME NEW n \in DOMAIN profiles, NEW newName \in FreeNames \cup {n},
               NEW newExe \in FreeExes \cup {profiles[n].exe}, UpdateInfo(n, newName, newExe)
        PROVE  IInv'
    <3>1. newName \in Names /\ newExe \in Exes \cup {Manual}
      BY <2>1, FreeInfoType DEF UpdateInfo
    <3> QED
      BY <2>1, <3>1, UpdateInfoStep DEF FreeInfo
  <2> QED
    BY <1>1, <1>3, <2>1, RemoveProfileStep, ActivateStep, ChangeSettingsStep DEF Edit
<1>4. CASE Signal
  BY <1>4, SignalStep
<1>5. ASSUME NEW n \in ManualProfiles(profiles), ToggleManualProfile(n) PROVE IInv'
  BY <1>5, ToggleStep
<1>6. CASE UNCHANGED vars
  BY <1>6, TablesUnchanged DEF vars, tables
<1> QED
  BY <1>3, <1>4, <1>5, <1>6 DEF Next

LEMMA SpecIInv == Spec => []IInv
<1> QED
  BY InitIInv, NextIInv, PTL DEF Spec

(***************************************************************************)
(* The theorems                                                            *)
(***************************************************************************)

\* The tables of the manager, the session and the tray keep their types.
THEOREM TablesTyped == Spec => []TablesTypeOK
<1>1. IInv => TablesTypeOK
  BY DEF IInv
<1> QED
  BY <1>1, SpecIInv, PTL

\* profileExeIndex_: an executable leads to the profile that is for it, and every enabled
\* automatic profile can be found.
THEOREM IndexCorrect == Spec => []IndexInv
<1>1. IInv => IndexInv
  BY DEF IInv
<1> QED
  BY <1>1, SpecIInv, PTL

\* The helper's registry: what it watches the session can map to a profile.
THEOREM WatchCorrect == Spec => []WatchInv
<1>1. IInv => WatchInv
  BY DEF IInv
<1> QED
  BY <1>1, SpecIInv, PTL

\* SysTray: its menu has the manual profiles, with the toggled one checked.
THEOREM MenuCorrect == Spec => []MenuInv
<1>1. IInv => MenuInv
  BY DEF IInv
<1> QED
  BY <1>1, SpecIInv, PTL


(***************************************************************************)
(* Names                                                                   *)
(***************************************************************************)

\* No name twice.
Distinct(s) == \A i, j \in DOMAIN s : s[i] = s[j] => i = j

LEMMA ConcatFacts ==
  ASSUME NEW S, NEW s \in Seq(S), NEW t \in Seq(S)
  PROVE  /\ s \o t \in Seq(S) /\ Len(s \o t) = Len(s) + Len(t)
         /\ \A i \in 1 .. Len(s) : (s \o t)[i] = s[i]
         /\ \A i \in 1 .. Len(t) : (s \o t)[Len(s) + i] = t[i]
         /\ \A i \in 1 .. Len(s) + Len(t) : i \in 1 .. Len(s) \/ i - Len(s) \in 1 .. Len(t)
         /\ Len(s) \in Nat /\ Len(t) \in Nat
<1>1. Len(s) \in Nat /\ Len(t) \in Nat
  OBVIOUS
<1>2. \A i \in 1 .. Len(t) : (s \o t)[Len(s) + i] = t[i]
  <2> TAKE i \in 1 .. Len(t)
  <2>1. Len(s) + i \in 1 .. Len(s) + Len(t) /\ Len(s) + i > Len(s) /\ Len(s) + i - Len(s) = i
    BY <1>1
  <2> QED
    BY <2>1
<1> QED
  BY <1>1, <1>2

LEMMA ConcatEqual ==
  ASSUME NEW S, NEW s \in Seq(S), NEW t \in Seq(S), NEW q \in Seq(S), Len(q) = Len(s) + Len(t),
         \A i \in 1 .. Len(s) : q[i] = s[i],
         \A i \in 1 .. Len(t) : q[Len(s) + i] = t[i]
  PROVE  q = s \o t
<1> DEFINE c == s \o t
<1>1. /\ c \in Seq(S) /\ Len(c) = Len(s) + Len(t)
      /\ \A i \in 1 .. Len(s) : c[i] = s[i]
      /\ \A i \in 1 .. Len(t) : c[Len(s) + i] = t[i]
      /\ \A i \in 1 .. Len(s) + Len(t) : i \in 1 .. Len(s) \/ i - Len(s) \in 1 .. Len(t)
      /\ Len(s) \in Nat /\ Len(t) \in Nat
  BY ConcatFacts
<1> HIDE DEF c
<1>2. ASSUME NEW i \in 1 .. Len(q) PROVE q[i] = c[i]
  <2>1. CASE i \in 1 .. Len(s)
    BY <1>1, <2>1
  <2>2. CASE i - Len(s) \in 1 .. Len(t)
    <3>1. Len(s) + (i - Len(s)) = i
      BY <1>1
    <3> QED
      BY <1>1, <2>2, <3>1
  <2> QED
    BY <1>1, <2>1, <2>2
<1>3. q = c
  BY <1>1, <1>2
<1> QED
  BY <1>3 DEF c

LEMMA SeqEqual ==
  ASSUME NEW S, NEW s \in Seq(S), NEW t \in Seq(S), Len(s) = Len(t), \A i \in 1 .. Len(s) : s[i] = t[i]
  PROVE  s = t
OBVIOUS

LEMMA TwoNames ==
  ASSUME NEW a, NEW b
  PROVE  Append(<<a>>, b) = <<a, b>>
<1> DEFINE S == {a, b}
<1>1. PICK s : s = Append(<<a>>, b)
  OBVIOUS
<1>2. PICK t : t = <<a, b>>
  OBVIOUS
<1>3. a \in S /\ b \in S /\ <<a>> \in Seq(S)
  OBVIOUS
<1>4. s \in Seq(S) /\ Len(s) = 2 /\ s[1] = a /\ s[2] = b
  BY <1>1, <1>3
<1>5. t \in Seq(S) /\ Len(t) = 2 /\ t[1] = a /\ t[2] = b
  BY <1>2, <1>3
<1>6. \A i \in 1 .. 2 : s[i] = t[i]
  BY ONLY <1>4, <1>5
<1>7. s = t
  BY ONLY <1>4, <1>5, <1>6, SeqEqual
<1> QED
  BY <1>1, <1>2, <1>7

LEMMA IntervalSize ==
  ASSUME NEW n \in Nat
  PROVE  Cardinality(1 .. n) = n
<1>1. 1 \in Int /\ n \in Int
  OBVIOUS
<1>2. Cardinality(1 .. n) = IF 1 > n THEN 0 ELSE n - 1 + 1
  BY <1>1, FS_Interval
<1> QED
  BY <1>2

\* A list of names that are all profiles is taken as it is, and another name is dropped.
LEMMA KnownAll ==
  ASSUME NEW ps, NEW names \in Seq(Names), \A i \in DOMAIN names : names[i] \in DOMAIN ps
  PROVE  Known(ps, names) = names
<1> DEFINE kept == {i \in DOMAIN names : names[i] \in DOMAIN ps}
           upTo(i) == {h \in kept : h <= i}
<1>1. kept = 1 .. Len(names) /\ Len(names) \in Nat
  OBVIOUS
<1>2. Cardinality(kept) = Len(names)
  BY ONLY <1>1, IntervalSize
<1>3. ASSUME NEW i \in kept PROVE Cardinality(upTo(i)) = i
  <2>1. upTo(i) = 1 .. i /\ i \in Nat /\ i >= 1
    BY <1>1
  <2> QED
    BY ONLY <2>1, IntervalSize
<1>4. \A j \in 1 .. Len(names) : (CHOOSE i \in kept : Cardinality(upTo(i)) = j) = j
  BY <1>1, <1>3
<1>5. Known(ps, names)
        = [j \in 1 .. Cardinality(kept) |-> names[CHOOSE i \in kept : Cardinality(upTo(i)) = j]]
  BY DEF Known
<1> HIDE DEF kept, upTo
<1>6. Known(ps, names) = [j \in 1 .. Len(names) |-> names[j]]
  BY <1>2, <1>4, <1>5, Zenon
<1>7. names = [j \in 1 .. Len(names) |-> names[j]]
  OBVIOUS
<1> QED
  BY <1>6, <1>7

LEMMA KnownNone ==
  ASSUME NEW ps, DOMAIN ps \subseteq Names
  PROVE  /\ Known(ps, <<None>>) = <<>>
         /\ \A n \in DOMAIN ps : Known(ps, <<None, n>>) = <<n>>
<1>1. None \notin DOMAIN ps
  OBVIOUS
<1>2. Known(ps, <<None>>) = <<>>
  <2> DEFINE names == <<None>>
             kept == {i \in DOMAIN names : names[i] \in DOMAIN ps}
             upTo(i) == {h \in kept : h <= i}
  <2>1. kept = {}
    BY <1>1
  <2>2. Cardinality(kept) = 0
    BY ONLY <2>1, FS_EmptySet
  <2>3. Known(ps, names)
          = [j \in 1 .. Cardinality(kept) |-> names[CHOOSE i \in kept : Cardinality(upTo(i)) = j]]
    BY DEF Known
  <2>4. 1 .. 0 = {}
    OBVIOUS
  <2> HIDE DEF kept, upTo
  <2> QED
    BY <2>2, <2>3, <2>4
<1>3. ASSUME NEW n \in DOMAIN ps PROVE Known(ps, <<None, n>>) = <<n>>
  <2> DEFINE names == <<None, n>>
             kept == {i \in DOMAIN names : names[i] \in DOMAIN ps}
             upTo(i) == {h \in kept : h <= i}
  <2>1. kept = {2} /\ upTo(2) = {2}
    BY <1>1
  <2>2. Cardinality(kept) = 1 /\ Cardinality(upTo(2)) = 1
    BY <2>1, FS_Singleton
  <2>3. \A j \in 1 .. 1 : (CHOOSE i \in kept : Cardinality(upTo(i)) = j) = 2
    BY <2>1, <2>2
  <2>4. Known(ps, names) = [j \in 1 .. Cardinality(kept) |-> names[CHOOSE i \in kept : Cardinality(upTo(i)) = j]]
    BY DEF Known
  <2>5. names[2] = n
    OBVIOUS
  <2> HIDE DEF kept, upTo, names
  <2>6. Known(ps, names) = [j \in 1 .. 1 |-> n]
    BY <2>2, <2>3, <2>4, <2>5, Zenon
  <2> QED
    BY <2>6 DEF names
<1> QED
  BY <1>2, <1>3

\* With distinct names the view of a profile is at one position.
LEMMA FindFacts ==
  ASSUME NEW vs \in Seq(ProfileView), Distinct(NamesOf(vs)), NEW n
  PROVE  /\ Find(vs, n) \in 0 .. Len(vs)
         /\ Find(vs, n) # 0 => NamesOf(vs)[Find(vs, n)] = n
         /\ Find(vs, n) = 0 => \A i \in DOMAIN vs : NamesOf(vs)[i] # n
<1> DEFINE at == {i \in 1 .. Len(vs) : vs[i].name = n}
<1>1. Find(vs, n) = IF at # {} THEN CHOOSE i \in at : \A j \in at : i <= j ELSE 0
  BY DEF Find, SelectInSeq, Min
<1>2. DOMAIN vs = 1 .. Len(vs) /\ Len(vs) \in Nat
  OBVIOUS
<1>3. \A i \in DOMAIN vs : NamesOf(vs)[i] = vs[i].name
  BY DEF NamesOf
<1>4. DOMAIN NamesOf(vs) = DOMAIN vs
  BY DEF NamesOf
<1>5. \A i, j \in at : i = j
  BY <1>2, <1>3, <1>4 DEF Distinct
<1>6. CASE at = {}
  BY <1>1, <1>2, <1>3, <1>6
<1>7. CASE at # {}
  <2>1. PICK i \in at : TRUE
    BY <1>7
  <2>2. \A j \in at : i <= j
    BY <1>2, <1>5, <2>1
  <2>3. Find(vs, n) \in at
    BY <1>1, <1>7, <2>2
  <2> QED
    BY <1>2, <1>3, <2>3
<1> QED
  BY <1>6, <1>7

(***************************************************************************)
(* Views                                                                   *)
(***************************************************************************)

\* The views vs show the profiles ps: none is missing, an active part is the profile's own, and
\* any other one comes from the profile itself or from one below it.
Shows(ps, vs) ==
  \A i \in DOMAIN vs :
    /\ vs[i].name \in DOMAIN ps
    /\ \A k \in Parts : /\ \E j \in 1 .. i : vs[i].owner[k] = vs[j].name
                        /\ k \in ps[vs[i].name].parts => vs[i].owner[k] = vs[i].name

\* A view that others may be created over: none, or one of kept.
IsBase(kept, base) == base = NoView \/ \E h \in DOMAIN kept : base = kept[h]

LEMMA ViewFacts ==
  ASSUME NEW v \in ProfileView
  PROVE  v.name \in Names /\ v.owner \in [Parts -> Names] /\ v # NoView
<1>1. v.name \in Names /\ v.owner \in [Parts -> Names]
  BY DEF ProfileView
<1>2. NoView.name = None
  BY DEF NoView
<1> QED
  BY <1>1, <1>2

LEMMA NamesOfFacts ==
  ASSUME NEW vs \in Seq(ProfileView)
  PROVE  /\ NamesOf(vs) \in Seq(Names) /\ Len(NamesOf(vs)) = Len(vs)
         /\ \A i \in 1 .. Len(vs) : NamesOf(vs)[i] = vs[i].name
<1>1. DOMAIN vs = 1 .. Len(vs) /\ Len(vs) \in Nat
  OBVIOUS
<1>2. \A i \in 1 .. Len(vs) : vs[i] \in ProfileView
  OBVIOUS
<1>3. \A i \in 1 .. Len(vs) : vs[i].name \in Names
  BY <1>2, ViewFacts
<1>4. NamesOf(vs) = [i \in 1 .. Len(vs) |-> vs[i].name]
  BY <1>1 DEF NamesOf
<1> QED
  BY <1>1, <1>3, <1>4

LEMMA OneView ==
  ASSUME NEW ps, NEW n \in DOMAIN ps, DOMAIN ps \subseteq Names,
         NEW base, base = NoView \/ base \in ProfileView
  PROVE  /\ View(ps, n, base) \in ProfileView
         /\ View(ps, n, base).name = n
         /\ \A k \in Parts :
              View(ps, n, base).owner[k] = IF k \notin ps[n].parts /\ base # NoView THEN base.owner[k] ELSE n
<1> DEFINE o == [k \in Parts |-> IF k \notin ps[n].parts /\ base # NoView THEN base.owner[k] ELSE n]
<1>1. o \in [Parts -> Names]
  <2>1. CASE base = NoView
    BY <2>1
  <2>2. CASE base # NoView
    <3>1. base.owner \in [Parts -> Names]
      BY <2>2, ViewFacts
    <3>2. \A k \in Parts : base.owner[k] \in Names
      BY <3>1
    <3> QED
      BY <3>2
  <2> QED
    BY <2>1, <2>2
<1>2. View(ps, n, base) = [name |-> n, owner |-> o]
  BY DEF View
<1>3. \A k \in Parts : o[k] = IF k \notin ps[n].parts /\ base # NoView THEN base.owner[k] ELSE n
  OBVIOUS
<1> HIDE DEF o
<1> QED
  BY <1>1, <1>2, <1>3 DEF ProfileView

\* Views created over kept, for names that are profiles, are put above it and show the profiles.
LEMMA CreateFacts ==
  ASSUME NEW ps, DOMAIN ps \subseteq Names,
         NEW kept \in Seq(ProfileView), Shows(ps, kept),
         NEW base, IsBase(kept, base),
         NEW names \in Seq(Names), \A i \in DOMAIN names : names[i] \in DOMAIN ps
  PROVE  LET vs == kept \o CreateViews(ps, base, names)
         IN  /\ vs \in Seq(ProfileView) /\ Shows(ps, vs)
             /\ Len(vs) = Len(kept) + Len(names)
             /\ NamesOf(vs) = NamesOf(kept) \o names
<1> DEFINE new == CreateViews(ps, base, names)
           vs  == kept \o new
<1>1. new = [i \in DOMAIN names |-> View(ps, names[i], base)]
  BY KnownAll DEF CreateViews
<1>2. base = NoView \/ base \in ProfileView
  BY DEF IsBase
<1>3. \A i \in DOMAIN names : /\ View(ps, names[i], base) \in ProfileView
                             /\ View(ps, names[i], base).name = names[i]
                             /\ \A k \in Parts : View(ps, names[i], base).owner[k] =
                                  IF k \notin ps[names[i]].parts /\ base # NoView THEN base.owner[k] ELSE names[i]
  <2> TAKE i \in DOMAIN names
  <2>1. names[i] \in DOMAIN ps
    OBVIOUS
  <2> DEFINE n == names[i]
             w == View(ps, n, base)
  <2>2. w \in ProfileView
    BY ONLY <1>2, <2>1, DOMAIN ps \subseteq Names, OneView
  <2>3. w.name = n
    BY ONLY <1>2, <2>1, DOMAIN ps \subseteq Names, OneView
  <2>4. \A k \in Parts : w.owner[k] = IF k \notin ps[n].parts /\ base # NoView THEN base.owner[k] ELSE n
    BY DEF View
  <2> QED
    BY <2>2, <2>3, <2>4
<1>4. new \in Seq(ProfileView) /\ Len(new) = Len(names) /\ \A i \in 1 .. Len(names) : new[i] = View(ps, names[i], base)
  <2>1. DOMAIN names = 1 .. Len(names) /\ Len(names) \in Nat
    OBVIOUS
  <2> QED
    BY <1>1, <1>3, <2>1
<1> HIDE DEF new
<1>5. /\ vs \in Seq(ProfileView) /\ Len(vs) = Len(kept) + Len(names)
      /\ \A i \in 1 .. Len(kept) : vs[i] = kept[i]
      /\ \A i \in 1 .. Len(names) : vs[Len(kept) + i] = new[i]
      /\ \A i \in 1 .. Len(vs) : i \in 1 .. Len(kept) \/ i - Len(kept) \in 1 .. Len(names)
      /\ Len(kept) \in Nat /\ Len(names) \in Nat
  <2>1. /\ kept \o new \in Seq(ProfileView) /\ Len(kept \o new) = Len(kept) + Len(new)
        /\ \A i \in 1 .. Len(kept) : (kept \o new)[i] = kept[i]
        /\ \A i \in 1 .. Len(new) : (kept \o new)[Len(kept) + i] = new[i]
        /\ \A i \in 1 .. Len(kept) + Len(new) : i \in 1 .. Len(kept) \/ i - Len(kept) \in 1 .. Len(new)
        /\ Len(kept) \in Nat /\ Len(new) \in Nat
    BY ONLY <1>4, ConcatFacts, kept \in Seq(ProfileView)
  <2> QED
    BY ONLY <1>4, <2>1
<1> HIDE DEF vs
<1>6. NamesOf(vs) = NamesOf(kept) \o names
  <2>1. /\ NamesOf(vs) \in Seq(Names) /\ Len(NamesOf(vs)) = Len(vs)
        /\ \A i \in 1 .. Len(vs) : NamesOf(vs)[i] = vs[i].name
    BY <1>5, NamesOfFacts
  <2>2. /\ NamesOf(kept) \in Seq(Names) /\ Len(NamesOf(kept)) = Len(kept)
        /\ \A i \in 1 .. Len(kept) : NamesOf(kept)[i] = kept[i].name
    BY NamesOfFacts
  <2>3. \A i \in 1 .. Len(kept) : NamesOf(vs)[i] = NamesOf(kept)[i]
    BY <1>5, <2>1, <2>2
  <2>4. \A i \in 1 .. Len(names) : NamesOf(vs)[Len(kept) + i] = names[i]
    <3> TAKE i \in 1 .. Len(names)
    <3>1. Len(kept) + i \in 1 .. Len(vs) /\ i \in DOMAIN names
      BY <1>5
    <3>2. vs[Len(kept) + i] = View(ps, names[i], base)
      BY ONLY <1>4, <1>5, <3>1
    <3> QED
      BY ONLY <1>3, <2>1, <3>1, <3>2
  <2> QED
    <3> DEFINE q == NamesOf(vs)
               s == NamesOf(kept)
    <3>1. /\ q \in Seq(Names) /\ s \in Seq(Names) /\ names \in Seq(Names)
          /\ Len(q) = Len(s) + Len(names)
          /\ \A i \in 1 .. Len(s) : q[i] = s[i]
          /\ \A i \in 1 .. Len(names) : q[Len(s) + i] = names[i]
      BY <1>5, <2>1, <2>2, <2>3, <2>4
    <3> HIDE DEF q, s
    <3>2. q = s \o names
      BY ONLY <3>1, ConcatEqual
    <3> QED
      BY <3>2 DEF q, s
<1>7. Shows(ps, vs)
  <2> SUFFICES ASSUME NEW i \in 1 .. Len(vs)
               PROVE  /\ vs[i].name \in DOMAIN ps
                      /\ \A k \in Parts : /\ \E j \in 1 .. i : vs[i].owner[k] = vs[j].name
                                          /\ k \in ps[vs[i].name].parts => vs[i].owner[k] = vs[i].name
    BY <1>5 DEF Shows
  <2>1. CASE i \in 1 .. Len(kept)
    <3>1. DOMAIN kept = 1 .. Len(kept) /\ vs[i] = kept[i]
      BY <1>5, <2>1
    <3>2. /\ kept[i].name \in DOMAIN ps
          /\ \A k \in Parts : /\ \E j \in 1 .. i : kept[i].owner[k] = kept[j].name
                              /\ k \in ps[kept[i].name].parts => kept[i].owner[k] = kept[i].name
      BY <2>1, <3>1 DEF Shows
    <3>3. \A j \in 1 .. i : vs[j] = kept[j]
      BY <1>5, <2>1
    <3> QED
      BY <3>1, <3>2, <3>3
  <2>2. CASE i - Len(kept) \in 1 .. Len(names)
    <3> DEFINE h == i - Len(kept)
    <3>1. h \in DOMAIN names /\ Len(kept) + h = i
      BY <1>5, <2>2
    <3>2. vs[i] = View(ps, names[h], base) /\ names[h] \in DOMAIN ps
      BY <1>4, <1>5, <2>2, <3>1
    <3> HIDE DEF h
    <3>3. vs[i].name \in DOMAIN ps
      BY <1>3, <3>1, <3>2
    <3> SUFFICES ASSUME NEW k \in Parts
                 PROVE  /\ \E j \in 1 .. i : vs[i].owner[k] = vs[j].name
                        /\ k \in ps[vs[i].name].parts => vs[i].owner[k] = vs[i].name
      BY <3>3
    <3>4. vs[i].owner[k] = IF k \notin ps[names[h]].parts /\ base # NoView THEN base.owner[k] ELSE names[h]
      BY <1>3, <3>1, <3>2
    <3>5. vs[i].name = names[h] /\ i \in 1 .. i
      BY <1>3, <1>5, <3>1, <3>2
    <3>6. CASE k \notin ps[names[h]].parts /\ base # NoView
      <4>1. PICK b \in DOMAIN kept : base = kept[b]
        BY <3>6 DEF IsBase
      <4>2. \E j \in 1 .. b : kept[b].owner[k] = kept[j].name
        BY <4>1 DEF Shows
      <4>3. PICK j \in 1 .. b : kept[b].owner[k] = kept[j].name
        BY <4>2
      <4>4. j \in 1 .. Len(kept) /\ j \in 1 .. i
        BY <1>5, <2>2, <4>1, <4>3
      <4>5. vs[j] = kept[j]
        BY <1>5, <4>4
      <4> QED
        BY <3>4, <3>5, <3>6, <4>1, <4>3, <4>4, <4>5
    <3>7. CASE ~(k \notin ps[names[h]].parts /\ base # NoView)
      BY <3>4, <3>5, <3>7
    <3> QED
      BY <3>6, <3>7
  <2> QED
    BY <1>5, <2>1, <2>2
<1> QED
  BY <1>5, <1>6, <1>7 DEF vs, new

LEMMA SubSeqFacts ==
  ASSUME NEW S, NEW s \in Seq(S), NEW a \in Nat \ {0}, NEW b \in 0 .. Len(s)
  PROVE  /\ SubSeq(s, a, b) \in Seq(S)
         /\ Len(SubSeq(s, a, b)) = IF a <= b THEN b - a + 1 ELSE 0
         /\ \A j \in 1 .. Len(SubSeq(s, a, b)) : SubSeq(s, a, b)[j] = s[a + j - 1]
<1>1. Len(s) \in Nat /\ b \in Nat /\ b <= Len(s)
  OBVIOUS
<1> QED
  BY <1>1

\* A base for the views to create over the whole stack, or under the manual profile's view.
LEMMA BaseFacts ==
  ASSUME NEW vs \in Seq(ProfileView), NEW man
  PROVE  /\ IsBase(vs, BaseView(vs, man))
         /\ man # None => IsBase(SubSeq(vs, 1, Len(vs) - 1), BaseView(vs, man))
<1>1. Len(vs) \in Nat /\ DOMAIN vs = 1 .. Len(vs)
  OBVIOUS
<1>2. CASE man = None /\ vs # <<>>
  <2>1. BaseView(vs, man) = vs[Len(vs)] /\ Len(vs) \in DOMAIN vs
    BY <1>1, <1>2 DEF BaseView, Last
  <2> QED
    BY <1>2, <2>1 DEF IsBase
<1>3. CASE man # None /\ Len(vs) >= 2
  <2>1. BaseView(vs, man) = vs[Len(vs) - 1] /\ Len(vs) - 1 \in DOMAIN vs
    BY <1>1, <1>3 DEF BaseView
  <2> DEFINE w == SubSeq(vs, 1, Len(vs) - 1)
  <2>2. Len(vs) - 1 \in DOMAIN w /\ w[Len(vs) - 1] = vs[Len(vs) - 1]
    BY <1>1, <1>3
  <2> QED
    BY <2>1, <2>2 DEF IsBase
<1>4. CASE ~(man = None /\ vs # <<>>) /\ ~(man # None /\ Len(vs) >= 2)
  BY <1>4 DEF BaseView, IsBase
<1> QED
  BY <1>2, <1>3, <1>4

\* The profiles of the views up to i have the same active parts in qs.
KeepsBelow(ps, qs, vs, i) ==
  \A j \in 1 .. i : vs[j].name \in DOMAIN qs /\ qs[vs[j].name].parts = ps[vs[j].name].parts

\* The lower part of the stack shows the profiles as long as its own are what they were.
LEMMA LowerPart ==
  ASSUME NEW ps, NEW qs, NEW vs \in Seq(ProfileView), Shows(ps, vs), NEW i \in 0 .. Len(vs),
         KeepsBelow(ps, qs, vs, i)
  PROVE  LET kept == SubSeq(vs, 1, i)
         IN  /\ kept \in Seq(ProfileView) /\ Len(kept) = i /\ Shows(qs, kept)
             /\ NamesOf(kept) = SubSeq(NamesOf(vs), 1, i)
<1> DEFINE kept == SubSeq(vs, 1, i)
<1>1. Len(vs) \in Nat /\ i \in Nat /\ i <= Len(vs) /\ DOMAIN vs = 1 .. Len(vs)
  OBVIOUS
<1>2. kept \in Seq(ProfileView) /\ Len(kept) = i /\ \A j \in 1 .. i : kept[j] = vs[j]
  BY <1>1
<1> HIDE DEF kept
<1>3. Shows(qs, kept)
  <2> SUFFICES ASSUME NEW j \in 1 .. i
               PROVE  /\ vs[j].name \in DOMAIN qs
                      /\ \A k \in Parts : /\ \E h \in 1 .. j : vs[j].owner[k] = kept[h].name
                                          /\ k \in qs[vs[j].name].parts => vs[j].owner[k] = vs[j].name
    BY <1>2 DEF Shows
  <2>1. j \in DOMAIN vs /\ \A h \in 1 .. j : kept[h] = vs[h]
    BY <1>1, <1>2
  <2> QED
    BY <2>1 DEF Shows, KeepsBelow
<1>4. NamesOf(kept) = SubSeq(NamesOf(vs), 1, i)
  <2> DEFINE s == NamesOf(vs)
             t == NamesOf(kept)
  <2>1. s \in Seq(Names) /\ Len(s) = Len(vs) /\ \A j \in 1 .. Len(vs) : s[j] = vs[j].name
    BY NamesOfFacts
  <2>2. t \in Seq(Names) /\ Len(t) = i /\ \A j \in 1 .. i : t[j] = kept[j].name
    BY <1>2, NamesOfFacts
  <2>3. \A j \in 1 .. i : t[j] = s[j]
    BY <1>1, <1>2, <2>1, <2>2
  <2> HIDE DEF s, t
  <2>4. t = SubSeq(s, 1, i)
    BY ONLY <1>1, <2>1, <2>2, <2>3
  <2> QED
    BY <2>4 DEF s, t
<1> QED
  BY <1>2, <1>3, <1>4 DEF kept

\* Recreate: the views from i on are replaced by views of names.
LEMMA RecreateFacts ==
  ASSUME NEW ps, NEW qs, DOMAIN qs \subseteq Names,
         NEW vs \in Seq(ProfileView), Shows(ps, vs), NEW i \in 1 .. Len(vs),
         KeepsBelow(ps, qs, vs, i - 1),
         NEW man, NEW names \in Seq(Names), \A j \in DOMAIN names : names[j] \in DOMAIN qs
  PROVE  LET new == Recreate(qs, man, vs, i, names)
         IN  /\ new \in Seq(ProfileView) /\ Shows(qs, new)
             /\ NamesOf(new) = SubSeq(NamesOf(vs), 1, i - 1) \o names
<1> DEFINE kept == SubSeq(vs, 1, i - 1)
<1>1. i - 1 \in 0 .. Len(vs)
  OBVIOUS
<1>2. /\ kept \in Seq(ProfileView) /\ Shows(qs, kept)
      /\ NamesOf(kept) = SubSeq(NamesOf(vs), 1, i - 1)
  BY ONLY <1>1, vs \in Seq(ProfileView), Shows(ps, vs), KeepsBelow(ps, qs, vs, i - 1), LowerPart
<1>3. Recreate(qs, man, vs, i, names) = kept \o CreateViews(qs, BaseView(kept, man), names)
  BY DEF Recreate
<1> HIDE DEF kept
<1>4. IsBase(kept, BaseView(kept, man))
  BY <1>2, BaseFacts
<1>5. LET new == kept \o CreateViews(qs, BaseView(kept, man), names)
      IN  new \in Seq(ProfileView) /\ Shows(qs, new) /\ NamesOf(new) = NamesOf(kept) \o names
  BY ONLY <1>2, <1>4, DOMAIN qs \subseteq Names, names \in Seq(Names),
          \A j \in DOMAIN names : names[j] \in DOMAIN qs, CreateFacts
<1> QED
  BY <1>2, <1>3, <1>5

LEMMA NamesAboveFacts ==
  ASSUME NEW vs \in Seq(ProfileView), NEW i \in 0 .. Len(vs)
  PROVE  NamesAbove(vs, i) = SubSeq(NamesOf(vs), i + 1, Len(vs))
<1> DEFINE above == SubSeq(vs, i + 1, Len(vs))
           s == NamesOf(vs)
           t == NamesOf(above)
<1>1. /\ above \in Seq(ProfileView) /\ Len(above) = Len(vs) - i
      /\ \A j \in 1 .. Len(vs) - i : above[j] = vs[i + j]
      /\ Len(vs) \in Nat /\ i \in Nat /\ i <= Len(vs)
  OBVIOUS
<1>2. s \in Seq(Names) /\ Len(s) = Len(vs) /\ \A j \in 1 .. Len(vs) : s[j] = vs[j].name
  BY NamesOfFacts
<1> HIDE DEF above
<1>3. t \in Seq(Names) /\ Len(t) = Len(vs) - i /\ \A j \in 1 .. Len(vs) - i : t[j] = above[j].name
  BY <1>1, NamesOfFacts
<1>4. \A j \in 1 .. Len(vs) - i : t[j] = s[i + j]
  BY <1>1, <1>2, <1>3
<1> HIDE DEF s, t
<1>5. t = SubSeq(s, i + 1, Len(vs))
  BY ONLY <1>1, <1>2, <1>3, <1>4
<1> QED
  BY <1>5 DEF NamesAbove, s, t, above

(***************************************************************************)
(* What the names of the stack are                                         *)
(***************************************************************************)

\* The last view of an automatic profile.
Top(s, man) == IF man = None THEN Len(s) ELSE Len(s) - 1

\* The profiles in effect for the programs that run.
Middle(s, man) == {s[j] : j \in 2 .. Top(s, man)}

\* The global profile is at the bottom, the profiles of the running programs are above it, and
\* the manual profile is on top; none is there twice.
Layout(s, man, R) ==
  /\ s \in Seq(Names) /\ Len(s) >= 1 /\ s[1] = Global /\ Distinct(s)
  /\ man # None => Len(s) >= 2 /\ s[Len(s)] = man
  /\ Middle(s, man) = R

LEMMA LayoutFacts ==
  ASSUME NEW s, NEW man, NEW R, Layout(s, man, R)
  PROVE  /\ Len(s) \in Nat /\ Len(s) >= 1 /\ DOMAIN s = 1 .. Len(s)
         /\ \A j \in 1 .. Len(s) : s[j] \in Names
         /\ \A i, j \in 1 .. Len(s) : s[i] = s[j] => i = j
         /\ Top(s, man) \in 1 .. Len(s)
         /\ \A j \in 1 .. Len(s) : j = 1 \/ j \in 2 .. Top(s, man) \/ (man # None /\ j = Len(s))
         /\ man # None => man \notin R
         /\ Global \notin R
<1>1. s \in Seq(Names) /\ Len(s) >= 1 /\ s[1] = Global /\ Distinct(s)
      /\ (man # None => Len(s) >= 2 /\ s[Len(s)] = man) /\ Middle(s, man) = R
  BY DEF Layout
<1>2. /\ Len(s) \in Nat /\ Len(s) >= 1 /\ DOMAIN s = 1 .. Len(s)
      /\ \A j \in 1 .. Len(s) : s[j] \in Names
  BY <1>1
<1>3. \A i, j \in 1 .. Len(s) : s[i] = s[j] => i = j
  BY <1>1, <1>2 DEF Distinct
<1>4. /\ Top(s, man) \in 1 .. Len(s)
      /\ \A j \in 1 .. Len(s) : j = 1 \/ j \in 2 .. Top(s, man) \/ (man # None /\ j = Len(s))
      /\ man # None => Top(s, man) = Len(s) - 1
  <2>1. CASE man = None
    BY <1>1, <1>2, <2>1 DEF Top
  <2>2. CASE man # None
    <3>1. Top(s, man) = Len(s) - 1 /\ Len(s) >= 2
      BY <1>1, <2>2 DEF Top
    <3>2. Top(s, man) \in 1 .. Len(s)
      BY <1>2, <3>1
    <3>3. \A j \in 1 .. Len(s) : j = 1 \/ j \in 2 .. Len(s) - 1 \/ j = Len(s)
      <4>1. \A l \in Nat : \A j \in 1 .. l : j = 1 \/ j \in 2 .. l - 1 \/ j = l
        OBVIOUS
      <4> QED
        BY ONLY <1>2, <4>1
    <3> QED
      BY <2>2, <3>1, <3>2, <3>3
  <2> QED
    BY <2>1, <2>2
<1>5. man # None => man \notin R
  <2> SUFFICES ASSUME man # None, NEW j \in 2 .. Top(s, man), s[j] = man PROVE FALSE
    BY <1>1 DEF Middle
  <2>1. j \in 2 .. Len(s) - 1
    BY <1>4
  <2>2. j \in 1 .. Len(s) /\ Len(s) \in 1 .. Len(s) /\ j # Len(s)
    <3>1. \A l \in Nat : l >= 1 => \A h \in 2 .. l - 1 : h \in 1 .. l /\ l \in 1 .. l /\ h # l
      OBVIOUS
    <3> QED
      BY ONLY <1>2, <2>1, <3>1
  <2> QED
    BY <1>1, <1>3, <2>2
<1>6. Global \notin R
  <2> SUFFICES ASSUME NEW j \in 2 .. Top(s, man), s[j] = Global PROVE FALSE
    BY <1>1 DEF Middle
  <2> DEFINE t == Top(s, man)
  <2>0. t \in 1 .. Len(s) /\ j \in 2 .. t
    BY <1>4
  <2> HIDE DEF t
  <2>1. j \in 1 .. Len(s) /\ 1 \in 1 .. Len(s) /\ j # 1
    BY <1>2, <2>0
  <2> QED
    BY <1>1, <1>3, <2>1
<1> QED
  BY <1>2, <1>3, <1>4, <1>5, <1>6

\* The stack without the view at i.
Dropped(s, i) == SubSeq(s, 1, i - 1) \o SubSeq(s, i + 1, Len(s))

LEMMA DroppedFacts ==
  ASSUME NEW s \in Seq(Names), NEW i \in 1 .. Len(s)
  PROVE  /\ Dropped(s, i) \in Seq(Names) /\ Len(Dropped(s, i)) = Len(s) - 1
         /\ \A j \in 1 .. Len(s) - 1 : Dropped(s, i)[j] = IF j < i THEN s[j] ELSE s[j + 1]
<1> DEFINE a == SubSeq(s, 1, i - 1)
           b == SubSeq(s, i + 1, Len(s))
<1>1. Len(s) \in Nat /\ i \in Nat /\ 1 <= i /\ i <= Len(s)
  OBVIOUS
<1>2. a \in Seq(Names) /\ Len(a) = i - 1 /\ \A j \in 1 .. i - 1 : a[j] = s[j]
  BY <1>1
<1>3. b \in Seq(Names) /\ Len(b) = Len(s) - i /\ \A j \in 1 .. Len(s) - i : b[j] = s[i + j]
  BY <1>1
<1> HIDE DEF a, b
<1>4. a \o b \in Seq(Names) /\ Len(a \o b) = Len(s) - 1
  <2>1. /\ a \o b \in Seq(Names) /\ Len(a \o b) = Len(a) + Len(b)
    BY ONLY <1>2, <1>3, ConcatFacts
  <2> QED
    BY ONLY <1>1, <1>2, <1>3, <2>1
<1>5. \A j \in 1 .. Len(s) - 1 : (a \o b)[j] = IF j < i THEN s[j] ELSE s[j + 1]
  <2> TAKE j \in 1 .. Len(s) - 1
  <2>1. CASE j < i
    BY <1>1, <1>2, <1>3, <2>1, ConcatFacts
  <2>2. CASE ~(j < i)
    <3> DEFINE h == j - (i - 1)
    <3>1. h \in 1 .. Len(b) /\ Len(a) + h = j /\ i + h = j + 1
      BY <1>1, <1>2, <1>3, <2>2
    <3> HIDE DEF h
    <3>2. (a \o b)[Len(a) + h] = b[h]
      <4>1. \A g \in 1 .. Len(b) : (a \o b)[Len(a) + g] = b[g]
        BY ONLY <1>2, <1>3, ConcatFacts
      <4> QED
        BY ONLY <3>1, <4>1
    <3>3. b[h] = s[i + h]
      BY <1>3, <3>1
    <3> QED
      BY <2>2, <3>1, <3>2, <3>3
  <2> QED
    BY <2>1, <2>2
<1> QED
  BY <1>4, <1>5 DEF Dropped, a, b

\* The stack with m in the place of the view at i.
Replaced(s, i, m) == SubSeq(s, 1, i - 1) \o (<<m>> \o SubSeq(s, i + 1, Len(s)))

LEMMA ReplacedFacts ==
  ASSUME NEW s \in Seq(Names), NEW i \in 1 .. Len(s), NEW m \in Names
  PROVE  /\ Replaced(s, i, m) \in Seq(Names) /\ Len(Replaced(s, i, m)) = Len(s)
         /\ \A j \in 1 .. Len(s) : Replaced(s, i, m)[j] = IF j = i THEN m ELSE s[j]
<1> DEFINE a == SubSeq(s, 1, i - 1)
           b == SubSeq(s, i + 1, Len(s))
           c == <<m>> \o b
<1>1. Len(s) \in Nat /\ i \in Nat /\ 1 <= i /\ i <= Len(s)
  OBVIOUS
<1>2. a \in Seq(Names) /\ Len(a) = i - 1 /\ \A j \in 1 .. i - 1 : a[j] = s[j]
  BY <1>1
<1>3. b \in Seq(Names) /\ Len(b) = Len(s) - i /\ \A j \in 1 .. Len(s) - i : b[j] = s[i + j]
  BY <1>1
<1> HIDE DEF a, b
<1>4. c \in Seq(Names) /\ Len(c) = Len(s) - i + 1 /\ c[1] = m /\ \A j \in 1 .. Len(s) - i : c[j + 1] = b[j]
  <2>1. <<m>> \in Seq(Names) /\ Len(<<m>>) = 1 /\ <<m>>[1] = m
    OBVIOUS
  <2> DEFINE o == <<m>>
  <2> HIDE DEF o
  <2>2. /\ o \o b \in Seq(Names) /\ Len(o \o b) = Len(o) + Len(b)
        /\ \A j \in 1 .. Len(o) : (o \o b)[j] = o[j]
        /\ \A j \in 1 .. Len(b) : (o \o b)[Len(o) + j] = b[j]
    <3>1. o \in Seq(Names)
      BY <2>1 DEF o
    <3>2. o \o b \in Seq(Names) /\ Len(o \o b) = Len(o) + Len(b)
      BY ONLY <1>3, <3>1, ConcatFacts
    <3>3. \A j \in 1 .. Len(o) : (o \o b)[j] = o[j]
      BY ONLY <1>3, <3>1, ConcatFacts
    <3>4. \A j \in 1 .. Len(b) : (o \o b)[Len(o) + j] = b[j]
      BY ONLY <1>3, <3>1, ConcatFacts
    <3> QED
      BY <3>2, <3>3, <3>4
  <2>3. Len(o) = 1 /\ o[1] = m
    BY <2>1 DEF o
  <2>4. o \o b \in Seq(Names) /\ Len(o \o b) = Len(s) - i + 1 /\ (o \o b)[1] = m
        /\ \A j \in 1 .. Len(s) - i : (o \o b)[j + 1] = b[j]
    BY ONLY <1>1, <1>3, <2>2, <2>3
  <2> QED
    BY <2>4 DEF o
<1> HIDE DEF c
<1>5. a \o c \in Seq(Names) /\ Len(a \o c) = Len(s)
  BY <1>1, <1>2, <1>4
<1>6. \A j \in 1 .. Len(s) : (a \o c)[j] = IF j = i THEN m ELSE s[j]
  <2> TAKE j \in 1 .. Len(s)
  <2>1. CASE j < i
    BY <1>1, <1>2, <1>4, <2>1, ConcatFacts
  <2>2. CASE ~(j < i)
    <3> DEFINE h == j - (i - 1)
    <3>1. h \in 1 .. Len(c) /\ Len(a) + h = j
      BY <1>1, <1>2, <1>4, <2>2
    <3>2. (a \o c)[Len(a) + h] = c[h]
      BY ONLY <1>2, <1>4, <3>1, ConcatFacts
    <3>3. CASE j = i
      <4>1. h = 1
        BY <1>1, <3>3
      <4> QED
        BY <1>4, <3>1, <3>2, <3>3, <4>1
    <3>4. CASE j # i
      <4>1. h - 1 \in 1 .. Len(s) - i /\ (h - 1) + 1 = h /\ i + (h - 1) = j
        BY <1>1, <2>2, <3>4
      <4> QED
        BY <1>3, <1>4, <3>1, <3>2, <3>4, <4>1
    <3> QED
      BY <3>3, <3>4
  <2> QED
    BY <2>1, <2>2
<1> QED
  BY <1>5, <1>6 DEF Replaced, a, b, c

\* The automatic profiles, in the order their programs were started.
Stacked(s, man) == SubSeq(s, 2, Top(s, man))

LEMMA StackedFacts ==
  ASSUME NEW s, NEW man, NEW R, Layout(s, man, R)
  PROVE  /\ Stacked(s, man) \in Seq(Names) /\ Len(Stacked(s, man)) = Top(s, man) - 1
         /\ DOMAIN Stacked(s, man) = 1 .. Top(s, man) - 1
         /\ \A j \in 1 .. Top(s, man) - 1 : Stacked(s, man)[j] = s[j + 1]
<1> DEFINE t == Top(s, man)
<1>1. s \in Seq(Names) /\ Len(s) \in Nat /\ t \in 1 .. Len(s)
  BY LayoutFacts DEF Layout
<1> HIDE DEF t
<1>2. /\ SubSeq(s, 2, t) \in Seq(Names) /\ Len(SubSeq(s, 2, t)) = t - 1
      /\ DOMAIN SubSeq(s, 2, t) = 1 .. t - 1
      /\ \A j \in 1 .. t - 1 : SubSeq(s, 2, t)[j] = s[j + 1]
  BY <1>1
<1> QED
  BY <1>2 DEF Stacked, t

\* What is in effect is the name on top.
LEMMA TopInEffect ==
  ASSUME NEW s, NEW man \in Names \cup {None}, NEW R, Layout(s, man, R)
  PROVE  s[Len(s)] = Effective!Effective(Stacked(s, man), man)
<1> DEFINE o == Stacked(s, man)
<1>1. /\ o \in Seq(Names) /\ Len(o) = Top(s, man) - 1
      /\ \A j \in 1 .. Top(s, man) - 1 : o[j] = s[j + 1]
  BY StackedFacts
<1>2. Len(s) \in Nat /\ Len(s) >= 1 /\ s[1] = Global /\ (man # None => s[Len(s)] = man)
  BY LayoutFacts DEF Layout
<1> HIDE DEF o
<1>3. CASE man # None
  BY <1>2, <1>3 DEF Effective!Effective, o
<1>4. CASE man = None /\ Len(s) = 1
  <2>1. Len(o) = 0
    BY <1>1, <1>4 DEF Top
  <2>2. o = <<>>
    BY <1>1, <2>1
  <2>3. Effective!Effective(o, man) = Global
    BY <1>4, <2>2 DEF Effective!Effective
  <2> QED
    BY <1>2, <1>4, <2>3 DEF o
<1>5. CASE man = None /\ Len(s) # 1
  <2>1. Len(o) = Len(s) - 1 /\ Len(s) - 1 \in 1 .. Top(s, man) - 1 /\ Top(s, man) = Len(s)
    BY <1>1, <1>2, <1>5 DEF Top
  <2>2. o # <<>> /\ o[Len(o)] = s[Len(s)]
    BY <1>1, <1>2, <2>1
  <2>3. Effective!Effective(o, man) = o[Len(o)]
    BY <1>5, <2>2 DEF Effective!Effective, Effective!Last, Last
  <2> QED
    BY <2>2, <2>3 DEF o
<1> QED
  BY <1>3, <1>4, <1>5

\* A view other than the bottom one is dropped.
LEMMA DropLayout ==
  ASSUME NEW s, NEW man, NEW R, Layout(s, man, R), NEW i \in 2 .. Len(s),
         NEW new, new = IF man = s[i] THEN None ELSE man
  PROVE  /\ Layout(Dropped(s, i), new, R \ {s[i]})
         /\ man = s[i] => Stacked(Dropped(s, i), new) = Stacked(s, man)
         /\ man # s[i] => /\ i - 1 \in DOMAIN Stacked(s, man) /\ Stacked(s, man)[i - 1] = s[i]
                          /\ Stacked(Dropped(s, i), new) = Dropped(Stacked(s, man), i - 1)
<1> DEFINE d == Dropped(s, i)
           t == Top(s, man)
           n == s[i]
<1>1. /\ s \in Seq(Names) /\ s[1] = Global /\ Middle(s, man) = R
      /\ man # None => Len(s) >= 2 /\ s[Len(s)] = man
  BY DEF Layout
<1>2. /\ Len(s) \in Nat /\ Len(s) >= 1 /\ t \in 1 .. Len(s)
      /\ \A j, k \in 1 .. Len(s) : s[j] = s[k] => j = k
      /\ \A j \in 1 .. Len(s) : j = 1 \/ j \in 2 .. t \/ (man # None /\ j = Len(s))
      /\ \A j \in 1 .. Len(s) : s[j] \in Names
  BY LayoutFacts
<1>3. i \in Nat /\ i >= 2 /\ i <= Len(s) /\ i \in 1 .. Len(s) /\ n # None
  BY <1>2
<1>4. d \in Seq(Names) /\ Len(d) = Len(s) - 1 /\ \A j \in 1 .. Len(s) - 1 : d[j] = IF j < i THEN s[j] ELSE s[j + 1]
  BY <1>1, <1>3, DroppedFacts
<1>5. d[1] = Global /\ Len(d) >= 1
  BY <1>1, <1>2, <1>3, <1>4
<1>6. t = IF man = None THEN Len(s) ELSE Len(s) - 1
  BY DEF Top
<1> HIDE DEF d, t
<1>7. Distinct(d)
  <2> SUFFICES ASSUME NEW j \in 1 .. Len(s) - 1, NEW k \in 1 .. Len(s) - 1, d[j] = d[k] PROVE j = k
    BY <1>4 DEF Distinct
  <2> DEFINE g(h) == IF h < i THEN h ELSE h + 1
  <2>1. g(j) \in 1 .. Len(s) /\ g(k) \in 1 .. Len(s) /\ d[j] = s[g(j)] /\ d[k] = s[g(k)]
    BY <1>2, <1>3, <1>4
  <2>2. g(j) = g(k)
    BY ONLY <1>2, <2>1, d[j] = d[k]
  <2> QED
    BY <1>2, <1>3, <2>2
<1>8. CASE man = n
  <2>1. i = Len(s) /\ man # None
    <3>1. Len(s) \in 1 .. Len(s)
      BY <1>2
    <3> QED
      BY <1>1, <1>2, <1>3, <1>8, <3>1
  <2>2. new = None /\ t = Len(s) - 1 /\ Top(d, new) = t
    BY <1>3, <1>4, <1>6, <1>8, <2>1 DEF Top
  <2>3. \A j \in 1 .. t : d[j] = s[j]
    BY <1>2, <1>4, <2>1, <2>2
  <2>4. Middle(d, new) = Middle(s, man)
    <3>1. Middle(d, new) = {d[j] : j \in 2 .. t} /\ Middle(s, man) = {s[j] : j \in 2 .. t}
      BY <2>2 DEF Middle, t
    <3>2. \A j \in 2 .. t : d[j] = s[j]
      BY <1>2, <2>3
    <3> QED
      BY <3>1, <3>2
  <2>5. n \notin R
    BY <1>8, <2>1, LayoutFacts
  <2>6. Layout(d, new, R \ {n})
    BY <1>1, <1>4, <1>5, <1>7, <2>2, <2>4, <2>5 DEF Layout
  <2>7. Stacked(d, new) = Stacked(s, man)
    <3>1. d \in Seq(Names) /\ s \in Seq(Names) /\ t \in Nat /\ t <= Len(d) /\ t <= Len(s) /\ Len(d) \in Nat /\ Len(s) \in Nat
      BY <1>1, <1>2, <1>4, <2>2
    <3>2. SubSeq(d, 2, t) = SubSeq(s, 2, t)
      BY <2>3, <3>1
    <3> QED
      BY <2>2, <3>2 DEF Stacked, t
  <2> QED
    BY <1>8, <2>6, <2>7 DEF d
<1>9. CASE man # n
  <2>1. new = man /\ i \in 2 .. t
    <3>1. i # 1 /\ (i = Len(s) /\ man # None => FALSE)
      BY <1>1, <1>3, <1>9
    <3> QED
      BY <1>2, <1>3, <1>9, <3>1
  <2>2. Top(d, new) = t - 1 /\ t - 1 \in 1 .. Len(d)
    BY <1>2, <1>3, <1>4, <1>6, <2>1 DEF Top
  <2>3. Middle(d, new) = Middle(s, man) \ {n}
    <3>1. Middle(d, new) = {d[j] : j \in 2 .. t - 1} /\ Middle(s, man) = {s[j] : j \in 2 .. t}
      BY <2>2 DEF Middle, t
    <3>2. ASSUME NEW j \in 2 .. t - 1 PROVE \E k \in 2 .. t : d[j] = s[k] /\ s[k] # n
      <4> DEFINE k == IF j < i THEN j ELSE j + 1
      <4>1. k \in 2 .. t /\ k # i /\ k \in 1 .. Len(s) /\ d[j] = s[k]
        BY <1>2, <1>3, <1>4, <2>1, <2>2
      <4>2. s[k] # n
        BY ONLY <1>2, <1>3, <4>1
      <4> QED
        BY <4>1, <4>2
    <3>3. ASSUME NEW k \in 2 .. t, s[k] # n PROVE \E j \in 2 .. t - 1 : d[j] = s[k]
      <4> DEFINE j == IF k < i THEN k ELSE k - 1
      <4>1. k # i
        BY <3>3
      <4>2. j \in 2 .. t - 1 /\ j \in 1 .. Len(s) - 1 /\ (j < i <=> k < i) /\ (k >= i => j + 1 = k)
        BY <1>2, <1>3, <1>4, <2>1, <2>2, <4>1
      <4>3. d[j] = s[k]
        <5>1. CASE k < i
          BY <1>4, <4>2, <5>1
        <5>2. CASE ~(k < i)
          <6>1. j + 1 = k /\ ~(j < i)
            BY <1>2, <1>3, <4>2, <5>2
          <6> HIDE DEF j
          <6> QED
            BY <1>4, <4>2, <6>1
        <5> QED
          BY <5>1, <5>2
      <4> QED
        BY <4>2, <4>3
    <3>4. ASSUME NEW x \in Middle(d, new) PROVE x \in Middle(s, man) \ {n}
      <4>1. PICK j \in 2 .. t - 1 : x = d[j]
        BY <3>1
      <4> QED
        BY <3>1, <3>2, <4>1
    <3>5. ASSUME NEW x \in Middle(s, man) \ {n} PROVE x \in Middle(d, new)
      <4>1. PICK k \in 2 .. t : x = s[k]
        BY <3>1
      <4> QED
        BY <3>1, <3>3, <4>1
    <3> QED
      BY <3>4, <3>5
  <2>4. man # None => Len(d) >= 2 /\ d[Len(d)] = man
    <3> SUFFICES ASSUME man # None PROVE Len(d) >= 2 /\ d[Len(d)] = man
      OBVIOUS
    <3>1. i < Len(s)
      BY <1>2, <1>6, <2>1
    <3>2. Len(s) - 1 \in 1 .. Len(s) - 1 /\ ~(Len(s) - 1 < i) /\ Len(s) - 1 + 1 = Len(s)
      BY <1>2, <1>3, <3>1
    <3> QED
      BY <1>1, <1>3, <1>4, <3>1, <3>2
  <2>5. Layout(d, new, R \ {n})
    BY <1>1, <1>4, <1>5, <1>7, <2>1, <2>3, <2>4 DEF Layout
  <2> DEFINE o == Stacked(s, man)
             p == Stacked(d, new)
  <2>6. /\ o \in Seq(Names) /\ Len(o) = t - 1 /\ DOMAIN o = 1 .. t - 1
        /\ \A j \in 1 .. t - 1 : o[j] = s[j + 1]
    BY StackedFacts DEF t
  <2>7. /\ p \in Seq(Names) /\ Len(p) = t - 2 /\ \A j \in 1 .. t - 2 : p[j] = d[j + 1]
    <3>1. /\ p \in Seq(Names) /\ Len(p) = Top(d, new) - 1
          /\ \A j \in 1 .. Top(d, new) - 1 : p[j] = d[j + 1]
      BY <2>5, StackedFacts
    <3>2. t - 1 - 1 = t - 2
      BY <1>2
    <3> QED
      BY <2>2, <3>1, <3>2
  <2> HIDE DEF o, p
  <2>8. i - 1 \in 1 .. Len(o) /\ i - 1 \in DOMAIN o /\ o[i - 1] = n
    <3>1. i - 1 \in 1 .. t - 1 /\ (i - 1) + 1 = i
      BY <1>2, <1>3, <2>1
    <3> QED
      BY <2>6, <3>1
  <2>9. /\ Dropped(o, i - 1) \in Seq(Names) /\ Len(Dropped(o, i - 1)) = Len(o) - 1
        /\ \A j \in 1 .. Len(o) - 1 : Dropped(o, i - 1)[j] = IF j < i - 1 THEN o[j] ELSE o[j + 1]
    BY ONLY <2>6, <2>8, DroppedFacts
  <2>10. ASSUME NEW j \in 1 .. t - 2 PROVE p[j] = Dropped(o, i - 1)[j]
    <3>1. /\ j \in 1 .. Len(o) - 1 /\ j \in 1 .. t - 1 /\ j + 1 \in 1 .. t - 1
          /\ j + 1 \in 1 .. Len(s) - 1 /\ (j < i - 1 <=> j + 1 < i)
      BY <1>2, <1>3, <2>1, <2>6
    <3>2. p[j] = IF j + 1 < i THEN s[j + 1] ELSE s[j + 1 + 1]
      BY <1>4, <2>7, <3>1
    <3>3. Dropped(o, i - 1)[j] = IF j + 1 < i THEN o[j] ELSE o[j + 1]
      BY <2>9, <3>1
    <3> QED
      BY <2>6, <3>1, <3>2, <3>3
  <2>11. p = Dropped(o, i - 1)
    <3>1. Len(p) = Len(Dropped(o, i - 1)) /\ Len(p) = t - 2
      BY <1>2, <2>6, <2>7, <2>9
    <3> QED
      BY <2>7, <2>9, <2>10, <3>1
  <2> QED
    BY <1>9, <2>5, <2>8, <2>11 DEF d, o, p
<1> QED
  BY <1>8, <1>9

RenamedIn(o, n, m) == [j \in DOMAIN o |-> IF o[j] = n THEN m ELSE o[j]]

RenamedAll(R, n, m) == {IF x = n THEN m ELSE x : x \in R}

\* A profile that is renamed keeps its place.
LEMMA ReplaceLayout ==
  ASSUME NEW s, NEW man, NEW R, Layout(s, man, R), NEW i \in 2 .. Len(s),
         NEW m \in Names, \A j \in 1 .. Len(s) : s[j] # m,
         NEW new, new = IF man = s[i] THEN m ELSE man
  PROVE  /\ Layout(Replaced(s, i, m), new, RenamedAll(R, s[i], m))
         /\ Stacked(Replaced(s, i, m), new) = RenamedIn(Stacked(s, man), s[i], m)
<1> DEFINE d == Replaced(s, i, m)
           t == Top(s, man)
           n == s[i]
           after(x) == IF x = n THEN m ELSE x
<1>1. /\ s \in Seq(Names) /\ s[1] = Global /\ Middle(s, man) = R
      /\ man # None => Len(s) >= 2 /\ s[Len(s)] = man
  BY DEF Layout
<1>2. /\ Len(s) \in Nat /\ Len(s) >= 1 /\ t \in 1 .. Len(s)
      /\ \A j, k \in 1 .. Len(s) : s[j] = s[k] => j = k
      /\ \A j \in 1 .. Len(s) : s[j] \in Names
  BY LayoutFacts
<1>3. i \in Nat /\ i >= 2 /\ i <= Len(s) /\ i \in 1 .. Len(s) /\ n # None /\ m # None
  BY <1>2
<1>4. d \in Seq(Names) /\ Len(d) = Len(s) /\ \A j \in 1 .. Len(s) : d[j] = IF j = i THEN m ELSE s[j]
  BY <1>1, <1>3, ReplacedFacts
<1> HIDE DEF d
<1>5. d[1] = Global /\ Len(d) >= 1
  BY <1>1, <1>2, <1>3, <1>4
<1>6. \A j \in 1 .. Len(s) : d[j] = after(s[j])
  BY <1>2, <1>3, <1>4
<1>7. Distinct(d)
  <2> SUFFICES ASSUME NEW j \in 1 .. Len(s), NEW k \in 1 .. Len(s), d[j] = d[k] PROVE j = k
    BY <1>4 DEF Distinct
  <2> QED
    BY <1>2, <1>4
<1>8. Top(d, new) = t
  <2>1. new = None <=> man = None
    BY <1>3
  <2> QED
    BY <1>4, <2>1 DEF Top
<1> HIDE DEF t
<1>9. new # None => Len(d) >= 2 /\ d[Len(d)] = new
  <2> SUFFICES ASSUME man # None PROVE Len(d) >= 2 /\ d[Len(d)] = new
    BY <1>3
  <2>1. Len(s) \in 1 .. Len(s) /\ Len(s) >= 2 /\ s[Len(s)] = man
    BY <1>1, <1>2
  <2>2. d[Len(s)] = after(man)
    BY <1>6, <2>1
  <2> QED
    BY <1>4, <2>1, <2>2
<1>10. Middle(d, new) = {after(x) : x \in R}
  <2>1. Middle(d, new) = {d[j] : j \in 2 .. t} /\ R = {s[j] : j \in 2 .. t}
    BY <1>1, <1>8 DEF Middle, t
  <2>2. \A j \in 2 .. t : d[j] = after(s[j])
    BY <1>2, <1>6
  <2> HIDE DEF after
  <2> QED
    BY <2>1, <2>2
<1>11. Layout(d, new, {after(x) : x \in R})
  BY <1>4, <1>5, <1>7, <1>9, <1>10 DEF Layout
<1>12. Stacked(d, new) = [j \in DOMAIN Stacked(s, man) |-> after(Stacked(s, man)[j])]
  <2> DEFINE o == Stacked(s, man)
             p == Stacked(d, new)
  <2>1. /\ o \in Seq(Names) /\ Len(o) = t - 1 /\ DOMAIN o = 1 .. t - 1
        /\ \A j \in 1 .. t - 1 : o[j] = s[j + 1]
    BY StackedFacts DEF t
  <2>2. /\ p \in Seq(Names) /\ Len(p) = t - 1 /\ DOMAIN p = 1 .. t - 1
        /\ \A j \in 1 .. t - 1 : p[j] = d[j + 1]
    BY <1>8, <1>11, StackedFacts
  <2> HIDE DEF o, p
  <2>3. \A j \in 1 .. t - 1 : p[j] = after(o[j])
    <3> TAKE j \in 1 .. t - 1
    <3>1. j + 1 \in 1 .. Len(s)
      BY <1>2
    <3> QED
      BY <1>6, <2>1, <2>2, <3>1
  <2> HIDE DEF after
  <2>4. p = [j \in 1 .. t - 1 |-> p[j]]
    BY <2>2
  <2>5. p = [j \in DOMAIN o |-> after(o[j])]
    BY <2>1, <2>3, <2>4
  <2> QED
    BY <2>5 DEF o, p
<1> QED
  BY <1>11, <1>12 DEF d, RenamedIn, RenamedAll

\* The stack without the manual profile.
Bare(s, man) == SubSeq(s, 1, Top(s, man))

LEMMA BareLayout ==
  ASSUME NEW s, NEW man, NEW R, Layout(s, man, R)
  PROVE  /\ Layout(Bare(s, man), None, R)
         /\ Stacked(Bare(s, man), None) = Stacked(s, man)
         /\ Len(Bare(s, man)) = Top(s, man)
         /\ \A j \in 1 .. Top(s, man) : Bare(s, man)[j] = s[j] /\ s[j] # man
<1> DEFINE t == Top(s, man)
           b == Bare(s, man)
<1>1. s \in Seq(Names) /\ s[1] = Global /\ Middle(s, man) = R
      /\ (man # None => Len(s) >= 2 /\ s[Len(s)] = man)
  BY DEF Layout
<1>2. /\ Len(s) \in Nat /\ Len(s) >= 1 /\ t \in 1 .. Len(s)
      /\ \A j, k \in 1 .. Len(s) : s[j] = s[k] => j = k
      /\ \A j \in 1 .. Len(s) : s[j] \in Names
  BY LayoutFacts
<1>3. man # None => t = Len(s) - 1
  BY DEF Top
<1> HIDE DEF t
<1>4. b \in Seq(Names) /\ Len(b) = t /\ DOMAIN b = 1 .. t /\ \A j \in 1 .. t : b[j] = s[j]
  <2>1. LET q == SubSeq(s, 1, t) IN q \in Seq(Names) /\ Len(q) = t /\ DOMAIN q = 1 .. t /\ \A j \in 1 .. t : q[j] = s[j]
    BY <1>1, <1>2
  <2> QED
    BY <2>1 DEF Bare, t
<1> HIDE DEF b
<1>5. Top(b, None) = t
  BY <1>4 DEF Top
<1>6. Distinct(b)
  BY <1>2, <1>4 DEF Distinct
<1>7. Middle(b, None) = R
  <2>1. Middle(b, None) = {b[j] : j \in 2 .. t} /\ R = {s[j] : j \in 2 .. t}
    BY <1>1, <1>5 DEF Middle, t
  <2>2. \A j \in 2 .. t : b[j] = s[j]
    BY <1>2, <1>4
  <2> QED
    BY <2>1, <2>2
<1>8. Layout(b, None, R)
  BY <1>1, <1>2, <1>4, <1>6, <1>7 DEF Layout
<1>9. SubSeq(b, 2, t) = SubSeq(s, 2, t)
  BY <1>1, <1>2, <1>4
<1>10. Stacked(b, None) = Stacked(s, man)
  BY <1>5, <1>9 DEF Stacked, t
<1>11. \A j \in 1 .. t : s[j] # man
  <2> SUFFICES ASSUME NEW j \in 1 .. t, s[j] = man PROVE FALSE
    OBVIOUS
  <2>1. j \in 1 .. Len(s) /\ Len(s) \in 1 .. Len(s)
    BY <1>2
  <2>2. man # None
    BY <1>2, <2>1
  <2>3. j # Len(s)
    BY <1>2, <1>3, <2>2
  <2> QED
    BY <1>1, <1>2, <2>1, <2>2, <2>3
<1> QED
  BY <1>4, <1>8, <1>10, <1>11 DEF b, t

\* A view is put on top: that of the program that starts, or that of the manual profile.
LEMMA PushLayout ==
  ASSUME NEW s, NEW R, Layout(s, None, R), NEW n \in Names, \A j \in 1 .. Len(s) : s[j] # n
  PROVE  /\ Layout(s \o <<n>>, None, R \cup {n})
         /\ Stacked(s \o <<n>>, None) = Append(Stacked(s, None), n)
         /\ Layout(s \o <<n>>, n, R)
         /\ Stacked(s \o <<n>>, n) = Stacked(s, None)
<1> DEFINE d == s \o <<n>>
           l == Len(s)
           o == Stacked(s, None)
<1>1. s \in Seq(Names) /\ s[1] = Global /\ Middle(s, None) = R
  BY DEF Layout
<1>2. /\ l \in Nat /\ l >= 1 /\ n # None /\ Top(s, None) = l
      /\ \A j, k \in 1 .. l : s[j] = s[k] => j = k
      /\ \A j \in 1 .. l : s[j] \in Names
  BY LayoutFacts DEF Top
<1> HIDE DEF l
<1>3. /\ d \in Seq(Names) /\ Len(d) = l + 1 /\ DOMAIN d = 1 .. l + 1
      /\ d[l + 1] = n /\ \A j \in 1 .. l : d[j] = s[j]
  BY <1>1 DEF l
<1> HIDE DEF d
<1>4. d[1] = Global /\ Len(d) >= 2
  BY <1>1, <1>2, <1>3
<1>5. Distinct(d)
  <2> SUFFICES ASSUME NEW j \in 1 .. l + 1, NEW k \in 1 .. l + 1, d[j] = d[k] PROVE j = k
    BY <1>3 DEF Distinct
  <2>1. (j \in 1 .. l \/ j = l + 1) /\ (k \in 1 .. l \/ k = l + 1)
    BY <1>2
  <2>2. \A h \in 1 .. l : s[h] # n
    BY DEF l
  <2> QED
    BY <1>2, <1>3, <2>1, <2>2
<1>6. Top(d, None) = l + 1 /\ Top(d, n) = l
  BY <1>2, <1>3 DEF Top
<1>7. R = {s[j] : j \in 2 .. l}
  BY <1>1, <1>2 DEF Middle
<1>8. Middle(d, n) = R
  <2>1. Middle(d, n) = {d[j] : j \in 2 .. l}
    BY <1>6 DEF Middle
  <2>2. \A j \in 2 .. l : d[j] = s[j]
    BY <1>2, <1>3
  <2> QED
    BY <1>7, <2>1, <2>2
<1>9. Middle(d, None) = R \cup {n}
  <2>1. Middle(d, None) = {d[j] : j \in 2 .. l + 1}
    BY <1>6 DEF Middle
  <2>2. \A j \in 2 .. l : d[j] = s[j]
    BY <1>2, <1>3
  <2>3. 2 .. l + 1 = (2 .. l) \cup {l + 1}
    BY <1>2
  <2> QED
    BY <1>3, <1>7, <2>1, <2>2, <2>3
<1>10. Layout(d, None, R \cup {n}) /\ Layout(d, n, R)
  BY <1>2, <1>3, <1>4, <1>5, <1>8, <1>9 DEF Layout
<1>11. o \in Seq(Names) /\ Len(o) = l - 1 /\ \A j \in 1 .. l - 1 : o[j] = s[j + 1]
  BY <1>2, StackedFacts
<1>12. /\ Stacked(d, n) \in Seq(Names) /\ Len(Stacked(d, n)) = l - 1
       /\ \A j \in 1 .. l - 1 : Stacked(d, n)[j] = d[j + 1]
  BY <1>6, <1>10, StackedFacts
<1>13. /\ Stacked(d, None) \in Seq(Names) /\ Len(Stacked(d, None)) = l
       /\ \A j \in 1 .. l : Stacked(d, None)[j] = d[j + 1]
  <2>1. /\ Stacked(d, None) \in Seq(Names) /\ Len(Stacked(d, None)) = Top(d, None) - 1
        /\ \A j \in 1 .. Top(d, None) - 1 : Stacked(d, None)[j] = d[j + 1]
    BY <1>10, StackedFacts
  <2>2. Top(d, None) - 1 = l
    BY <1>2, <1>6
  <2> QED
    BY ONLY <2>1, <2>2
<1> DEFINE p == Stacked(d, n)
           q == Stacked(d, None)
<1> HIDE DEF o, p, q
<1>14. p = o
  <2>1. \A j \in 1 .. l - 1 : p[j] = o[j]
    BY <1>2, <1>3, <1>11, <1>12 DEF p
  <2> QED
    BY <1>11, <1>12, <2>1 DEF p
<1>15. q = Append(o, n)
  <2>1. \A j \in 1 .. l - 1 : q[j] = o[j]
    <3> TAKE j \in 1 .. l - 1
    <3>1. j \in 1 .. l /\ j + 1 \in 1 .. l
      BY <1>2
    <3> QED
      BY <1>3, <1>11, <1>13, <3>1 DEF q
  <2>2. q[l] = n /\ l \in 1 .. l
    BY <1>2, <1>3, <1>13 DEF q
  <2>3. q \in Seq(Names) /\ Len(q) = l
    BY <1>13 DEF q
  <2> QED
    BY <1>2, <1>11, <2>1, <2>2, <2>3
<1> QED
  BY <1>10, <1>14, <1>15 DEF d, o, p, q

(***************************************************************************)
(* The inductive invariant of the stack, and what each operation on the    *)
(* stack does to it                                                        *)
(***************************************************************************)

\* The profiles of the programs the helper reports running.
Started == {index[e] : e \in running}

StackInv ==
  /\ pViews \in Seq(ProfileView) /\ Shows(profiles, pViews)
  /\ Layout(NamesOf(pViews), manual, Started)
  /\ applied = Last(pViews)

Order == Stacked(NamesOf(pViews), manual)

\* The other profiles have the parts they had.
OthersKept(ps, qs, n) ==
  /\ DOMAIN qs \subseteq Names
  /\ \A m \in DOMAIN ps \ {n} : m \in DOMAIN qs /\ qs[m].parts = ps[m].parts

LEMMA StackFacts ==
  ASSUME StackInv
  PROVE  /\ Len(pViews) \in Nat /\ Len(pViews) >= 1
         /\ Len(NamesOf(pViews)) = Len(pViews) /\ NamesOf(pViews) \in Seq(Names)
         /\ \A i \in 1 .. Len(pViews) : /\ NamesOf(pViews)[i] = pViews[i].name
                                        /\ pViews[i].name \in DOMAIN profiles
         /\ NamesOf(pViews)[1] = Global
         /\ Distinct(NamesOf(pViews))
<1>1. pViews \in Seq(ProfileView)
  BY DEF StackInv
<1>2. /\ NamesOf(pViews) \in Seq(Names) /\ Len(NamesOf(pViews)) = Len(pViews)
      /\ \A i \in 1 .. Len(pViews) : NamesOf(pViews)[i] = pViews[i].name
  BY <1>1, NamesOfFacts
<1>3. Len(NamesOf(pViews)) >= 1 /\ NamesOf(pViews)[1] = Global /\ Distinct(NamesOf(pViews))
  BY DEF StackInv, Layout
<1>4. \A i \in 1 .. Len(pViews) : pViews[i].name \in DOMAIN profiles
  BY <1>1 DEF StackInv, Shows
<1> QED
  BY <1>1, <1>2, <1>3, <1>4

LEMMA FoundFacts ==
  ASSUME StackInv, NEW n
  PROVE  /\ Find(pViews, n) \in 0 .. Len(pViews)
         /\ Find(pViews, n) # 0 => NamesOf(pViews)[Find(pViews, n)] = n /\ Find(pViews, n) \in 1 .. Len(pViews)
         /\ Find(pViews, n) = 0 => \A i \in 1 .. Len(pViews) : NamesOf(pViews)[i] # n
<1>1. pViews \in Seq(ProfileView) /\ Distinct(NamesOf(pViews)) /\ Len(pViews) \in Nat
  BY StackFacts DEF StackInv
<1>2. /\ Find(pViews, n) \in 0 .. Len(pViews)
      /\ Find(pViews, n) # 0 => NamesOf(pViews)[Find(pViews, n)] = n
      /\ Find(pViews, n) = 0 => \A i \in DOMAIN pViews : NamesOf(pViews)[i] # n
  BY <1>1, FindFacts
<1>3. DOMAIN pViews = 1 .. Len(pViews)
  BY <1>1
<1> HIDE DEF Find
<1> QED
  BY <1>1, <1>2, <1>3

\* A name that is not on the stack is neither toggled on nor started.
LEMMA NotOnStack ==
  ASSUME StackInv, NEW n \in Names, \A i \in 1 .. Len(pViews) : NamesOf(pViews)[i] # n
  PROVE  manual # n /\ n \notin Started
<1> DEFINE s == NamesOf(pViews)
<1>1. Layout(s, manual, Started) /\ Len(s) = Len(pViews)
  BY StackFacts DEF StackInv
<1>2. /\ Len(s) \in Nat /\ Len(s) >= 1 /\ Top(s, manual) \in 1 .. Len(s)
  BY <1>1, LayoutFacts
<1>3. manual # None => s[Len(s)] = manual
  BY <1>1 DEF Layout
<1>4. Middle(s, manual) = Started
  BY <1>1 DEF Layout
<1>5. \A j \in 2 .. Top(s, manual) : j \in 1 .. Len(s)
  <2>1. \A t \in 1 .. Len(s) : \A j \in 2 .. t : j \in 1 .. Len(s)
    BY <1>2
  <2> QED
    BY <1>2, <2>1
<1> HIDE DEF s
<1>6. \A i \in 1 .. Len(s) : s[i] # n
  BY <1>1 DEF s
<1>7. manual # n
  BY <1>2, <1>3, <1>6
<1>8. n \notin Started
  <2> SUFFICES ASSUME NEW j \in 2 .. Top(s, manual), n = s[j] PROVE FALSE
    BY <1>4 DEF Middle
  <2> QED
    BY <1>5, <1>6
<1> QED
  BY <1>7, <1>8

\* Below a view of n, and everywhere when n has no view, the profiles have the parts they had.
LEMMA BelowKept ==
  ASSUME StackInv, NEW n, OthersKept(profiles, profiles', n), NEW h \in 0 .. Len(pViews),
         \A j \in 1 .. h : NamesOf(pViews)[j] # n
  PROVE  KeepsBelow(profiles, profiles', pViews, h)
<1>1. Len(pViews) \in Nat
      /\ \A i \in 1 .. Len(pViews) : /\ NamesOf(pViews)[i] = pViews[i].name
                                     /\ pViews[i].name \in DOMAIN profiles
  BY StackFacts
<1>2. \A j \in 1 .. h : j \in 1 .. Len(pViews)
  BY <1>1
<1> QED
  BY <1>1, <1>2 DEF OthersKept, KeepsBelow

\* The stack stays as it is.
LEMMA StackKept ==
  ASSUME StackInv, NEW n, OthersKept(profiles, profiles', n),
         \A i \in 1 .. Len(pViews) : NamesOf(pViews)[i] # n,
         pViews' = pViews, applied' = applied, manual' = manual, Started' = Started
  PROVE  StackInv' /\ Order' = Order
<1>1. pViews \in Seq(ProfileView) /\ Shows(profiles, pViews) /\ Len(pViews) \in 0 .. Len(pViews)
  BY StackFacts DEF StackInv
<1>2. KeepsBelow(profiles, profiles', pViews, Len(pViews))
  BY <1>1, BelowKept
<1>3. Shows(profiles', SubSeq(pViews, 1, Len(pViews)))
  BY ONLY <1>1, <1>2, LowerPart
<1>4. SubSeq(pViews, 1, Len(pViews)) = pViews
  BY <1>1
<1>5. Shows(profiles', pViews')
  BY <1>3, <1>4
<1>6. Layout(NamesOf(pViews'), manual', Started')
  BY DEF StackInv
<1> QED
  BY <1>1, <1>5, <1>6 DEF StackInv, Order

\* The stack is replaced from the view at i on.
LEMMA StackRecreated ==
  ASSUME StackInv, NEW n, OthersKept(profiles, profiles', n), NEW man,
         NEW i \in 1 .. Len(pViews), \A j \in 1 .. i - 1 : NamesOf(pViews)[j] # n,
         NEW names \in Seq(Names), \A j \in DOMAIN names : names[j] \in DOMAIN profiles',
         Stack(Recreate(profiles', man, pViews, i, names)),
         Layout(SubSeq(NamesOf(pViews), 1, i - 1) \o names, manual', Started')
  PROVE  StackInv' /\ NamesOf(pViews') = SubSeq(NamesOf(pViews), 1, i - 1) \o names
<1> DEFINE vs == Recreate(profiles', man, pViews, i, names)
<1>1. pViews \in Seq(ProfileView) /\ Shows(profiles, pViews) /\ Len(pViews) \in Nat
  BY StackFacts DEF StackInv
<1>2. DOMAIN profiles' \subseteq Names
  BY DEF OthersKept
<1>3. i - 1 \in 0 .. Len(pViews)
  BY <1>1
<1>4. KeepsBelow(profiles, profiles', pViews, i - 1)
  BY <1>3, BelowKept
<1>5. /\ vs \in Seq(ProfileView) /\ Shows(profiles', vs)
      /\ NamesOf(vs) = SubSeq(NamesOf(pViews), 1, i - 1) \o names
  BY ONLY <1>1, <1>2, <1>4, i \in 1 .. Len(pViews), names \in Seq(Names),
          \A j \in DOMAIN names : names[j] \in DOMAIN profiles', RecreateFacts
<1>6. pViews' = vs /\ applied' = IF vs = <<>> THEN NoView ELSE Last(vs)
  BY DEF Stack
<1> HIDE DEF vs
<1>7. vs # <<>>
  <2>1. Len(NamesOf(vs)) >= 1 /\ Len(NamesOf(vs)) = Len(vs)
    BY <1>5, NamesOfFacts DEF Layout
  <2> QED
    BY <2>1
<1> QED
  BY <1>5, <1>6, <1>7 DEF StackInv

(***************************************************************************)
(* Dequeue, rename, refresh, queue and toggle                              *)
(***************************************************************************)

\* Others of the stack than the one at i.
LEMMA OneAtI ==
  ASSUME StackInv, NEW n, NEW i \in 1 .. Len(pViews), NamesOf(pViews)[i] = n
  PROVE  /\ \A j \in 1 .. Len(pViews) : j # i => NamesOf(pViews)[j] # n
         /\ n # Global => i \in 2 .. Len(pViews)
<1> DEFINE s == NamesOf(pViews)
<1>1. Len(pViews) \in Nat /\ Len(s) = Len(pViews) /\ s \in Seq(Names) /\ s[1] = Global /\ Distinct(s)
  BY StackFacts
<1> HIDE DEF s
<1>2. DOMAIN s = 1 .. Len(pViews)
  BY <1>1
<1>3. s[i] = n
  BY DEF s
<1>4. \A j \in 1 .. Len(pViews) : s[j] = n => j = i
  BY <1>2, <1>1, <1>3 DEF Distinct
<1>5. n # Global => i # 1
  BY <1>1, <1>3
<1> QED
  BY <1>1, <1>4, <1>5 DEF s

\* dequeueProfileView: of a program that is gone, or of a profile that is removed, disabled or
\* given another executable.
LEMMA DequeueStep ==
  ASSUME StackInv, NEW n \in Names, n # Global, OthersKept(profiles, profiles', n),
         NEW man, Dequeue(profiles', man, n),
         manual' = IF manual = n THEN None ELSE manual,
         Started' = Started \ {n}
  PROVE  /\ StackInv'
         /\ \/ Order' = Order
            \/ /\ manual' = manual
               /\ \E i \in DOMAIN Order : Order[i] = n /\ Order' = Dropped(Order, i)
<1> DEFINE s == NamesOf(pViews)
<1>1. PICK i : i = Find(pViews, n)
  OBVIOUS
<1>2. /\ i \in 0 .. Len(pViews)
      /\ i # 0 => s[i] = n /\ i \in 1 .. Len(pViews)
      /\ i = 0 => \A j \in 1 .. Len(pViews) : s[j] # n
  BY <1>1, FoundFacts
<1>3. CASE i = 0
  <2>1. pViews' = pViews /\ applied' = applied
    BY <1>1, <1>3 DEF Dequeue
  <2>2. manual # n /\ n \notin Started
    BY <1>2, <1>3, NotOnStack
  <2>3. manual' = manual /\ Started' = Started
    BY <2>2
  <2> QED
    BY <1>2, <1>3, <2>1, <2>3, StackKept
<1>4. CASE i # 0
  <2>1. i \in 1 .. Len(pViews) /\ s[i] = n
    BY <1>2, <1>4
  <2>2. (\A j \in 1 .. Len(pViews) : j # i => s[j] # n) /\ i \in 2 .. Len(pViews)
    BY <2>1, OneAtI
  <2>3. /\ Len(pViews) \in Nat /\ Len(s) = Len(pViews) /\ s \in Seq(Names)
        /\ \A j \in 1 .. Len(pViews) : s[j] \in DOMAIN profiles
    BY StackFacts
  <2>4. Layout(s, manual, Started)
    BY DEF StackInv
  <2> HIDE DEF s
  <2>5. PICK names : names = SubSeq(s, i + 1, Len(s))
    OBVIOUS
  <2>6. NamesAbove(pViews, i) = names
    <3>1. pViews \in Seq(ProfileView)
      BY DEF StackInv
    <3> QED
      BY <1>2, <2>3, <2>5, <3>1, NamesAboveFacts DEF s
  <2>7. Stack(Recreate(profiles', man, pViews, i, names))
    BY <1>1, <1>4, <2>6 DEF Dequeue
  <2>8. names \in Seq(Names) /\ \A j \in DOMAIN names : names[j] \in DOMAIN profiles'
    <3>1. names \in Seq(Names) /\ DOMAIN names = 1 .. Len(s) - i /\ \A j \in 1 .. Len(s) - i : names[j] = s[i + j]
      BY <2>1, <2>3, <2>5
    <3>2. ASSUME NEW j \in 1 .. Len(s) - i PROVE names[j] \in DOMAIN profiles'
      <4>1. i + j \in 1 .. Len(pViews) /\ i + j # i
        BY <2>1, <2>3
      <4>2. s[i + j] # n /\ s[i + j] \in DOMAIN profiles
        BY <2>2, <2>3, <4>1
      <4> QED
        BY <3>1, <4>2 DEF OthersKept
    <3> QED
      BY <3>1, <3>2
  <2>9. \A j \in 1 .. i - 1 : s[j] # n
    BY <2>1, <2>2, <2>3
  <2>10. SubSeq(s, 1, i - 1) \o names = Dropped(s, i)
    BY <2>5 DEF Dropped
  <2>11. PICK new : new = IF manual = s[i] THEN None ELSE manual
    OBVIOUS
  <2>12. /\ Layout(Dropped(s, i), new, Started \ {s[i]})
         /\ manual = s[i] => Stacked(Dropped(s, i), new) = Stacked(s, manual)
         /\ manual # s[i] => /\ i - 1 \in DOMAIN Stacked(s, manual) /\ Stacked(s, manual)[i - 1] = s[i]
                             /\ Stacked(Dropped(s, i), new) = Dropped(Stacked(s, manual), i - 1)
    <3>1. i \in 2 .. Len(s)
      BY <2>2, <2>3
    <3> QED
      <4>1. Layout(Dropped(s, i), new, Started \ {s[i]})
        BY ONLY <2>4, <2>11, <3>1, DropLayout
      <4>2. manual = s[i] => Stacked(Dropped(s, i), new) = Stacked(s, manual)
        BY ONLY <2>4, <2>11, <3>1, <4>1, DropLayout
      <4>3. manual # s[i] => i - 1 \in DOMAIN Stacked(s, manual)
        BY ONLY <2>4, <2>11, <3>1, <4>1, DropLayout
      <4>4. manual # s[i] => Stacked(s, manual)[i - 1] = s[i]
        BY ONLY <2>4, <2>11, <3>1, <4>1, DropLayout
      <4>5. manual # s[i] => Stacked(Dropped(s, i), new) = Dropped(Stacked(s, manual), i - 1)
        BY ONLY <2>4, <2>11, <3>1, <4>1, DropLayout
      <4> QED
        BY <4>1, <4>2, <4>3, <4>4, <4>5
  <2>13. new = manual'
    BY <2>1, <2>11
  <2>14. Layout(SubSeq(s, 1, i - 1) \o names, manual', Started')
    BY <2>1, <2>10, <2>12, <2>13
  <2>15. StackInv' /\ NamesOf(pViews') = Dropped(s, i)
    BY <2>1, <2>7, <2>8, <2>9, <2>10, <2>14, StackRecreated DEF s
  <2>16. Order' = Stacked(Dropped(s, i), new) /\ Order = Stacked(s, manual)
    BY <2>13, <2>15 DEF Order, s
  <2> QED
    BY <2>1, <2>11, <2>12, <2>13, <2>15, <2>16
<1> QED
  BY <1>3, <1>4

\* A profile whose name changes keeps its place in the stack.
LEMMA RenameStep ==
  ASSUME StackInv, NEW n \in Names, n # Global, OthersKept(profiles, profiles', n),
         NEW m \in DOMAIN profiles', m \notin DOMAIN profiles, NEW man,
         IF Find(pViews, n) = 0
           THEN pViews' = pViews /\ applied' = applied
           ELSE Stack(Recreate(profiles', man, pViews, Find(pViews, n),
                               <<m>> \o NamesAbove(pViews, Find(pViews, n)))),
         manual' = IF manual = n THEN m ELSE manual,
         Started' = RenamedAll(Started, n, m)
  PROVE  /\ StackInv'
         /\ \/ Order' = Order /\ manual' = manual
            \/ /\ Order' = RenamedIn(Order, n, m)
               /\ \E i \in 1 .. Len(pViews) : NamesOf(pViews)[i] = n
<1> DEFINE s == NamesOf(pViews)
<1>1. PICK i : i = Find(pViews, n)
  OBVIOUS
<1>2. /\ i \in 0 .. Len(pViews)
      /\ i # 0 => s[i] = n /\ i \in 1 .. Len(pViews)
      /\ i = 0 => \A j \in 1 .. Len(pViews) : s[j] # n
  BY <1>1, FoundFacts
<1>3. CASE i = 0
  <2>1. pViews' = pViews /\ applied' = applied
    BY <1>1, <1>3
  <2>2. manual # n /\ n \notin Started
    BY <1>2, <1>3, NotOnStack
  <2>3. manual' = manual /\ Started' = Started
    BY <2>2 DEF RenamedAll
  <2> QED
    BY <1>2, <1>3, <2>1, <2>3, StackKept
<1>4. CASE i # 0
  <2>0. m \in Names
    BY DEF OthersKept
  <2>1. i \in 1 .. Len(pViews) /\ s[i] = n
    BY <1>2, <1>4
  <2>2. (\A j \in 1 .. Len(pViews) : j # i => s[j] # n) /\ i \in 2 .. Len(pViews)
    BY <2>1, OneAtI
  <2>3. /\ Len(pViews) \in Nat /\ Len(s) = Len(pViews) /\ s \in Seq(Names)
        /\ \A j \in 1 .. Len(pViews) : s[j] \in DOMAIN profiles
    BY StackFacts
  <2>4. Layout(s, manual, Started)
    BY DEF StackInv
  <2> HIDE DEF s
  <2>5. PICK above : above = SubSeq(s, i + 1, Len(s))
    OBVIOUS
  <2>6. NamesAbove(pViews, i) = above
    <3>1. pViews \in Seq(ProfileView)
      BY DEF StackInv
    <3> QED
      BY <1>2, <2>3, <2>5, <3>1, NamesAboveFacts DEF s
  <2>7. PICK names : names = <<m>> \o above
    OBVIOUS
  <2>8. Stack(Recreate(profiles', man, pViews, i, names))
    BY <1>1, <1>4, <2>6, <2>7
  <2>9. names \in Seq(Names) /\ \A j \in DOMAIN names : names[j] \in DOMAIN profiles'
    <3>1. above \in Seq(Names) /\ Len(above) = Len(s) - i /\ \A j \in 1 .. Len(s) - i : above[j] = s[i + j]
      BY <2>1, <2>3, <2>5
    <3>2. ASSUME NEW j \in 1 .. Len(s) - i PROVE above[j] \in DOMAIN profiles'
      <4>1. i + j \in 1 .. Len(pViews) /\ i + j # i
        BY <2>1, <2>3
      <4>2. s[i + j] # n /\ s[i + j] \in DOMAIN profiles
        BY <2>2, <2>3, <4>1
      <4> QED
        BY <3>1, <4>2 DEF OthersKept
    <3>3. <<m>> \in Seq(Names) /\ Len(<<m>>) = 1 /\ <<m>>[1] = m
      BY <2>0
    <3>4. PICK o : o = <<m>>
      OBVIOUS
    <3>5. /\ o \o above \in Seq(Names) /\ Len(o \o above) = Len(o) + Len(above)
          /\ \A j \in 1 .. Len(o) : (o \o above)[j] = o[j]
          /\ \A j \in 1 .. Len(above) : (o \o above)[Len(o) + j] = above[j]
          /\ \A j \in 1 .. Len(o) + Len(above) : j \in 1 .. Len(o) \/ j - Len(o) \in 1 .. Len(above)
      <4>1. o \in Seq(Names)
        BY <3>3, <3>4
      <4> QED
        <5>1. o \o above \in Seq(Names) /\ Len(o \o above) = Len(o) + Len(above)
          BY ONLY <3>1, <4>1, ConcatFacts
        <5>2. \A j \in 1 .. Len(o) : (o \o above)[j] = o[j]
          BY ONLY <3>1, <4>1, ConcatFacts
        <5>3. \A j \in 1 .. Len(above) : (o \o above)[Len(o) + j] = above[j]
          BY ONLY <3>1, <4>1, ConcatFacts
        <5>4. \A j \in 1 .. Len(o) + Len(above) : j \in 1 .. Len(o) \/ j - Len(o) \in 1 .. Len(above)
          BY ONLY <3>1, <4>1, ConcatFacts
        <5> QED
          BY <5>1, <5>2, <5>3, <5>4
    <3>6. Len(o) = 1 /\ o[1] = m /\ names = o \o above
      BY <2>7, <3>3, <3>4
    <3>7. names \in Seq(Names) /\ DOMAIN names = 1 .. 1 + Len(above)
      BY ONLY <3>1, <3>5, <3>6
    <3>8. ASSUME NEW j \in 1 .. 1 + Len(above) PROVE names[j] \in DOMAIN profiles'
      <4>1. CASE j = 1
        <5>1. names[1] = m
          BY ONLY <3>5, <3>6
        <5> QED
          BY <4>1, <5>1
      <4>2. CASE j # 1
        <5> DEFINE h == j - 1
        <5>1. h \in 1 .. Len(above) /\ 1 + h = j
          BY <2>1, <2>3, <3>1, <4>2
        <5> HIDE DEF h
        <5>2. names[1 + h] = above[h]
          BY ONLY <3>5, <3>6, <5>1
        <5> QED
          BY <3>1, <3>2, <5>1, <5>2
      <4> QED
        BY <4>1, <4>2
    <3> QED
      BY <3>7, <3>8
  <2>10. \A j \in 1 .. i - 1 : s[j] # n
    BY <2>1, <2>2, <2>3
  <2>11. SubSeq(s, 1, i - 1) \o names = Replaced(s, i, m)
    BY <2>5, <2>7 DEF Replaced
  <2>12. PICK new : new = IF manual = s[i] THEN m ELSE manual
    OBVIOUS
  <2>13. /\ Layout(Replaced(s, i, m), new, RenamedAll(Started, s[i], m))
         /\ Stacked(Replaced(s, i, m), new) = RenamedIn(Stacked(s, manual), s[i], m)
    <3>1. i \in 2 .. Len(s) /\ \A j \in 1 .. Len(s) : s[j] # m
      BY <2>2, <2>3
    <3> QED
      <4>1. Layout(Replaced(s, i, m), new, RenamedAll(Started, s[i], m))
        BY ONLY <2>0, <2>4, <2>12, <3>1, ReplaceLayout
      <4>2. Stacked(Replaced(s, i, m), new) = RenamedIn(Stacked(s, manual), s[i], m)
        BY ONLY <2>0, <2>4, <2>12, <3>1, <4>1, ReplaceLayout
      <4> QED
        BY <4>1, <4>2
  <2>14. new = manual'
    BY <2>1, <2>12
  <2>15. Layout(SubSeq(s, 1, i - 1) \o names, manual', Started')
    BY <2>1, <2>11, <2>13, <2>14
  <2>16. StackInv' /\ NamesOf(pViews') = Replaced(s, i, m)
    BY <2>1, <2>8, <2>9, <2>10, <2>11, <2>15, StackRecreated DEF s
  <2>17. Order' = Stacked(Replaced(s, i, m), new) /\ Order = Stacked(s, manual)
    BY <2>14, <2>16 DEF Order, s
  <2>18. Order' = RenamedIn(Order, n, m)
    BY <2>1, <2>13, <2>17
  <2> QED
    BY <2>1, <2>16, <2>18 DEF s
<1> QED
  BY <1>3, <1>4

\* profileChanged: the views from that of n on are created anew, and have the names they had.
LEMMA RefreshStep ==
  ASSUME StackInv, NEW n \in DOMAIN profiles, OthersKept(profiles, profiles', n), n \in DOMAIN profiles',
         IF Find(pViews, n) = 0
           THEN pViews' = pViews /\ applied' = applied
           ELSE Stack(Recreate(profiles', manual, pViews, Find(pViews, n),
                               NamesAbove(pViews, Find(pViews, n) - 1))),
         manual' = manual, Started' = Started
  PROVE  StackInv' /\ Order' = Order
<1> DEFINE s == NamesOf(pViews)
<1>1. PICK i : i = Find(pViews, n)
  OBVIOUS
<1>2. /\ i \in 0 .. Len(pViews)
      /\ i # 0 => s[i] = n /\ i \in 1 .. Len(pViews)
      /\ i = 0 => \A j \in 1 .. Len(pViews) : s[j] # n
  BY <1>1, FoundFacts
<1>3. CASE i = 0
  <2>1. pViews' = pViews /\ applied' = applied
    BY <1>1, <1>3
  <2> QED
    BY <1>2, <1>3, <2>1, StackKept
<1>4. CASE i # 0
  <2>1. i \in 1 .. Len(pViews) /\ s[i] = n
    BY <1>2, <1>4
  <2>2. \A j \in 1 .. Len(pViews) : j # i => s[j] # n
    BY <2>1, OneAtI
  <2>3. /\ Len(pViews) \in Nat /\ Len(s) = Len(pViews) /\ s \in Seq(Names)
        /\ \A j \in 1 .. Len(pViews) : s[j] \in DOMAIN profiles
    BY StackFacts
  <2>4. Layout(s, manual, Started)
    BY DEF StackInv
  <2> HIDE DEF s
  <2>5. PICK names : names = SubSeq(s, i, Len(s))
    OBVIOUS
  <2>6. NamesAbove(pViews, i - 1) = names
    <3>1. pViews \in Seq(ProfileView)
      BY DEF StackInv
    <3>2. PICK h : h = i - 1
      OBVIOUS
    <3>3. h \in 0 .. Len(pViews) /\ h + 1 = i
      BY <2>1, <2>3, <3>2
    <3>4. NamesAbove(pViews, h) = SubSeq(NamesOf(pViews), h + 1, Len(pViews))
      BY ONLY <3>1, <3>3, NamesAboveFacts
    <3> QED
      BY <2>3, <2>5, <3>2, <3>3, <3>4 DEF s
  <2>7. PICK man : man = manual
    OBVIOUS
  <2>8. Stack(Recreate(profiles', man, pViews, i, names))
    BY <1>1, <1>4, <2>6, <2>7
  <2>9. names \in Seq(Names) /\ \A j \in DOMAIN names : names[j] \in DOMAIN profiles'
    <3>1. names \in Seq(Names) /\ DOMAIN names = 1 .. Len(s) - i + 1
          /\ \A j \in 1 .. Len(s) - i + 1 : names[j] = s[i + j - 1]
      BY <2>1, <2>3, <2>5
    <3>2. ASSUME NEW j \in 1 .. Len(s) - i + 1 PROVE names[j] \in DOMAIN profiles'
      <4>1. i + j - 1 \in 1 .. Len(pViews)
        BY <2>1, <2>3
      <4>2. s[i + j - 1] \in DOMAIN profiles
        BY <2>3, <4>1
      <4> QED
        BY <3>1, <4>2 DEF OthersKept
    <3> QED
      BY <3>1, <3>2
  <2>10. \A j \in 1 .. i - 1 : s[j] # n
    BY <2>1, <2>2, <2>3
  <2>11. SubSeq(s, 1, i - 1) \o names = s
    <3> DEFINE a == SubSeq(s, 1, i - 1)
    <3>1. a \in Seq(Names) /\ Len(a) = i - 1 /\ \A j \in 1 .. i - 1 : a[j] = s[j]
      BY <2>1, <2>3
    <3>2. names \in Seq(Names) /\ Len(names) = Len(s) - i + 1
          /\ \A j \in 1 .. Len(s) - i + 1 : names[j] = s[i + j - 1]
      BY <2>1, <2>3, <2>5
    <3> HIDE DEF a
    <3>3. \A j \in 1 .. Len(names) : s[Len(a) + j] = names[j]
      <4> TAKE j \in 1 .. Len(names)
      <4>1. i - 1 + j = i + j - 1
        BY <2>1, <2>3, <3>2
      <4> QED
        BY <3>1, <3>2, <4>1
    <3>4. Len(s) = Len(a) + Len(names) /\ \A j \in 1 .. Len(a) : s[j] = a[j]
      BY <2>1, <2>3, <3>1, <3>2
    <3>5. s = a \o names
      BY ONLY <2>3, <3>1, <3>2, <3>3, <3>4, ConcatEqual
    <3> QED
      BY <3>5 DEF a
  <2>12. Layout(SubSeq(s, 1, i - 1) \o names, manual', Started')
    BY <2>4, <2>11
  <2>13. StackInv' /\ NamesOf(pViews') = s
    BY <2>1, <2>8, <2>9, <2>10, <2>11, <2>12, StackRecreated DEF s
  <2> QED
    BY <2>13 DEF Order, s
<1> QED
  BY <1>3, <1>4

\* The stack without the view of the manual profile.
BareViews == IF manual = None THEN pViews ELSE Front(pViews)

LEMMA BareFacts ==
  ASSUME StackInv
  PROVE  /\ BareViews \in Seq(ProfileView) /\ Shows(profiles, BareViews)
         /\ NamesOf(BareViews) = Bare(NamesOf(pViews), manual)
         /\ IsBase(BareViews, BaseView(pViews, manual))
<1>1. pViews \in Seq(ProfileView) /\ Shows(profiles, pViews) /\ Len(pViews) \in Nat /\ Len(pViews) >= 1
      /\ NamesOf(pViews) \in Seq(Names) /\ Len(NamesOf(pViews)) = Len(pViews)
  BY StackFacts DEF StackInv
<1>2. CASE manual = None
  <2>1. BareViews = pViews /\ Bare(NamesOf(pViews), manual) = NamesOf(pViews)
    BY <1>1, <1>2 DEF BareViews, Bare, Top
  <2> QED
    BY <1>1, <2>1, BaseFacts
<1>3. CASE manual # None
  <2>1. PICK h : h = Len(pViews) - 1
    OBVIOUS
  <2>2. h \in 0 .. Len(pViews)
    BY <1>1, <2>1
  <2>3. BareViews = SubSeq(pViews, 1, h) /\ Bare(NamesOf(pViews), manual) = SubSeq(NamesOf(pViews), 1, h)
    BY <1>1, <1>3, <2>1 DEF BareViews, Bare, Top, Front
  <2>4. KeepsBelow(profiles, profiles, pViews, h)
    <3>1. \A j \in 1 .. h : j \in 1 .. Len(pViews)
      BY <1>1, <2>1
    <3> QED
      BY <3>1, StackFacts DEF KeepsBelow
  <2>5. /\ SubSeq(pViews, 1, h) \in Seq(ProfileView) /\ Shows(profiles, SubSeq(pViews, 1, h))
        /\ NamesOf(SubSeq(pViews, 1, h)) = SubSeq(NamesOf(pViews), 1, h)
    BY ONLY <1>1, <2>2, <2>4, LowerPart
  <2>6. IsBase(SubSeq(pViews, 1, h), BaseView(pViews, manual))
    BY <1>1, <1>3, <2>1, BaseFacts
  <2> QED
    BY <2>3, <2>5, <2>6
<1> QED
  BY <1>2, <1>3

\* What is above the views of the automatic profiles is replaced.
LEMMA ToppedStep ==
  ASSUME StackInv, profiles' = profiles, DOMAIN profiles \subseteq Names,
         NEW names \in Seq(Names), \A j \in DOMAIN names : names[j] \in DOMAIN profiles,
         Stack(BareViews \o CreateViews(profiles, BaseView(pViews, manual), names)),
         Layout(Bare(NamesOf(pViews), manual) \o names, manual', Started')
  PROVE  StackInv' /\ NamesOf(pViews') = Bare(NamesOf(pViews), manual) \o names
<1> DEFINE vs == BareViews \o CreateViews(profiles, BaseView(pViews, manual), names)
<1>1. /\ BareViews \in Seq(ProfileView) /\ Shows(profiles, BareViews)
      /\ NamesOf(BareViews) = Bare(NamesOf(pViews), manual)
      /\ IsBase(BareViews, BaseView(pViews, manual))
  BY BareFacts
<1>2. /\ vs \in Seq(ProfileView) /\ Shows(profiles, vs)
      /\ NamesOf(vs) = NamesOf(BareViews) \o names
  BY ONLY <1>1, DOMAIN profiles \subseteq Names, names \in Seq(Names),
          \A j \in DOMAIN names : names[j] \in DOMAIN profiles, CreateFacts
<1>3. pViews' = vs /\ applied' = IF vs = <<>> THEN NoView ELSE Last(vs)
  BY DEF Stack
<1> HIDE DEF vs
<1>4. vs # <<>>
  <2>1. Len(NamesOf(vs)) >= 1 /\ Len(NamesOf(vs)) = Len(vs)
    BY <1>1, <1>2, NamesOfFacts DEF Layout
  <2> QED
    BY <2>1
<1> QED
  BY <1>1, <1>2, <1>3, <1>4 DEF StackInv

\* Putting the manual profile's view back, or another one's, over the automatic profiles.
LEMMA CapLayout ==
  ASSUME NEW b, NEW R, Layout(b, None, R), NEW man \in Names \cup {None},
         \A j \in 1 .. Len(b) : b[j] # man
  PROVE  /\ Layout(b \o AppendManual(<<>>, man), man, R)
         /\ Stacked(b \o AppendManual(<<>>, man), man) = Stacked(b, None)
<1>1. CASE man = None
  <2>1. b \o <<>> = b
    BY DEF Layout
  <2> QED
    BY <1>1, <2>1 DEF AppendManual
<1>2. CASE man # None
  <2>1. AppendManual(<<>>, man) = <<man>>
    BY <1>2 DEF AppendManual
  <2>2. /\ Layout(b \o <<man>>, man, R)
        /\ Stacked(b \o <<man>>, man) = Stacked(b, None)
    BY <1>2, PushLayout
  <2> QED
    BY <2>1, <2>2
<1> QED
  BY <1>1, <1>2

LEMMA BareOfStack ==
  ASSUME StackInv
  PROVE  LET b == Bare(NamesOf(pViews), manual)
         IN  /\ Layout(b, None, Started) /\ Stacked(b, None) = Order
             /\ \A j \in 1 .. Len(b) : b[j] \in DOMAIN profiles /\ b[j] # manual
             /\ \A j \in 1 .. Len(b) : \E i \in 1 .. Len(pViews) : b[j] = NamesOf(pViews)[i]
<1> DEFINE s == NamesOf(pViews)
           b == Bare(s, manual)
<1>1. Layout(s, manual, Started)
  BY DEF StackInv
<1>2. /\ Layout(b, None, Started) /\ Stacked(b, None) = Stacked(s, manual)
      /\ Len(b) = Top(s, manual) /\ \A j \in 1 .. Top(s, manual) : b[j] = s[j] /\ s[j] # manual
  BY <1>1, BareLayout
<1>3. Top(s, manual) \in 1 .. Len(s)
  BY <1>1, LayoutFacts
<1>4. Len(s) = Len(pViews) /\ Len(s) \in Nat /\ \A j \in 1 .. Len(s) : s[j] \in DOMAIN profiles
  BY StackFacts
<1>5. \A j \in 1 .. Len(b) : j \in 1 .. Len(pViews)
  <2>1. \A t \in 1 .. Len(s) : \A j \in 1 .. t : j \in 1 .. Len(s)
    BY <1>4
  <2> QED
    BY <1>2, <1>3, <1>4, <2>1
<1> HIDE DEF b, s
<1>6. \A j \in 1 .. Len(b) : b[j] = s[j] /\ b[j] \in DOMAIN profiles /\ b[j] # manual
  BY <1>2, <1>4, <1>5
<1>7. Layout(b, None, Started) /\ Stacked(b, None) = Order
  BY <1>2 DEF Order, s
<1> QED
  BY <1>5, <1>6, <1>7 DEF b, s

\* A profile shown by a view is one of the directory.
LEMMA ManualKnown ==
  ASSUME StackInv, manual # None
  PROVE  manual \in DOMAIN profiles
<1> DEFINE s == NamesOf(pViews)
<1>1. Len(s) >= 1 /\ s[Len(s)] = manual
  BY DEF StackInv, Layout
<1>2. Len(s) = Len(pViews) /\ Len(s) \in Nat /\ \A j \in 1 .. Len(s) : s[j] \in DOMAIN profiles
  BY StackFacts
<1> HIDE DEF s
<1> QED
  BY <1>1, <1>2

\* toggleManualProfile: another manual profile, or none, is put on top.
LEMMA ToggleStackStep ==
  ASSUME StackInv, profiles' = profiles, DOMAIN profiles \subseteq Names,
         NEW on \in DOMAIN profiles \cup {None},
         \A i \in 1 .. Len(pViews) : NamesOf(pViews)[i] = on => manual = on,
         Stack(BareViews \o CreateViews(profiles, BaseView(pViews, manual), AppendManual(<<>>, on))),
         manual' = on, Started' = Started
  PROVE  StackInv' /\ Order' = Order
<1>1. PICK b : b = Bare(NamesOf(pViews), manual)
  OBVIOUS
<1>2. /\ Layout(b, None, Started) /\ Stacked(b, None) = Order
      /\ \A j \in 1 .. Len(b) : b[j] \in DOMAIN profiles /\ b[j] # manual
      /\ \A j \in 1 .. Len(b) : \E i \in 1 .. Len(pViews) : b[j] = NamesOf(pViews)[i]
  BY <1>1, BareOfStack
<1>3. PICK names : names = AppendManual(<<>>, on)
  OBVIOUS
<1>4. \A j \in 1 .. Len(b) : b[j] # on
  BY <1>2
<1>5. Layout(b \o names, on, Started) /\ Stacked(b \o names, on) = Stacked(b, None)
  BY <1>2, <1>3, <1>4, CapLayout
<1>6. names \in Seq(Names) /\ \A j \in DOMAIN names : names[j] \in DOMAIN profiles
  <2>1. names = IF on = None THEN <<>> ELSE <<on>>
    BY <1>3 DEF AppendManual
  <2>2. CASE on = None
    BY <2>1, <2>2
  <2>3. CASE on # None
    <3>1. names = <<on>> /\ on \in DOMAIN profiles /\ on \in Names
      BY <2>1, <2>3
    <3> QED
      BY <3>1
  <2> QED
    BY <2>2, <2>3
<1>7. Stack(BareViews \o CreateViews(profiles, BaseView(pViews, manual), names))
  BY <1>3
<1>8. Layout(Bare(NamesOf(pViews), manual) \o names, manual', Started')
  BY <1>1, <1>5
<1>9. StackInv' /\ NamesOf(pViews') = b \o names
  BY <1>1, <1>6, <1>7, <1>8, ToppedStep
<1> QED
  BY <1>2, <1>5, <1>9 DEF Order

\* queueProfileView: the profile of the program that starts is put under the manual profile.
LEMMA QueueStep ==
  ASSUME StackInv, profiles' = profiles, DOMAIN profiles \subseteq Names, manual \in Names \cup {None},
         NEW n \in DOMAIN profiles, \A i \in 1 .. Len(pViews) : NamesOf(pViews)[i] # n,
         Stack(Queue(profiles, manual, pViews, n)),
         manual' = manual, Started' = Started \cup {n}
  PROVE  StackInv' /\ Order' = Append(Order, n)
<1>1. PICK b : b = Bare(NamesOf(pViews), manual)
  OBVIOUS
<1>2. /\ Layout(b, None, Started) /\ Stacked(b, None) = Order
      /\ \A j \in 1 .. Len(b) : b[j] \in DOMAIN profiles /\ b[j] # manual
      /\ \A j \in 1 .. Len(b) : \E i \in 1 .. Len(pViews) : b[j] = NamesOf(pViews)[i]
  BY <1>1, BareOfStack
<1>3. PICK names : names = AppendManual(<<n>>, manual)
  OBVIOUS
<1>4. n \in Names /\ n # manual
  BY NotOnStack
<1>5. \A j \in 1 .. Len(b) : b[j] # n
  BY <1>2
<1>6. PICK c : c = b \o <<n>>
  OBVIOUS
<1>7. Layout(c, None, Started \cup {n}) /\ Stacked(c, None) = Append(Order, n)
  BY <1>2, <1>4, <1>5, <1>6, PushLayout
<1>8. b \in Seq(Names)
  BY <1>2 DEF Layout
<1>9. \A j \in 1 .. Len(c) : c[j] # manual
  <2>1. Len(c) = Len(b) + 1 /\ c[Len(b) + 1] = n /\ (\A j \in 1 .. Len(b) : c[j] = b[j]) /\ Len(b) \in Nat
    BY <1>4, <1>6, <1>8
  <2> TAKE j \in 1 .. Len(c)
  <2>2. j \in 1 .. Len(b) \/ j = Len(b) + 1
    BY <2>1
  <2> QED
    BY <1>2, <1>4, <2>1, <2>2
<1>10. PICK man : man = manual
  OBVIOUS
<1>11. /\ Layout(c \o AppendManual(<<>>, man), man, Started \cup {n})
       /\ Stacked(c \o AppendManual(<<>>, man), man) = Append(Order, n)
  BY <1>7, <1>9, <1>10, CapLayout
<1>12. c \o AppendManual(<<>>, man) = b \o names
  <2>1. CASE man = None
    <3>1. c \in Seq(Names)
      BY <1>7 DEF Layout
    <3>2. c \o <<>> = c
      BY <3>1
    <3> QED
      BY <1>3, <1>6, <1>10, <2>1, <3>2 DEF AppendManual
  <2>2. CASE man # None
    <3>1. AppendManual(<<>>, man) = <<man>> /\ names = <<n, man>>
      BY <1>3, <1>10, <2>2, TwoNames DEF AppendManual
    <3>2. (b \o <<n>>) \o <<man>> = b \o <<n, man>>
      BY <1>4, <1>8, <1>10, <2>2
    <3> QED
      BY <1>6, <3>1, <3>2
  <2> QED
    BY <2>1, <2>2
<1>13. names \in Seq(Names) /\ \A j \in DOMAIN names : names[j] \in DOMAIN profiles
  <2>1. names = IF manual = None THEN <<n>> ELSE <<n, manual>>
    BY <1>3, TwoNames DEF AppendManual
  <2>2. manual # None => manual \in DOMAIN profiles
    BY ManualKnown
  <2>3. CASE manual = None
    BY <1>4, <2>1, <2>3
  <2>4. CASE manual # None
    <3>1. names = <<n, man>> /\ man \in DOMAIN profiles /\ man \in Names
      BY <1>10, <2>1, <2>2, <2>4
    <3>2. DOMAIN names = {1, 2} /\ names[1] = n /\ names[2] = man
      BY <3>1
    <3> QED
      BY <1>4, <3>1, <3>2
  <2> QED
    BY <2>3, <2>4
<1>14. Stack(BareViews \o CreateViews(profiles, BaseView(pViews, manual), names))
  BY <1>3 DEF Queue, BareViews
<1>15. Layout(Bare(NamesOf(pViews), manual) \o names, manual', Started')
  BY <1>1, <1>10, <1>11, <1>12
<1>16. StackInv' /\ NamesOf(pViews') = b \o names
  BY <1>1, <1>13, <1>14, <1>15, ToppedStep
<1> QED
  BY <1>10, <1>11, <1>12, <1>16 DEF Order

\* A signal about a program without a profile: the manual profile's view is created anew.
LEMMA QueueNothingStep ==
  ASSUME StackInv, profiles' = profiles, DOMAIN profiles \subseteq Names, manual \in Names \cup {None},
         Stack(Queue(profiles, manual, pViews, None)),
         manual' = manual, Started' = Started
  PROVE  StackInv' /\ Order' = Order
<1>1. PICK b : b = Bare(NamesOf(pViews), manual)
  OBVIOUS
<1>2. /\ Layout(b, None, Started) /\ Stacked(b, None) = Order
      /\ \A j \in 1 .. Len(b) : b[j] \in DOMAIN profiles /\ b[j] # manual
  BY <1>1, BareOfStack
<1>3. PICK names : names = AppendManual(<<>>, manual)
  OBVIOUS
<1>4. PICK man : man = manual
  OBVIOUS
<1>5. Layout(b \o names, man, Started) /\ Stacked(b \o names, man) = Order
  BY <1>2, <1>3, <1>4, CapLayout
<1>6. names \in Seq(Names) /\ \A j \in DOMAIN names : names[j] \in DOMAIN profiles
  <2>1. names = IF man = None THEN <<>> ELSE <<man>>
    BY <1>3, <1>4 DEF AppendManual
  <2>2. man # None => man \in DOMAIN profiles /\ man \in Names
    BY <1>4, ManualKnown
  <2>3. CASE man = None
    BY <2>1, <2>3
  <2>4. CASE man # None
    BY <2>1, <2>2, <2>4
  <2> QED
    BY <2>3, <2>4
<1>7. Known(profiles, AppendManual(<<None>>, manual)) = Known(profiles, names)
  <2>1. CASE manual = None
    <3>1. names = <<>> /\ AppendManual(<<None>>, manual) = <<None>>
      BY <1>3, <2>1 DEF AppendManual
    <3>2. Known(profiles, names) = names
      BY <1>6, KnownAll
    <3> QED
      BY <3>1, <3>2, KnownNone
  <2>2. CASE manual # None
    <3>1. names = <<manual>> /\ AppendManual(<<None>>, manual) = <<None, manual>>
      BY <1>3, <2>2, TwoNames DEF AppendManual
    <3>2. Known(profiles, names) = names
      BY <1>6, KnownAll
    <3>3. Known(profiles, <<None, manual>>) = <<manual>>
      BY <2>2, ManualKnown, KnownNone
    <3> QED
      BY <3>1, <3>2, <3>3
  <2> QED
    BY <2>1, <2>2
<1>8. CreateViews(profiles, BaseView(pViews, manual), AppendManual(<<None>>, manual))
        = CreateViews(profiles, BaseView(pViews, manual), names)
  BY <1>7 DEF CreateViews
<1>9. Stack(BareViews \o CreateViews(profiles, BaseView(pViews, manual), names))
  BY <1>8 DEF Queue, BareViews
<1>10. Layout(Bare(NamesOf(pViews), manual) \o names, manual', Started')
  BY <1>1, <1>4, <1>5
<1>11. StackInv' /\ NamesOf(pViews') = b \o names
  BY <1>1, <1>6, <1>9, <1>10, ToppedStep
<1> QED
  BY <1>4, <1>5, <1>11 DEF Order

(***************************************************************************)
(* The operations of the session                                           *)
(***************************************************************************)

\* A name on the stack is the global profile's, the manual profile's, or that of a program.
LEMMA OnStack ==
  ASSUME StackInv, NEW i \in 1 .. Len(pViews)
  PROVE  LET n == NamesOf(pViews)[i]
         IN  n # None /\ n \in DOMAIN profiles /\ (n = Global \/ n \in Started \/ n = manual)
<1> DEFINE s == NamesOf(pViews)
<1>1. Layout(s, manual, Started) /\ Len(s) = Len(pViews) /\ s[i] \in DOMAIN profiles /\ s[1] = Global
  BY StackFacts DEF StackInv
<1>2. /\ s[i] \in Names
      /\ i = 1 \/ i \in 2 .. Top(s, manual) \/ (manual # None /\ i = Len(s))
  BY <1>1, LayoutFacts
<1>3. Middle(s, manual) = Started /\ (manual # None => s[Len(s)] = manual)
  BY <1>1 DEF Layout
<1>4. i \in 2 .. Top(s, manual) => s[i] \in Started
  BY <1>3 DEF Middle
<1> HIDE DEF s
<1> QED
  BY <1>1, <1>2, <1>3, <1>4 DEF s

\* What the tables say of a program that runs, and of the manual profile.
LEMMA TableFacts ==
  ASSUME IInv
  PROVE  /\ DOMAIN profiles \subseteq Names /\ manual \in Names \cup {None}
         /\ running \subseteq watched /\ watched \subseteq DOMAIN index \ {Global}
         /\ \A e \in DOMAIN index : index[e] \in DOMAIN profiles /\ profiles[index[e]].exe = e /\ e # Manual
         /\ \A e, f \in DOMAIN index : index[e] = index[f] => e = f
         /\ manual # None => manual \in DOMAIN profiles /\ profiles[manual].exe = Manual
         /\ Global \in DOMAIN profiles /\ profiles[Global].exe = Global
         /\ \A m, n \in DOMAIN profiles : profiles[m].exe = profiles[n].exe /\ profiles[n].exe # Manual => m = n
<1>1. \A e \in DOMAIN index : index[e] \in DOMAIN profiles /\ profiles[index[e]].exe = e /\ e # Manual
  BY DEF IInv, IndexInv, TablesTypeOK
<1>2. manual # None => manual \in DOMAIN profiles /\ profiles[manual].exe = Manual
  BY DEF IInv, MenuInv, ManualProfiles
<1>3. /\ Global \in DOMAIN profiles /\ profiles[Global].exe = Global
      /\ \A m, n \in DOMAIN profiles : profiles[m].exe = profiles[n].exe /\ profiles[n].exe # Manual => m = n
  BY DEF IInv, DirectoryInv, IsDirectory, DistinctExes
<1> QED
  BY <1>1, <1>2, <1>3 DEF IInv, TablesTypeOK, WatchInv

LEMMA StartedFacts ==
  ASSUME IInv
  PROVE  \A n \in Started : /\ n \in DOMAIN profiles /\ n # Global /\ profiles[n].exe \in running
                            /\ profiles[n].exe # Manual
<1> SUFFICES ASSUME NEW e \in running
             PROVE  /\ index[e] \in DOMAIN profiles /\ index[e] # Global /\ profiles[index[e]].exe \in running
                    /\ profiles[index[e]].exe # Manual
  BY DEF Started
<1> QED
  BY TableFacts

\* What a step does to the automatic profiles in effect and the manual one.
OrderStep ==
  \/ Order' = Order /\ manual' = manual
  \/ \E n \in Names : /\ n \notin ToSet(Order) \cup {Global, manual}
                      /\ Order' = Append(Order, n) /\ manual' = manual
  \/ \E n \in Names : /\ n \in ToSet(Order) /\ manual' = manual
                      /\ \E i \in DOMAIN Order : Order[i] = n /\ Order' = RemoveAt(Order, i)
  \/ /\ manual' \in (Names \ {Global}) \cup {None} /\ manual' \notin ToSet(Order)
     /\ Order' = Order
  \/ \E n, m \in Names : /\ m \notin ToSet(Order) \cup {Global, manual}
                         /\ n \in ToSet(Order) \cup {manual}
                         /\ Order' = RenamedIn(Order, n, m)
                         /\ manual' = IF manual = n THEN m ELSE manual

LEMMA OrderSet ==
  ASSUME StackInv
  PROVE  ToSet(Order) = Started /\ Order \in Seq(Names)
<1> DEFINE s == NamesOf(pViews)
           t == Top(s, manual)
<1>1. Layout(s, manual, Started)
  BY DEF StackInv
<1>2. Order \in Seq(Names) /\ DOMAIN Order = 1 .. t - 1 /\ \A j \in 1 .. t - 1 : Order[j] = s[j + 1]
  BY <1>1, StackedFacts DEF Order
<1>3. t \in 1 .. Len(s) /\ Len(s) \in Nat
  BY <1>1, LayoutFacts
<1>4. Started = {s[j] : j \in 2 .. t}
  BY <1>1 DEF Layout, Middle
<1> HIDE DEF s, t
<1>5. t \in Nat
  BY <1>3
<1>6. ToSet(Order) = {Order[j] : j \in 1 .. t - 1}
  BY <1>2 DEF ToSet
<1>7. ASSUME NEW x \in Started PROVE x \in ToSet(Order)
  <2>1. PICK j \in 2 .. t : x = s[j]
    BY <1>4
  <2> DEFINE h == j - 1
  <2>2. h \in 1 .. t - 1 /\ h + 1 = j
    BY <1>5
  <2> HIDE DEF h
  <2> QED
    BY <1>2, <1>6, <2>1, <2>2
<1>8. ASSUME NEW x \in ToSet(Order) PROVE x \in Started
  <2>1. PICK j \in 1 .. t - 1 : x = Order[j]
    BY <1>6
  <2>2. j + 1 \in 2 .. t
    BY <1>5
  <2> QED
    BY <1>2, <1>4, <2>1, <2>2
<1> QED
  BY <1>2, <1>7, <1>8

LEMMA DroppedIsRemoved ==
  ASSUME NEW o, NEW i
  PROVE  Dropped(o, i) = RemoveAt(o, i)
BY DEF Dropped, RemoveAt

\* A profile is dropped, in terms of what is in effect.
LEMMA DequeueOrder ==
  ASSUME IInv, StackInv, NEW n \in Names, manual' = IF manual = n THEN None ELSE manual,
         \/ Order' = Order
         \/ manual' = manual /\ \E i \in DOMAIN Order : Order[i] = n /\ Order' = Dropped(Order, i)
  PROVE  OrderStep
<1>1. CASE Order' = Order /\ manual # n
  BY <1>1 DEF OrderStep
<1>2. CASE Order' = Order /\ manual = n
  <2>1. None \notin ToSet(Order)
    BY OrderSet, StartedFacts, TableFacts
  <2> QED
    BY <1>2, <2>1 DEF OrderStep
<1>3. CASE manual' = manual /\ \E i \in DOMAIN Order : Order[i] = n /\ Order' = Dropped(Order, i)
  <2>1. PICK i \in DOMAIN Order : Order[i] = n /\ Order' = Dropped(Order, i)
    BY <1>3
  <2>2. Order' = RemoveAt(Order, i)
    BY <2>1, DroppedIsRemoved
  <2>3. n \in ToSet(Order)
    BY <2>1 DEF ToSet
  <2> QED
    BY <1>3, <2>1, <2>2, <2>3 DEF OrderStep
<1> QED
  BY <1>1, <1>2, <1>3

LEMMA NewProfileStack ==
  ASSUME IInv, StackInv, NEW n \in Names, NEW p, p.exe \in FreeExes, NewProfile(n, p)
  PROVE  StackInv' /\ OrderStep
<1>1. /\ n \notin DOMAIN profiles /\ profiles' = Put(profiles, n, p)
      /\ p.exe = Manual \/ \A m \in DOMAIN profiles : profiles[m].exe # p.exe
      /\ IndexAdded(Put(profiles, n, p), n)
      /\ UNCHANGED <<running, manual, pViews, applied>>
  BY DEF NewProfile, FreeExes
<1>2. Put(profiles, n, p)[n] = p /\ OthersKept(profiles, profiles', n)
  BY <1>1, TableFacts DEF Put, OthersKept
<1>3. \A e \in running : e \in DOMAIN index /\ index'[e] = index[e]
  <2>1. index' = index \/ (p.exe \notin DOMAIN index /\ index' = Put(index, p.exe, n))
    BY <1>1, <1>2 DEF IndexAdded
  <2> QED
    BY <2>1, TableFacts DEF Put
<1>4. Started' = Started
  BY <1>1, <1>3 DEF Started
<1>5. \A i \in 1 .. Len(pViews) : NamesOf(pViews)[i] # n
  BY <1>1, OnStack
<1>6. StackInv' /\ Order' = Order
  BY <1>1, <1>2, <1>4, <1>5, StackKept
<1> QED
  BY <1>1, <1>6 DEF OrderStep

\* The program of a profile that is removed or disabled is no longer known to run.
LEMMA RemovedStarted ==
  ASSUME IInv, NEW n \in DOMAIN profiles, NEW ps, SessionRemoved(ps, n)
  PROVE  Started' = Started \ {n}
<1>1. CASE manual = n \/ {e \in DOMAIN index : index[e] = n} = {}
  <2>1. index' = index /\ running' = running
    BY <1>1 DEF SessionRemoved
  <2>2. n \notin Started
    <3>1. CASE manual = n
      BY <3>1, StartedFacts, TableFacts
    <3>2. CASE {e \in DOMAIN index : index[e] = n} = {}
      BY <3>2, TableFacts DEF Started
    <3> QED
      BY <1>1, <3>1, <3>2
  <2> QED
    BY <2>1, <2>2 DEF Started
<1>2. CASE ~(manual = n \/ {e \in DOMAIN index : index[e] = n} = {})
  <2>1. PICK e \in DOMAIN index : index[e] = n /\ Forget(e)
    BY <1>2 DEF SessionRemoved
  <2>2. running' = running \ {e} /\ \A x \in DOMAIN index \ {e} : index'[x] = index[x]
    BY <2>1, EraseTable DEF Forget
  <2>3. \A x \in running : x \in DOMAIN index /\ (index[x] = n <=> x = e)
    BY <2>1, TableFacts
  <2> QED
    BY <2>2, <2>3 DEF Started
<1> QED
  BY <1>1, <1>2

LEMMA RemoveProfileStack ==
  ASSUME IInv, StackInv, NEW n \in DOMAIN profiles, RemoveProfile(n)
  PROVE  StackInv' /\ OrderStep
<1>1. n # Global /\ profiles' = Erase(profiles, n) /\ SessionRemoved(profiles', n)
  BY DEF RemoveProfile
<1>2. manual' = IF manual = n THEN None ELSE manual
  BY <1>1 DEF SessionRemoved
<1>3. PICK man : man = manual'
  OBVIOUS
<1>4. Dequeue(profiles', man, n)
  BY <1>1, <1>3 DEF SessionRemoved
<1>5. OthersKept(profiles, profiles', n) /\ n \in Names
  <2>1. DOMAIN Erase(profiles, n) = DOMAIN profiles \ {n}
    BY EraseTable
  <2>2. \A m \in DOMAIN profiles \ {n} : Erase(profiles, n)[m] = profiles[m]
    BY EraseTable
  <2>3. n \in Names /\ DOMAIN profiles \subseteq Names
    BY TableFacts
  <2> QED
    BY <1>1, <2>1, <2>2, <2>3 DEF OthersKept
<1>6. Started' = Started \ {n}
  BY <1>1, RemovedStarted
<1>7. /\ StackInv'
      /\ \/ Order' = Order
         \/ manual' = manual /\ \E i \in DOMAIN Order : Order[i] = n /\ Order' = Dropped(Order, i)
  BY <1>1, <1>2, <1>4, <1>5, <1>6, DequeueStep
<1> QED
  BY <1>2, <1>5, <1>7, DequeueOrder

LEMMA ActivateStack ==
  ASSUME IInv, StackInv, NEW n \in DOMAIN profiles, Activate(n)
  PROVE  StackInv' /\ OrderStep
<1>1. n # Global /\ profiles' = [profiles EXCEPT ![n].active = ~@]
  BY DEF Activate
<1>2. /\ DOMAIN profiles' = DOMAIN profiles
      /\ \A m \in DOMAIN profiles : profiles'[m].parts = profiles[m].parts
      /\ profiles'[n].exe = profiles[n].exe
  <2>1. \A m \in DOMAIN profiles : profiles[m] \in Profile
    BY DEF IInv, TablesTypeOK
  <2> QED
    BY <1>1, <2>1 DEF Profile
<1>3. OthersKept(profiles, profiles', n) /\ OthersKept(profiles, profiles', None) /\ n \in Names
  BY <1>2, TableFacts DEF OthersKept
<1>4. CASE profiles'[n].active
  <2>1. IndexAdded(profiles', n) /\ UNCHANGED <<running, manual, pViews, applied>>
    BY <1>4 DEF Activate
  <2>2. \A e \in running : e \in DOMAIN index /\ index'[e] = index[e]
    <3>1. index' = index \/ (profiles'[n].exe \notin DOMAIN index /\ index' = Put(index, profiles'[n].exe, n))
      BY <2>1 DEF IndexAdded
    <3> QED
      BY <3>1, TableFacts DEF Put
  <2>3. Started' = Started
    BY <2>1, <2>2 DEF Started
  <2>4. \A i \in 1 .. Len(pViews) : NamesOf(pViews)[i] # None
    BY OnStack
  <2>5. StackInv' /\ Order' = Order
    BY <1>3, <2>1, <2>3, <2>4, StackKept
  <2> QED
    BY <2>1, <2>5 DEF OrderStep
<1>5. CASE ~profiles'[n].active
  <2>1. SessionRemoved(profiles', n)
    BY <1>5 DEF Activate
  <2>2. manual' = IF manual = n THEN None ELSE manual
    BY <2>1 DEF SessionRemoved
  <2>3. PICK man : man = manual'
    OBVIOUS
  <2>4. Dequeue(profiles', man, n)
    BY <2>1, <2>3 DEF SessionRemoved
  <2>5. Started' = Started \ {n}
    BY <2>1, RemovedStarted
  <2>6. /\ StackInv'
        /\ \/ Order' = Order
           \/ manual' = manual /\ \E i \in DOMAIN Order : Order[i] = n /\ Order' = Dropped(Order, i)
    BY <1>1, <1>3, <2>2, <2>4, <2>5, DequeueStep
  <2> QED
    BY <1>3, <2>2, <2>6, DequeueOrder
<1> QED
  BY <1>4, <1>5

LEMMA ChangeSettingsStack ==
  ASSUME IInv, StackInv, NEW n \in DOMAIN profiles, NEW parts \in SUBSET Parts, ChangeSettings(n, parts)
  PROVE  StackInv' /\ OrderStep
<1>1. /\ profiles' = [profiles EXCEPT ![n].parts = parts]
      /\ UNCHANGED <<index, watched, running, manual, menu>>
  BY DEF ChangeSettings
<1>2. OthersKept(profiles, profiles', n) /\ n \in DOMAIN profiles'
  <2>1. DOMAIN profiles \subseteq Names /\ DOMAIN profiles' = DOMAIN profiles
    BY <1>1, TableFacts
  <2>2. \A m \in DOMAIN profiles \ {n} : profiles'[m] = profiles[m]
    BY <1>1
  <2> QED
    BY <2>1, <2>2 DEF OthersKept
<1>3. Started' = Started
  BY <1>1 DEF Started
<1>4. IF Find(pViews, n) = 0
        THEN pViews' = pViews /\ applied' = applied
        ELSE Stack(Recreate(profiles', manual, pViews, Find(pViews, n),
                            NamesAbove(pViews, Find(pViews, n) - 1)))
  BY DEF ChangeSettings
<1>5. StackInv' /\ Order' = Order
  BY <1>1, <1>2, <1>3, <1>4, RefreshStep
<1> QED
  BY <1>1, <1>5 DEF OrderStep

\* The manual profiles are on the stack only as the one that is toggled on.
LEMMA ManualOnTop ==
  ASSUME IInv, StackInv, NEW n \in ManualProfiles(profiles), NEW i \in 1 .. Len(pViews),
         NamesOf(pViews)[i] = n
  PROVE  manual = n
<1>1. n = Global \/ n \in Started \/ n = manual
  BY OnStack
<1>2. profiles[n].exe = Manual /\ n \in DOMAIN profiles
  BY DEF ManualProfiles
<1>3. n # Global
  BY <1>2, TableFacts
<1>4. n \notin Started
  BY <1>2, StartedFacts
<1> QED
  BY <1>1, <1>3, <1>4

LEMMA ToggleStack ==
  ASSUME IInv, StackInv, NEW n \in ManualProfiles(profiles), ToggleManualProfile(n)
  PROVE  StackInv' /\ OrderStep
<1>1. PICK on : on = IF manual = n THEN None ELSE n
  OBVIOUS
<1>2. /\ manual' = on
      /\ Stack(BareViews \o CreateViews(profiles, BaseView(pViews, manual), AppendManual(<<>>, on)))
      /\ UNCHANGED <<profiles, index, watched, running>>
  BY <1>1 DEF ToggleManualProfile, BareViews
<1>3. n \in DOMAIN profiles /\ profiles[n].exe = Manual
  BY DEF ManualProfiles
<1>4. n # Global /\ n \in Names /\ DOMAIN profiles \subseteq Names
  BY <1>3, TableFacts
<1>5. \A i \in 1 .. Len(pViews) : NamesOf(pViews)[i] = on => manual = on
  <2> SUFFICES ASSUME NEW i \in 1 .. Len(pViews), NamesOf(pViews)[i] = on PROVE manual = on
    OBVIOUS
  <2>1. on # None
    BY OnStack
  <2> QED
    BY <1>1, <2>1, ManualOnTop
<1>6. Started' = Started
  BY <1>2 DEF Started
<1>7. on \in DOMAIN profiles \cup {None}
  BY <1>1, <1>3
<1>8. StackInv' /\ Order' = Order
  BY <1>2, <1>4, <1>5, <1>6, <1>7, ToggleStackStep
<1>9. on \notin ToSet(Order)
  BY <1>1, <1>3, OrderSet, StartedFacts, TableFacts
<1>10. on \in (Names \ {Global}) \cup {None}
  BY <1>1, <1>4
<1> QED
  BY <1>2, <1>8, <1>9, <1>10 DEF OrderStep

LEMMA AppExecStack ==
  ASSUME IInv, StackInv, NEW e \in Exes, AppExec(e)
  PROVE  StackInv' /\ OrderStep
<1>1. /\ e \in watched \ running \/ e \notin DOMAIN index
      /\ running' = running \cup ({e} \cap watched)
      /\ Stack(Queue(profiles, manual, pViews, IF e \in DOMAIN index THEN index[e] ELSE None))
      /\ UNCHANGED <<profiles, index, watched, manual, menu>>
  BY DEF AppExec
<1>2. DOMAIN profiles \subseteq Names /\ manual \in Names \cup {None}
  BY TableFacts
<1>3. CASE e \in DOMAIN index
  <2>1. PICK n : n = index[e]
    OBVIOUS
  <2>2. /\ n \in DOMAIN profiles /\ profiles[n].exe = e /\ e # Manual /\ n # Global
        /\ e \in watched /\ e \notin running
    BY <1>1, <1>3, <2>1, TableFacts, SessionAssumption
  <2>3. n \notin Started /\ n # manual
    BY <2>2, StartedFacts, TableFacts
  <2>4. \A i \in 1 .. Len(pViews) : NamesOf(pViews)[i] # n
    BY <2>2, <2>3, OnStack
  <2>5. Started' = Started \cup {n}
    BY <1>1, <2>1, <2>2 DEF Started
  <2>6. Stack(Queue(profiles, manual, pViews, n))
    BY <1>1, <1>3, <2>1
  <2>7. StackInv' /\ Order' = Append(Order, n)
    BY <1>1, <1>2, <2>2, <2>4, <2>5, <2>6, QueueStep
  <2>8. n \in Names /\ n \notin ToSet(Order) \cup {Global, manual}
    BY <1>2, <2>2, <2>3, OrderSet
  <2> QED
    BY <1>1, <2>7, <2>8 DEF OrderStep
<1>4. CASE e \notin DOMAIN index
  <2>1. running' = running
    BY <1>1, <1>4, TableFacts
  <2>2. Started' = Started
    BY <1>1, <2>1 DEF Started
  <2>3. Stack(Queue(profiles, manual, pViews, None))
    BY <1>1, <1>4
  <2>4. StackInv' /\ Order' = Order
    BY <1>1, <1>2, <2>2, <2>3, QueueNothingStep
  <2> QED
    BY <1>1, <2>4 DEF OrderStep
<1> QED
  BY <1>3, <1>4

LEMMA AppExitStack ==
  ASSUME IInv, StackInv, NEW e \in Exes, AppExit(e)
  PROVE  StackInv' /\ OrderStep
<1>1. /\ e \in running /\ running' = running \ {e}
      /\ Dequeue(profiles, manual, IF e \in DOMAIN index THEN index[e] ELSE None)
      /\ UNCHANGED <<profiles, index, watched, manual, menu>>
  BY DEF AppExit
<1>2. PICK n : n = index[e]
  OBVIOUS
<1>3. /\ e \in DOMAIN index /\ n \in DOMAIN profiles /\ profiles[n].exe = e /\ e # Manual /\ n # Global
      /\ n \in Names
  BY <1>1, <1>2, TableFacts
<1>4. n # manual
  BY <1>3, TableFacts
<1>5. PICK man : man = manual
  OBVIOUS
<1>6. man = manual' /\ manual' = IF manual = n THEN None ELSE manual
  BY <1>1, <1>4, <1>5
<1>7. Dequeue(profiles', man, n)
  BY <1>1, <1>2, <1>3, <1>5
<1>8. Started' = Started \ {n}
  <2>1. \A x \in running : x \in DOMAIN index /\ (index[x] = n <=> x = e)
    BY <1>1, <1>2, <1>3, TableFacts
  <2> QED
    BY <1>1, <2>1 DEF Started
<1>9. OthersKept(profiles, profiles', n)
  BY <1>1, TableFacts DEF OthersKept
<1>10. /\ StackInv'
       /\ \/ Order' = Order
          \/ manual' = manual /\ \E i \in DOMAIN Order : Order[i] = n /\ Order' = Dropped(Order, i)
  BY <1>3, <1>6, <1>7, <1>8, <1>9, DequeueStep
<1> QED
  BY <1>3, <1>6, <1>10, DequeueOrder

\* The program of a profile that is given another executable, or none, is no longer known to run.
LEMMA UpdatedStarted ==
  ASSUME IInv, NEW n \in DOMAIN profiles, n # Global, NEW newName, NEW newExe \in Exes \cup {Manual},
         newExe = profiles[n].exe \/ newExe = Manual \/ \A m \in DOMAIN profiles : profiles[m].exe # newExe,
         IndexInfoChanged(profiles[n].exe, newName, newExe)
  PROVE  Started' = IF profiles[n].exe = newExe THEN RenamedAll(Started, n, newName) ELSE Started \ {n}
<1> DEFINE oldExe == profiles[n].exe
<1>1. /\ \A e \in DOMAIN index : index[e] \in DOMAIN profiles /\ profiles[index[e]].exe = e /\ e # Manual
      /\ \A m \in DOMAIN profiles : profiles[m].exe = oldExe /\ oldExe # Manual => m = n
      /\ \A e \in running : e \in DOMAIN index
  BY TableFacts
<1>2. \A e \in DOMAIN index : index[e] = n <=> e = oldExe
  BY <1>1
<1>3. index' = Reindexed(oldExe, newName, newExe)
  BY DEF IndexInfoChanged
<1>4. /\ DOMAIN Erase(index, oldExe) = DOMAIN index \ {oldExe}
      /\ \A e \in DOMAIN index \ {oldExe} : Erase(index, oldExe)[e] = index[e]
  BY EraseTable
<1>5. \A e \in DOMAIN index : e = newExe => e = oldExe
  BY <1>1
<1> HIDE DEF oldExe
<1>6. newExe \notin DOMAIN Erase(index, oldExe)
  BY <1>4, <1>5
<1>7. index' = IF newExe = Manual THEN Erase(index, oldExe) ELSE Put(Erase(index, oldExe), newExe, newName)
  BY <1>3, <1>6, Zenon DEF Reindexed
<1>8. /\ \A e \in DOMAIN index \ {oldExe} : index'[e] = index[e]
      /\ newExe # Manual => index'[newExe] = newName
  <2>1. CASE newExe = Manual
    BY <1>4, <1>7, <2>1
  <2>2. CASE newExe # Manual
    BY <1>4, <1>6, <1>7, <2>2 DEF Put
  <2> QED
    BY <2>1, <2>2
<1>9. CASE oldExe = newExe
  <2>1. running' = running
    BY <1>9 DEF IndexInfoChanged, oldExe
  <2>2. \A e \in running : index'[e] = IF index[e] = n THEN newName ELSE index[e]
    BY <1>1, <1>2, <1>8, <1>9
  <2>3. Started' = RenamedAll(Started, n, newName)
    BY <2>1, <2>2 DEF Started, RenamedAll
  <2> QED
    BY <1>9, <2>3 DEF oldExe
<1>10. CASE oldExe # newExe
  <2>1. running' = running \ {oldExe}
    BY <1>10 DEF IndexInfoChanged, oldExe
  <2>2. Started' = Started \ {n}
    BY <1>1, <1>2, <1>8, <2>1 DEF Started
  <2> QED
    BY <1>10, <2>2 DEF oldExe
<1> QED
  BY <1>9, <1>10

LEMMA UpdateInfoStack ==
  ASSUME IInv, StackInv, NEW n \in DOMAIN profiles, NEW newName \in Names, NEW newExe \in Exes \cup {Manual},
         FreeInfo(n, newName, newExe), UpdateInfo(n, newName, newExe)
  PROVE  StackInv' /\ OrderStep
<1> DEFINE oldExe == profiles[n].exe
           new    == [profiles[n] EXCEPT !.exe = newExe, !.active = @ \/ newExe = Manual]
<1>1. /\ n # Global
      /\ newName = n \/ newName \notin DOMAIN profiles
      /\ newExe = oldExe \/ newExe = Manual \/ \A m \in DOMAIN profiles : profiles[m].exe # newExe
      /\ newName = n => newExe # oldExe
      /\ profiles' = Put(Erase(profiles, n), newName, new)
      /\ IndexInfoChanged(oldExe, newName, newExe)
      /\ ManualInfoChanged(n, oldExe, newName, newExe)
      /\ ViewsInfoChanged(profiles', manual', n, oldExe, newName, newExe)
  BY UpdatedProfiles
<1>2. manual # None => manual \in DOMAIN profiles /\ profiles[manual].exe = Manual
  BY TableFacts
<1>3. n \in Names /\ DOMAIN profiles \subseteq Names
  BY TableFacts
<1>4. Started' = IF oldExe = newExe THEN RenamedAll(Started, n, newName) ELSE Started \ {n}
  BY <1>1, UpdatedStarted
<1> HIDE DEF new
<1>5. /\ DOMAIN profiles' = (DOMAIN profiles \ {n}) \cup {newName}
      /\ \A m \in DOMAIN profiles \ {n} : profiles'[m] = profiles[m]
  <2>1. DOMAIN Erase(profiles, n) = DOMAIN profiles \ {n}
    BY EraseTable
  <2>2. \A m \in DOMAIN profiles \ {n} : Erase(profiles, n)[m] = profiles[m]
    BY EraseTable
  <2>3. \A m \in DOMAIN profiles \ {n} : m # newName
    BY <1>1
  <2> QED
    BY <1>1, <2>1, <2>2, <2>3 DEF Put
<1>6. OthersKept(profiles, profiles', n) /\ newName \in DOMAIN profiles'
  BY <1>3, <1>5 DEF OthersKept
<1>7. manual = n => oldExe = Manual
  BY <1>2, <1>3
<1> HIDE DEF oldExe
<1>8. PICK man : man = manual'
  OBVIOUS
<1>9. CASE oldExe = newExe
  <2>1. newName # n /\ newName \notin DOMAIN profiles
    BY <1>1, <1>9
  <2>2. manual' = IF manual = n THEN newName ELSE manual
    <3>1. CASE manual = n
      BY <1>1, <1>7, <1>9, <3>1 DEF ManualInfoChanged
    <3>2. CASE manual # n
      BY <1>1, <1>9, <3>2 DEF ManualInfoChanged
    <3> QED
      BY <3>1, <3>2
  <2>3. IF Find(pViews, n) = 0
          THEN pViews' = pViews /\ applied' = applied
          ELSE Stack(Recreate(profiles', man, pViews, Find(pViews, n),
                              <<newName>> \o NamesAbove(pViews, Find(pViews, n))))
    BY <1>1, <1>8, <1>9, <2>1 DEF ViewsInfoChanged
  <2>4. Started' = RenamedAll(Started, n, newName)
    BY <1>4, <1>9
  <2>5. /\ StackInv'
        /\ \/ Order' = Order /\ manual' = manual
           \/ /\ Order' = RenamedIn(Order, n, newName)
              /\ \E i \in 1 .. Len(pViews) : NamesOf(pViews)[i] = n
    BY <1>1, <1>3, <1>6, <2>1, <2>2, <2>3, <2>4, RenameStep
  <2>6. ASSUME Order' = RenamedIn(Order, n, newName),
               NEW i \in 1 .. Len(pViews), NamesOf(pViews)[i] = n
        PROVE  OrderStep
    <3>1. n \in Started \/ n = manual
      BY <1>1, <2>6, OnStack
    <3>2. newName \notin Started /\ newName # Global /\ newName # manual
      BY <1>2, <2>1, StartedFacts, TableFacts
    <3>3. ToSet(Order) = Started
      BY OrderSet
    <3> QED
      BY <1>3, <2>2, <2>6, <3>1, <3>2, <3>3 DEF OrderStep
  <2> QED
    BY <2>5, <2>6 DEF OrderStep
<1>10. CASE oldExe # newExe
  <2>1. manual' = IF manual = n THEN None ELSE manual
    <3>1. CASE manual = n
      BY <1>1, <1>7, <1>10, <3>1 DEF ManualInfoChanged
    <3>2. CASE manual # n
      BY <1>1, <3>2 DEF ManualInfoChanged
    <3> QED
      BY <3>1, <3>2
  <2>2. PICK i : i = Find(pViews, n)
    OBVIOUS
  <2>3. ViewsInfoChanged(profiles', man, n, oldExe, newName, newExe)
    BY <1>1, <1>8
  <2>4. IF i = 0 THEN UNCHANGED <<pViews, applied>>
                 ELSE Stack(Recreate(profiles', man, pViews, i, <<>> \o NamesAbove(pViews, i)))
    BY <1>10, <2>2, <2>3 DEF ViewsInfoChanged
  <2>5. i # 0 => <<>> \o NamesAbove(pViews, i) = NamesAbove(pViews, i)
    <3>1. i \in 0 .. Len(pViews) /\ pViews \in Seq(ProfileView)
      BY <2>2, FoundFacts DEF StackInv
    <3>2. NamesAbove(pViews, i) = SubSeq(NamesOf(pViews), i + 1, Len(pViews))
      BY ONLY <3>1, NamesAboveFacts
    <3>3. NamesOf(pViews) \in Seq(Names) /\ Len(NamesOf(pViews)) = Len(pViews) /\ Len(pViews) \in Nat
      BY StackFacts
    <3>4. PICK above : above = SubSeq(NamesOf(pViews), i + 1, Len(pViews))
      OBVIOUS
    <3>5. above \in Seq(Names)
      BY <3>1, <3>3, <3>4
    <3> QED
      BY <3>2, <3>4, <3>5
  <2>6. Dequeue(profiles', man, n)
    BY <2>2, <2>4, <2>5 DEF Dequeue
  <2>7. Started' = Started \ {n}
    BY <1>4, <1>10
  <2>8. /\ StackInv'
        /\ \/ Order' = Order
           \/ manual' = manual /\ \E h \in DOMAIN Order : Order[h] = n /\ Order' = Dropped(Order, h)
    BY <1>1, <1>3, <1>6, <2>1, <2>6, <2>7, DequeueStep
  <2> QED
    BY <1>3, <2>1, <2>8, DequeueOrder
<1> QED
  BY <1>9, <1>10

(***************************************************************************)
(* Every step                                                              *)
(***************************************************************************)

LEMMA InitStackInv == Init => StackInv
<1> SUFFICES ASSUME Init PROVE StackInv
  OBVIOUS
<1> DEFINE v == View(profiles, Global, NoView)
<1>1. pViews = <<v>> /\ applied = Last(pViews) /\ running = {} /\ manual = None
  BY DEF Init
<1>2. v.name = Global /\ v.owner = [k \in Parts |-> Global] /\ v = [name |-> v.name, owner |-> v.owner]
  BY DEF View
<1>3. v \in ProfileView
  BY <1>2 DEF ProfileView
<1>4. Global \in DOMAIN profiles
  BY DEF Init, IsDirectory
<1> HIDE DEF v
<1>5. pViews \in Seq(ProfileView) /\ Len(pViews) = 1 /\ pViews[1] = v
  BY <1>1, <1>3
<1>6. Shows(profiles, pViews)
  BY <1>2, <1>4, <1>5 DEF Shows
<1>7. NamesOf(pViews) = <<Global>>
  BY <1>2, <1>5 DEF NamesOf
<1>8. Started = {}
  BY <1>1 DEF Started
<1>9. Layout(<<Global>>, None, {})
  BY DEF Layout, Middle, Top, Distinct
<1> QED
  BY <1>1, <1>5, <1>6, <1>7, <1>8, <1>9 DEF StackInv

LEMMA NextStackInv ==
  ASSUME IInv, StackInv, Next
  PROVE  StackInv' /\ OrderStep
<1>1. ASSUME NEW n \in FreeNames, NEW e \in FreeExes, NewInfo(n, e) PROVE StackInv' /\ OrderStep
  <2>1. PICK p \in Profile : p.exe = e /\ NewProfile(n, p)
    BY <1>1, NewInfoProfile
  <2>2. n \in Names
    BY DEF FreeNames
  <2> QED
    BY <2>1, <2>2, NewProfileStack
<1>2. ASSUME NEW n \in DOMAIN profiles, RemoveProfile(n) PROVE StackInv' /\ OrderStep
  BY <1>2, RemoveProfileStack
<1>3. ASSUME NEW n \in DOMAIN profiles, Activate(n) PROVE StackInv' /\ OrderStep
  BY <1>3, ActivateStack
<1>4. ASSUME NEW n \in DOMAIN profiles, NEW newName \in FreeNames \cup {n},
             NEW newExe \in FreeExes \cup {profiles[n].exe}, UpdateInfo(n, newName, newExe)
      PROVE  StackInv' /\ OrderStep
  <2>1. newName \in Names /\ newExe \in Exes \cup {Manual}
    BY <1>4, FreeInfoType DEF UpdateInfo
  <2> QED
    BY <1>4, <2>1, UpdateInfoStack DEF FreeInfo
<1>5. ASSUME NEW n \in DOMAIN profiles, NEW parts \in SUBSET Parts, ChangeSettings(n, parts)
      PROVE  StackInv' /\ OrderStep
  BY <1>5, ChangeSettingsStack
<1>6. ASSUME NEW e \in Exes, AppExec(e) \/ AppExit(e) PROVE StackInv' /\ OrderStep
  BY <1>6, AppExecStack, AppExitStack
<1>7. ASSUME NEW n \in ManualProfiles(profiles), ToggleManualProfile(n) PROVE StackInv' /\ OrderStep
  BY <1>7, ToggleStack
<1> QED
  BY <1>1, <1>2, <1>3, <1>4, <1>5, <1>6, <1>7 DEF Next, Edit, Signal

LEMMA StackUnchanged == StackInv /\ UNCHANGED vars => StackInv' /\ UNCHANGED Effective!vars
<1> SUFFICES ASSUME StackInv, UNCHANGED vars PROVE StackInv' /\ UNCHANGED Effective!vars
  OBVIOUS
<1>1. /\ profiles' = profiles /\ pViews' = pViews /\ applied' = applied /\ manual' = manual
      /\ index' = index /\ running' = running
  BY DEF vars
<1>2. Started' = Started
  BY <1>1 DEF Started
<1>3. AutomaticNames' = AutomaticNames
  BY <1>1 DEF AutomaticNames
<1> QED
  BY <1>1, <1>2, <1>3 DEF StackInv, Effective!vars

LEMMA SpecStackInv == Spec => [](IInv /\ StackInv)
<1>1. Init => IInv /\ StackInv
  BY InitIInv, InitStackInv
<1>2. IInv /\ StackInv /\ [Next]_vars => (IInv /\ StackInv)'
  BY NextIInv, NextStackInv, StackUnchanged
<1> QED
  BY <1>1, <1>2, PTL DEF Spec

\* The names the properties speak of are those of the layout.
LEMMA NamesInOrder ==
  ASSUME StackInv
  PROVE  AutomaticNames = Order
<1> DEFINE s == NamesOf(pViews)
<1>1. PICK t : t = Top(s, manual)
  OBVIOUS
<1>2. Layout(s, manual, Started) /\ Len(s) = Len(pViews) /\ Len(pViews) \in Nat /\ pViews \in Seq(ProfileView)
  BY StackFacts DEF StackInv
<1>3. t \in 1 .. Len(pViews) /\ t = Len(pViews) - (IF manual = None THEN 0 ELSE 1)
  BY <1>1, <1>2, LayoutFacts DEF Top
<1>4. PICK vs : vs = SubSeq(pViews, 2, t)
  OBVIOUS
<1>5. /\ vs \in Seq(ProfileView) /\ Len(vs) = t - 1 /\ DOMAIN vs = 1 .. t - 1
      /\ \A j \in 1 .. t - 1 : vs[j] = pViews[j + 1]
  <2>1. t \in 1 .. Len(pViews) /\ pViews \in Seq(ProfileView) /\ Len(pViews) \in Nat
    BY <1>2, <1>3
  <2>2. /\ SubSeq(pViews, 2, t) \in Seq(ProfileView) /\ Len(SubSeq(pViews, 2, t)) = t - 1
        /\ DOMAIN SubSeq(pViews, 2, t) = 1 .. t - 1
        /\ \A j \in 1 .. t - 1 : SubSeq(pViews, 2, t)[j] = pViews[j + 1]
    BY ONLY <2>1
  <2> QED
    BY <1>4, <2>2
<1>6. AutomaticNames = NamesOf(vs)
  BY <1>3, <1>4 DEF AutomaticNames
<1>7. /\ NamesOf(vs) \in Seq(Names) /\ Len(NamesOf(vs)) = t - 1
      /\ \A j \in 1 .. t - 1 : NamesOf(vs)[j] = vs[j].name
  BY <1>5, NamesOfFacts
<1>8. Order \in Seq(Names) /\ Len(Order) = t - 1 /\ \A j \in 1 .. t - 1 : Order[j] = s[j + 1]
  BY <1>1, <1>2, StackedFacts DEF Order
<1>9. \A j \in 1 .. t - 1 : s[j + 1] = pViews[j + 1].name
  <2>1. \A j \in 1 .. t - 1 : j + 1 \in 1 .. Len(pViews)
    BY <1>2, <1>3
  <2> QED
    BY <2>1, StackFacts
<1> HIDE DEF s
<1>10. \A j \in 1 .. t - 1 : NamesOf(vs)[j] = Order[j]
  BY <1>5, <1>7, <1>8, <1>9
<1>11. NamesOf(vs) = Order
  BY ONLY <1>7, <1>8, <1>10, SeqEqual
<1> QED
  BY <1>6, <1>11

\* What is applied is the profile in effect.
LEMMA AppliedInEffect ==
  ASSUME StackInv, manual \in Names \cup {None}
  PROVE  applied.name = Effective!Effective(Order, manual)
<1> DEFINE s == NamesOf(pViews)
<1>1. Layout(s, manual, Started) /\ applied = Last(pViews)
  BY DEF StackInv
<1>2. s[Len(s)] = Effective!Effective(Stacked(s, manual), manual)
  BY <1>1, TopInEffect
<1>3. Len(s) = Len(pViews) /\ Len(pViews) \in Nat /\ Len(pViews) >= 1 /\ s[Len(pViews)] = pViews[Len(pViews)].name
  BY StackFacts
<1> QED
  BY <1>1, <1>2, <1>3 DEF Order, Last

\* The profiles of automatic programs in effect are those of the programs the helper reports
\* running (session.cpp appExec, appExit and what the manager's notifications drop), for any
\* names, executables and parts.
THEOREM RunningInEffect == Spec => []RunningInv
<1>1. StackInv => RunningInv
  BY NamesInOrder, OrderSet DEF RunningInv, Started
<1> QED
  BY <1>1, SpecStackInv, PTL

\* The stack is never empty, and what the applicator was handed last is its top: no path of the
\* session changes the stack and leaves the hardware with what it showed before.
THEOREM TopApplied == Spec => []AppliedInv
<1>1. StackInv => AppliedInv
  <2> SUFFICES ASSUME StackInv PROVE AppliedInv
    OBVIOUS
  <2>1. Len(pViews) >= 1 /\ Len(pViews) \in Nat
    BY StackFacts
  <2> QED
    BY <2>1 DEF StackInv, AppliedInv
<1> QED
  BY <1>1, SpecStackInv, PTL

\* Every view shows its own profile, or a part of one that is below it in the stack, and the
\* parts that are active in its profile are its own (profileview.cpp), after every operation.
THEOREM ViewsCompose == Spec => []ViewsInv
<1>1. StackInv => ViewsInv
  <2> SUFFICES ASSUME StackInv, NEW i \in DOMAIN pViews, NEW k \in Parts
               PROVE  /\ pViews[i].name \in DOMAIN profiles
                      /\ pViews[i].owner[k] \in {pViews[j].name : j \in 1 .. i}
                      /\ k \in profiles[pViews[i].name].parts => pViews[i].owner[k] = pViews[i].name
    BY DEF ViewsInv
  <2> QED
    BY DEF StackInv, Shows
<1> QED
  BY <1>1, SpecStackInv, PTL

\* The session implements EffectiveProfiles: the profile that is applied is the manual profile
\* toggled on, else that of the program launched last among those still running, else the
\* global one, and no operation changes their order.
THEOREM SessionImplementsEffective == Spec => EffectiveSpec
<1>1. Init => Effective!Init
  <2> SUFFICES ASSUME Init PROVE Effective!Init
    OBVIOUS
  <2>1. IInv /\ StackInv
    BY InitIInv, InitStackInv
  <2>2. manual = None /\ pViews = <<View(profiles, Global, NoView)>>
    BY DEF Init
  <2>3. Len(NamesOf(pViews)) = 1
    BY <2>2 DEF NamesOf
  <2>4. Order = <<>>
    <3>1. NamesOf(pViews) \in Seq(Names)
      BY <2>1, StackFacts
    <3>2. Order = SubSeq(NamesOf(pViews), 2, 1)
      BY <2>2, <2>3 DEF Order, Stacked, Top
    <3> QED
      BY <3>1, <3>2
  <2>5. AutomaticNames = <<>> /\ applied.name = Global
    BY <2>1, <2>2, <2>4, NamesInOrder, AppliedInEffect DEF Effective!Effective
  <2> QED
    BY <2>2, <2>5 DEF Effective!Init
<1>2. StackInv => AutomaticNames = Order
  BY NamesInOrder
<1>3. StackInv /\ manual \in Names \cup {None} => applied.name = Effective!Effective(Order, manual)
  BY AppliedInEffect
<1>4. (StackInv => AutomaticNames = Order)'
  BY <1>2, PTL
<1>5. (StackInv /\ manual \in Names \cup {None} => applied.name = Effective!Effective(Order, manual))'
  BY <1>3, PTL
<1>6. IInv /\ StackInv /\ [Next]_vars => [Effective!Next]_Effective!vars
  <2> SUFFICES ASSUME IInv, StackInv, [Next]_vars PROVE [Effective!Next]_Effective!vars
    OBVIOUS
  <2>1. CASE UNCHANGED vars
    BY <2>1, StackUnchanged
  <2>2. CASE Next
    <3>1. StackInv' /\ IInv' /\ OrderStep
      BY <2>2, NextStackInv, NextIInv
    <3>2. AutomaticNames = Order
      BY <1>2
    <3>3. AutomaticNames' = Order'
      BY <1>4, <3>1
    <3>4. manual \in Names \cup {None} /\ manual' \in Names \cup {None}
      BY <3>1 DEF IInv, TablesTypeOK
    <3>5. applied.name = Effective!Effective(Order, manual)
      BY <1>3, <3>4
    <3>6. applied'.name = Effective!Effective(Order', manual')
      BY <1>5, <3>1, <3>4
    <3>7. CASE Order' = Order /\ manual' = manual
      BY <3>2, <3>3, <3>5, <3>6, <3>7 DEF Effective!vars
    <3>8. ASSUME NEW n \in Names, n \notin ToSet(Order) \cup {Global, manual},
                 Order' = Append(Order, n), manual' = manual
          PROVE  Effective!Launch(n)
      BY <3>2, <3>3, <3>8 DEF Effective!Launch, Effective!ToSet, ToSet
    <3>9. ASSUME NEW n \in Names, manual' = manual,
                 \E i \in DOMAIN Order : Order[i] = n /\ Order' = RemoveAt(Order, i)
          PROVE  Effective!Quit(n)
      BY <3>2, <3>3, <3>9 DEF Effective!Quit, Effective!RemoveAt, RemoveAt
    <3>10. ASSUME manual' \notin ToSet(Order), Order' = Order
           PROVE  Effective!Override(manual')
      BY <3>2, <3>3, <3>10 DEF Effective!Override, Effective!ToSet, ToSet
    <3>11. ASSUME NEW n \in Names, NEW m \in Names, m \notin ToSet(Order) \cup {Global, manual},
                  n \in ToSet(Order) \cup {manual}, Order' = RenamedIn(Order, n, m),
                  manual' = IF manual = n THEN m ELSE manual
           PROVE  Effective!Rename(n, m)
      BY <3>2, <3>3, <3>11 DEF Effective!Rename, RenamedIn, Effective!ToSet, ToSet
    <3>12. \/ Order' = Order /\ manual' = manual
           \/ \E n \in Names : Effective!Launch(n) \/ Effective!Quit(n)
           \/ \E m \in (Names \ {Global}) \cup {None} : Effective!Override(m)
           \/ \E n, m \in Names : Effective!Rename(n, m)
      BY <3>1, <3>8, <3>9, <3>10, <3>11 DEF OrderStep
    <3> QED
      BY <3>3, <3>6, <3>7, <3>12 DEF Effective!Next
  <2> QED
    BY <2>1, <2>2
<1> QED
  BY <1>1, <1>6, SpecStackInv, PTL DEF Spec, EffectiveSpec, Effective!Spec

\* The view of the manual profile is the top of the stack while only manual profiles are toggled,
\* as the main window and the tray do (the command line option, which takes any name, breaks it).
THEOREM ManualIsOnTop == Spec => []ManualViewOnTop
<1>1. StackInv => ManualViewOnTop
  <2> SUFFICES ASSUME StackInv, manual # None PROVE pViews # <<>> /\ Last(pViews).name = manual
    BY DEF ManualViewOnTop
  <2>1. Len(pViews) \in Nat /\ Len(pViews) >= 1 /\ NamesOf(pViews)[Len(pViews)] = pViews[Len(pViews)].name
        /\ Len(NamesOf(pViews)) = Len(pViews)
    BY StackFacts
  <2>2. NamesOf(pViews)[Len(NamesOf(pViews))] = manual
    BY DEF StackInv, Layout
  <2> HIDE DEF NamesOf
  <2> QED
    BY <2>1, <2>2 DEF Last
<1> QED
  BY <1>1, SpecStackInv, PTL
=============================================================================
