----------------------------- MODULE ProfileStore -----------------------------
(***************************************************************************)
(* Profiles in memory and on disk (src/core/profilemanager.cpp,            *)
(* profilestorage.cpp, profileiconcache.cpp, filecache.cpp, the parsers    *)
(* and ccpro/), as the dialogs change them (src/qml/Profiles.qml and       *)
(* ProfileInfoDialog.qml).                                                 *)
(*                                                                         *)
(* The manager keeps the profiles by name and marks those whose settings   *)
(* are not saved.  The storage keeps a file for each, named after its      *)
(* executable, or its name when it is toggled by hand: the settings, and   *)
(* the icon when it is not a default one.  Icons are used from a cache,    *)
(* a file for each profile again.  One parser translates all files, and    *)
(* remembers the icon of the profile it wrote last.  The global profile,   *)
(* which has a fixed name, executable and icon, is left out.               *)
(*                                                                         *)
(* The dialogs refuse a name or an executable in use when it is typed, but *)
(* not when the activation mode is changed and changed back afterwards     *)
(* (ProfileInfoDialog.qml:158): the user can give any to a profile.        *)
(***************************************************************************)
EXTENDS Naturals, FiniteSets, Functions

CONSTANTS
  Names, Exes,
  Manual,       \* Info::ManualID
  Settings, Default,
  Icons,        \* icons the user may choose
  NoIcon,       \* Info::DefaultIconURL
  MaxSteps, MaxFaults

ASSUME ProfileStoreAssumption ==
  /\ Names \cap Exes = {} /\ Manual \notin Exes
  /\ Default \in Settings
  /\ NoIcon \notin Icons
  /\ MaxSteps \in Nat /\ MaxFaults \in Nat

VARIABLES
  profiles,     \* ProfileManager::profiles_
  unsaved,      \* ProfileManager::unsavedProfiles_
  disk,         \* [files, icons, parsed]: the readable files of the profiles' directory, the
                \* files of the icon cache, and ProfileXMLParser::info_.iconURL
  spoiled,      \* since the application started a file could not be written, or a profile was
                \* given the name or the file of another
  shared,       \* the latter has ever happened
  steps, faults

vars == <<profiles, unsaved, disk, spoiled, shared, steps, faults>>

-----------------------------------------------------------------------------
(***************************************************************************)
(* Files                                                                   *)
(***************************************************************************)
FileOf(p) == IF p.exe # Manual THEN p.exe ELSE p.name

Without(f, k) == Restrict(f, DOMAIN f \ {k})
Put(f, k, v)  == [x \in DOMAIN f \cup {k} |-> IF x = k THEN v ELSE f[x]]

(* An icon is the default one, a file of the user, or a file of the cache. *)
Cached(k) == [cached |-> k]
IconData(d, url) ==
  IF url \in Icons \cup {NoIcon} THEN url
  ELSE IF url.cached \in DOMAIN d.icons THEN d.icons[url.cached] ELSE NoIcon

(* FileCache::add and remove *)
Added(d, k, icon) == [d EXCEPT !.icons = Put(@, k, icon)]
Cleaned(d, k) == [d EXCEPT !.icons = Without(@, k)]

(* ProfileIconCache::tryOrCache and syncCache *)
TryOrCache(d, k, icon) == IF k \in DOMAIN d.icons THEN d ELSE Added(d, k, icon)
SyncCache(d, p, icon) ==
  [disk |-> Added(d, FileOf(p), icon), p |-> [p EXCEPT !.icon = Cached(FileOf(p))]]

(* The parsers are told the profile, and the archive is written from them: *)
(* the settings, and the icon if there is one.                             *)
Taken(d, p) == [d EXCEPT !.parsed = p.icon]
Written(d, p, icon) == [d EXCEPT !.files = Put(@, FileOf(p), [p EXCEPT !.icon = icon])]

(* ZipDataSource::read *)
Readable(d, k) == k \in DOMAIN d.files

(* ProfileStorage::save, of the profile p to the disk d.  A custom icon is *)
(* copied to the cache, and used from there.  A file that cannot be        *)
(* written is put back.                                                    *)
Save(d, p, ok) ==
  LET icon == IconData(d, p.icon)
      written == Written(Taken(d, p), p, icon)
  IN IF ~ok THEN [disk |-> Taken(d, p), p |-> p]
     ELSE IF icon = NoIcon THEN [disk |-> written, p |-> p]
     ELSE SyncCache(written, p, icon)

(* loadProfileFromStorage, of the file of p.  The profile takes all that   *)
(* the parser knows, the icon it remembers too; an icon in the file, or    *)
(* the one cached for it, comes next.                                      *)
Load(d, p) ==
  LET f == d.files[FileOf(p)]
      k == FileOf(f)
  IN IF ~Readable(d, FileOf(p)) THEN [disk |-> d, p |-> p, ok |-> FALSE]
     ELSE IF f.icon = NoIcon THEN [disk |-> d, p |-> [f EXCEPT !.icon = d.parsed], ok |-> TRUE]
     ELSE [disk |-> TryOrCache(d, k, f.icon), p |-> [f EXCEPT !.icon = Cached(k)], ok |-> TRUE]

(* ProfileStorage::remove *)
Removed(d, p) == Cleaned([d EXCEPT !.files = Without(@, FileOf(p))], FileOf(p))

(* ProfileStorage::update: the settings of the file, with the profile's    *)
(* new properties, in a file that may have another name.                   *)
MovesByExe(p, q) == p.exe # q.exe
Moves(p, q) == p.exe # q.exe \/ (p.exe = Manual /\ p.name # q.name)

(* The profile that is written to the new file. *)
Moved(stored, new) ==
  [new EXCEPT !.settings = stored.settings, !.active = stored.active \/ new.exe = Manual]

Update(d, p, new, ok) ==
  LET l == Load(d, p)
      w == Save(l.disk, Moved(l.p, new), ok)
  IN IF ~l.ok THEN [disk |-> d, icon |-> new.icon]
     ELSE IF ~ok THEN [disk |-> w.disk, icon |-> new.icon]
     ELSE [disk |-> IF Moves(p, new) THEN Removed(w.disk, p) ELSE w.disk, icon |-> w.p.icon]

-----------------------------------------------------------------------------
(***************************************************************************)
(* The manager                                                             *)
(***************************************************************************)
Init == /\ profiles = << >> /\ unsaved = {} /\ spoiled = FALSE /\ shared = FALSE
        /\ disk = [files |-> << >>, icons |-> << >>, parsed |-> NoIcon]
        /\ steps = 0 /\ faults = 0

Counted == steps < MaxSteps /\ steps' = steps + 1
(* The profile n is to be p: another one has its name, or its file. *)
Shares(n, p) == \E m \in DOMAIN profiles \ {n} : m = p.name \/ FileOf(profiles[m]) = FileOf(p)

(* A file is written, or cannot be; over is whether it is of two profiles now. *)
Writes(ok, over) ==
  /\ IF ok THEN UNCHANGED faults ELSE faults < MaxFaults /\ faults' = faults + 1
  /\ spoiled' = (spoiled \/ ~ok \/ over)
  /\ shared' = (shared \/ over)

New(p) ==
  \E ok \in BOOLEAN :
    LET w == Save(disk, p, ok)
    IN /\ Writes(ok, Shares(p.name, p))
       /\ disk' = w.disk /\ profiles' = Put(profiles, p.name, w.p)
       /\ UNCHANGED unsaved

(* add and clone do nothing when the name is used. *)
Add(n, e, icon) ==
  /\ Counted
  /\ n \notin DOMAIN profiles
  /\ New([name |-> n, exe |-> e, active |-> TRUE, settings |-> Default, icon |-> icon])

(* clone: with the settings of the base in memory. *)
Clone(n, e, icon, base) ==
  /\ Counted
  /\ n \notin DOMAIN profiles
  /\ LET p == profiles[base]
     IN New([p EXCEPT !.name = n, !.exe = e, !.icon = icon, !.active = @ \/ e = Manual])

Remove(n) ==
  /\ Counted
  /\ disk' = Removed(disk, profiles[n]) /\ profiles' = Without(profiles, n)
  /\ UNCHANGED <<unsaved, spoiled, shared, faults>>

(* As if the profile in memory were saved. *)
ActivateMemory(n, active) ==
  /\ Counted
  /\ \E ok \in BOOLEAN :
       /\ Writes(ok, FALSE)
       /\ disk' = Save(disk, [profiles[n] EXCEPT !.active = active], ok).disk
  /\ profiles' = [profiles EXCEPT ![n].active = active]
  /\ UNCHANGED unsaved

(* activate: edits that are not saved do not reach the file. *)
Activate(n, active) ==
  /\ Counted
  /\ \E ok \in BOOLEAN :
       LET l == Load(disk, profiles[n])
       IN /\ Writes(ok, FALSE)
          /\ disk' = Save(l.disk, [l.p EXCEPT !.active = active], ok).disk
  /\ profiles' = [profiles EXCEPT ![n].active = active]
  /\ UNCHANGED unsaved

(* update with an importer, loadFrom and reset *)
Edit(n, settings) ==
  /\ Counted
  /\ profiles' = [profiles EXCEPT ![n].settings = settings]
  /\ unsaved' = unsaved \cup {n}
  /\ UNCHANGED <<disk, spoiled, shared, faults>>

(* restore: an unreadable file changes nothing. *)
Restore(n) ==
  /\ Counted
  /\ LET l == Load(disk, profiles[n])
     IN disk' = l.disk /\ profiles' = [profiles EXCEPT ![n] = l.p]
  /\ unsaved' = unsaved \ {n}
  /\ UNCHANGED <<spoiled, shared, faults>>

(* save does not ask whether the file has been written. *)
SaveSettings(n) ==
  /\ Counted
  /\ \E ok \in BOOLEAN :
       LET w == Save(disk, profiles[n], ok)
       IN Writes(ok, FALSE) /\ disk' = w.disk /\ profiles' = [profiles EXCEPT ![n] = w.p]
  /\ unsaved' = unsaved \ {n}

(* exportTo, which writes no file of the directory. *)
Export(n) ==
  /\ Counted
  /\ disk' = [disk EXCEPT !.parsed = profiles[n].icon]
  /\ UNCHANGED <<profiles, unsaved, spoiled, shared, faults>>

(* The profile n becomes q.  It cannot be put back under the name of       *)
(* another one, and is destroyed (what update does with it after that is   *)
(* undefined, and reaches no other profile).                               *)
Renamed(n, q) ==
  LET others == Without(profiles, n)
  IN IF q.name \in DOMAIN others THEN others ELSE Put(others, q.name, q)

(* As if marks kept the old name. *)
UpdateInfoMarks(n, new) ==
  /\ \E ok \in BOOLEAN :
       LET u == Update(disk, profiles[n], new, ok)
       IN /\ Writes(ok, Shares(n, new))
          /\ disk' = u.disk
          /\ profiles' = Renamed(n, [new EXCEPT !.icon = u.icon, !.active = @ \/ new.exe = Manual])
  /\ UNCHANGED unsaved

(* update with new properties: a mark moves with the name. *)
UpdateInfo(n, new) ==
  /\ \E ok \in BOOLEAN :
       LET u == Update(disk, profiles[n], new, ok)
       IN /\ Writes(ok, Shares(n, new))
          /\ disk' = u.disk
          /\ profiles' = Renamed(n, [new EXCEPT !.icon = u.icon, !.active = @ \/ new.exe = Manual])
  /\ unsaved' = IF n \in unsaved /\ new.name # n THEN (unsaved \ {n}) \cup {new.name} ELSE unsaved

Edited(p, name, exe, icon) == [p EXCEPT !.name = name, !.exe = exe, !.icon = icon]

(* The dialog of a profile's properties is accepted: onEdit. *)
EditInfo(n, name, exe, icon) ==
  /\ Counted
  /\ LET new == Edited(profiles[n], name, exe, icon)
     IN new # profiles[n] /\ UpdateInfo(n, new)

-----------------------------------------------------------------------------
(***************************************************************************)
(* Restarts                                                                *)
(***************************************************************************)

(* ProfileManager::init reads the files in any order and ignores one whose *)
(* name or executable another one has.                                     *)
Rival(f, g) == f.name = g.name \/ (f.exe = g.exe /\ f.exe # Manual)

Directories(files) ==
  {S \in SUBSET DOMAIN files :
     /\ \A j, k \in S : j # k => ~Rival(files[j], files[k])
     /\ \A j \in DOMAIN files \ S : \E k \in S : Rival(files[j], files[k])}

Starts(d) ==
  LET fresh == [d EXCEPT !.parsed = NoIcon]
      read(k) == Load(fresh, d.files[k])
  IN /\ \E S \in Directories(d.files) :
          profiles' = [n \in {d.files[k].name : k \in S} |->
                         read(CHOOSE k \in S : d.files[k].name = n).p]
     /\ disk' = [fresh EXCEPT !.icons =
                   [k \in DOMAIN @ \cup {j \in DOMAIN d.files : d.files[j].icon # NoIcon} |->
                      IF k \in DOMAIN @ THEN @[k] ELSE d.files[k].icon]]
     /\ unsaved' = {} /\ spoiled' = FALSE

Restart == Counted /\ Starts(disk) /\ UNCHANGED <<shared, faults>>

Crashes == Counted /\ faults < MaxFaults /\ faults' = faults + 1

(* ZipDataSink::write ends in the middle: the file is torn, and nobody     *)
(* looks for its backup.                                                   *)
Torn(d, p) == [d EXCEPT !.files = Without(@, FileOf(p))]

CrashSaving(n) ==
  /\ Crashes
  /\ Starts(Torn(disk, profiles[n]))
  /\ UNCHANGED shared

(* It ends after the file with the new properties was written, and before  *)
(* the old one is removed.                                                 *)
CrashUpdating(n, name, exe, icon) ==
  /\ Crashes
  /\ LET p   == profiles[n]
         new == Edited(p, name, exe, icon)
         l   == Load(disk, p)
     IN /\ new # p /\ l.ok
        /\ Starts(Save(l.disk, Moved(l.p, new), TRUE).disk)
        /\ shared' = (shared \/ Shares(n, new))

IconsFor(n) == Icons \cup {NoIcon, profiles[n].icon}

InMemory(n) ==
  \/ Remove(n) \/ Restore(n) \/ SaveSettings(n) \/ Export(n) \/ CrashSaving(n)
  \/ \E s \in Settings : Edit(n, s)
  \/ profiles[n].exe # Manual /\ \E b \in BOOLEAN : Activate(n, b)
  \/ \E m \in Names, e \in Exes \cup {Manual} :
       \E i \in IconsFor(n) :
         EditInfo(n, m, e, i) \/ Clone(m, e, i, n) \/ CrashUpdating(n, m, e, i)

Next ==
  \/ \E n \in Names, e \in Exes \cup {Manual}, i \in Icons \cup {NoIcon} : Add(n, e, i)
  \/ \E n \in DOMAIN profiles : InMemory(n)
  \/ Restart

Spec == Init /\ [][Next]_vars

-----------------------------------------------------------------------------
(***************************************************************************)
(* Properties                                                              *)
(***************************************************************************)

(* Settings on disk change when their profile is saved, and go when it is  *)
(* removed or the application ends in the middle of a write.  No other     *)
(* operation writes settings the user did not save, or loses what was      *)
(* saved: not the change of a profile's active state, nor a move to a file *)
(* with another name, nor the first write that fails or the first crash in *)
(* the middle of a move (activate, ProfileStorage::update).                *)
Stored(k) == disk.files[k].settings
Keeping == ~ \E n \in DOMAIN profiles : SaveSettings(n) \/ Remove(n) \/ CrashSaving(n)
KeptOnDisk ==
  [][faults = 0 /\ ~shared' /\ Keeping => \A k \in DOMAIN disk.files :
       \E j \in DOMAIN disk'.files :
         /\ disk'.files[j].settings = Stored(k)
         /\ j = k \/ /\ \E n \in DOMAIN profiles : FileOf(profiles[n]) = k
                     /\ \A n \in DOMAIN profiles' : FileOf(profiles'[n]) # k]_vars

(* A profile that is not marked as unsaved has the settings of its file,   *)
(* unless since the start a file could not be written, or was taken from   *)
(* another profile: no edit is lost without a warning, after renames,      *)
(* after a crash, and after a restart that finds the files of profiles     *)
(* that had one name or one file before (unsavedProfiles_, which the view  *)
(* asks before it discards edits; ProfileManager::init).                   *)
MarkedUnsaved ==
  ~spoiled => \A n \in DOMAIN profiles \ unsaved :
                LET k == FileOf(profiles[n])
                IN k \in DOMAIN disk.files /\ Stored(k) = profiles[n].settings

(* As long as files can be written, a restart finds the profiles there     *)
(* are, with their names, executables and active states, and no other:     *)
(* renames and conversions leave no file behind and take none away         *)
(* (ProfileStorage::update, save and remove).                              *)
Directory(ps) == {[name |-> p.name, exe |-> p.exe, active |-> p.active] : p \in Range(ps)}
RestartRestores ==
  faults = 0 /\ ~shared => /\ Directory(profiles) = Directory(disk.files)
                /\ Cardinality(Directory(disk.files)) = Cardinality(DOMAIN disk.files)

(* "profiles without icons use the default icon" (profilestorage.cpp). *)
OwnIcon ==
  faults = 0 => \A n \in DOMAIN profiles :
    LET k == FileOf(profiles[n])
    IN k \in DOMAIN disk.files /\ disk.files[k].icon = NoIcon => profiles[n].icon = NoIcon

(* "There is another profile for the same executable": no two profiles     *)
(* share a file (profilemanager.cpp).                                      *)
OneProfileForEach ==
  \A m, n \in DOMAIN profiles : m # n => FileOf(profiles[m]) # FileOf(profiles[n])
=============================================================================
