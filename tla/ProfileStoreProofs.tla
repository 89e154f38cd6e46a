------------------------- MODULE ProfileStoreProofs --------------------------
(***************************************************************************)
(* The files of the profiles, proved for any names, executables, settings  *)
(* and icons, and for any number of operations, failed writes and crashes. *)
(* Every file is named after the profile in it; as long as since the start *)
(* no write has failed and no profile was given the name or the file of    *)
(* another, the file of each profile has the profile's name, executable    *)
(* and active state, and the settings of those that are not marked; and as *)
(* long as neither has ever happened every file is that of a profile.      *)
(***************************************************************************)
EXTENDS ProfileStore, FiniteSetTheorems, TLAPS

USE ProfileStoreAssumption

(***************************************************************************)
(* Tables, profiles and files                                              *)
(***************************************************************************)

LEMMA WithoutTable ==
  ASSUME NEW f, NEW k
  PROVE  /\ DOMAIN Without(f, k) = DOMAIN f \ {k}
         /\ \A x \in DOMAIN f \ {k} : Without(f, k)[x] = f[x]
BY DEF Without, Restrict

LEMMA PutTable ==
  ASSUME NEW f, NEW k, NEW v
  PROVE  /\ DOMAIN Put(f, k, v) = DOMAIN f \cup {k}
         /\ Put(f, k, v)[k] = v
         /\ \A x \in DOMAIN f \ {k} : Put(f, k, v)[x] = f[x]
BY DEF Put

IsProfile(p) ==
  /\ p = [name |-> p.name, exe |-> p.exe, active |-> p.active, settings |-> p.settings, icon |-> p.icon]
  /\ p.name \in Names /\ p.exe \in Exes \cup {Manual}

IsDisk(d) == d = [files |-> d.files, icons |-> d.icons, parsed |-> d.parsed]

(* The name, executable and active state of a profile, and its settings.   *)
SameInfo(p, q) == p.name = q.name /\ p.exe = q.exe /\ p.active = q.active
Same(p, q) == SameInfo(p, q) /\ p.settings = q.settings

LEMMA SameFile ==
  ASSUME NEW p, NEW q, p.name = q.name, p.exe = q.exe
  PROVE  FileOf(p) = FileOf(q)
BY DEF FileOf

(* Files have different names when executables, or the names of manual     *)
(* profiles, differ.                                                       *)
LEMMA OtherFile ==
  ASSUME NEW p, NEW q, IsProfile(p), IsProfile(q)
  PROVE  FileOf(p) = FileOf(q) <=> p.exe = q.exe /\ (p.exe = Manual => p.name = q.name)
BY DEF FileOf, IsProfile

(* Every file is named after the profile in it.                            *)
FilesOK(files) ==
  /\ IsFiniteSet(DOMAIN files)
  /\ \A k \in DOMAIN files : IsProfile(files[k]) /\ FileOf(files[k]) = k

(* The files fs, after the profile p was written to its file in place of   *)
(* what files had there.                                                   *)
OneWritten(files, fs, p) ==
  /\ DOMAIN fs = DOMAIN files \cup {FileOf(p)}
  /\ Same(fs[FileOf(p)], p) /\ IsProfile(fs[FileOf(p)])
  /\ \A k \in DOMAIN files \ {FileOf(p)} : fs[k] = files[k]

(* The files fs, after the one of p was removed.                           *)
OneRemoved(files, fs, k) ==
  /\ DOMAIN fs = DOMAIN files \ {k}
  /\ \A j \in DOMAIN files \ {k} : fs[j] = files[j]

LEMMA WrittenOK ==
  ASSUME NEW files, FilesOK(files), NEW fs, NEW p, OneWritten(files, fs, p)
  PROVE  FilesOK(fs)
<1>1. IsFiniteSet(DOMAIN files \cup {FileOf(p)})
  BY FS_AddElement DEF FilesOK
<1>2. FileOf(fs[FileOf(p)]) = FileOf(p)
  BY SameFile DEF OneWritten, Same, SameInfo
<1> QED
  BY <1>1, <1>2 DEF FilesOK, OneWritten

LEMMA RemovedOK ==
  ASSUME NEW files, FilesOK(files), NEW fs, NEW k, OneRemoved(files, fs, k)
  PROVE  FilesOK(fs)
<1>1. IsFiniteSet(DOMAIN files \ {k})
  BY FS_RemoveElement DEF FilesOK
<1> QED
  BY <1>1 DEF FilesOK, OneRemoved

(***************************************************************************)
(* The storage                                                             *)
(***************************************************************************)

LEMMA TakenDisk ==
  ASSUME NEW d, IsDisk(d), NEW p
  PROVE  IsDisk(Taken(d, p)) /\ Taken(d, p).files = d.files
BY DEF IsDisk, Taken

LEMMA CachedDisk ==
  ASSUME NEW d, IsDisk(d), NEW k, NEW icon
  PROVE  /\ IsDisk(Added(d, k, icon)) /\ Added(d, k, icon).files = d.files
         /\ IsDisk(Cleaned(d, k)) /\ Cleaned(d, k).files = d.files
         /\ IsDisk(TryOrCache(d, k, icon)) /\ TryOrCache(d, k, icon).files = d.files
BY DEF IsDisk, Added, Cleaned, TryOrCache

LEMMA WrittenDisk ==
  ASSUME NEW d, IsDisk(d), NEW p, IsProfile(p), NEW icon
  PROVE  IsDisk(Written(d, p, icon)) /\ OneWritten(d.files, Written(d, p, icon).files, p)
<1> DEFINE q == [p EXCEPT !.icon = icon]
<1>1. IsProfile(q) /\ Same(q, p)
  BY DEF IsProfile, Same, SameInfo
<1> HIDE DEF q
<1>2. IsDisk(Written(d, p, icon)) /\ Written(d, p, icon).files = Put(d.files, FileOf(p), q)
  BY DEF IsDisk, Written, q
<1>3. PICK files, fs : files = d.files /\ fs = Written(d, p, icon).files
  OBVIOUS
<1>4. PICK k : k = FileOf(p)
  OBVIOUS
<1>5. fs = Put(files, k, q)
  BY <1>2, <1>3, <1>4
<1>6. DOMAIN fs = DOMAIN files \cup {k} /\ fs[k] = q /\ \A x \in DOMAIN files \ {k} : fs[x] = files[x]
  BY <1>5 DEF Put
<1>7. OneWritten(files, fs, p)
  BY <1>1, <1>4, <1>6 DEF OneWritten
<1> QED
  BY <1>2, <1>3, <1>7

(* A profile is saved: its file is written, or no file changes; and the    *)
(* profile has at most another icon.                                       *)
LEMMA SaveFacts ==
  ASSUME NEW d, IsDisk(d), NEW p, IsProfile(p), NEW ok \in BOOLEAN
  PROVE  /\ IsDisk(Save(d, p, ok).disk)
         /\ ok => OneWritten(d.files, Save(d, p, ok).disk.files, p)
         /\ ~ok => Save(d, p, ok).disk.files = d.files
         /\ IsProfile(Save(d, p, ok).p) /\ Same(Save(d, p, ok).p, p)
<1> DEFINE icon == IconData(d, p.icon)
           t == Taken(d, p)
           w == Written(t, p, icon)
<1>1. IsDisk(t) /\ t.files = d.files
  BY TakenDisk
<1>2. IsDisk(w) /\ OneWritten(d.files, w.files, p)
  BY <1>1, WrittenDisk
<1>3. Same(p, p)
  BY DEF Same, SameInfo
<1>4. Save(d, p, ok) = IF ~ok THEN [disk |-> t, p |-> p]
                       ELSE IF icon = NoIcon THEN [disk |-> w, p |-> p]
                       ELSE SyncCache(w, p, icon)
  BY DEF Save
<1> HIDE DEF icon, t, w
<1>5. CASE ~ok
  <2>1. Save(d, p, ok) = [disk |-> t, p |-> p]
    BY <1>4, <1>5
  <2> QED
    BY <1>1, <1>3, <1>5, <2>1
<1>6. CASE ok /\ icon = NoIcon
  <2>1. Save(d, p, ok) = [disk |-> w, p |-> p]
    BY <1>4, <1>6
  <2>2. Save(d, p, ok).disk = w /\ Save(d, p, ok).p = p
    BY <2>1
  <2> QED
    BY ONLY <1>2, <1>3, <1>6, <2>2, IsProfile(p)
<1>7. CASE ok /\ icon # NoIcon
  <2>1. Save(d, p, ok) = SyncCache(w, p, icon)
    BY <1>4, <1>7
  <2> DEFINE q == [p EXCEPT !.icon = Cached(FileOf(p))]
  <2>2. IsProfile(q) /\ Same(q, p)
    BY DEF IsProfile, Same, SameInfo
  <2> HIDE DEF q
  <2>3. SyncCache(w, p, icon) = [disk |-> Added(w, FileOf(p), icon), p |-> q]
    BY DEF SyncCache, q
  <2>4. IsDisk(Added(w, FileOf(p), icon)) /\ Added(w, FileOf(p), icon).files = w.files
    BY <1>2, CachedDisk
  <2>5. PICK c : c = Added(w, FileOf(p), icon)
    OBVIOUS
  <2>6. Save(d, p, ok).disk = c /\ Save(d, p, ok).p = q
    BY <2>1, <2>3, <2>5
  <2>7. IsDisk(c) /\ c.files = w.files
    BY <2>4, <2>5
  <2> QED
    BY ONLY <1>2, <1>7, <2>2, <2>6, <2>7
<1> QED
  BY <1>5, <1>6, <1>7

(* A profile is read: no file changes, and it is what its file has but for *)
(* the icon.                                                               *)
LEMMA LoadFacts ==
  ASSUME NEW d, IsDisk(d), FilesOK(d.files), NEW p, IsProfile(p)
  PROVE  /\ IsDisk(Load(d, p).disk) /\ Load(d, p).disk.files = d.files
         /\ Load(d, p).ok <=> FileOf(p) \in DOMAIN d.files
         /\ FileOf(p) \in DOMAIN d.files => Same(Load(d, p).p, d.files[FileOf(p)])
         /\ FileOf(p) \notin DOMAIN d.files => Load(d, p).p = p
         /\ IsProfile(Load(d, p).p)
<1> DEFINE f == d.files[FileOf(p)]
           k == FileOf(f)
<1>1. Load(d, p) =
        IF FileOf(p) \notin DOMAIN d.files THEN [disk |-> d, p |-> p, ok |-> FALSE]
        ELSE IF f.icon = NoIcon THEN [disk |-> d, p |-> [f EXCEPT !.icon = d.parsed], ok |-> TRUE]
        ELSE [disk |-> TryOrCache(d, k, f.icon), p |-> [f EXCEPT !.icon = Cached(k)], ok |-> TRUE]
  BY DEF Load, Readable
<1>2. FileOf(p) \in DOMAIN d.files => IsProfile(f)
  BY DEF FilesOK
<1> HIDE DEF f
<1>3. CASE FileOf(p) \notin DOMAIN d.files
  BY <1>1, <1>3
<1>4. ASSUME FileOf(p) \in DOMAIN d.files, NEW i
      PROVE  IsProfile([f EXCEPT !.icon = i]) /\ Same([f EXCEPT !.icon = i], f)
  BY <1>2, <1>4 DEF IsProfile, Same, SameInfo
<1>5. CASE FileOf(p) \in DOMAIN d.files /\ f.icon = NoIcon
  <2>1. Load(d, p) = [disk |-> d, p |-> [f EXCEPT !.icon = d.parsed], ok |-> TRUE]
    BY <1>1, <1>5
  <2>2. IsProfile([f EXCEPT !.icon = d.parsed]) /\ Same([f EXCEPT !.icon = d.parsed], f)
    BY <1>4, <1>5
  <2> QED
    BY <1>5, <2>1, <2>2 DEF f
<1>6. CASE FileOf(p) \in DOMAIN d.files /\ f.icon # NoIcon
  <2>1. Load(d, p) = [disk |-> TryOrCache(d, k, f.icon), p |-> [f EXCEPT !.icon = Cached(k)], ok |-> TRUE]
    BY <1>1, <1>6
  <2>2. IsProfile([f EXCEPT !.icon = Cached(k)]) /\ Same([f EXCEPT !.icon = Cached(k)], f)
    BY <1>4, <1>6
  <2>3. IsDisk(TryOrCache(d, k, f.icon)) /\ TryOrCache(d, k, f.icon).files = d.files
    BY CachedDisk
  <2> QED
    BY <1>6, <2>1, <2>2, <2>3 DEF f
<1> QED
  BY <1>3, <1>5, <1>6

LEMMA RemovedFacts ==
  ASSUME NEW d, IsDisk(d), NEW p
  PROVE  IsDisk(Removed(d, p)) /\ OneRemoved(d.files, Removed(d, p).files, FileOf(p))
<1> DEFINE e == [d EXCEPT !.files = Without(@, FileOf(p))]
<1>1. IsDisk(e) /\ e.files = Without(d.files, FileOf(p))
  BY DEF IsDisk
<1> HIDE DEF e
<1>2. Removed(d, p) = Cleaned(e, FileOf(p))
  BY DEF Removed, e
<1>3. IsDisk(Cleaned(e, FileOf(p))) /\ Cleaned(e, FileOf(p)).files = e.files
  BY <1>1, CachedDisk
<1>4. PICK fs : fs = Removed(d, p).files
  OBVIOUS
<1>5. fs = Without(d.files, FileOf(p))
  BY <1>1, <1>2, <1>3, <1>4
<1>6. DOMAIN fs = DOMAIN d.files \ {FileOf(p)} /\ \A j \in DOMAIN d.files \ {FileOf(p)} : fs[j] = d.files[j]
  BY <1>5, WithoutTable
<1>7. OneRemoved(d.files, fs, FileOf(p))
  BY <1>6 DEF OneRemoved
<1> QED
  BY <1>2, <1>3, <1>4, <1>7

(* The files fs, after the profile p got the properties of q: its file has *)
(* them, and may have another name.                                        *)
OneMoved(files, fs, p, q) ==
  /\ DOMAIN fs = (DOMAIN files \ {FileOf(p)}) \cup {FileOf(q)}
  /\ Same(fs[FileOf(q)], q) /\ IsProfile(fs[FileOf(q)])
  /\ \A k \in DOMAIN files \ {FileOf(p), FileOf(q)} : fs[k] = files[k]

(* As OneMoved, for the new properties of a profile, and the settings of   *)
(* its file.                                                               *)
MovedTo(files, fs, p, new) ==
  \E q : /\ OneMoved(files, fs, p, q)
         /\ q.name = new.name /\ q.exe = new.exe /\ FileOf(q) = FileOf(new)
         /\ q.settings = files[FileOf(p)].settings
         /\ q.active = (files[FileOf(p)].active \/ new.exe = Manual)

LEMMA MovedOK ==
  ASSUME NEW files, FilesOK(files), NEW fs, NEW p, NEW q, OneMoved(files, fs, p, q)
  PROVE  FilesOK(fs)
<1>1. IsFiniteSet((DOMAIN files \ {FileOf(p)}) \cup {FileOf(q)})
  BY FS_AddElement, FS_RemoveElement DEF FilesOK
<1>2. FileOf(fs[FileOf(q)]) = FileOf(q)
  BY SameFile DEF OneMoved, Same, SameInfo
<1> QED
  BY <1>1, <1>2 DEF FilesOK, OneMoved

LEMMA MovedProfile ==
  ASSUME NEW stored, NEW new, IsProfile(new)
  PROVE  /\ IsProfile(Moved(stored, new))
         /\ Moved(stored, new).name = new.name /\ Moved(stored, new).exe = new.exe
         /\ FileOf(Moved(stored, new)) = FileOf(new)
         /\ Moved(stored, new).settings = stored.settings
         /\ Moved(stored, new).active = (stored.active \/ new.exe = Manual)
<1>1. PICK s, a : s = stored.settings /\ a = (stored.active \/ new.exe = Manual)
  OBVIOUS
<1>2. PICK r : r = [new EXCEPT !.settings = s]
  OBVIOUS
<1>3. IsProfile(r) /\ r.name = new.name /\ r.exe = new.exe /\ r.settings = s
  BY <1>2 DEF IsProfile
<1>4. PICK t : t = [r EXCEPT !.active = a]
  OBVIOUS
<1>5. IsProfile(t) /\ t.name = r.name /\ t.exe = r.exe /\ t.settings = r.settings /\ t.active = a
  BY <1>3, <1>4 DEF IsProfile
<1>6. Moved(stored, new) = t
  BY <1>1, <1>2, <1>4 DEF Moved
<1>7. FileOf(t) = FileOf(new)
  BY <1>3, <1>5, SameFile
<1> QED
  BY <1>1, <1>3, <1>5, <1>6, <1>7

(* A profile is given other properties: the settings of its file move.     *)
LEMMA UpdateFacts ==
  ASSUME NEW d, IsDisk(d), FilesOK(d.files), NEW p, IsProfile(p), NEW new, IsProfile(new),
         NEW ok \in BOOLEAN
  PROVE  /\ IsDisk(Update(d, p, new, ok).disk) /\ FilesOK(Update(d, p, new, ok).disk.files)
         /\ ~ok \/ FileOf(p) \notin DOMAIN d.files => Update(d, p, new, ok).disk.files = d.files
         /\ ok /\ FileOf(p) \in DOMAIN d.files => MovedTo(d.files, Update(d, p, new, ok).disk.files, p, new)
<1> DEFINE l == Load(d, p)
           q == Moved(l.p, new)
           w == Save(l.disk, q, ok)
<1>1. PICK e : e = l.disk
  OBVIOUS
<1>2. /\ IsDisk(e) /\ e.files = d.files
      /\ l.ok <=> FileOf(p) \in DOMAIN d.files
      /\ FileOf(p) \in DOMAIN d.files => Same(l.p, d.files[FileOf(p)])
  BY <1>1, LoadFacts
<1>4. Update(d, p, new, ok) =
        IF ~l.ok THEN [disk |-> d, icon |-> new.icon]
        ELSE IF ~ok THEN [disk |-> w.disk, icon |-> new.icon]
        ELSE [disk |-> IF Moves(p, new) THEN Removed(w.disk, p) ELSE w.disk, icon |-> w.p.icon]
  BY DEF Update
<1>5. w = Save(e, q, ok)
  BY <1>1
<1> HIDE DEF l, w
<1>3. /\ IsProfile(q) /\ q.name = new.name /\ q.exe = new.exe /\ FileOf(q) = FileOf(new)
      /\ q.settings = l.p.settings /\ q.active = (l.p.active \/ new.exe = Manual)
  BY MovedProfile
<1> HIDE DEF q
<1>6. PICK wd : wd = w.disk
  OBVIOUS
<1>7. /\ IsDisk(wd)
      /\ ok => OneWritten(d.files, wd.files, q)
      /\ ~ok => wd.files = d.files
  BY <1>2, <1>3, <1>5, <1>6, SaveFacts
<1>8. PICK u : u = Update(d, p, new, ok).disk
  OBVIOUS
<1>9. CASE ~l.ok
  <2>1. u = d
    BY <1>4, <1>8, <1>9
  <2> QED
    BY <1>2, <1>8, <1>9, <2>1
<1>10. CASE l.ok /\ ~ok
  <2>1. u = wd
    BY <1>4, <1>6, <1>8, <1>10
  <2> QED
    BY <1>2, <1>7, <1>8, <1>10, <2>1
<1>11. CASE l.ok /\ ok
  <2>1. u = IF Moves(p, new) THEN Removed(wd, p) ELSE wd
    BY <1>4, <1>6, <1>8, <1>11
  <2>2. FileOf(q) = FileOf(new)
    BY <1>3
  <2>3. FileOf(p) = FileOf(new) <=> ~Moves(p, new)
    BY OtherFile DEF Moves
  <2>4. OneWritten(d.files, wd.files, q) /\ FileOf(p) \in DOMAIN d.files
    BY <1>2, <1>7, <1>11
  <2>5. IsDisk(u) /\ OneMoved(d.files, u.files, p, q)
    <3>1. CASE Moves(p, new)
      <4>1. IsDisk(u) /\ OneRemoved(wd.files, u.files, FileOf(p))
        BY <1>7, <2>1, <3>1, RemovedFacts
      <4>2. FileOf(p) # FileOf(q)
        BY <2>2, <2>3, <3>1
      <4> QED
        BY <2>4, <4>1, <4>2 DEF OneRemoved, OneWritten, OneMoved
    <3>2. CASE ~Moves(p, new)
      <4>1. u = wd /\ FileOf(p) = FileOf(q)
        BY <2>1, <2>2, <2>3, <3>2
      <4> QED
        BY <1>7, <2>4, <4>1 DEF OneWritten, OneMoved
    <3> QED
      BY <3>1, <3>2
  <2>6. FilesOK(u.files)
    BY <2>5, MovedOK
  <2>7. q.settings = d.files[FileOf(p)].settings /\ q.active = (d.files[FileOf(p)].active \/ new.exe = Manual)
    BY <1>2, <1>3, <2>4 DEF Same, SameInfo
  <2>8. PICK r : r = q
    OBVIOUS
  <2>9. /\ OneMoved(d.files, u.files, p, r)
        /\ r.name = new.name /\ r.exe = new.exe /\ FileOf(r) = FileOf(new)
        /\ r.settings = d.files[FileOf(p)].settings
        /\ r.active = (d.files[FileOf(p)].active \/ new.exe = Manual)
    BY <1>3, <2>2, <2>5, <2>7, <2>8
  <2>10. MovedTo(d.files, u.files, p, new)
    BY <2>9 DEF MovedTo
  <2> QED
    BY <1>8, <1>11, <2>4, <2>5, <2>6, <2>10
<1> QED
  BY <1>9, <1>10, <1>11

(***************************************************************************)
(* The manager and its files                                               *)
(***************************************************************************)

(* The profile n is p, and its file has it; its settings too, unless they  *)
(* are marked as not saved.                                                *)
HasFile(files, n, p, marked) ==
  /\ p.name = n
  /\ FileOf(p) \in DOMAIN files
  /\ SameInfo(files[FileOf(p)], p)
  /\ ~marked => files[FileOf(p)].settings = p.settings

Agree(files, ps, marks) ==
  /\ \A n \in DOMAIN ps : HasFile(files, n, ps[n], n \in marks)
  /\ \A m, n \in DOMAIN ps : FileOf(ps[m]) = FileOf(ps[n]) => m = n

(* Every file is that of a profile.                                        *)
Complete(files, ps) == \A k \in DOMAIN files : \E n \in DOMAIN ps : FileOf(ps[n]) = k

(* The profile n is written, as it is, or when it is new.                  *)
LEMMA WriteStep ==
  ASSUME NEW files, NEW ps, NEW marks, Agree(files, ps, marks),
         NEW q, NEW fs, OneWritten(files, fs, q),
         NEW n, NEW qs, DOMAIN qs = DOMAIN ps \cup {n}, qs[n].name = n, SameInfo(q, qs[n]),
         \A m \in DOMAIN ps \ {n} : qs[m] = ps[m] /\ FileOf(ps[m]) # FileOf(qs[n]),
         NEW newMarks, \A m \in DOMAIN ps \ {n} : m \in marks => m \in newMarks,
         n \in newMarks \/ q.settings = qs[n].settings
  PROVE  /\ Agree(fs, qs, newMarks)
         /\ Complete(files, ps) /\ (n \in DOMAIN ps => FileOf(ps[n]) = FileOf(qs[n])) => Complete(fs, qs)
<1>1. FileOf(q) = FileOf(qs[n])
  BY SameFile DEF SameInfo
<1>2. HasFile(fs, n, qs[n], n \in newMarks)
  BY <1>1 DEF HasFile, OneWritten, Same, SameInfo
<1>3. ASSUME NEW m \in DOMAIN ps \ {n} PROVE HasFile(fs, m, qs[m], m \in newMarks)
  <2>1. HasFile(files, m, ps[m], m \in marks)
    BY DEF Agree
  <2>2. fs[FileOf(ps[m])] = files[FileOf(ps[m])] /\ FileOf(ps[m]) \in DOMAIN fs
    BY <1>1, <2>1 DEF HasFile, OneWritten
  <2> QED
    BY <2>1, <2>2 DEF HasFile
<1>4. ASSUME NEW m \in DOMAIN qs, NEW o \in DOMAIN qs, FileOf(qs[m]) = FileOf(qs[o]) PROVE m = o
  BY <1>4 DEF Agree
<1>5. ASSUME Complete(files, ps), n \in DOMAIN ps => FileOf(ps[n]) = FileOf(qs[n])
      PROVE  Complete(fs, qs)
  BY <1>1, <1>5 DEF Complete, OneWritten
<1> QED
  BY <1>2, <1>3, <1>4, <1>5 DEF Agree

(* The profile n becomes p, whose name and file may be others.             *)
LEMMA MoveStep ==
  ASSUME NEW files, NEW ps, NEW marks, Agree(files, ps, marks), NEW n \in DOMAIN ps,
         NEW q, NEW fs, OneMoved(files, fs, ps[n], q),
         NEW p, NEW qs, DOMAIN qs = (DOMAIN ps \ {n}) \cup {p.name}, qs[p.name] = p, SameInfo(q, p),
         p.name \notin DOMAIN ps \ {n},
         \A m \in DOMAIN ps \ {n} : qs[m] = ps[m] /\ FileOf(ps[m]) # FileOf(p),
         NEW newMarks, \A m \in DOMAIN ps \ {n} : m \in marks => m \in newMarks,
         p.name \in newMarks \/ q.settings = p.settings
  PROVE  Agree(fs, qs, newMarks) /\ (Complete(files, ps) => Complete(fs, qs))
<1>1. FileOf(q) = FileOf(p)
  BY SameFile DEF SameInfo
<1>2. HasFile(fs, p.name, p, p.name \in newMarks)
  BY <1>1 DEF HasFile, OneMoved, Same, SameInfo
<1>3. ASSUME NEW m \in DOMAIN ps \ {n} PROVE HasFile(fs, m, qs[m], m \in newMarks)
  <2>1. HasFile(files, m, ps[m], m \in marks) /\ FileOf(ps[m]) # FileOf(ps[n])
    BY DEF Agree
  <2>2. fs[FileOf(ps[m])] = files[FileOf(ps[m])] /\ FileOf(ps[m]) \in DOMAIN fs
    BY <1>1, <2>1 DEF HasFile, OneMoved
  <2> QED
    BY <2>1, <2>2 DEF HasFile
<1>4. ASSUME NEW m \in DOMAIN qs, NEW o \in DOMAIN qs, FileOf(qs[m]) = FileOf(qs[o]) PROVE m = o
  BY <1>4 DEF Agree
<1>5. ASSUME Complete(files, ps) PROVE Complete(fs, qs)
  BY <1>1, <1>5 DEF Complete, OneMoved
<1> QED
  BY <1>2, <1>3, <1>4, <1>5 DEF Agree

(* No file changes, and no profile gets another file.                      *)
LEMMA KeepStep ==
  ASSUME NEW files, NEW ps, NEW marks, Agree(files, ps, marks),
         NEW qs, DOMAIN qs = DOMAIN ps, \A m \in DOMAIN ps : SameInfo(qs[m], ps[m]),
         NEW newMarks,
         \A m \in DOMAIN ps : m \in newMarks \/ files[FileOf(ps[m])].settings = qs[m].settings
  PROVE  Agree(files, qs, newMarks) /\ (Complete(files, ps) => Complete(files, qs))
<1>1. \A m \in DOMAIN ps : FileOf(qs[m]) = FileOf(ps[m])
  BY SameFile DEF SameInfo
<1> QED
  BY <1>1 DEF Agree, HasFile, SameInfo, Complete

LEMMA RemoveStep ==
  ASSUME NEW files, NEW ps, NEW marks, Agree(files, ps, marks), NEW n \in DOMAIN ps,
         NEW fs, OneRemoved(files, fs, FileOf(ps[n])),
         NEW qs, DOMAIN qs = DOMAIN ps \ {n}, \A m \in DOMAIN ps \ {n} : qs[m] = ps[m]
  PROVE  Agree(fs, qs, marks) /\ (Complete(files, ps) => Complete(fs, qs))
<1>1. ASSUME NEW m \in DOMAIN qs PROVE HasFile(fs, m, qs[m], m \in marks)
  <2>1. HasFile(files, m, ps[m], m \in marks) /\ FileOf(ps[m]) # FileOf(ps[n])
    BY DEF Agree
  <2>2. fs[FileOf(ps[m])] = files[FileOf(ps[m])] /\ FileOf(ps[m]) \in DOMAIN fs
    BY <2>1 DEF HasFile, OneRemoved
  <2> QED
    BY <2>1, <2>2 DEF HasFile
<1> QED
  BY <1>1 DEF Agree, Complete, OneRemoved

(* ProfileManager::init: the profiles are those of some files, and of all  *)
(* when no two are rivals.                                                 *)
LEMMA StartFacts ==
  ASSUME NEW d, IsDisk(d), FilesOK(d.files), Starts(d)
  PROVE  /\ IsDisk(disk') /\ disk'.files = d.files
         /\ \A n \in DOMAIN profiles' : IsProfile(profiles'[n])
         /\ Agree(d.files, profiles', {})
         /\ unsaved' = {} /\ spoiled' = FALSE
         /\ (\A j, k \in DOMAIN d.files : j # k => ~Rival(d.files[j], d.files[k]))
              => Complete(d.files, profiles')
<1> DEFINE fresh == [d EXCEPT !.parsed = NoIcon]
           files == d.files
           at(S, n) == CHOOSE k \in S : files[k].name = n
<1>1. IsDisk(fresh) /\ fresh.files = files
  BY DEF IsDisk
<1>2. PICK S \in Directories(files) :
        profiles' = [n \in {files[k].name : k \in S} |-> Load(fresh, files[at(S, n)]).p]
  BY DEF Starts
<1>3. PICK icons : disk' = [fresh EXCEPT !.icons = icons]
  BY DEF Starts
<1>4. unsaved' = {} /\ spoiled' = FALSE
  BY DEF Starts
<1> HIDE DEF fresh, files
<1>5. IsDisk(disk') /\ disk'.files = files
  BY <1>1, <1>3 DEF IsDisk
<1>6. /\ S \subseteq DOMAIN files
      /\ \A j, k \in S : j # k => ~Rival(files[j], files[k])
      /\ \A j \in DOMAIN files \ S : \E k \in S : Rival(files[j], files[k])
  BY <1>2 DEF Directories
<1>7. \A k \in DOMAIN files : IsProfile(files[k]) /\ FileOf(files[k]) = k
  BY DEF FilesOK, files
<1>8. ASSUME NEW n \in DOMAIN profiles'
      PROVE  /\ at(S, n) \in S /\ files[at(S, n)].name = n
             /\ IsProfile(profiles'[n]) /\ Same(profiles'[n], files[at(S, n)])
             /\ FileOf(profiles'[n]) = at(S, n)
  <2>1. PICK h \in S : files[h].name = n
    BY <1>2
  <2>2. at(S, n) \in S /\ files[at(S, n)].name = n
    BY <2>1
  <2>3. PICK k : k = at(S, n)
    OBVIOUS
  <2>4. profiles'[n] = Load(fresh, files[k]).p
    BY <1>2, <2>3
  <2>5. k \in DOMAIN files /\ IsProfile(files[k]) /\ FileOf(files[k]) = k
    BY <1>6, <1>7, <2>2, <2>3
  <2>6. FilesOK(fresh.files)
    BY <1>1 DEF files
  <2>7. IsProfile(Load(fresh, files[k]).p) /\ Same(Load(fresh, files[k]).p, files[k])
    BY <1>1, <2>5, <2>6, LoadFacts
  <2>8. FileOf(profiles'[n]) = k
    BY <2>4, <2>5, <2>7, SameFile DEF Same, SameInfo
  <2> QED
    BY <2>2, <2>3, <2>4, <2>7, <2>8
<1> HIDE DEF at
<1>9. Agree(files, profiles', {})
  <2>1. ASSUME NEW n \in DOMAIN profiles' PROVE HasFile(files, n, profiles'[n], n \in {})
    BY <1>6, <1>8 DEF HasFile, Same, SameInfo
  <2>2. \A m, n \in DOMAIN profiles' : FileOf(profiles'[m]) = FileOf(profiles'[n]) => m = n
    BY <1>8
  <2> QED
    BY <2>1, <2>2 DEF Agree
<1>10. ASSUME \A j, k \in DOMAIN files : j # k => ~Rival(files[j], files[k])
       PROVE  Complete(files, profiles')
  <2> SUFFICES ASSUME NEW k \in DOMAIN files PROVE \E n \in DOMAIN profiles' : FileOf(profiles'[n]) = k
    BY DEF Complete
  <2>1. k \in S
    BY <1>6, <1>10
  <2>2. files[k].name \in DOMAIN profiles'
    BY <1>2, <2>1
  <2>3. at(S, files[k].name) = k
    BY <1>6, <1>8, <2>1, <2>2 DEF Rival
  <2> QED
    BY <1>8, <2>2, <2>3
<1> QED
  BY <1>4, <1>5, <1>8, <1>9, <1>10 DEF files

(***************************************************************************)
(* The inductive invariant                                                 *)
(***************************************************************************)

TypeInv ==
  /\ \A n \in DOMAIN profiles : IsProfile(profiles[n])
  /\ IsDisk(disk) /\ FilesOK(disk.files)
  /\ spoiled \in BOOLEAN /\ shared \in BOOLEAN /\ faults \in Nat
  /\ faults = 0 /\ ~shared => ~spoiled

AgreeInv == ~spoiled => Agree(disk.files, profiles, unsaved)

CompleteInv == faults = 0 /\ ~shared => Complete(disk.files, profiles)

IInv == TypeInv /\ AgreeInv /\ CompleteInv

LEMMA InitIInv == Init => IInv
<1> SUFFICES ASSUME Init PROVE IInv
  OBVIOUS
<1>1. /\ profiles = << >> /\ spoiled = FALSE /\ shared = FALSE /\ faults = 0
      /\ disk = [files |-> << >>, icons |-> << >>, parsed |-> NoIcon]
  BY DEF Init
<1>2. DOMAIN profiles = {} /\ DOMAIN disk.files = {} /\ IsDisk(disk)
  BY <1>1 DEF IsDisk
<1> QED
  BY <1>1, <1>2, FS_EmptySet
     DEF IInv, TypeInv, AgreeInv, CompleteInv, FilesOK, Agree, Complete

(* What a write leaves of the state it does not decide on.                 *)
LEMMA WritesFacts ==
  ASSUME TypeInv, NEW ok \in BOOLEAN, NEW over \in BOOLEAN, Writes(ok, over)
  PROVE  /\ spoiled' = (spoiled \/ ~ok \/ over) /\ shared' = (shared \/ over)
         /\ spoiled' \in BOOLEAN /\ shared' \in BOOLEAN /\ faults' \in Nat
         /\ ok => faults' = faults
         /\ ~ok => faults' > 0
         /\ faults' = 0 /\ ~shared' => ~spoiled'
<1>1. spoiled' = (spoiled \/ ~ok \/ over) /\ shared' = (shared \/ over)
  BY Zenon DEF Writes
<1>2. spoiled \in BOOLEAN /\ shared \in BOOLEAN /\ faults \in Nat /\ (faults = 0 /\ ~shared => ~spoiled)
  BY DEF TypeInv
<1>3. CASE ok
  <2>1. faults' = faults
    BY <1>3 DEF Writes
  <2> QED
    BY <1>1, <1>2, <1>3, <2>1
<1>4. CASE ~ok
  <2>1. faults' = faults + 1
    BY <1>4 DEF Writes
  <2>2. faults' \in Nat /\ faults' > 0
    BY <1>2, <2>1
  <2> QED
    BY <1>1, <1>2, <1>4, <2>2
<1> QED
  BY <1>3, <1>4

(* Nothing but files and profiles changes, and no write fails.             *)
LEMMA KeptIInv ==
  ASSUME IInv, IsDisk(disk'), FilesOK(disk.files'), UNCHANGED <<spoiled, shared, faults>>,
         \A n \in DOMAIN profiles' : IsProfile(profiles'[n]),
         Agree(disk.files, profiles, unsaved) => Agree(disk'.files, profiles', unsaved'),
         Agree(disk.files, profiles, unsaved) /\ Complete(disk.files, profiles) => Complete(disk'.files, profiles')
  PROVE  IInv'
<1>1. TypeInv'
  BY DEF IInv, TypeInv
<1>2. AgreeInv'
  BY DEF IInv, AgreeInv
<1>3. faults = 0 /\ ~shared => ~spoiled
  BY DEF IInv, TypeInv
<1>4. CompleteInv'
  BY <1>3 DEF IInv, AgreeInv, CompleteInv
<1> QED
  BY <1>1, <1>2, <1>4 DEF IInv

(* A file may have been written, and may be of two profiles: what holds    *)
(* when it has and is not; otherwise no promise is left to keep.           *)
LEMMA WroteIInv ==
  ASSUME IInv, NEW ok \in BOOLEAN, NEW over \in BOOLEAN, Writes(ok, over),
         IsDisk(disk'), FilesOK(disk.files'),
         \A n \in DOMAIN profiles' : IsProfile(profiles'[n]),
         ok /\ ~over /\ Agree(disk.files, profiles, unsaved) => Agree(disk'.files, profiles', unsaved'),
         ok /\ ~over /\ Agree(disk.files, profiles, unsaved) /\ Complete(disk.files, profiles)
           => Complete(disk'.files, profiles')
  PROVE  IInv'
<1>1. /\ spoiled' = (spoiled \/ ~ok \/ over) /\ shared' = (shared \/ over)
      /\ spoiled' \in BOOLEAN /\ shared' \in BOOLEAN /\ faults' \in Nat
      /\ ok => faults' = faults
      /\ ~ok => faults' > 0
      /\ faults' = 0 /\ ~shared' => ~spoiled'
  BY WritesFacts DEF IInv
<1>2. TypeInv'
  BY <1>1 DEF TypeInv
<1>3. AgreeInv'
  <2> SUFFICES ASSUME ~spoiled' PROVE Agree(disk'.files, profiles', unsaved')
    BY DEF AgreeInv
  <2>1. ok /\ ~over /\ ~spoiled
    BY <1>1
  <2> QED
    BY <2>1 DEF IInv, AgreeInv
<1>4. CompleteInv'
  <2> SUFFICES ASSUME faults' = 0, ~shared' PROVE Complete(disk'.files, profiles')
    BY DEF CompleteInv
  <2>1. ok /\ ~over /\ faults = 0 /\ ~shared
    BY <1>1
  <2>2. ~spoiled
    BY <2>1 DEF IInv, TypeInv
  <2> QED
    BY <2>1, <2>2 DEF IInv, AgreeInv, CompleteInv
<1> QED
  BY <1>2, <1>3, <1>4 DEF IInv

(***************************************************************************)
(* The operations of the manager                                           *)
(***************************************************************************)

LEMMA NewStep ==
  ASSUME IInv, NEW p, IsProfile(p), p.name \notin DOMAIN profiles, New(p)
  PROVE  IInv'
<1>1. PICK ok \in BOOLEAN :
        /\ Writes(ok, Shares(p.name, p))
        /\ disk' = Save(disk, p, ok).disk /\ profiles' = Put(profiles, p.name, Save(disk, p, ok).p)
        /\ unsaved' = unsaved
  BY DEF New
<1>2. IsDisk(disk) /\ FilesOK(disk.files)
      /\ \A m \in DOMAIN profiles : IsProfile(profiles[m])
  BY DEF IInv, TypeInv
<1>3. PICK w : w = Save(disk, p, ok)
  OBVIOUS
<1>4. /\ IsDisk(disk')
      /\ ok => OneWritten(disk.files, disk'.files, p)
      /\ ~ok => disk'.files = disk.files
      /\ IsProfile(w.p) /\ Same(w.p, p)
  BY <1>1, <1>2, <1>3, SaveFacts
<1>5. FilesOK(disk'.files)
  BY <1>2, <1>4, WrittenOK
<1>6. /\ DOMAIN profiles' = DOMAIN profiles \cup {p.name} /\ profiles'[p.name] = w.p
      /\ \A m \in DOMAIN profiles \ {p.name} : profiles'[m] = profiles[m]
  <2>1. PICK h, v : h = p.name /\ v = w.p
    OBVIOUS
  <2>2. profiles' = Put(profiles, h, v)
    BY <1>1, <1>3, <2>1
  <2> QED
    BY <2>1, <2>2 DEF Put
<1>7. \A m \in DOMAIN profiles' : IsProfile(profiles'[m])
  BY <1>2, <1>4, <1>6
<1>8. PICK over \in BOOLEAN : over = Shares(p.name, p)
  BY DEF Shares
<1>11. ~over => \A m \in DOMAIN profiles : FileOf(profiles[m]) # FileOf(p)
  BY <1>8 DEF Shares
<1>9. FileOf(w.p) = FileOf(p) /\ SameInfo(p, w.p) /\ p.settings = w.p.settings /\ w.p.name = p.name
  BY <1>4, SameFile DEF Same, SameInfo
<1>10. ASSUME ok, ~over, Agree(disk.files, profiles, unsaved)
       PROVE  /\ Agree(disk'.files, profiles', unsaved')
              /\ Complete(disk.files, profiles) => Complete(disk'.files, profiles')
  <2>1. PICK fs, qs, n : fs = disk'.files /\ qs = profiles' /\ n = p.name
    OBVIOUS
  <2>2. OneWritten(disk.files, fs, p)
    BY <1>4, <1>10, <2>1
  <2>3. DOMAIN qs = DOMAIN profiles \cup {n} /\ qs[n].name = n /\ SameInfo(p, qs[n]) /\ p.settings = qs[n].settings
    BY <1>6, <1>9, <2>1
  <2>4. \A m \in DOMAIN profiles \ {n} : qs[m] = profiles[m] /\ FileOf(profiles[m]) # FileOf(qs[n])
    BY <1>6, <1>9, <1>10, <1>11, <2>1
  <2>5. n \notin DOMAIN profiles
    BY <2>1
  <2>6. Agree(fs, qs, unsaved) /\ (Complete(disk.files, profiles) => Complete(fs, qs))
    BY <1>10, <2>2, <2>3, <2>4, <2>5, WriteStep
  <2> QED
    BY <1>1, <2>1, <2>6
<1> QED
  BY <1>1, <1>4, <1>5, <1>7, <1>8, <1>10, WroteIInv

LEMMA EditedFacts ==
  ASSUME NEW p, IsProfile(p), NEW n \in Names, NEW e \in Exes \cup {Manual}, NEW i
  PROVE  /\ IsProfile(Edited(p, n, e, i)) /\ Edited(p, n, e, i).name = n /\ Edited(p, n, e, i).exe = e
         /\ Edited(p, n, e, i).active = p.active /\ Edited(p, n, e, i).settings = p.settings
<1>1. PICK r : r = [p EXCEPT !.name = n]
  OBVIOUS
<1>2. IsProfile(r) /\ r.name = n /\ r.active = p.active /\ r.settings = p.settings
  BY <1>1 DEF IsProfile
<1>3. PICK s : s = [r EXCEPT !.exe = e]
  OBVIOUS
<1>4. IsProfile(s) /\ s.name = n /\ s.exe = e /\ s.active = r.active /\ s.settings = r.settings
  BY <1>2, <1>3 DEF IsProfile
<1>5. PICK t : t = [s EXCEPT !.icon = i]
  OBVIOUS
<1>6. IsProfile(t) /\ t.name = n /\ t.exe = e /\ t.active = s.active /\ t.settings = s.settings
  BY <1>4, <1>5 DEF IsProfile
<1>7. Edited(p, n, e, i) = t
  BY <1>1, <1>3, <1>5 DEF Edited
<1> QED
  BY <1>2, <1>4, <1>6, <1>7

LEMMA AddStep ==
  ASSUME IInv, NEW n \in Names, NEW e \in Exes \cup {Manual}, NEW icon, Add(n, e, icon)
  PROVE  IInv'
<1>1. PICK p : p = [name |-> n, exe |-> e, active |-> TRUE, settings |-> Default, icon |-> icon]
  OBVIOUS
<1>2. IsProfile(p) /\ p.name = n
  BY <1>1 DEF IsProfile
<1>3. n \notin DOMAIN profiles /\ New(p)
  BY <1>1 DEF Add
<1> QED
  BY <1>2, <1>3, NewStep

(* A clone is a new profile.                                               *)
LEMMA ClonedProfile ==
  ASSUME NEW base \in DOMAIN profiles, IsProfile(profiles[base]),
         NEW n \in Names, NEW e \in Exes \cup {Manual}, NEW icon, Clone(n, e, icon, base)
  PROVE  \E p : IsProfile(p) /\ p.name = n /\ n \notin DOMAIN profiles /\ New(p)
<1>1. PICK b : b = profiles[base]
  OBVIOUS
<1>2. PICK q : q = Edited(b, n, e, icon)
  OBVIOUS
<1>3. IsProfile(q) /\ q.name = n
  BY <1>1, <1>2, EditedFacts
<1>4. PICK p : p = [b EXCEPT !.name = n, !.exe = e, !.icon = icon, !.active = @ \/ e = Manual]
  OBVIOUS
<1>5. \E a : p = [q EXCEPT !.active = a]
  BY <1>2, <1>4 DEF Edited
<1>6. IsProfile(p) /\ p.name = n
  BY <1>3, <1>5 DEF IsProfile
<1>7. n \notin DOMAIN profiles /\ New(p)
  BY <1>1, <1>4 DEF Clone
<1> QED
  BY <1>6, <1>7

LEMMA CloneStep ==
  ASSUME IInv, NEW n \in Names, NEW e \in Exes \cup {Manual}, NEW icon, NEW base \in DOMAIN profiles,
         Clone(n, e, icon, base)
  PROVE  IInv'
<1>1. PICK p : IsProfile(p) /\ p.name = n /\ n \notin DOMAIN profiles /\ New(p)
  BY ClonedProfile DEF IInv, TypeInv
<1> QED
  BY <1>1, NewStep

LEMMA RemoveIInv ==
  ASSUME IInv, NEW n \in DOMAIN profiles, Remove(n)
  PROVE  IInv'
<1>1. /\ disk' = Removed(disk, profiles[n]) /\ profiles' = Without(profiles, n)
      /\ UNCHANGED <<unsaved, spoiled, shared, faults>>
  BY DEF Remove
<1>2. IsDisk(disk) /\ FilesOK(disk.files) /\ \A m \in DOMAIN profiles : IsProfile(profiles[m])
  BY DEF IInv, TypeInv
<1>3. PICK fs, qs : fs = disk'.files /\ qs = profiles'
  OBVIOUS
<1>4. IsDisk(disk') /\ OneRemoved(disk.files, fs, FileOf(profiles[n]))
  BY <1>1, <1>2, <1>3, RemovedFacts
<1>5. FilesOK(fs)
  BY <1>2, <1>4, RemovedOK
<1>6. DOMAIN qs = DOMAIN profiles \ {n} /\ \A m \in DOMAIN profiles \ {n} : qs[m] = profiles[m]
  BY <1>1, <1>3, WithoutTable
<1>7. ASSUME Agree(disk.files, profiles, unsaved)
      PROVE  Agree(fs, qs, unsaved) /\ (Complete(disk.files, profiles) => Complete(fs, qs))
  BY <1>4, <1>6, <1>7, RemoveStep
<1>8. \A m \in DOMAIN profiles' : IsProfile(profiles'[m])
  BY <1>2, <1>3, <1>6
<1> QED
  BY <1>1, <1>3, <1>4, <1>5, <1>7, <1>8, KeptIInv

(* A profile of the directory is written, and stays in its file.           *)
LEMMA RewriteStep ==
  ASSUME IInv, NEW n \in DOMAIN profiles, NEW d, IsDisk(d), d.files = disk.files,
         NEW q, IsProfile(q), NEW ok \in BOOLEAN, Writes(ok, FALSE),
         disk' = Save(d, q, ok).disk,
         DOMAIN profiles' = DOMAIN profiles, \A m \in DOMAIN profiles \ {n} : profiles'[m] = profiles[m],
         IsProfile(profiles'[n]),
         \A m \in DOMAIN profiles \ {n} : m \in unsaved => m \in unsaved',
         Agree(disk.files, profiles, unsaved) =>
           /\ profiles'[n].name = n /\ profiles'[n].exe = profiles[n].exe
           /\ SameInfo(q, profiles'[n]) /\ (n \in unsaved' \/ q.settings = profiles'[n].settings)
  PROVE  IInv'
<1>1. IsDisk(disk) /\ FilesOK(disk.files) /\ \A m \in DOMAIN profiles : IsProfile(profiles[m])
  BY DEF IInv, TypeInv
<1>2. PICK fs, qs, marks : fs = disk'.files /\ qs = profiles' /\ marks = unsaved'
  OBVIOUS
<1>3. /\ IsDisk(disk')
      /\ ok => OneWritten(disk.files, fs, q)
      /\ ~ok => fs = disk.files
  BY <1>2, SaveFacts
<1>4. FilesOK(fs)
  BY <1>1, <1>3, WrittenOK
<1>5. \A m \in DOMAIN profiles' : IsProfile(profiles'[m])
  BY <1>1
<1>6. ASSUME ok, Agree(disk.files, profiles, unsaved)
      PROVE  Agree(fs, qs, marks) /\ (Complete(disk.files, profiles) => Complete(fs, qs))
  <2>1. OneWritten(disk.files, fs, q)
    BY <1>3, <1>6
  <2>2. /\ qs[n].name = n /\ qs[n].exe = profiles[n].exe /\ SameInfo(q, qs[n])
        /\ n \in marks \/ q.settings = qs[n].settings
    BY <1>2, <1>6
  <2>3. profiles[n].name = n
    BY <1>6 DEF Agree, HasFile
  <2>4. FileOf(profiles[n]) = FileOf(qs[n])
    BY <2>2, <2>3, SameFile
  <2>5. \A m \in DOMAIN profiles \ {n} : qs[m] = profiles[m] /\ FileOf(profiles[m]) # FileOf(qs[n])
    BY <1>2, <1>6, <2>4 DEF Agree
  <2>6. DOMAIN qs = DOMAIN profiles \cup {n} /\ \A m \in DOMAIN profiles \ {n} : m \in unsaved => m \in marks
    BY <1>2
  <2>7. qs[n].name = n /\ SameInfo(q, qs[n]) /\ (n \in marks \/ q.settings = qs[n].settings)
    BY <2>2
  <2>8. /\ Agree(fs, qs, marks)
        /\ Complete(disk.files, profiles) /\ (n \in DOMAIN profiles => FileOf(profiles[n]) = FileOf(qs[n]))
             => Complete(fs, qs)
    BY ONLY <1>6, <2>1, <2>5, <2>6, <2>7, WriteStep
  <2> QED
    BY <2>4, <2>8
<1> QED
  BY <1>1, <1>2, <1>3, <1>4, <1>5, <1>6, WroteIInv

LEMMA ActivateIInv ==
  ASSUME IInv, NEW n \in DOMAIN profiles, NEW active, Activate(n, active)
  PROVE  IInv'
<1>1. PICK ok \in BOOLEAN :
        /\ Writes(ok, FALSE)
        /\ disk' = Save(Load(disk, profiles[n]).disk, [Load(disk, profiles[n]).p EXCEPT !.active = active], ok).disk
  BY DEF Activate
<1>2. profiles' = [profiles EXCEPT ![n].active = active] /\ unsaved' = unsaved
  BY DEF Activate
<1>3. IsDisk(disk) /\ FilesOK(disk.files) /\ \A m \in DOMAIN profiles : IsProfile(profiles[m])
  BY DEF IInv, TypeInv
<1>4. PICK p, d, f : p = profiles[n] /\ d = Load(disk, p).disk /\ f = Load(disk, p).p
  OBVIOUS
<1>5. /\ IsProfile(p) /\ IsDisk(d) /\ d.files = disk.files /\ IsProfile(f)
      /\ FileOf(p) \in DOMAIN disk.files => Same(f, disk.files[FileOf(p)])
  BY <1>3, <1>4, LoadFacts
<1>6. PICK q, r : q = [f EXCEPT !.active = active] /\ r = [p EXCEPT !.active = active]
  OBVIOUS
<1>7. IsProfile(q) /\ q.name = f.name /\ q.exe = f.exe /\ q.active = active /\ q.settings = f.settings
  BY <1>5, <1>6 DEF IsProfile
<1>8. IsProfile(r) /\ r.name = p.name /\ r.exe = p.exe /\ r.active = active /\ r.settings = p.settings
  BY <1>5, <1>6 DEF IsProfile
<1>9. /\ DOMAIN profiles' = DOMAIN profiles /\ profiles'[n] = r
      /\ \A m \in DOMAIN profiles \ {n} : profiles'[m] = profiles[m]
  BY <1>2, <1>4, <1>6
<1>10. ASSUME Agree(disk.files, profiles, unsaved)
       PROVE  /\ r.name = n /\ r.exe = profiles[n].exe
              /\ SameInfo(q, r) /\ (n \in unsaved \/ q.settings = r.settings)
  BY <1>4, <1>5, <1>7, <1>8, <1>10 DEF Agree, HasFile, Same, SameInfo
<1>11. disk' = Save(d, q, ok).disk
  BY <1>1, <1>4, <1>6
<1>12. Agree(disk.files, profiles, unsaved) =>
         /\ profiles'[n].name = n /\ profiles'[n].exe = profiles[n].exe
         /\ SameInfo(q, profiles'[n]) /\ (n \in unsaved' \/ q.settings = profiles'[n].settings)
  BY <1>2, <1>9, <1>10
<1>13. Writes(ok, FALSE) /\ unsaved' = unsaved
  BY <1>1, <1>2
<1>14. IsProfile(profiles'[n]) /\ IsProfile(q) /\ IsDisk(d) /\ d.files = disk.files
  BY <1>5, <1>7, <1>8, <1>9
<1> QED
  BY <1>9, <1>11, <1>12, <1>13, <1>14, RewriteStep

LEMMA SaveSettingsIInv ==
  ASSUME IInv, NEW n \in DOMAIN profiles, SaveSettings(n)
  PROVE  IInv'
<1>1. PICK ok \in BOOLEAN :
        /\ Writes(ok, FALSE) /\ disk' = Save(disk, profiles[n], ok).disk
        /\ profiles' = [profiles EXCEPT ![n] = Save(disk, profiles[n], ok).p]
  BY DEF SaveSettings
<1>2. unsaved' = unsaved \ {n}
  BY DEF SaveSettings
<1>3. IsDisk(disk) /\ \A m \in DOMAIN profiles : IsProfile(profiles[m])
  BY DEF IInv, TypeInv
<1>4. PICK p, r : p = profiles[n] /\ r = Save(disk, p, ok).p
  OBVIOUS
<1>5. IsProfile(p) /\ IsProfile(r) /\ Same(r, p)
  BY <1>3, <1>4, SaveFacts
<1>6. /\ DOMAIN profiles' = DOMAIN profiles /\ profiles'[n] = r
      /\ \A m \in DOMAIN profiles \ {n} : profiles'[m] = profiles[m]
  BY <1>1, <1>4
<1>7. ASSUME Agree(disk.files, profiles, unsaved)
      PROVE  r.name = n /\ r.exe = p.exe /\ SameInfo(p, r) /\ p.settings = r.settings
  BY <1>4, <1>5, <1>7 DEF Agree, HasFile, Same, SameInfo
<1>8. disk' = Save(disk, p, ok).disk /\ Writes(ok, FALSE)
  BY <1>1, <1>4
<1>9. Agree(disk.files, profiles, unsaved) =>
        /\ profiles'[n].name = n /\ profiles'[n].exe = profiles[n].exe
        /\ SameInfo(p, profiles'[n]) /\ (n \in unsaved' \/ p.settings = profiles'[n].settings)
  BY <1>4, <1>6, <1>7
<1>10. IsProfile(profiles'[n]) /\ \A m \in DOMAIN profiles \ {n} : m \in unsaved => m \in unsaved'
  BY <1>2, <1>5, <1>6
<1> QED
  BY <1>3, <1>5, <1>6, <1>8, <1>9, <1>10, RewriteStep

LEMMA EditIInv ==
  ASSUME IInv, NEW n \in DOMAIN profiles, NEW settings, Edit(n, settings)
  PROVE  IInv'
<1>1. /\ profiles' = [profiles EXCEPT ![n].settings = settings] /\ unsaved' = unsaved \cup {n}
      /\ UNCHANGED <<disk, spoiled, shared, faults>>
  BY DEF Edit
<1>2. IsDisk(disk) /\ FilesOK(disk.files) /\ \A m \in DOMAIN profiles : IsProfile(profiles[m])
  BY DEF IInv, TypeInv
<1>3. PICK r : r = [profiles[n] EXCEPT !.settings = settings]
  OBVIOUS
<1>4. IsProfile(r) /\ SameInfo(r, profiles[n])
  BY <1>2, <1>3 DEF IsProfile, SameInfo
<1>5. PICK qs, marks : qs = profiles' /\ marks = unsaved'
  OBVIOUS
<1>6. DOMAIN qs = DOMAIN profiles /\ qs[n] = r /\ \A m \in DOMAIN profiles \ {n} : qs[m] = profiles[m]
  BY <1>1, <1>3, <1>5
<1>7. \A m \in DOMAIN qs : IsProfile(qs[m]) /\ SameInfo(qs[m], profiles[m])
  BY <1>2, <1>4, <1>6 DEF SameInfo
<1>8. ASSUME Agree(disk.files, profiles, unsaved)
      PROVE  Agree(disk.files, qs, marks) /\ (Complete(disk.files, profiles) => Complete(disk.files, qs))
  <2>1. \A m \in DOMAIN profiles : m \in marks \/ disk.files[FileOf(profiles[m])].settings = qs[m].settings
    BY <1>1, <1>5, <1>6, <1>8 DEF Agree, HasFile
  <2> QED
    BY <1>6, <1>7, <1>8, <2>1, KeepStep
<1> QED
  BY <1>1, <1>2, <1>5, <1>7, <1>8, KeptIInv

LEMMA RestoreIInv ==
  ASSUME IInv, NEW n \in DOMAIN profiles, Restore(n)
  PROVE  IInv'
<1>1. /\ disk' = Load(disk, profiles[n]).disk /\ profiles' = [profiles EXCEPT ![n] = Load(disk, profiles[n]).p]
      /\ unsaved' = unsaved \ {n} /\ UNCHANGED <<spoiled, shared, faults>>
  BY DEF Restore
<1>2. IsDisk(disk) /\ FilesOK(disk.files) /\ \A m \in DOMAIN profiles : IsProfile(profiles[m])
  BY DEF IInv, TypeInv
<1>3. PICK p, r : p = profiles[n] /\ r = Load(disk, p).p
  OBVIOUS
<1>4. /\ IsProfile(p) /\ IsProfile(r) /\ IsDisk(disk') /\ disk'.files = disk.files
      /\ FileOf(p) \in DOMAIN disk.files => Same(r, disk.files[FileOf(p)])
  BY <1>1, <1>2, <1>3, LoadFacts
<1>5. PICK qs, marks : qs = profiles' /\ marks = unsaved'
  OBVIOUS
<1>6. DOMAIN qs = DOMAIN profiles /\ qs[n] = r /\ \A m \in DOMAIN profiles \ {n} : qs[m] = profiles[m]
  BY <1>1, <1>3, <1>5
<1>7. \A m \in DOMAIN qs : IsProfile(qs[m])
  BY <1>2, <1>4, <1>6
<1>8. ASSUME Agree(disk.files, profiles, unsaved)
      PROVE  Agree(disk.files, qs, marks) /\ (Complete(disk.files, profiles) => Complete(disk.files, qs))
  <2>1. HasFile(disk.files, n, p, n \in unsaved)
    BY <1>3, <1>8 DEF Agree
  <2>2. SameInfo(r, p) /\ disk.files[FileOf(p)].settings = r.settings
    BY <1>4, <2>1 DEF HasFile, Same, SameInfo
  <2>3. \A m \in DOMAIN profiles : SameInfo(qs[m], profiles[m])
    BY <1>3, <1>6, <2>2 DEF SameInfo
  <2>4. \A m \in DOMAIN profiles : m \in marks \/ disk.files[FileOf(profiles[m])].settings = qs[m].settings
    BY <1>1, <1>3, <1>5, <1>6, <1>8, <2>2 DEF Agree, HasFile
  <2> QED
    BY <1>6, <1>8, <2>3, <2>4, KeepStep
<1> QED
  BY <1>1, <1>2, <1>4, <1>5, <1>7, <1>8, KeptIInv

LEMMA ExportIInv ==
  ASSUME IInv, NEW n \in DOMAIN profiles, Export(n)
  PROVE  IInv'
<1>1. /\ disk' = [disk EXCEPT !.parsed = profiles[n].icon]
      /\ UNCHANGED <<profiles, unsaved, spoiled, shared, faults>>
  BY DEF Export
<1>2. IsDisk(disk) /\ FilesOK(disk.files) /\ \A m \in DOMAIN profiles : IsProfile(profiles[m])
  BY DEF IInv, TypeInv
<1>3. IsDisk(disk') /\ disk'.files = disk.files
  BY <1>1, <1>2 DEF IsDisk
<1> QED
  BY <1>1, <1>2, <1>3, KeptIInv

(* The profiles qs, after n became q.                                      *)
EachOf(qs, n, q) ==
  \A m \in DOMAIN qs : qs[m] = q \/ (m \in DOMAIN profiles \ {n} /\ qs[m] = profiles[m])

Replaced(qs, n, q) ==
  /\ DOMAIN qs = (DOMAIN profiles \ {n}) \cup {q.name} /\ qs[q.name] = q
  /\ \A m \in DOMAIN profiles \ {n} : qs[m] = profiles[m]

LEMMA RenamedTable ==
  ASSUME NEW n \in DOMAIN profiles, NEW q, NEW qs, qs = Renamed(n, q)
  PROVE  EachOf(qs, n, q) /\ (q.name \notin DOMAIN profiles \ {n} => Replaced(qs, n, q))
<1>1. PICK others, h : others = Without(profiles, n) /\ h = q.name
  OBVIOUS
<1>2. DOMAIN others = DOMAIN profiles \ {n} /\ \A m \in DOMAIN profiles \ {n} : others[m] = profiles[m]
  BY <1>1, WithoutTable
<1>3. qs = IF h \in DOMAIN others THEN others ELSE Put(others, h, q)
  BY <1>1 DEF Renamed
<1>4. CASE h \in DOMAIN others
  <2>1. qs = others
    BY <1>3, <1>4
  <2> QED
    BY <1>1, <1>2, <1>4, <2>1 DEF EachOf
<1>5. CASE h \notin DOMAIN others
  <2>1. qs = Put(others, h, q)
    BY <1>3, <1>5
  <2>2. DOMAIN qs = DOMAIN others \cup {h} /\ qs[h] = q /\ \A m \in DOMAIN others : qs[m] = others[m]
    BY <1>5, <2>1 DEF Put
  <2>3. EachOf(qs, n, q)
    BY <1>2, <2>2 DEF EachOf
  <2>4. /\ DOMAIN qs = (DOMAIN profiles \ {n}) \cup {h}
        /\ \A m \in DOMAIN profiles \ {n} : qs[m] = profiles[m]
    BY <1>2, <2>2
  <2>5. Replaced(qs, n, q)
    BY <1>1, <2>2, <2>4 DEF Replaced
  <2> QED
    BY <2>3, <2>5
<1> QED
  BY <1>4, <1>5

(* What the dialog's changes make of the profile n.                        *)
LEMMA UpdatedFacts ==
  ASSUME IInv, NEW n \in DOMAIN profiles, NEW name \in Names, NEW exe \in Exes \cup {Manual}, NEW icon,
         EditInfo(n, name, exe, icon)
  PROVE  \E ok, over, new, p :
           /\ ok \in BOOLEAN /\ over \in BOOLEAN
           /\ IsProfile(new) /\ new.name = name /\ new.exe = exe
           /\ over = Shares(n, new) /\ Writes(ok, over)
           /\ disk' = Update(disk, profiles[n], new, ok).disk
           /\ IsProfile(p) /\ p.name = name /\ p.exe = exe /\ FileOf(p) = FileOf(new)
           /\ p.settings = profiles[n].settings /\ p.active = (profiles[n].active \/ exe = Manual)
           /\ profiles' = Renamed(n, p)
           /\ unsaved' = IF n \in unsaved /\ name # n THEN (unsaved \ {n}) \cup {name} ELSE unsaved
<1>1. PICK b : b = profiles[n]
  OBVIOUS
<1>2. PICK new : new = Edited(b, name, exe, icon)
  OBVIOUS
<1>3. UpdateInfo(n, new)
  BY <1>1, <1>2 DEF EditInfo
<1>4. IsProfile(b)
  BY <1>1 DEF IInv, TypeInv
<1>5. /\ IsProfile(new) /\ new.name = name /\ new.exe = exe
      /\ new.active = b.active /\ new.settings = b.settings
  BY <1>2, <1>4, EditedFacts
<1>6. PICK ok \in BOOLEAN :
        /\ Writes(ok, Shares(n, new))
        /\ disk' = Update(disk, b, new, ok).disk
        /\ profiles' = Renamed(n, [new EXCEPT !.icon = Update(disk, b, new, ok).icon,
                                              !.active = @ \/ new.exe = Manual])
  BY <1>1, <1>3 DEF UpdateInfo
<1>7. PICK p : p = [new EXCEPT !.icon = Update(disk, b, new, ok).icon, !.active = @ \/ new.exe = Manual]
  OBVIOUS
<1>8. IsProfile(p) /\ p.name = name /\ p.exe = exe /\ p.settings = b.settings
      /\ p.active = (b.active \/ exe = Manual)
  <2>1. PICK i, a : i = Update(disk, b, new, ok).icon /\ a = (b.active \/ exe = Manual)
    OBVIOUS
  <2>2. PICK r : r = [new EXCEPT !.icon = i]
    OBVIOUS
  <2>3. IsProfile(r) /\ r.name = name /\ r.exe = exe /\ r.settings = b.settings /\ r.active = b.active
    BY <1>5, <2>2 DEF IsProfile
  <2>4. PICK t : t = [r EXCEPT !.active = a]
    OBVIOUS
  <2>5. IsProfile(t) /\ t.name = name /\ t.exe = exe /\ t.settings = b.settings /\ t.active = a
    BY <2>3, <2>4 DEF IsProfile
  <2>6. p = t
    BY <1>5, <1>7, <2>1, <2>2, <2>3, <2>4
  <2> QED
    BY <2>1, <2>5, <2>6
<1>9. unsaved' = IF n \in unsaved /\ name # n THEN (unsaved \ {n}) \cup {name} ELSE unsaved
  BY <1>3, <1>5 DEF UpdateInfo
<1>10. PICK over \in BOOLEAN : over = Shares(n, new)
  BY DEF Shares
<1>11. FileOf(p) = FileOf(new)
  BY <1>5, <1>8, SameFile
<1>12. profiles' = Renamed(n, p) /\ Writes(ok, over)
  BY <1>6, <1>7, <1>10
<1> QED
  BY <1>1, <1>5, <1>6, <1>8, <1>9, <1>10, <1>11, <1>12

LEMMA UpdateInfoIInv ==
  ASSUME IInv, NEW n \in DOMAIN profiles, NEW name \in Names, NEW exe \in Exes \cup {Manual}, NEW icon,
         EditInfo(n, name, exe, icon)
  PROVE  IInv'
<1>1. PICK b : b = profiles[n]
  OBVIOUS
<1>2. PICK ok, over, new, p :
        /\ ok \in BOOLEAN /\ over \in BOOLEAN
        /\ IsProfile(new) /\ new.name = name /\ new.exe = exe
        /\ over = Shares(n, new) /\ Writes(ok, over)
        /\ disk' = Update(disk, b, new, ok).disk
        /\ IsProfile(p) /\ p.name = name /\ p.exe = exe /\ FileOf(p) = FileOf(new)
        /\ p.settings = b.settings /\ p.active = (b.active \/ exe = Manual)
        /\ profiles' = Renamed(n, p)
        /\ unsaved' = IF n \in unsaved /\ name # n THEN (unsaved \ {n}) \cup {name} ELSE unsaved
  BY <1>1, UpdatedFacts
<1>3. IsDisk(disk) /\ FilesOK(disk.files) /\ \A m \in DOMAIN profiles : IsProfile(profiles[m])
  BY DEF IInv, TypeInv
<1>4. PICK fs, qs, marks : fs = disk'.files /\ qs = profiles' /\ marks = unsaved'
  OBVIOUS
<1>5. /\ IsDisk(disk') /\ FilesOK(fs)
      /\ ok /\ FileOf(b) \in DOMAIN disk.files => MovedTo(disk.files, fs, b, new)
  <2>1. PICK u : u = Update(disk, b, new, ok).disk
    OBVIOUS
  <2>2. /\ IsDisk(u) /\ FilesOK(u.files)
        /\ ok /\ FileOf(b) \in DOMAIN disk.files => MovedTo(disk.files, u.files, b, new)
    BY <1>1, <1>2, <1>3, <2>1, UpdateFacts
  <2> QED
    BY <1>2, <1>4, <2>1, <2>2
<1>6. qs = Renamed(n, p)
  BY <1>2, <1>4
<1>7. \A m \in DOMAIN profiles' : IsProfile(profiles'[m])
  <2>1. EachOf(qs, n, p)
    BY <1>6, RenamedTable
  <2>2. IsProfile(p)
    BY <1>2
  <2> QED
    BY <1>3, <1>4, <2>1, <2>2 DEF EachOf
<1>8. ASSUME ok, ~over, Agree(disk.files, profiles, unsaved)
      PROVE  Agree(fs, qs, marks) /\ (Complete(disk.files, profiles) => Complete(fs, qs))
  <2>1. HasFile(disk.files, n, b, n \in unsaved)
    BY <1>1, <1>8 DEF Agree
  <2>2. FileOf(b) \in DOMAIN disk.files
    BY <2>1 DEF HasFile
  <2>3. PICK q : /\ OneMoved(disk.files, fs, b, q)
                 /\ q.name = new.name /\ q.exe = new.exe
                 /\ q.settings = disk.files[FileOf(b)].settings
                 /\ q.active = (disk.files[FileOf(b)].active \/ new.exe = Manual)
    BY <1>5, <1>8, <2>2 DEF MovedTo
  <2>4. SameInfo(q, p)
    BY <1>2, <2>1, <2>3 DEF SameInfo, HasFile
  <2>5. \A m \in DOMAIN profiles \ {n} : m # name /\ FileOf(profiles[m]) # FileOf(p)
    BY <1>2, <1>8 DEF Shares
  <2>6. name \in marks \/ q.settings = p.settings
    BY <1>2, <1>4, <2>1, <2>3 DEF HasFile
  <2>7. \A m \in DOMAIN profiles \ {n} : m \in unsaved => m \in marks
    BY <1>2, <1>4
  <2>8. OneMoved(disk.files, fs, profiles[n], q)
    BY <1>1, <2>3
  <2>9. p.name \notin DOMAIN profiles \ {n}
    BY <1>2, <2>5
  <2>10. /\ DOMAIN qs = (DOMAIN profiles \ {n}) \cup {p.name} /\ qs[p.name] = p
         /\ \A m \in DOMAIN profiles \ {n} : qs[m] = profiles[m]
    <3>1. Replaced(qs, n, p)
      BY <1>6, <2>9, RenamedTable
    <3> QED
      BY <3>1 DEF Replaced
  <2>11. /\ \A m \in DOMAIN profiles \ {n} : qs[m] = profiles[m] /\ FileOf(profiles[m]) # FileOf(p)
         /\ p.name \in marks \/ q.settings = p.settings
    BY <1>2, <2>5, <2>6, <2>10
  <2> QED
    BY <1>8, <2>4, <2>7, <2>8, <2>9, <2>10, <2>11, MoveStep
<1> QED
  BY <1>2, <1>4, <1>5, <1>7, <1>8, WroteIInv

(***************************************************************************)
(* Restarts and crashes                                                    *)
(***************************************************************************)

(* When nothing has gone wrong no two files are rivals.                    *)
LEMMA NoRivals ==
  ASSUME IInv, Agree(disk.files, profiles, unsaved), Complete(disk.files, profiles),
         NEW j \in DOMAIN disk.files, NEW k \in DOMAIN disk.files, j # k
  PROVE  ~Rival(disk.files[j], disk.files[k])
<1>1. PICK m, n \in DOMAIN profiles : FileOf(profiles[m]) = j /\ FileOf(profiles[n]) = k
  BY DEF Complete
<1>2. m # n
  BY <1>1
<1>3. disk.files[j].name = m /\ disk.files[k].name = n
  BY <1>1 DEF Agree, HasFile, SameInfo
<1>4. IsProfile(disk.files[j]) /\ IsProfile(disk.files[k])
      /\ FileOf(disk.files[j]) = j /\ FileOf(disk.files[k]) = k
  BY DEF IInv, TypeInv, FilesOK
<1> QED
  BY <1>2, <1>3, <1>4, OtherFile DEF Rival

LEMMA RestartIInv ==
  ASSUME IInv, Restart
  PROVE  IInv'
<1>1. Starts(disk) /\ UNCHANGED <<shared, faults>>
  BY DEF Restart
<1>2. IsDisk(disk) /\ FilesOK(disk.files) /\ faults \in Nat /\ shared \in BOOLEAN
  BY DEF IInv, TypeInv
<1>3. /\ IsDisk(disk') /\ disk'.files = disk.files
      /\ \A n \in DOMAIN profiles' : IsProfile(profiles'[n])
      /\ Agree(disk.files, profiles', {})
      /\ unsaved' = {} /\ spoiled' = FALSE
      /\ (\A j, k \in DOMAIN disk.files : j # k => ~Rival(disk.files[j], disk.files[k]))
           => Complete(disk.files, profiles')
  BY <1>1, <1>2, StartFacts
<1>4. TypeInv' /\ AgreeInv'
  BY <1>1, <1>2, <1>3 DEF TypeInv, AgreeInv
<1>5. CompleteInv'
  <2> SUFFICES ASSUME faults' = 0, ~shared' PROVE Complete(disk'.files, profiles')
    BY DEF CompleteInv
  <2>1. faults = 0 /\ ~shared /\ ~spoiled
    BY <1>1, <1>3 DEF IInv, TypeInv
  <2>2. Agree(disk.files, profiles, unsaved) /\ Complete(disk.files, profiles)
    BY <2>1 DEF IInv, AgreeInv, CompleteInv
  <2>3. \A j, k \in DOMAIN disk.files : j # k => ~Rival(disk.files[j], disk.files[k])
    BY <2>2, NoRivals
  <2> QED
    BY <1>3, <2>3
<1> QED
  BY <1>4, <1>5 DEF IInv

(* After a crash the files are some that are named after their profiles.   *)
LEMMA CrashIInv ==
  ASSUME IInv, Crashes, NEW d, IsDisk(d), FilesOK(d.files), Starts(d), shared' \in BOOLEAN
  PROVE  IInv'
<1>1. faults' \in Nat /\ faults' > 0
  BY DEF Crashes, IInv, TypeInv
<1>2. /\ IsDisk(disk') /\ disk'.files = d.files
      /\ \A n \in DOMAIN profiles' : IsProfile(profiles'[n])
      /\ Agree(d.files, profiles', {})
      /\ unsaved' = {} /\ spoiled' = FALSE
  BY StartFacts
<1>3. TypeInv'
  BY <1>1, <1>2 DEF TypeInv
<1>4. AgreeInv'
  BY <1>2 DEF AgreeInv
<1>5. CompleteInv'
  BY <1>1 DEF CompleteInv
<1> QED
  BY <1>3, <1>4, <1>5 DEF IInv

LEMMA CrashSavingIInv ==
  ASSUME IInv, NEW n \in DOMAIN profiles, CrashSaving(n)
  PROVE  IInv'
<1>1. IsDisk(disk) /\ FilesOK(disk.files)
  BY DEF IInv, TypeInv
<1>2. PICK d, k : d = Torn(disk, profiles[n]) /\ k = FileOf(profiles[n])
  OBVIOUS
<1>3. IsDisk(d) /\ d.files = Without(disk.files, k)
  BY <1>1, <1>2 DEF Torn, IsDisk
<1>4. OneRemoved(disk.files, d.files, k)
  <2>1. PICK files, fs : files = disk.files /\ fs = d.files
    OBVIOUS
  <2>2. fs = Without(files, k)
    BY <1>3, <2>1
  <2>3. DOMAIN fs = DOMAIN files \ {k} /\ \A j \in DOMAIN files \ {k} : fs[j] = files[j]
    BY <2>2, WithoutTable
  <2> QED
    BY <2>1, <2>3 DEF OneRemoved
<1>5. FilesOK(d.files)
  BY <1>1, <1>4, RemovedOK
<1>6. Crashes /\ Starts(d) /\ shared' \in BOOLEAN
  BY <1>2 DEF CrashSaving, IInv, TypeInv
<1> QED
  BY <1>3, <1>5, <1>6, CrashIInv

(* What the file with the new properties is written from.                  *)
LEMMA MovingFacts ==
  ASSUME IInv, NEW n \in DOMAIN profiles, NEW name \in Names, NEW exe \in Exes \cup {Manual}, NEW icon,
         CrashUpdating(n, name, exe, icon)
  PROVE  \E new, q, d :
           /\ Crashes /\ Starts(d) /\ IsDisk(d) /\ FilesOK(d.files)
           /\ OneWritten(disk.files, d.files, q)
           /\ shared' \in BOOLEAN /\ shared' = (shared \/ Shares(n, new))
           /\ FileOf(q) = FileOf(new)
           /\ q.settings = disk.files[FileOf(profiles[n])].settings
<1>1. IsDisk(disk) /\ FilesOK(disk.files) /\ IsProfile(profiles[n]) /\ shared \in BOOLEAN
  BY DEF IInv, TypeInv
<1>2. PICK p, e, f : p = profiles[n] /\ e = Load(disk, p).disk /\ f = Load(disk, p).p
  OBVIOUS
<1>3. PICK new : new = Edited(p, name, exe, icon)
  OBVIOUS
<1>4. PICK q : q = Moved(f, new)
  OBVIOUS
<1>5. /\ Crashes /\ Load(disk, p).ok /\ Starts(Save(e, q, TRUE).disk)
      /\ shared' = (shared \/ Shares(n, new))
  BY <1>2, <1>3, <1>4 DEF CrashUpdating
<1>6. /\ IsDisk(e) /\ e.files = disk.files
      /\ FileOf(p) \in DOMAIN disk.files /\ Same(f, disk.files[FileOf(p)])
  BY <1>1, <1>2, <1>5, LoadFacts
<1>7. IsProfile(new)
  BY <1>1, <1>2, <1>3, EditedFacts
<1>8. IsProfile(q) /\ FileOf(q) = FileOf(new) /\ q.settings = f.settings
  BY <1>4, <1>7, MovedProfile
<1>9. PICK d : d = Save(e, q, TRUE).disk
  OBVIOUS
<1>10. IsDisk(d) /\ OneWritten(disk.files, d.files, q)
  BY <1>6, <1>8, <1>9, SaveFacts
<1>11. FilesOK(d.files)
  BY <1>1, <1>10, WrittenOK
<1>12. q.settings = disk.files[FileOf(profiles[n])].settings
  BY <1>2, <1>6, <1>8 DEF Same
<1>13. shared' \in BOOLEAN
  BY <1>1, <1>5
<1> QED
  BY <1>5, <1>8, <1>9, <1>10, <1>11, <1>12, <1>13

LEMMA CrashUpdatingIInv ==
  ASSUME IInv, NEW n \in DOMAIN profiles, NEW name \in Names, NEW exe \in Exes \cup {Manual}, NEW icon,
         CrashUpdating(n, name, exe, icon)
  PROVE  IInv'
<1>1. PICK d : Crashes /\ Starts(d) /\ IsDisk(d) /\ FilesOK(d.files) /\ shared' \in BOOLEAN
  BY MovingFacts
<1> QED
  BY <1>1, CrashIInv

LEMMA NextIInv == IInv /\ [Next]_vars => IInv'
<1> SUFFICES ASSUME IInv, [Next]_vars PROVE IInv'
  OBVIOUS
<1>1. CASE UNCHANGED vars
  <2>1. profiles' = profiles /\ unsaved' = unsaved /\ disk' = disk /\ UNCHANGED <<spoiled, shared, faults>>
    BY <1>1 DEF vars
  <2> QED
    BY <2>1 DEF IInv, TypeInv, AgreeInv, CompleteInv
<1>2. ASSUME NEW n \in Names, NEW e \in Exes \cup {Manual}, NEW i \in Icons \cup {NoIcon}, Add(n, e, i)
      PROVE  IInv'
  BY <1>2, AddStep
<1>3. ASSUME NEW n \in DOMAIN profiles, InMemory(n) PROVE IInv'
  <2>1. CASE Remove(n)
    BY <2>1, RemoveIInv
  <2>2. CASE Restore(n)
    BY <2>2, RestoreIInv
  <2>3. CASE SaveSettings(n)
    BY <2>3, SaveSettingsIInv
  <2>4. CASE Export(n)
    BY <2>4, ExportIInv
  <2>5. CASE CrashSaving(n)
    BY <2>5, CrashSavingIInv
  <2>6. ASSUME NEW s \in Settings, Edit(n, s) PROVE IInv'
    BY <2>6, EditIInv
  <2>7. ASSUME NEW b \in BOOLEAN, Activate(n, b) PROVE IInv'
    BY <2>7, ActivateIInv
  <2>8. ASSUME NEW m \in Names, NEW e \in Exes \cup {Manual}, NEW i \in IconsFor(n),
               EditInfo(n, m, e, i) \/ Clone(m, e, i, n) \/ CrashUpdating(n, m, e, i)
        PROVE  IInv'
    BY <2>8, UpdateInfoIInv, CloneStep, CrashUpdatingIInv
  <2> QED
    BY <1>3, <2>1, <2>2, <2>3, <2>4, <2>5, <2>6, <2>7, <2>8 DEF InMemory
<1>4. CASE Restart
  BY <1>4, RestartIInv
<1> QED
  BY <1>1, <1>2, <1>3, <1>4 DEF Next

LEMMA SpecIInv == Spec => []IInv
<1>1. Init => IInv
  BY InitIInv
<1>2. IInv /\ [Next]_vars => IInv'
  BY NextIInv
<1> QED
  BY <1>1, <1>2, PTL DEF Spec

(***************************************************************************)
(* What the files promise                                                  *)
(***************************************************************************)

(* An edit that is not in the file of its profile is marked, whatever was  *)
(* renamed, restored, restarted or interrupted, unless since the start a   *)
(* write failed or a profile was given the name or the file of another: no *)
(* edit is lost without a warning (unsavedProfiles_).                      *)
THEOREM EditsAreMarked == Spec => []MarkedUnsaved
<1>1. ASSUME IInv PROVE MarkedUnsaved
  <2> SUFFICES ASSUME ~spoiled, NEW n \in DOMAIN profiles \ unsaved
               PROVE  /\ FileOf(profiles[n]) \in DOMAIN disk.files
                      /\ disk.files[FileOf(profiles[n])].settings = profiles[n].settings
    BY DEF MarkedUnsaved, Stored
  <2>1. HasFile(disk.files, n, profiles[n], n \in unsaved)
    BY <1>1 DEF IInv, AgreeInv, Agree
  <2> QED
    BY <2>1 DEF HasFile
<1> QED
  BY <1>1, SpecIInv, PTL

(* What a restart restores of a profile.                                   *)
Entry(p) == [name |-> p.name, exe |-> p.exe, active |-> p.active]

LEMMA Entries ==
  ASSUME NEW ps
  PROVE  Directory(ps) = {Entry(ps[x]) : x \in DOMAIN ps}
BY DEF Directory, Range, Entry

LEMMA SameEntry ==
  ASSUME NEW p, NEW q
  PROVE  Entry(p) = Entry(q) <=> SameInfo(p, q)
BY DEF Entry, SameInfo

(* Files are as many as the profiles in them when no two are of the same.  *)
LEMMA DirectorySize ==
  ASSUME NEW files, FilesOK(files)
  PROVE  Cardinality(Directory(files)) = Cardinality(DOMAIN files)
<1> DEFINE S == DOMAIN files
           T == Directory(files)
           f == [k \in S |-> Entry(files[k])]
<1>1. \A k \in S : Entry(files[k]) \in T
  BY Entries
<1>2. f \in [S -> T]
  BY <1>1
<1>3. ASSUME NEW j \in S, NEW k \in S, f[j] = f[k] PROVE j = k
  <2>1. SameInfo(files[j], files[k])
    BY <1>3, SameEntry
  <2> QED
    BY <2>1, SameFile DEF FilesOK, SameInfo
<1>4. \A t \in T : \E k \in S : f[k] = t
  BY Entries
<1>5. f \in Bijection(S, T)
  BY <1>2, <1>3, <1>4 DEF Bijection, Injection, Surjection, IsInjective
<1>6. IsFiniteSet(S) /\ ExistsBijection(S, T)
  BY <1>5 DEF FilesOK, ExistsBijection
<1> QED
  BY <1>6, FS_Bijection

(* While files can be written, a restart finds the profiles there are, and *)
(* no file of another one (ProfileStorage::update, save and remove).       *)
THEOREM RestartFindsProfiles == Spec => []RestartRestores
<1>1. ASSUME IInv PROVE RestartRestores
  <2> SUFFICES ASSUME faults = 0, ~shared
               PROVE  /\ Directory(profiles) = Directory(disk.files)
                      /\ Cardinality(Directory(disk.files)) = Cardinality(DOMAIN disk.files)
    BY DEF RestartRestores
  <2>1. PICK files, ps : files = disk.files /\ ps = profiles
    OBVIOUS
  <2>2. ~spoiled
    BY <1>1 DEF IInv, TypeInv
  <2>3. FilesOK(files) /\ Agree(files, ps, unsaved) /\ Complete(files, ps)
    BY <1>1, <2>1, <2>2 DEF IInv, TypeInv, AgreeInv, CompleteInv
  <2>4. \A n \in DOMAIN ps : FileOf(ps[n]) \in DOMAIN files /\ Entry(files[FileOf(ps[n])]) = Entry(ps[n])
    BY <2>3, SameEntry DEF Agree, HasFile
  <2>5. \A k \in DOMAIN files : \E n \in DOMAIN ps : Entry(files[k]) = Entry(ps[n])
    BY <2>3, <2>4 DEF Complete
  <2>6. {Entry(ps[n]) : n \in DOMAIN ps} = {Entry(files[k]) : k \in DOMAIN files}
    BY <2>4, <2>5
  <2>7. Directory(ps) = Directory(files)
    BY <2>6, Entries
  <2> QED
    BY <2>1, <2>3, <2>7, DirectorySize
<1> QED
  BY <1>1, SpecIInv, PTL

(* The settings of the file k are in a file still: in the same one, or in  *)
(* one to which its profile moved.                                         *)
StillThere(k) ==
  \E j \in DOMAIN disk'.files :
    /\ disk'.files[j].settings = Stored(k)
    /\ j = k \/ /\ \E n \in DOMAIN profiles : FileOf(profiles[n]) = k
                /\ \A n \in DOMAIN profiles' : FileOf(profiles'[n]) # k

(* As long as nothing went wrong each file is that of a profile.           *)
LEMMA Sound ==
  ASSUME IInv, faults = 0, ~shared
  PROVE  Agree(disk.files, profiles, unsaved) /\ Complete(disk.files, profiles)
BY DEF IInv, TypeInv, AgreeInv, CompleteInv

LEMMA SameFilesKept ==
  ASSUME disk'.files = disk.files, NEW k \in DOMAIN disk.files
  PROVE  StillThere(k)
BY DEF StillThere, Stored

LEMMA NewKeeps ==
  ASSUME IInv, faults = 0, ~shared', NEW p, IsProfile(p), p.name \notin DOMAIN profiles, New(p),
         NEW k \in DOMAIN disk.files
  PROVE  StillThere(k)
<1>1. PICK ok \in BOOLEAN : disk' = Save(disk, p, ok).disk
  BY DEF New
<1>2. ~shared /\ \A n \in DOMAIN profiles : FileOf(profiles[n]) # FileOf(p)
  BY DEF New, Writes, Shares
<1>3. IsDisk(disk)
  BY DEF IInv, TypeInv
<1>4. /\ ok => OneWritten(disk.files, disk'.files, p)
      /\ ~ok => disk'.files = disk.files
  BY <1>1, <1>3, SaveFacts
<1>5. k # FileOf(p)
  BY <1>2, Sound DEF Complete
<1> QED
  BY <1>4, <1>5 DEF OneWritten, StillThere, Stored

LEMMA ActivateKeeps ==
  ASSUME IInv, faults = 0, ~shared, NEW n \in DOMAIN profiles, NEW active, Activate(n, active),
         NEW k \in DOMAIN disk.files
  PROVE  StillThere(k)
<1>1. PICK p, d, f : p = profiles[n] /\ d = Load(disk, p).disk /\ f = Load(disk, p).p
  OBVIOUS
<1>2. PICK q : q = [f EXCEPT !.active = active]
  OBVIOUS
<1>3. PICK ok \in BOOLEAN : disk' = Save(d, q, ok).disk
  BY <1>1, <1>2 DEF Activate
<1>4. IsDisk(disk) /\ FilesOK(disk.files) /\ IsProfile(p)
  BY <1>1 DEF IInv, TypeInv
<1>5. FileOf(p) \in DOMAIN disk.files
  BY <1>1, Sound DEF Agree, HasFile
<1>6. IsDisk(d) /\ d.files = disk.files /\ IsProfile(f) /\ Same(f, disk.files[FileOf(p)])
  BY <1>1, <1>4, <1>5, LoadFacts
<1>7. IsProfile(q) /\ q.name = f.name /\ q.exe = f.exe /\ q.settings = f.settings
  BY <1>2, <1>6 DEF IsProfile
<1>8. FileOf(disk.files[FileOf(p)]) = FileOf(p)
  BY <1>4, <1>5 DEF FilesOK
<1>9. FileOf(q) = FileOf(p) /\ q.settings = Stored(FileOf(p))
  BY <1>6, <1>7, <1>8, SameFile DEF Same, SameInfo, Stored
<1>10. /\ ok => OneWritten(disk.files, disk'.files, q)
       /\ ~ok => disk'.files = disk.files
  BY <1>3, <1>6, <1>7, SaveFacts
<1> QED
  BY <1>9, <1>10 DEF OneWritten, Same, StillThere, Stored

(* Only the profile n has the file k.                                      *)
LEMMA OwnFile ==
  ASSUME IInv, faults = 0, ~shared, NEW n \in DOMAIN profiles, NEW p, ~Shares(n, p),
         NEW k \in DOMAIN disk.files, k = FileOf(p)
  PROVE  k = FileOf(profiles[n])
<1>1. PICK m \in DOMAIN profiles : FileOf(profiles[m]) = k
  BY Sound DEF Complete
<1> QED
  BY <1>1 DEF Shares

LEMMA UpdateInfoKeeps ==
  ASSUME IInv, faults = 0, ~shared', NEW n \in DOMAIN profiles,
         NEW name \in Names, NEW exe \in Exes \cup {Manual}, NEW icon,
         EditInfo(n, name, exe, icon), NEW k \in DOMAIN disk.files
  PROVE  StillThere(k)
<1>1. PICK b : b = profiles[n]
  OBVIOUS
<1>2. PICK ok, over, new, p :
        /\ ok \in BOOLEAN /\ over \in BOOLEAN
        /\ IsProfile(new) /\ new.name = name /\ new.exe = exe
        /\ over = Shares(n, new) /\ Writes(ok, over)
        /\ disk' = Update(disk, b, new, ok).disk
        /\ IsProfile(p) /\ p.name = name /\ p.exe = exe /\ FileOf(p) = FileOf(new)
        /\ profiles' = Renamed(n, p)
  BY <1>1, UpdatedFacts
<1>3. ~shared /\ ~Shares(n, new)
  BY <1>2 DEF Writes
<1>4. IsDisk(disk) /\ FilesOK(disk.files) /\ IsProfile(b)
  BY <1>1 DEF IInv, TypeInv
<1>5. Agree(disk.files, profiles, unsaved)
  BY <1>3, Sound
<1>6. FileOf(b) \in DOMAIN disk.files
  BY <1>1, <1>5 DEF Agree, HasFile
<1>7. PICK fs, qs : fs = disk'.files /\ qs = profiles'
  OBVIOUS
<1>8. /\ ~ok => fs = disk.files
      /\ ok => MovedTo(disk.files, fs, b, new)
  <2>1. PICK u : u = Update(disk, b, new, ok).disk
    OBVIOUS
  <2>2. /\ ~ok => u.files = disk.files
        /\ ok => MovedTo(disk.files, u.files, b, new)
    BY <1>2, <1>4, <1>6, <2>1, UpdateFacts
  <2> QED
    BY <1>2, <1>7, <2>1, <2>2
<1>9. CASE ~ok
  BY <1>7, <1>8, <1>9, SameFilesKept
<1>10. CASE ok /\ k = FileOf(new)
  <2>1. k = FileOf(b)
    BY <1>1, <1>3, <1>10, OwnFile
  <2>2. k \in DOMAIN fs /\ fs[k].settings = Stored(k)
    BY <1>8, <1>10, <2>1 DEF MovedTo, OneMoved, Same, Stored
  <2> QED
    BY <1>7, <2>2 DEF StillThere
<1>11. CASE ok /\ k # FileOf(new) /\ k # FileOf(b)
  <2>1. k \in DOMAIN fs /\ fs[k] = disk.files[k]
    BY <1>8, <1>11 DEF MovedTo, OneMoved
  <2> QED
    BY <1>7, <2>1 DEF StillThere, Stored
<1>12. CASE ok /\ k # FileOf(new) /\ k = FileOf(b)
  <2>1. FileOf(new) \in DOMAIN fs /\ fs[FileOf(new)].settings = Stored(k)
    BY <1>8, <1>12 DEF MovedTo, OneMoved, Same, Stored
  <2>2. qs = Renamed(n, p)
    BY <1>2, <1>7
  <2>3. ASSUME NEW m \in DOMAIN qs PROVE FileOf(qs[m]) # k
    <3>1. EachOf(qs, n, p)
      BY <2>2, RenamedTable
    <3>2. \A o \in DOMAIN profiles \ {n} : FileOf(profiles[o]) # FileOf(b)
      BY <1>1, <1>5 DEF Agree
    <3> QED
      BY <1>2, <1>12, <3>1, <3>2 DEF EachOf
  <2>4. FileOf(profiles[n]) = k
    BY <1>1, <1>12
  <2> QED
    BY <1>7, <2>1, <2>3, <2>4 DEF StillThere
<1> QED
  BY <1>9, <1>10, <1>11, <1>12

LEMMA CrashUpdatingKeeps ==
  ASSUME IInv, faults = 0, ~shared', NEW n \in DOMAIN profiles,
         NEW name \in Names, NEW exe \in Exes \cup {Manual}, NEW icon,
         CrashUpdating(n, name, exe, icon), NEW k \in DOMAIN disk.files
  PROVE  StillThere(k)
<1>1. PICK new, q, d : /\ Starts(d) /\ IsDisk(d) /\ FilesOK(d.files)
                       /\ OneWritten(disk.files, d.files, q)
                       /\ shared' = (shared \/ Shares(n, new))
                       /\ FileOf(q) = FileOf(new)
                       /\ q.settings = disk.files[FileOf(profiles[n])].settings
  BY MovingFacts
<1>2. disk'.files = d.files
  BY <1>1, StartFacts
<1>3. ~shared /\ ~Shares(n, new)
  BY <1>1
<1>4. CASE k = FileOf(new)
  <2>1. k = FileOf(profiles[n])
    BY <1>3, <1>4, OwnFile
  <2> QED
    BY <1>1, <1>2, <1>4, <2>1 DEF OneWritten, Same, StillThere, Stored
<1>5. CASE k # FileOf(new)
  BY <1>1, <1>2, <1>5 DEF OneWritten, StillThere, Stored
<1> QED
  BY <1>4, <1>5

LEMMA KeptStep ==
  ASSUME IInv, Next, faults = 0, ~shared', Keeping, NEW k \in DOMAIN disk.files
  PROVE  StillThere(k)
<1>1. ASSUME NEW n \in Names, NEW e \in Exes \cup {Manual}, NEW i \in Icons \cup {NoIcon}, Add(n, e, i)
      PROVE  StillThere(k)
  <2>1. PICK p : p = [name |-> n, exe |-> e, active |-> TRUE, settings |-> Default, icon |-> i]
    OBVIOUS
  <2>2. IsProfile(p) /\ p.name \notin DOMAIN profiles /\ New(p)
    BY <1>1, <2>1 DEF Add, IsProfile
  <2> QED
    BY <2>2, NewKeeps
<1>2. ASSUME NEW n \in DOMAIN profiles, InMemory(n) PROVE StillThere(k)
  <2>1. IsProfile(profiles[n]) /\ IsDisk(disk) /\ FilesOK(disk.files)
    BY DEF IInv, TypeInv
  <2>2. ASSUME NEW m \in Names, NEW e \in Exes \cup {Manual}, NEW i, Clone(m, e, i, n)
        PROVE  StillThere(k)
    <3>1. PICK p : IsProfile(p) /\ p.name \notin DOMAIN profiles /\ New(p)
      BY <2>1, <2>2, ClonedProfile
    <3> QED
      BY <3>1, NewKeeps
  <2>3. CASE Restore(n) \/ Export(n) \/ \E s \in Settings : Edit(n, s)
    <3>1. CASE Restore(n)
      <4>1. disk' = Load(disk, profiles[n]).disk
        BY <3>1 DEF Restore
      <4> QED
        BY <2>1, <4>1, LoadFacts, SameFilesKept
    <3>2. CASE Export(n)
      <4>1. disk'.files = disk.files
        BY <2>1, <3>2 DEF Export, IsDisk
      <4> QED
        BY <4>1, SameFilesKept
    <3>3. CASE \E s \in Settings : Edit(n, s)
      <4>1. disk' = disk
        BY <3>3 DEF Edit
      <4> QED
        BY <4>1, SameFilesKept
    <3> QED
      BY <2>3, <3>1, <3>2, <3>3
  <2>4. CASE \E b \in BOOLEAN : Activate(n, b)
    <3>1. ~shared
      BY <2>4 DEF Activate, Writes
    <3> QED
      BY <2>4, <3>1, ActivateKeeps
  <2>5. ASSUME NEW m \in Names, NEW e \in Exes \cup {Manual}, NEW i, EditInfo(n, m, e, i)
        PROVE  StillThere(k)
    BY <2>5, UpdateInfoKeeps
  <2>6. ASSUME NEW m \in Names, NEW e \in Exes \cup {Manual}, NEW i, CrashUpdating(n, m, e, i)
        PROVE  StillThere(k)
    BY <2>6, CrashUpdatingKeeps
  <2>7. ~SaveSettings(n) /\ ~Remove(n) /\ ~CrashSaving(n)
    BY DEF Keeping
  <2> QED
    BY <1>2, <2>2, <2>3, <2>4, <2>5, <2>6, <2>7 DEF InMemory
<1>3. CASE Restart
  <2>1. disk'.files = disk.files
    BY <1>3, StartFacts DEF Restart, IInv, TypeInv
  <2> QED
    BY <2>1, SameFilesKept
<1> QED
  BY <1>1, <1>2, <1>3 DEF Next

(* No operation but a save, a removal or a crash in the middle of a write  *)
(* changes or loses the settings of a file: not the change of a profile's  *)
(* active state or its other properties, not the first write that fails,   *)
(* nor the first crash while a file moves (activate, update).              *)
THEOREM SettingsAreKept == Spec => KeptOnDisk
<1>1. IInv /\ [Next]_vars =>
        [faults = 0 /\ ~shared' /\ Keeping => \A k \in DOMAIN disk.files :
           \E j \in DOMAIN disk'.files :
             /\ disk'.files[j].settings = Stored(k)
             /\ j = k \/ /\ \E n \in DOMAIN profiles : FileOf(profiles[n]) = k
                         /\ \A n \in DOMAIN profiles' : FileOf(profiles'[n]) # k]_vars
  BY KeptStep DEF StillThere
<1> QED
  BY <1>1, SpecIInv, PTL DEF Spec, KeptOnDisk
=============================================================================
