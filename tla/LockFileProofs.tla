--------------------------- MODULE LockFileProofs ---------------------------
(***************************************************************************)
(* Proofs about LockFile, for any callers, stripes, users and faults: its  *)
(* types, that a published lock inode stays, and that the lock files       *)
(* implement RootLock.  One inductive invariant carries all three: who     *)
(* publishes holds the lock on the root directory, and an opened lock file *)
(* is the one that its name still leads to.                                *)
(***************************************************************************)
EXTENDS LockFile, FiniteSetTheorems, TLAPS

Publishing == DirSteps \cup FileSteps

\* What each step of a caller relies on.
Good(p) ==
    /\ pc[p] \in Publishing <=> rootLock = p
    /\ pc[p] # "idle" => want[p] \in Stripes
    /\ pc[p] \in {"mkdir", "chdir", "rename"} => root.locks = None
    /\ pc[p] \in {"chdir", "rename"} => dir[p] \in Dirs /\ root.init = dir[p]
    /\ pc[p] \in {"syncroot"} \cup FileSteps => dir[p] \in Dirs /\ root.locks = dir[p]
    /\ pc[p] \in {"chown", "link"} => fd[p] \in Files /\ entry[dir[p]][want[p]].temp = fd[p]
    /\ pc[p] \in {"unlink", "syncdir"} => fd[p] \in Files /\ entry[dir[p]][want[p]].name = fd[p]
    /\ pc[p] \in {"flock", "held"} =>
          root.locks \in Dirs /\ fd[p] \in Files /\ entry[root.locks][want[p]].name = fd[p]
    /\ pc[p] = "held" => flock[fd[p]] = p

Inv == TypeOK /\ root \in rootDisk /\ \A p \in Callers : Good(p)

\* What is published stays.
Stays ==
    root.locks # None =>
        /\ root'.locks = root.locks
        /\ \A s \in Stripes : LET f == entry[root.locks][s].name IN
              f # None => entry'[root.locks][s].name = f

\* What a step of p leaves to the others.
Others(p) ==
    \A q \in Callers \ {p} : /\ pc'[q] = pc[q] /\ want'[q] = want[q]
                             /\ dir'[q] = dir[q] /\ fd'[q] = fd[q]
                             /\ rootLock' = q <=> rootLock = q
                             /\ \A f \in Files : flock[f] = q => flock'[f] = q

Frame(p) ==
    /\ Others(p)
    /\ pc[p] \in Publishing \/ UNCHANGED <<root, entry>>
    /\ root' \in rootDisk'
    /\ Stays

LEMMA StepFrame ==
    ASSUME Inv, TypeOK', NEW p \in Callers, Frame(p), Good(p)'
    PROVE  Inv'
<1> SUFFICES ASSUME NEW q \in Callers, q # p PROVE Good(q)'
  BY DEF Inv, Frame, Others
<1> USE DEF Inv, Frame, Others, Good, Publishing, DirSteps, FileSteps
<1>1. CASE pc[q] \in Publishing
  <2>1. pc[p] \notin Publishing
    BY <1>1
  <2> QED BY <1>1, <2>1
<1>2. CASE pc[q] \in {"flock", "held"}
  <2>1. root'.locks = root.locks /\ entry'[root.locks][want[q]].name = entry[root.locks][want[q]].name
    BY <1>2, UserAssumption DEF Stays
  <2> QED BY <1>2, <2>1 DEF TypeOK
<1>3. CASE pc[q] \in {"idle", "root"}
  BY <1>3
<1> QED BY <1>1, <1>2, <1>3 DEF TypeOK, Steps

-----------------------------------------------------------------------------
(***************************************************************************)
(* The file system's operations.                                           *)
(***************************************************************************)
LEMMA EntryType ==
    ASSUME NEW e \in Entry, NEW f \in Files \cup {None}
    PROVE  /\ [e EXCEPT !.temp = f] \in Entry /\ [e EXCEPT !.name = f] \in Entry
           /\ [e EXCEPT !.temp = f].name = e.name /\ [e EXCEPT !.temp = f].temp = f
           /\ [e EXCEPT !.name = f].name = f /\ [e EXCEPT !.name = f].temp = e.temp
BY DEF Entry

LEMMA SetEntryType ==
    ASSUME TypeOK, NEW d \in Dirs, NEW s \in Stripes, NEW e \in Entry, SetEntry(d, s, e)
    PROVE  /\ entry' \in [Dirs -> [Stripes -> Entry]]
           /\ dirDisk' \in [Dirs -> SUBSET [Stripes -> Entry]]
           /\ entry'[d][s] = e
           /\ \A c \in Dirs, t \in Stripes : c # d \/ t # s => entry'[c][t] = entry[c][t]
<1>1. [entry[d] EXCEPT ![s] = e] \in [Stripes -> Entry]
  BY DEF TypeOK
<1>2. entry' = [entry EXCEPT ![d] = [entry[d] EXCEPT ![s] = e]]
  BY DEF SetEntry
<1>3. dirDisk' = [dirDisk EXCEPT ![d] = dirDisk[d] \cup {[entry[d] EXCEPT ![s] = e]}]
  BY DEF SetEntry
<1>4. entry' \in [Dirs -> [Stripes -> Entry]]
  BY <1>1, <1>2 DEF TypeOK
<1>5. dirDisk' \in [Dirs -> SUBSET [Stripes -> Entry]]
  BY <1>1, <1>3 DEF TypeOK
<1>6. entry'[d][s] = e /\ \A c \in Dirs, t \in Stripes : c # d \/ t # s => entry'[c][t] = entry[c][t]
  BY <1>2 DEF TypeOK
<1> QED BY <1>4, <1>5, <1>6

\* A change to a temporary name.
LEMMA SetTemp ==
    ASSUME TypeOK, NEW d \in Dirs, NEW s \in Stripes, NEW f \in Files \cup {None},
           SetEntry(d, s, [entry[d][s] EXCEPT !.temp = f])
    PROVE  /\ entry' \in [Dirs -> [Stripes -> Entry]]
           /\ dirDisk' \in [Dirs -> SUBSET [Stripes -> Entry]]
           /\ entry'[d][s].temp = f
           /\ \A c \in Dirs, t \in Stripes : entry'[c][t].name = entry[c][t].name
<1>1. entry[d][s] \in Entry
  BY DEF TypeOK
<1>2. [entry[d][s] EXCEPT !.temp = f] \in Entry
  BY <1>1, EntryType
<1>3. [entry[d][s] EXCEPT !.temp = f].name = entry[d][s].name /\ [entry[d][s] EXCEPT !.temp = f].temp = f
  BY <1>1, EntryType
<1>4. /\ entry' \in [Dirs -> [Stripes -> Entry]]
      /\ dirDisk' \in [Dirs -> SUBSET [Stripes -> Entry]]
      /\ entry'[d][s] = [entry[d][s] EXCEPT !.temp = f]
      /\ \A c \in Dirs, t \in Stripes : c # d \/ t # s => entry'[c][t] = entry[c][t]
  BY <1>2, SetEntryType
<1>5. ASSUME NEW c \in Dirs, NEW t \in Stripes PROVE entry'[c][t].name = entry[c][t].name
  <2>1. CASE c = d /\ t = s
    BY <1>3, <1>4, <2>1
  <2>2. CASE c # d \/ t # s
    BY <1>4, <2>2
  <2> QED BY <2>1, <2>2
<1>6. entry'[d][s].temp = f
  BY <1>3, <1>4
<1> QED BY <1>4, <1>5, <1>6

LEMMA RootType ==
    ASSUME TypeOK, NEW r \in Root, SetRoot(r)
    PROVE  root' = r /\ root' \in Root /\ rootDisk' \subseteq Root /\ root' \in rootDisk'
BY DEF SetRoot, TypeOK

LEMMA InitType ==
    ASSUME TypeOK, NEW d \in Dirs \cup {None}
    PROVE  /\ [root EXCEPT !.init = d] \in Root
           /\ [root EXCEPT !.init = d].locks = root.locks /\ [root EXCEPT !.init = d].init = d
BY DEF TypeOK, Root

-----------------------------------------------------------------------------
(***************************************************************************)
(* The end of a call: by an answer, a failure or the death of the caller.  *)
(***************************************************************************)
LEMMA CleanupStep ==
    ASSUME Inv, NEW p \in Callers, Cleanup(p) \/ UNCHANGED fsVars
    PROVE  /\ root' \in Root /\ rootDisk' \subseteq Root /\ root' \in rootDisk'
           /\ entry' \in [Dirs -> [Stripes -> Entry]]
           /\ dirDisk' \in [Dirs -> SUBSET [Stripes -> Entry]]
           /\ uid' \in [Dirs \cup Files -> {Super, Owner}]
           /\ pc[p] \in Publishing \/ UNCHANGED <<root, entry>>
           /\ Stays
<1> USE DEF Inv
<1>1. CASE UNCHANGED fsVars
  BY <1>1 DEF fsVars, Stays, TypeOK
<1>2. CASE Cleanup(p) /\ pc[p] \in {"chdir", "rename", "syncroot"}
  <2> DEFINE d == IF root.init # None /\ entry[root.init] # Empty THEN root.init ELSE None
  <2>1. d \in Dirs \cup {None}
    BY DEF TypeOK, Root
  <2>2. SetRoot([root EXCEPT !.init = d]) /\ UNCHANGED <<entry, uid, dirDisk>>
    BY <1>2 DEF Cleanup
  <2> HIDE DEF d
  <2>3. root' \in Root /\ rootDisk' \subseteq Root /\ root' \in rootDisk' /\ root'.locks = root.locks
    BY <2>1, <2>2, RootType, InitType
  <2> QED BY <1>2, <2>2, <2>3 DEF Stays, TypeOK, Publishing, DirSteps
<1>3. CASE Cleanup(p) /\ pc[p] \in {"chown", "link", "unlink", "syncdir"}
  <2>1. dir[p] \in Dirs /\ want[p] \in Stripes
    BY <1>3 DEF Good, FileSteps
  <2>2. /\ SetEntry(dir[p], want[p], [entry[dir[p]][want[p]] EXCEPT !.temp = None])
        /\ UNCHANGED <<root, uid, rootDisk>>
    BY <1>3 DEF Cleanup
  <2>3. /\ entry' \in [Dirs -> [Stripes -> Entry]] /\ dirDisk' \in [Dirs -> SUBSET [Stripes -> Entry]]
        /\ \A c \in Dirs, t \in Stripes : entry'[c][t].name = entry[c][t].name
    BY <2>1, <2>2, SetTemp
  <2>4. root.locks # None => root.locks \in Dirs
    BY DEF TypeOK, Root
  <2> QED BY <1>3, <2>2, <2>3, <2>4 DEF Stays, TypeOK, Publishing, FileSteps
<1>4. CASE Cleanup(p) /\ pc[p] \notin {"chdir", "rename", "syncroot", "chown", "link", "unlink", "syncdir"}
  BY <1>1, <1>4 DEF Cleanup
<1> QED BY <1>1, <1>2, <1>3, <1>4

LEMMA EndStep ==
    ASSUME Inv, NEW p \in Callers, CloseAll(p), pc' = [pc EXCEPT ![p] = "idle"],
           Cleanup(p) \/ UNCHANGED fsVars,
           result' \in [Callers -> Results], faults' \in 0..MaxFaults, unsynced' \in BOOLEAN
    PROVE  Inv' /\ Stays
<1>1. TypeOK'
  BY CleanupStep DEF Inv, TypeOK, CloseAll, Steps
<1>2. Frame(p)
  <2>1. Others(p)
    BY UserAssumption DEF Inv, TypeOK, CloseAll, Others
  <2>2. (pc[p] \in Publishing \/ UNCHANGED <<root, entry>>) /\ root' \in rootDisk' /\ Stays
    BY CleanupStep
  <2> QED BY <2>1, <2>2 DEF Frame
<1>3. Good(p)'
  BY UserAssumption DEF Inv, TypeOK, CloseAll, Good, Publishing, DirSteps, FileSteps
<1>4. Stays
  BY CleanupStep
<1> QED BY <1>1, <1>2, <1>3, <1>4, StepFrame

LEMMA RefusalType == \A p : Refusal(p) \in Results
BY DEF Refusal, Results

LEMMA Ends ==
    ASSUME Inv, NEW p \in Callers,
           Close(p) \/ Busy(p) \/ Cancel(p) \/ Refuse(p) \/ Fail(p) \/ Die(p)
    PROVE  Inv' /\ Stays
<1>1. ASSUME NEW res \in Results, Return(p, res), Cleanup(p) \/ UNCHANGED fsVars
      PROVE  Inv' /\ Stays
  BY <1>1, EndStep DEF Return, Inv, TypeOK
<1>2. CASE Close(p) \/ Busy(p) \/ Cancel(p)
  BY <1>1, <1>2 DEF Close, Busy, Cancel, Results
<1>3. CASE Refuse(p)
  BY <1>1, <1>3, RefusalType DEF Refuse
<1>4. CASE Fail(p)
  <2>1. result' \in [Callers -> Results] /\ faults' \in 0..MaxFaults /\ unsynced' \in BOOLEAN
    BY <1>4, UserAssumption DEF Fail, Inv, TypeOK, Results
  <2> QED BY <1>4, <2>1, EndStep DEF Fail
<1>5. CASE Die(p)
  <2>1. result' \in [Callers -> Results] /\ faults' \in 0..MaxFaults /\ unsynced' \in BOOLEAN
    BY <1>5, UserAssumption DEF Die, Inv, TypeOK, Results
  <2> QED BY <1>5, <2>1, EndStep DEF Die
<1> QED BY <1>2, <1>3, <1>4, <1>5

-----------------------------------------------------------------------------
(***************************************************************************)
(* The steps of openLock under the lock on the root directory, and around. *)
(***************************************************************************)

LEMMA CallStep ==
    ASSUME Inv, NEW p \in Callers, NEW s \in Stripes, Call(p, s)
    PROVE  Inv' /\ Stays
<1> USE DEF Call, Step, fsVars
<1>1. TypeOK'
  BY DEF Inv, TypeOK, Steps
<1>2. Frame(p) /\ Stays
  BY DEF Inv, TypeOK, Frame, Others, Stays
<1>3. Good(p)'
  BY DEF Inv, TypeOK, Good, Publishing, DirSteps, FileSteps
<1> QED BY <1>1, <1>2, <1>3, StepFrame

LEMMA LockRootStep ==
    ASSUME Inv, NEW p \in Callers, LockRoot(p)
    PROVE  Inv' /\ Stays
<1> USE DEF LockRoot, Step, fsVars
<1>1. TypeOK'
  BY DEF Inv, TypeOK, Steps, DirSteps
<1>2. Frame(p) /\ Stays
  BY UserAssumption DEF Inv, TypeOK, Frame, Others, Stays
<1>3. Good(p)'
  BY DEF Inv, TypeOK, Good, Publishing, DirSteps, FileSteps
<1> QED BY <1>1, <1>2, <1>3, StepFrame

LEMMA OpenDirStep ==
    ASSUME Inv, NEW p \in Callers, OpenDir(p)
    PROVE  Inv' /\ Stays
<1> USE DEF OpenDir, Step
<1>1. root.locks \in Dirs \cup {None}
  BY DEF Inv, TypeOK, Root
<1>2. TypeOK'
  BY <1>1 DEF Inv, TypeOK, Steps, DirSteps, FileSteps
<1>3. Frame(p) /\ Stays
  BY DEF Inv, TypeOK, Frame, Others, Stays, Publishing, DirSteps
<1>4. Good(p)'
  BY <1>1 DEF Inv, TypeOK, Good, Publishing, DirSteps, FileSteps
<1> QED BY <1>2, <1>3, <1>4, StepFrame

LEMMA MkdirStep ==
    ASSUME Inv, NEW p \in Callers, Mkdir(p)
    PROVE  Inv' /\ Stays
<1>1. PICK d \in UnusedDirs :
          /\ SetRoot([root EXCEPT !.init = d])
          /\ entry' = [entry EXCEPT ![d] = Empty]
          /\ dirDisk' = [dirDisk EXCEPT ![d] = {Empty}]
          /\ uid' = [uid EXCEPT ![d] = User[p]]
          /\ dir' = [dir EXCEPT ![p] = d]
  BY DEF Mkdir
<1>2. /\ pc[p] = "mkdir" /\ pc' = [pc EXCEPT ![p] = "chdir"]
      /\ UNCHANGED <<rootLock, flock, want, fd, result, faults, unsynced>>
  BY DEF Mkdir, Step
<1>3. d \in Dirs /\ root.locks # d
  BY <1>1 DEF UnusedDirs, Inv
<1>4. /\ root' \in Root /\ rootDisk' \subseteq Root /\ root' \in rootDisk'
      /\ root'.init = d /\ root'.locks = root.locks
  BY <1>1, <1>3, RootType, InitType DEF Inv
<1>5. Empty \in [Stripes -> Entry]
  BY DEF Empty, NoFile, Entry
<1>6. User[p] \in {Super, Owner}
  BY UserAssumption
<1>7. TypeOK'
  BY <1>1, <1>2, <1>3, <1>4, <1>5, <1>6 DEF Inv, TypeOK, Steps, DirSteps
<1>8. Frame(p) /\ Stays
  BY <1>1, <1>2, <1>3, <1>4 DEF Inv, TypeOK, Frame, Others, Stays, Publishing, DirSteps
<1>9. Good(p)'
  BY <1>1, <1>2, <1>3, <1>4 DEF Inv, TypeOK, Good, Publishing, DirSteps, FileSteps
<1> QED BY <1>7, <1>8, <1>9, StepFrame

LEMMA InheritDirStep ==
    ASSUME Inv, NEW p \in Callers, InheritDir(p)
    PROVE  Inv' /\ Stays
<1> USE DEF InheritDir, Step
<1>1. TypeOK'
  BY DEF Inv, TypeOK, Steps, DirSteps
<1>2. Frame(p) /\ Stays
  BY DEF Inv, TypeOK, Frame, Others, Stays, Publishing, DirSteps
<1>3. Good(p)'
  BY DEF Inv, TypeOK, Good, Publishing, DirSteps, FileSteps
<1> QED BY <1>1, <1>2, <1>3, StepFrame

LEMMA RenameDirStep ==
    ASSUME Inv, NEW p \in Callers, RenameDir(p)
    PROVE  Inv' /\ Stays
<1> USE DEF RenameDir, Step
<1>1. dir[p] \in Dirs /\ root.init = dir[p] /\ root.locks = None /\ pc[p] \in Publishing
  BY DEF Inv, Good, Publishing, DirSteps
<1>2. [locks |-> root.init, init |-> None] \in Root
  BY <1>1 DEF Root
<1>3. /\ root' = [locks |-> dir[p], init |-> None] /\ root' \in Root
      /\ rootDisk' \subseteq Root /\ root' \in rootDisk'
  BY <1>1, <1>2, RootType DEF Inv
<1>4. TypeOK'
  BY <1>3 DEF Inv, TypeOK, Steps, DirSteps
<1>5. Frame(p) /\ Stays
  BY <1>1, <1>3 DEF Inv, TypeOK, Frame, Others, Stays
<1>6. Good(p)'
  BY <1>1, <1>3 DEF Inv, TypeOK, Good, Publishing, DirSteps, FileSteps
<1> QED BY <1>4, <1>5, <1>6, StepFrame

LEMMA SyncRootStep ==
    ASSUME Inv, NEW p \in Callers, SyncRoot(p)
    PROVE  Inv' /\ Stays
<1> USE DEF SyncRoot, Step
<1>1. TypeOK'
  BY DEF Inv, TypeOK, Steps, DirSteps, FileSteps
<1>2. Frame(p) /\ Stays
  BY DEF Inv, TypeOK, Frame, Others, Stays, Publishing, DirSteps
<1>3. Good(p)'
  BY DEF Inv, TypeOK, Good, Publishing, DirSteps, FileSteps
<1> QED BY <1>1, <1>2, <1>3, StepFrame

\* RemoveStale and UnlinkTemp take the temporary name away.
LEMMA UnlinkStep ==
    ASSUME Inv, NEW p \in Callers, RemoveStale(p) \/ UnlinkTemp(p)
    PROVE  Inv' /\ Stays
<1>1. /\ dir[p] \in Dirs /\ root.locks = dir[p] /\ want[p] \in Stripes
      /\ pc[p] \in Publishing
  BY DEF RemoveStale, UnlinkTemp, Step, Inv, Good, Publishing, FileSteps
<1>2. /\ SetEntry(dir[p], want[p], [entry[dir[p]][want[p]] EXCEPT !.temp = None])
      /\ UNCHANGED <<root, uid, rootDisk, rootLock, flock, want, dir, fd, result, faults, unsynced>>
  BY DEF RemoveStale, UnlinkTemp
<1>3. /\ entry' \in [Dirs -> [Stripes -> Entry]] /\ dirDisk' \in [Dirs -> SUBSET [Stripes -> Entry]]
      /\ \A c \in Dirs, t \in Stripes : entry'[c][t].name = entry[c][t].name
  BY <1>1, <1>2, SetTemp DEF Inv
<1>4. \/ pc[p] = "stale" /\ pc' = [pc EXCEPT ![p] = "open"]
      \/ pc[p] = "unlink" /\ pc' = [pc EXCEPT ![p] = "syncdir"]
  BY DEF RemoveStale, UnlinkTemp, Step
<1>5. TypeOK'
  BY <1>2, <1>3, <1>4 DEF Inv, TypeOK, Steps, FileSteps
<1>6. Frame(p) /\ Stays
  BY <1>1, <1>2, <1>3, <1>4 DEF Inv, TypeOK, Frame, Others, Stays
<1>7. Good(p)'
  BY <1>1, <1>2, <1>3, <1>4 DEF Inv, TypeOK, Good, Publishing, DirSteps, FileSteps
<1> QED BY <1>5, <1>6, <1>7, StepFrame

LEMMA OpenFileStep ==
    ASSUME Inv, NEW p \in Callers, OpenFile(p)
    PROVE  Inv' /\ Stays
<1> DEFINE f == entry[dir[p]][want[p]].name
<1>1. /\ dir[p] \in Dirs /\ root.locks = dir[p] /\ want[p] \in Stripes
      /\ pc[p] = "open" /\ pc[p] \in Publishing
  BY DEF OpenFile, Inv, Good, Publishing, FileSteps
<1>2. f \in Files \cup {None}
  BY <1>1 DEF Inv, TypeOK, Entry
<1>3. UNCHANGED <<root, entry, rootDisk, dirDisk, flock, want, result, faults, unsynced>>
  BY DEF OpenFile
<1>4. \/ f = None /\ pc' = [pc EXCEPT ![p] = "create"] /\ UNCHANGED <<uid, rootLock, dir, fd>>
      \/ /\ f # None /\ pc' = [pc EXCEPT ![p] = "flock"]
         /\ uid' = [uid EXCEPT ![f] = Owner] /\ fd' = [fd EXCEPT ![p] = f]
         /\ dir' = [dir EXCEPT ![p] = None] /\ rootLock' = Free
  BY DEF OpenFile, Step
<1>5. rootLock = p
  BY <1>1 DEF Inv, Good
<1> HIDE DEF f
<1>6. TypeOK'
  BY <1>2, <1>3, <1>4 DEF Inv, TypeOK, Steps, FileSteps
<1>7. Frame(p) /\ Stays
  BY <1>1, <1>3, <1>4, <1>5, UserAssumption DEF Inv, TypeOK, Frame, Others, Stays
<1>8. Good(p)'
  BY <1>1, <1>2, <1>3, <1>4, <1>5, UserAssumption DEF Inv, TypeOK, Good, Publishing, DirSteps, FileSteps, f
<1> QED BY <1>6, <1>7, <1>8, StepFrame

LEMMA CreateFileStep ==
    ASSUME Inv, NEW p \in Callers, CreateFile(p)
    PROVE  Inv' /\ Stays
<1>1. /\ dir[p] \in Dirs /\ root.locks = dir[p] /\ want[p] \in Stripes
      /\ pc[p] \in Publishing
  BY DEF CreateFile, Step, Inv, Good, Publishing, FileSteps
<1>2. PICK f \in UnusedFiles :
          /\ SetEntry(dir[p], want[p], [entry[dir[p]][want[p]] EXCEPT !.temp = f])
          /\ uid' = [uid EXCEPT ![f] = User[p]]
          /\ fd' = [fd EXCEPT ![p] = f]
  BY DEF CreateFile
<1>3. /\ pc[p] = "create" /\ pc' = [pc EXCEPT ![p] = "chown"]
      /\ UNCHANGED <<root, rootDisk, rootLock, flock, want, dir, result, faults, unsynced>>
  BY DEF CreateFile, Step
<1>4. f \in Files
  BY DEF UnusedFiles
<1>5. /\ entry' \in [Dirs -> [Stripes -> Entry]] /\ dirDisk' \in [Dirs -> SUBSET [Stripes -> Entry]]
      /\ entry'[dir[p]][want[p]].temp = f
      /\ \A c \in Dirs, t \in Stripes : entry'[c][t].name = entry[c][t].name
  BY <1>1, <1>2, <1>4, SetTemp DEF Inv
<1>6. User[p] \in {Super, Owner}
  BY UserAssumption
<1>7. TypeOK'
  BY <1>2, <1>3, <1>4, <1>5, <1>6 DEF Inv, TypeOK, Steps, FileSteps
<1>8. Frame(p) /\ Stays
  BY <1>1, <1>2, <1>3, <1>5 DEF Inv, TypeOK, Frame, Others, Stays
<1>9. Good(p)'
  BY <1>1, <1>2, <1>3, <1>4, <1>5 DEF Inv, TypeOK, Good, Publishing, DirSteps, FileSteps
<1> QED BY <1>7, <1>8, <1>9, StepFrame

LEMMA InheritFileStep ==
    ASSUME Inv, NEW p \in Callers, InheritFile(p)
    PROVE  Inv' /\ Stays
<1> USE DEF InheritFile, Step
<1>1. TypeOK'
  BY DEF Inv, TypeOK, Steps, FileSteps
<1>2. Frame(p) /\ Stays
  BY DEF Inv, TypeOK, Frame, Others, Stays, Publishing, FileSteps
<1>3. Good(p)'
  BY DEF Inv, TypeOK, Good, Publishing, DirSteps, FileSteps
<1> QED BY <1>1, <1>2, <1>3, StepFrame

LEMMA LinkFileStep ==
    ASSUME Inv, NEW p \in Callers, LinkFile(p)
    PROVE  Inv' /\ Stays
<1> DEFINE e == entry[dir[p]][want[p]]
<1>1. /\ dir[p] \in Dirs /\ root.locks = dir[p] /\ want[p] \in Stripes
      /\ pc[p] \in Publishing /\ fd[p] \in Files /\ e.temp = fd[p]
  BY DEF LinkFile, Step, Inv, Good, Publishing, FileSteps
<1>2. /\ pc[p] = "link" /\ pc' = [pc EXCEPT ![p] = "unlink"] /\ e.name = None
      /\ SetEntry(dir[p], want[p], [e EXCEPT !.name = e.temp])
      /\ UNCHANGED <<root, uid, rootDisk, rootLock, flock, want, dir, fd, result, faults, unsynced>>
  BY DEF LinkFile, Step
<1>3. e \in Entry
  BY <1>1 DEF Inv, TypeOK
<1>4. [e EXCEPT !.name = fd[p]] \in Entry /\ [e EXCEPT !.name = fd[p]].name = fd[p]
  BY <1>1, <1>3, EntryType
<1>5. SetEntry(dir[p], want[p], [e EXCEPT !.name = fd[p]])
  BY <1>1, <1>2
<1>6. /\ entry' \in [Dirs -> [Stripes -> Entry]] /\ dirDisk' \in [Dirs -> SUBSET [Stripes -> Entry]]
      /\ entry'[dir[p]][want[p]] = [e EXCEPT !.name = fd[p]]
      /\ \A c \in Dirs, t \in Stripes : c # dir[p] \/ t # want[p] => entry'[c][t] = entry[c][t]
  BY <1>1, <1>4, <1>5, SetEntryType DEF Inv
<1>7. entry'[dir[p]][want[p]].name = fd[p]
  BY <1>4, <1>6
<1>8. TypeOK'
  BY <1>2, <1>6 DEF Inv, TypeOK, Steps, FileSteps
<1>9. Stays
  <2> SUFFICES ASSUME NEW s \in Stripes, entry[dir[p]][s].name # None
               PROVE  entry'[dir[p]][s].name = entry[dir[p]][s].name
    BY <1>1, <1>2 DEF Stays
  <2>1. s # want[p]
    BY <1>2
  <2> QED BY <1>1, <1>6, <2>1
<1>10. Frame(p)
  BY <1>1, <1>2, <1>9 DEF Inv, TypeOK, Frame, Others
<1>11. Good(p)'
  BY <1>1, <1>2, <1>7 DEF Inv, TypeOK, Good, Publishing, DirSteps, FileSteps
<1> QED BY <1>8, <1>9, <1>10, <1>11, StepFrame

LEMMA SyncDirStep ==
    ASSUME Inv, NEW p \in Callers, SyncDir(p)
    PROVE  Inv' /\ Stays
<1> USE DEF SyncDir, Step
<1>1. /\ dir[p] \in Dirs /\ root.locks = dir[p] /\ want[p] \in Stripes /\ rootLock = p
      /\ pc[p] \in Publishing /\ fd[p] \in Files /\ entry[dir[p]][want[p]].name = fd[p]
  BY DEF Inv, Good, Publishing, FileSteps
<1>2. TypeOK'
  BY <1>1 DEF Inv, TypeOK, Steps
<1>3. Frame(p) /\ Stays
  BY <1>1, UserAssumption DEF Inv, TypeOK, Frame, Others, Stays
<1>4. Good(p)'
  BY <1>1, UserAssumption DEF Inv, TypeOK, Good, Publishing, DirSteps, FileSteps
<1> QED BY <1>2, <1>3, <1>4, StepFrame

LEMMA LockFlockStep ==
    ASSUME Inv, NEW p \in Callers, LockFlock(p)
    PROVE  Inv' /\ Stays
<1> USE DEF LockFlock, Step, fsVars
<1>1. fd[p] \in Files /\ flock[fd[p]] = Free
  BY DEF Inv, Good
<1>2. TypeOK'
  BY <1>1 DEF Inv, TypeOK, Steps, Results
<1>3. Frame(p) /\ Stays
  BY <1>1, UserAssumption DEF Inv, TypeOK, Frame, Others, Stays
<1>4. Good(p)'
  BY <1>1 DEF Inv, TypeOK, Good, Publishing, DirSteps, FileSteps
<1> QED BY <1>2, <1>3, <1>4, StepFrame

LEMMA PowerLossStep ==
    ASSUME Inv, PowerLoss
    PROVE  Inv'
<1> USE DEF PowerLoss
<1>1. root' \in Root /\ rootDisk' \subseteq Root
  BY DEF Inv, TypeOK
<1>2. \A d \in Dirs : entry'[d] \in [Stripes -> Entry]
  BY DEF Inv, TypeOK
<1>3. entry' \in [Dirs -> [Stripes -> Entry]]
  BY <1>2
<1>4. dirDisk' \in [Dirs -> SUBSET [Stripes -> Entry]]
  BY <1>2
<1>5. TypeOK'
  BY <1>1, <1>3, <1>4, UserAssumption DEF Inv, TypeOK, Steps, Results
<1>6. \A p \in Callers : Good(p)'
  BY UserAssumption DEF Good, Publishing, DirSteps, FileSteps
<1> QED BY <1>1, <1>5, <1>6 DEF Inv

-----------------------------------------------------------------------------
(***************************************************************************)
(* The invariant is inductive.                                             *)
(***************************************************************************)
LEMMA InitInv == Init => Inv
<1> SUFFICES ASSUME Init PROVE Inv
  OBVIOUS
<1>1. [locks |-> None, init |-> None] \in Root
  BY DEF Root
<1>2. Empty \in [Stripes -> Entry]
  BY DEF Empty, NoFile, Entry
<1>3. TypeOK
  <2>1. root \in Root /\ rootDisk \subseteq Root
    BY <1>1 DEF Init
  <2>2. entry \in [Dirs -> [Stripes -> Entry]] /\ dirDisk \in [Dirs -> SUBSET [Stripes -> Entry]]
    BY <1>2 DEF Init
  <2>3. uid \in [Dirs \cup Files -> {Super, Owner}]
    BY DEF Init
  <2>4. faults \in 0..MaxFaults
    BY UserAssumption DEF Init
  <2>5. unsynced \in BOOLEAN
    BY DEF Init
  <2>6. /\ rootLock \in Callers \cup {Free} /\ flock \in [Files -> Callers \cup {Free}]
        /\ pc \in [Callers -> Steps] /\ result \in [Callers -> Results]
    BY DEF Init, Steps, Results
  <2>7. /\ want \in [Callers -> Stripes \cup {None}]
        /\ dir \in [Callers -> Dirs \cup {None}] /\ fd \in [Callers -> Files \cup {None}]
    BY DEF Init
  <2> QED BY <2>1, <2>2, <2>3, <2>4, <2>5, <2>6, <2>7 DEF TypeOK
<1>4. \A p \in Callers : Good(p)
  BY UserAssumption DEF Init, Good, Publishing, DirSteps, FileSteps
<1> QED BY <1>3, <1>4 DEF Init, Inv

LEMMA OpenStepStep ==
    ASSUME Inv, NEW p \in Callers, OpenStep(p)
    PROVE  Inv' /\ Stays
<1>1. CASE LockRoot(p)
  BY <1>1, LockRootStep
<1>2. CASE OpenDir(p) \/ Mkdir(p) \/ InheritDir(p) \/ RenameDir(p) \/ SyncRoot(p)
  BY <1>2, OpenDirStep, MkdirStep, InheritDirStep, RenameDirStep, SyncRootStep
<1>3. CASE RemoveStale(p) \/ OpenFile(p) \/ CreateFile(p) \/ InheritFile(p)
  BY <1>3, UnlinkStep, OpenFileStep, CreateFileStep, InheritFileStep
<1>4. CASE LinkFile(p) \/ UnlinkTemp(p) \/ SyncDir(p)
  BY <1>4, LinkFileStep, UnlinkStep, SyncDirStep
<1>5. CASE Refuse(p)
  BY <1>5, Ends
<1> QED BY <1>1, <1>2, <1>3, <1>4, <1>5 DEF OpenStep

LEMMA Unchanged ==
    ASSUME Inv, UNCHANGED vars
    PROVE  Inv' /\ Stays
<1> USE DEF vars, fsVars, callVars
<1>1. TypeOK'
  BY DEF Inv, TypeOK
<1>2. root' \in rootDisk' /\ Stays
  BY DEF Inv, Stays
<1>3. ASSUME NEW p \in Callers PROVE Good(p)'
  BY DEF Inv, Good
<1> QED BY <1>1, <1>2, <1>3 DEF Inv

LEMMA NextInv ==
    ASSUME Inv, [Next]_vars
    PROVE  Inv' /\ (PowerLoss \/ Stays)
<1>1. ASSUME NEW p \in Callers, NEW s \in Stripes, Call(p, s)
      PROVE  Inv' /\ Stays
  BY <1>1, CallStep
<1>2. ASSUME NEW p \in Callers, OpenStep(p) \/ LockFlock(p)
      PROVE  Inv' /\ Stays
  BY <1>2, OpenStepStep, LockFlockStep
<1>3. ASSUME NEW p \in Callers, Close(p) \/ Busy(p) \/ Cancel(p) \/ Fail(p) \/ Die(p)
      PROVE  Inv' /\ Stays
  BY <1>3, Ends
<1>4. CASE PowerLoss
  BY <1>4, PowerLossStep
<1>5. CASE UNCHANGED vars
  BY <1>5, Unchanged
<1> QED BY <1>1, <1>2, <1>3, <1>4, <1>5 DEF Next

LEMMA InvCorrect == Spec => []Inv
<1>1. Inv /\ [Next]_vars => Inv'
  BY NextInv
<1> QED BY <1>1, InitInv, PTL DEF Spec

\* The state of openLock, lockDirectory and lockFile keeps its types.
THEOREM TypeCorrect == Spec => []TypeOK
<1>1. Inv => TypeOK
  BY DEF Inv
<1> QED BY <1>1, InvCorrect, PTL

\* The comment of lockFile, "Lock inodes must never be replaced": no step of
\* any caller, failing, dying or cleaning up, takes a published lock directory
\* or lock file away from its name.
THEOREM LockInodesStayCorrect == Spec => LockInodesStay
<1>1. Inv /\ [Next]_vars => PowerLoss \/ Stays
  BY NextInv
<1>2. Inv /\ [Next]_vars =>
        [ \/ PowerLoss
          \/ root.locks # None =>
                /\ root'.locks = root.locks
                /\ \A s \in Stripes : LET f == entry[root.locks][s].name IN
                      f # None => entry'[root.locks][s].name = f ]_vars
  BY <1>1 DEF Stays
<1> QED BY <1>2, InvCorrect, PTL DEF Spec, LockInodesStay

-----------------------------------------------------------------------------
(***************************************************************************)
(* The refinement of RootLock.                                             *)
(***************************************************************************)
Held == {<<p, want[p]>> : p \in {q \in Callers : pc[q] = "held"}}

\* Callers outside ps keep what they hold.
Keep(ps) ==
    \A q \in Callers \ ps : /\ pc'[q] = "held" <=> pc[q] = "held"
                            /\ pc[q] = "held" => want'[q] = want[q]

LEMMA KeepAll ==
    ASSUME Keep({})
    PROVE  Held' = Held
BY DEF Keep, Held

LEMMA Released ==
    ASSUME NEW ps \in SUBSET Callers, Keep(ps), \A q \in ps : pc'[q] # "held"
    PROVE  Lock!Next \/ Held' = Held
<1>1. Held' = {h \in Held : h[1] \notin ps}
  BY DEF Keep, Held
<1>2. CASE \E h \in Held : h[1] \in ps
  <2>1. Lock!Release(ps)
    BY <1>1, <1>2 DEF Lock!Release, Held
  <2> QED BY <2>1 DEF Lock!Next
<1>3. CASE ~\E h \in Held : h[1] \in ps
  BY <1>1, <1>3
<1> QED BY <1>2, <1>3

LEMMA Ended ==
    ASSUME TypeOK, NEW p \in Callers, CloseAll(p), pc' = [pc EXCEPT ![p] = "idle"]
    PROVE  Lock!Next \/ Held' = Held
<1>1. Keep({p}) /\ pc'[p] # "held"
  BY DEF Keep, CloseAll, TypeOK
<1> QED BY <1>1, Released

\* Two holders of a stripe would have the same file open, and flock gives it
\* to one of them.
LEMMA Acquired ==
    ASSUME Inv, NEW p \in Callers, LockFlock(p)
    PROVE  Lock!Next
<1>1. /\ pc[p] = "flock" /\ flock[fd[p]] = Free /\ want[p] \in Stripes
      /\ fd[p] = entry[root.locks][want[p]].name
  BY DEF LockFlock, Step, Inv, Good
<1>2. \A q \in Callers : pc[q] = "held" => want[q] # want[p]
  BY <1>1, UserAssumption DEF Inv, Good
<1>3. \A q \in Callers : <<q, want[p]>> \notin Held
  BY <1>2 DEF Held
<1>4. pc' = [pc EXCEPT ![p] = "held"] /\ want' = want
  BY DEF LockFlock, Step
<1>5. Held' = Held \cup {<<p, want[p]>>}
  BY <1>4 DEF Held, Inv, TypeOK
<1> QED BY <1>1, <1>3, <1>5 DEF Lock!Next, Lock!Acquire, Held

LEMMA Moved ==
    ASSUME TypeOK, NEW p \in Callers,
           pc[p] # "held", pc'[p] # "held",
           \A q \in Callers \ {p} : pc'[q] = pc[q] /\ want'[q] = want[q]
    PROVE  Held' = Held
<1>1. Keep({})
  BY DEF Keep
<1> QED BY <1>1, KeepAll

LEMMA StepRefines ==
    ASSUME Inv, NEW p \in Callers,
           \/ \E s \in Stripes : Call(p, s)
           \/ OpenStep(p) \/ LockFlock(p) \/ Close(p)
           \/ Busy(p) \/ Cancel(p) \/ Fail(p) \/ Die(p)
    PROVE  Lock!Next \/ Held' = Held
<1> TypeOK
  BY DEF Inv
<1>1. CASE LockFlock(p)
  BY <1>1, Acquired
<1>2. CASE Close(p) \/ Busy(p) \/ Cancel(p) \/ Fail(p) \/ Die(p) \/ Refuse(p)
  <2>1. CloseAll(p) /\ pc' = [pc EXCEPT ![p] = "idle"]
    BY <1>2 DEF Close, Busy, Cancel, Fail, Die, Refuse, Return
  <2> QED BY <2>1, Ended
<1>3. ASSUME NEW s \in Stripes, Call(p, s) PROVE Held' = Held
  BY <1>3, Moved DEF Call, Step, TypeOK
<1>4. CASE LockRoot(p) \/ OpenDir(p) \/ Mkdir(p) \/ InheritDir(p) \/ RenameDir(p) \/ SyncRoot(p)
  BY <1>4, Moved DEF LockRoot, OpenDir, Mkdir, InheritDir, RenameDir, SyncRoot, Step, TypeOK
<1>5. CASE RemoveStale(p) \/ OpenFile(p) \/ CreateFile(p) \/ InheritFile(p)
  BY <1>5, Moved DEF RemoveStale, OpenFile, CreateFile, InheritFile, Step, TypeOK
<1>6. CASE LinkFile(p) \/ UnlinkTemp(p) \/ SyncDir(p)
  BY <1>6, Moved DEF LinkFile, UnlinkTemp, SyncDir, Step, TypeOK
<1> QED BY <1>1, <1>2, <1>3, <1>4, <1>5, <1>6 DEF OpenStep

\* The lock that openLock and its callers make of lock files and flock is the
\* one GCRoots takes: one holder of a stripe, in any number of processes of
\* either user, with deaths, failures and power losses at every system call.
THEOREM ImplementsRootLockCorrect == Spec => ImplementsRootLock
<1>1. Init => Lock!Init
  BY DEF Init, Lock!Init
<1>2. Inv /\ [Next]_vars => [Lock!Next]_Held
  <2> SUFFICES ASSUME Inv, [Next]_vars PROVE Lock!Next \/ Held' = Held
    OBVIOUS
  <2>1. CASE PowerLoss
    <3>1. Keep(Callers) /\ \A q \in Callers : pc'[q] # "held"
      BY <2>1 DEF PowerLoss, Keep
    <3> QED BY <3>1, Released
  <2>2. CASE UNCHANGED vars
    BY <2>2 DEF vars, callVars, Held
  <2> QED BY <2>1, <2>2, StepRefines DEF Next
<1> QED BY <1>1, <1>2, InvCorrect, PTL DEF Spec, ImplementsRootLock, Lock!Spec, Held

-----------------------------------------------------------------------------
(***************************************************************************)
(* What is left behind on disk.  Every version of a lock directory that a  *)
(* power loss can bring back must be fit for the next caller, not only the *)
(* one that callers see now.                                               *)
(***************************************************************************)
Uses(e) == {e.name, e.temp} \ {None}

\* A version v of a lock directory, where o owns the inodes: what is published has
\* the right owner, and no file has two names in it but for its temporary one.
Sane(v, o) ==
    \A s \in Stripes :
        /\ v[s].name # None => o[v[s].name] = Owner /\ v[s].temp \in {None, v[s].name}
        /\ \A t \in Stripes \ {s} : Uses(v[s]) \cap Uses(v[t]) = {}

Versions == \A d \in Dirs : entry[d] \in dirDisk[d] /\ \A v \in dirDisk[d] : Sane(v, uid)

\* A directory whose creator has not renamed it is empty in every version.
Roots ==
    \A r \in rootDisk :
        /\ r.locks # None => uid[r.locks] = Owner /\ r.init = None
        /\ ~unsynced /\ r.init # None => dirDisk[r.init] = {Empty}

Synced ==
    ~unsynced /\ root.locks # None /\ (\A p \in Callers : pc[p] # "syncroot") =>
        rootDisk = {root}

Disk == Versions /\ Roots /\ Synced

\* What p has made sure of before it goes on.
Careful(p) ==
    /\ pc[p] \in {"open", "create"} => entry[dir[p]][want[p]].temp = None
    /\ pc[p] \in {"create", "chown", "link"} => entry[dir[p]][want[p]].name = None
    /\ pc[p] = "rename" => uid[dir[p]] = Owner
    /\ pc[p] = "link" => uid[fd[p]] = Owner

Harmless == Inv /\ Disk /\ (\A p \in Callers : Careful(p)) /\ LeftoversAreHarmless

LEMMA CarefulFrame ==
    ASSUME Harmless, NEW p \in Callers, Others(p), Careful(p)',
           pc[p] \in Publishing \/ UNCHANGED <<entry, uid>>
    PROVE  \A q \in Callers : Careful(q)'
<1> SUFFICES ASSUME NEW q \in Callers, q # p PROVE Careful(q)'
  OBVIOUS
<1>1. CASE pc[q] \in Publishing
  <2>1. pc[p] \notin Publishing
    BY <1>1 DEF Harmless, Inv, Good
  <2> QED BY <2>1 DEF Harmless, Careful, Others
<1>2. CASE pc[q] \notin Publishing
  BY <1>2 DEF Careful, Others, Publishing, DirSteps, FileSteps
<1> QED BY <1>1, <1>2

\* An answer that is harmless.
LEMMA AnswerHarmless ==
    ASSUME Harmless, NEW p \in Callers, NEW res \in Results \ {"access", "invalid"},
           result' = [result EXCEPT ![p] = res], res = "exists" => unsynced',
           unsynced => unsynced'
    PROVE  LeftoversAreHarmless'
BY DEF Harmless, Inv, TypeOK, LeftoversAreHarmless

\* The owners of inodes that are in use do not change to another user.
OwnersStay ==
    /\ \A d \in Dirs : \A v \in dirDisk[d] : \A s \in Stripes :
          v[s].name # None /\ uid[v[s].name] = Owner => uid'[v[s].name] = Owner
    /\ \A r \in rootDisk : r.locks # None /\ uid[r.locks] = Owner => uid'[r.locks] = Owner

LEMMA OwnersAre ==
    ASSUME TypeOK, \A x \in Dirs \cup Files : uid[x] = Owner => uid'[x] = Owner
    PROVE  OwnersStay
<1>1. \A d \in Dirs : \A v \in dirDisk[d] : \A s \in Stripes : v[s].name \in Files \cup {None}
  BY DEF TypeOK, Entry
<1>2. \A r \in rootDisk : r.locks \in Dirs \cup {None}
  BY DEF TypeOK, Root
<1> QED BY <1>1, <1>2 DEF OwnersStay

LEMMA SaneStays ==
    ASSUME Harmless, OwnersStay, NEW d \in Dirs, NEW v \in dirDisk[d]
    PROVE  Sane(v, uid')
<1>1. Sane(v, uid)
  BY DEF Harmless, Disk, Versions
<1> QED BY <1>1 DEF Sane, OwnersStay

LEMMA SaneSet ==
    ASSUME NEW v \in [Stripes -> Entry], NEW o, Sane(v, o), NEW s \in Stripes, NEW e \in Entry,
           e.name # None => o[e.name] = Owner /\ e.temp \in {None, e.name},
           \A t \in Stripes \ {s} : Uses(e) \cap Uses(v[t]) = {}
    PROVE  Sane([v EXCEPT ![s] = e], o)
<1> DEFINE w == [v EXCEPT ![s] = e]
<1>1. w[s] = e /\ \A t \in Stripes \ {s} : w[t] = v[t]
  OBVIOUS
<1> HIDE DEF w
<1>2. ASSUME NEW t \in Stripes, w[t].name # None
      PROVE  o[w[t].name] = Owner /\ w[t].temp \in {None, w[t].name}
  BY <1>1, <1>2 DEF Sane
<1>3. ASSUME NEW t \in Stripes, NEW u \in Stripes \ {t} PROVE Uses(w[t]) \cap Uses(w[u]) = {}
  <2>1. CASE t = s
    BY <1>1, <2>1
  <2>2. CASE u = s
    <3>1. Uses(e) \cap Uses(v[t]) = {}
      BY <2>2
    <3> QED BY <1>1, <2>2, <3>1
  <2>3. CASE t # s /\ u # s
    BY <1>1, <2>3 DEF Sane
  <2> QED BY <2>1, <2>2, <2>3
<1>4. Sane(w, o)
  BY <1>2, <1>3 DEF Sane
<1> QED BY <1>4 DEF w

\* The file system does not change, except that inodes go to their right owner.
LEMMA DiskStays ==
    ASSUME Harmless, UNCHANGED <<root, entry, rootDisk, dirDisk>>, OwnersStay,
           unsynced => unsynced',
           \A p \in Callers : pc[p] = "syncroot" => pc'[p] = "syncroot" \/ unsynced'
    PROVE  Disk'
<1>1. Versions'
  BY SaneStays DEF Harmless, Disk, Versions
<1>2. Roots'
  BY DEF Harmless, Disk, Roots, OwnersStay
<1>3. Synced'
  BY DEF Harmless, Disk, Synced
<1> QED BY <1>1, <1>2, <1>3 DEF Disk

\* An entry of the published lock directory changes.
LEMMA DiskSet ==
    ASSUME Harmless, NEW p \in Callers, pc[p] \in FileSteps, NEW e \in Entry,
           SetEntry(dir[p], want[p], e), UNCHANGED <<root, rootDisk>>, OwnersStay,
           unsynced => unsynced', pc'[p] # "syncroot",
           \A q \in Callers \ {p} : pc'[q] = pc[q],
           e.name # None => uid'[e.name] = Owner /\ e.temp \in {None, e.name},
           \A t \in Stripes \ {want[p]} : Uses(e) \cap Uses(entry[dir[p]][t]) = {}
    PROVE  Disk'
<1> DEFINE d == dir[p]
           w == [entry[d] EXCEPT ![want[p]] = e]
<1>1. /\ d \in Dirs /\ want[p] \in Stripes /\ root.locks = d /\ rootLock = p /\ TypeOK
      /\ root \in rootDisk
  BY DEF Harmless, Inv, Good, Publishing, FileSteps
<1>2. entry' = [entry EXCEPT ![d] = w] /\ dirDisk' = [dirDisk EXCEPT ![d] = dirDisk[d] \cup {w}]
  BY DEF SetEntry
<1>3. entry[d] \in dirDisk[d] /\ Sane(entry[d], uid')
  BY <1>1, SaneStays DEF Harmless, Disk, Versions
<1>4. Sane(w, uid')
  <2>1. entry[d] \in [Stripes -> Entry]
    BY <1>1 DEF TypeOK
  <2> QED BY <1>1, <1>3, <2>1, SaneSet
<1> HIDE DEF w
<1>5. /\ entry'[d] = w /\ dirDisk'[d] = dirDisk[d] \cup {w}
      /\ \A c \in Dirs \ {d} : entry'[c] = entry[c] /\ dirDisk'[c] = dirDisk[c]
  BY <1>1, <1>2 DEF TypeOK
<1>6. Versions'
  <2> SUFFICES ASSUME NEW c \in Dirs
               PROVE  entry'[c] \in dirDisk'[c] /\ \A v \in dirDisk'[c] : Sane(v, uid')
    BY DEF Versions
  <2>1. CASE c = d
    BY <1>1, <1>4, <1>5, <2>1, SaneStays
  <2>2. CASE c # d
    BY <1>5, <2>2, SaneStays DEF Harmless, Disk, Versions
  <2> QED BY <2>1, <2>2
<1>7. \A q \in Callers : pc[q] # "syncroot"
  BY <1>1 DEF Harmless, Inv, Good, Publishing, DirSteps, FileSteps
<1>8. ASSUME ~unsynced' PROVE rootDisk = {root} /\ root.init = None
  <2>1. d # None
    BY <1>1, UserAssumption
  <2> QED BY <1>1, <1>7, <1>8, <2>1 DEF Harmless, Disk, Synced, Roots
<1>9. Roots'
  BY <1>8 DEF Harmless, Disk, Roots, OwnersStay
<1>10. Synced'
  BY <1>8 DEF Synced
<1> QED BY <1>6, <1>9, <1>10 DEF Disk

\* The temporary entry of p's stripe is removed.
LEMMA TempGone ==
    ASSUME Harmless, NEW p \in Callers, pc[p] \in FileSteps, dir[p] \in Dirs, want[p] \in Stripes,
           SetEntry(dir[p], want[p], [entry[dir[p]][want[p]] EXCEPT !.temp = None]),
           UNCHANGED <<root, rootDisk, uid>>, unsynced => unsynced', pc'[p] # "syncroot",
           \A q \in Callers \ {p} : pc'[q] = pc[q]
    PROVE  Disk'
<1> DEFINE v == entry[dir[p]][want[p]]
           e == [entry[dir[p]][want[p]] EXCEPT !.temp = None]
<1>1. v \in Entry /\ Sane(entry[dir[p]], uid)
  BY DEF Harmless, Inv, TypeOK, Disk, Versions
<1>2. e \in Entry /\ e.name = v.name /\ e.temp = None
  BY <1>1, EntryType
<1>3. SetEntry(dir[p], want[p], e)
  OBVIOUS
<1>4. /\ e.name # None => uid'[e.name] = Owner /\ e.temp \in {None, e.name}
      /\ \A t \in Stripes \ {want[p]} : Uses(e) \cap Uses(entry[dir[p]][t]) = {}
  BY <1>1, <1>2 DEF Sane, Uses
<1> HIDE DEF e, v
<1> QED BY <1>2, <1>3, <1>4, DiskSet DEF OwnersStay
-----------------------------------------------------------------------------
(***************************************************************************)
(* No later call is refused.                                               *)
(***************************************************************************)
LEMMA LinkedOnce ==
    ASSUME Harmless, NEW d \in Dirs, NEW s \in Stripes, NEW f \in Files,
           \/ entry[d][s].name = f /\ entry[d][s].temp # f
           \/ entry[d][s].name # f /\ entry[d][s].temp = f
    PROVE  Links(d, f) = 1
<1>1. Sane(entry[d], uid) /\ f # None
  BY UserAssumption DEF Harmless, Disk, Versions
<1>2. \A t \in Stripes \ {s} : entry[d][t].name # f /\ entry[d][t].temp # f
  BY <1>1 DEF Sane, Uses
<1>3. CASE entry[d][s].name = f /\ entry[d][s].temp # f
  <2>1. {t \in Stripes : entry[d][t].name = f} = {s} /\ {t \in Stripes : entry[d][t].temp = f} = {}
    BY <1>2, <1>3
  <2>2. Cardinality({s}) = 1 /\ Cardinality({}) = 0
    BY FS_Singleton, FS_EmptySet
  <2>3. Links(d, f) = 1 + 0
    BY <2>1, <2>2, Zenon DEF Links
  <2> QED BY <2>3
<1>4. CASE entry[d][s].name # f /\ entry[d][s].temp = f
  <2>1. {t \in Stripes : entry[d][t].name = f} = {} /\ {t \in Stripes : entry[d][t].temp = f} = {s}
    BY <1>2, <1>4
  <2>2. Cardinality({s}) = 1 /\ Cardinality({}) = 0
    BY FS_Singleton, FS_EmptySet
  <2>3. Links(d, f) = 0 + 1
    BY <2>1, <2>2, Zenon DEF Links
  <2> QED BY <2>3
<1> QED BY <1>3, <1>4

LEMMA RefusalHarmless ==
    ASSUME Harmless, NEW p \in Callers, Refusal(p) # "none"
    PROVE  /\ Refusal(p) \notin {"access", "invalid"}
           /\ Refusal(p) = "exists" => unsynced
           /\ pc[p] # "syncroot"
<1> DEFINE e == entry[dir[p]][want[p]]
<1>1. TypeOK /\ Good(p) /\ Careful(p) /\ root \in rootDisk /\ None \notin Dirs \cup Files
  BY UserAssumption DEF Harmless, Inv
<1>2. ASSUME NEW x, uid[x] = Owner PROVE MayOpen(p, x)
  BY <1>2, UserAssumption DEF MayOpen
<1>3. root.locks # None => MayOpen(p, root.locks)
  BY <1>1, <1>2 DEF Harmless, Disk, Roots
<1>4. pc[p] \in FileSteps => dir[p] \in Dirs /\ want[p] \in Stripes /\ e \in Entry
  BY <1>1 DEF Good, TypeOK, FileSteps
<1>5. ASSUME pc[p] = "mkdir", root.init # None, entry[root.init] # Empty PROVE unsynced
  <2>1. root.init \in Dirs
    BY <1>1, <1>5 DEF TypeOK, Root
  <2> QED BY <1>1, <1>5, <2>1 DEF Harmless, Disk, Roots, Versions
<1>6. ASSUME pc[p] = "open", e.name # None PROVE MayOpen(p, e.name) /\ Links(dir[p], e.name) = 1
  <2>1. dir[p] \in Dirs /\ want[p] \in Stripes /\ e \in Entry /\ e.temp = None
    BY <1>1, <1>4, <1>6 DEF FileSteps, Careful
  <2>2. Sane(entry[dir[p]], uid)
    BY <2>1 DEF Harmless, Disk, Versions
  <2>3. uid[e.name] = Owner
    BY <1>6, <2>1, <2>2 DEF Sane
  <2>4. e.name \in Files
    BY <1>6, <2>1 DEF Entry
  <2> QED BY <1>2, <1>6, <2>1, <2>3, <2>4, LinkedOnce
<1>7. ASSUME pc[p] = "chown" PROVE Links(dir[p], fd[p]) = 1
  <2>1. dir[p] \in Dirs /\ want[p] \in Stripes /\ fd[p] \in Files /\ e.temp = fd[p] /\ e.name = None
    BY <1>1, <1>4, <1>7 DEF FileSteps, Careful, Good
  <2> QED BY <1>1, <2>1, LinkedOnce
<1>8. /\ pc[p] = "rename" => root.init # None /\ root.locks = None
      /\ pc[p] = "create" => e.temp = None
      /\ pc[p] = "link" => e.name = None
  BY <1>1 DEF Good, Careful
<1> HIDE DEF e
<1>9. \/ Refusal(p) = "none"
      \/ Refusal(p) = "io" /\ pc[p] \in {"rename", "link"}
      \/ Refusal(p) = "exists" /\ pc[p] = "mkdir" /\ unsynced
  BY <1>3, <1>5, <1>6, <1>7, <1>8 DEF Refusal, e
<1> QED BY <1>9

\* What the deferred functions, or their absence, leave on disk.
LEMMA CleanupHarmless ==
    ASSUME Harmless, NEW p \in Callers, Cleanup(p) \/ UNCHANGED fsVars,
           pc' = [pc EXCEPT ![p] = "idle"], unsynced => unsynced',
           pc[p] = "syncroot" => unsynced'
    PROVE  Disk'
<1>1. TypeOK /\ Good(p) /\ root \in rootDisk
  BY DEF Harmless, Inv
<1>2. pc'[p] = "idle" /\ \A q \in Callers \ {p} : pc'[q] = pc[q]
  BY <1>1 DEF TypeOK
<1>3. CASE UNCHANGED fsVars
  BY <1>2, <1>3, DiskStays DEF fsVars, OwnersStay
<1>4. CASE Cleanup(p) /\ pc[p] \in {"chdir", "rename", "syncroot"}
  <2> DEFINE i == IF root.init # None /\ entry[root.init] # Empty THEN root.init ELSE None
             r == [root EXCEPT !.init = i]
  <2>1. SetRoot(r) /\ UNCHANGED <<entry, uid, dirDisk>>
    BY <1>4 DEF Cleanup
  <2>2. r.locks = root.locks /\ r.init = i /\ (i = None \/ i = root.init)
    BY <1>1 DEF TypeOK, Root
  <2> HIDE DEF r, i
  <2>3. root' = r /\ rootDisk' = rootDisk \cup {r}
    BY <2>1 DEF SetRoot
  <2>4. Versions'
    BY <2>1 DEF Harmless, Disk, Versions
  <2>5. Roots'
    BY <1>1, <2>1, <2>2, <2>3 DEF Harmless, Disk, Roots
  <2>6. Synced'
    BY <1>1, <1>4, <2>2, <2>3 DEF Synced, Good
  <2> QED BY <2>4, <2>5, <2>6 DEF Disk
<1>5. CASE Cleanup(p) /\ pc[p] \in {"chown", "link", "unlink", "syncdir"}
  <2> DEFINE v == entry[dir[p]][want[p]]
             e == [entry[dir[p]][want[p]] EXCEPT !.temp = None]
  <2>1. SetEntry(dir[p], want[p], e) /\ UNCHANGED <<root, uid, rootDisk>>
    BY <1>5 DEF Cleanup
  <2>2. dir[p] \in Dirs /\ want[p] \in Stripes /\ v \in Entry /\ pc[p] \in FileSteps
    BY <1>1, <1>5 DEF Good, FileSteps, TypeOK
  <2> QED BY <1>2, <2>1, <2>2, TempGone DEF OwnersStay
<1>6. CASE Cleanup(p) /\ pc[p] \notin {"chdir", "rename", "syncroot", "chown", "link", "unlink", "syncdir"}
  BY <1>3, <1>6 DEF Cleanup
<1> QED BY <1>3, <1>4, <1>5, <1>6

LEMMA EndHarmless ==
    ASSUME Harmless, Inv', NEW p \in Callers,
           Close(p) \/ Busy(p) \/ Cancel(p) \/ Refuse(p) \/ Fail(p) \/ Die(p)
    PROVE  Harmless'
<1>1. TypeOK /\ CloseAll(p) /\ pc' = [pc EXCEPT ![p] = "idle"]
  BY DEF Harmless, Inv, Close, Busy, Cancel, Refuse, Fail, Die, Return
<1>2. /\ Cleanup(p) \/ UNCHANGED fsVars
      /\ unsynced => unsynced'
      /\ pc[p] = "syncroot" => unsynced'
  <2>1. CASE Close(p) \/ Busy(p) \/ Cancel(p)
    BY <2>1 DEF Close, Busy, Cancel, Return
  <2>2. CASE Refuse(p)
    <3>1. pc[p] # "syncroot"
      BY <2>2, RefusalHarmless DEF Refuse
    <3> QED BY <2>2, <3>1 DEF Refuse, Return
  <2>3. CASE Fail(p)
    BY <2>3 DEF Fail
  <2>4. CASE Die(p)
    BY <2>4 DEF Die
  <2> QED BY <2>1, <2>2, <2>3, <2>4
<1>3. Disk'
  BY <1>1, <1>2, CleanupHarmless
<1>4. \A q \in Callers : Careful(q)'
  <2>1. Others(p)
    BY <1>1, UserAssumption DEF TypeOK, CloseAll, Others
  <2>2. Careful(p)'
    BY <1>1 DEF Careful, TypeOK
  <2>3. pc[p] \in Publishing \/ UNCHANGED <<entry, uid>>
    BY <1>2 DEF Cleanup, fsVars, Publishing, DirSteps, FileSteps
  <2> QED BY <2>1, <2>2, <2>3, CarefulFrame
<1>5. LeftoversAreHarmless'
  <2>1. PICK res \in Results \ {"access", "invalid"} :
             result' = [result EXCEPT ![p] = res] /\ (res = "exists" => unsynced)
    <3>1. CASE Close(p) \/ Busy(p) \/ Cancel(p) \/ Fail(p) \/ Die(p)
      BY <3>1 DEF Close, Busy, Cancel, Fail, Die, Return, Results
    <3>2. CASE Refuse(p)
      <4>1. Refusal(p) # "none" /\ result' = [result EXCEPT ![p] = Refusal(p)]
        BY <3>2 DEF Refuse, Return
      <4>2. Refusal(p) \in Results \ {"access", "invalid"} /\ (Refusal(p) = "exists" => unsynced)
        BY <4>1, RefusalHarmless, RefusalType
      <4> QED BY <4>1, <4>2
    <3> QED BY <3>1, <3>2
  <2> QED BY <1>2, <2>1, AnswerHarmless
<1> QED BY <1>3, <1>4, <1>5 DEF Harmless

\* Steps that leave the file system alone.
LEMMA WaitHarmless ==
    ASSUME Harmless, Inv', NEW p \in Callers,
           (\E s \in Stripes : Call(p, s)) \/ LockRoot(p) \/ LockFlock(p)
    PROVE  Harmless'
<1>1. /\ TypeOK /\ UNCHANGED <<fsVars, faults, unsynced>> /\ pc[p] # "syncroot"
      /\ pc' = [pc EXCEPT ![p] = pc'[p]] /\ pc'[p] \in {"root", "dir", "held"}
      /\ result' = [result EXCEPT ![p] = result'[p]] /\ result'[p] \in {result[p], "held"}
      /\ \A q \in Callers \ {p} : want'[q] = want[q]
      /\ UNCHANGED <<dir, fd>>
  <2>1. ASSUME NEW s \in Stripes, Call(p, s) PROVE <1>1!:
    BY <2>1 DEF Call, Step, Harmless, Inv, TypeOK
  <2>2. CASE LockRoot(p)
    BY <2>2 DEF LockRoot, Step, Harmless, Inv, TypeOK
  <2>3. CASE LockFlock(p)
    BY <2>3 DEF LockFlock, Step, Harmless, Inv, TypeOK
  <2> QED BY <2>1, <2>2, <2>3
<1>2. \A q \in Callers \ {p} : pc'[q] = pc[q] /\ result'[q] = result[q]
  BY <1>1 DEF TypeOK
<1>3. Disk'
  BY <1>1, <1>2, DiskStays DEF fsVars, OwnersStay
<1>4. \A q \in Callers : Careful(q)'
  BY <1>1, <1>2 DEF fsVars, Harmless, Careful
<1>5. LeftoversAreHarmless'
  BY <1>1, <1>2 DEF Harmless, LeftoversAreHarmless
<1> QED BY <1>3, <1>4, <1>5 DEF Harmless

-----------------------------------------------------------------------------
(***************************************************************************)
(* The steps of openLock under the lock on the root directory.             *)
(***************************************************************************)
LEMMA OpenDirHarmless ==
    ASSUME Harmless, Inv', NEW p \in Callers, OpenDir(p)
    PROVE  Harmless'
<1>1. TypeOK /\ pc[p] = "dir" /\ pc[p] \in Publishing /\ root.locks \in Dirs \cup {None}
  BY DEF Harmless, Inv, OpenDir, Step, Publishing, DirSteps, TypeOK, Root
<1>2. /\ UNCHANGED <<root, entry, rootDisk, dirDisk, rootLock, want, fd, result, unsynced>>
      /\ pc' = [pc EXCEPT ![p] = pc'[p]] /\ pc'[p] \in {"mkdir", "stale"}
      /\ \A q \in Callers \ {p} : dir'[q] = dir[q]
      /\ uid' = uid \/ \E d \in Dirs : uid' = [uid EXCEPT ![d] = Owner]
  BY <1>1 DEF OpenDir, Step, TypeOK
<1>3. Others(p) /\ pc'[p] # "syncroot"
  BY <1>1, <1>2 DEF Others, OpenDir, TypeOK
<1>4. OwnersStay
  <2>1. \A x \in Dirs \cup Files : uid[x] = Owner => uid'[x] = Owner
    BY <1>1, <1>2 DEF TypeOK
  <2> QED BY <1>1, <2>1, OwnersAre
<1>5. Disk'
  BY <1>1, <1>2, <1>3, <1>4, DiskStays DEF Others
<1>6. Careful(p)'
  BY <1>2 DEF Careful
<1>7. \A q \in Callers : Careful(q)'
  BY <1>1, <1>3, <1>6, CarefulFrame
<1> QED BY <1>2, <1>5, <1>7 DEF Harmless, LeftoversAreHarmless

LEMMA MkdirHarmless ==
    ASSUME Harmless, Inv', NEW p \in Callers, Mkdir(p)
    PROVE  Harmless'
<1>1. PICK d \in UnusedDirs :
          /\ SetRoot([root EXCEPT !.init = d])
          /\ entry' = [entry EXCEPT ![d] = Empty]
          /\ dirDisk' = [dirDisk EXCEPT ![d] = {Empty}]
          /\ uid' = [uid EXCEPT ![d] = User[p]]
          /\ dir' = [dir EXCEPT ![p] = d]
  BY DEF Mkdir
<1>2. /\ pc[p] = "mkdir" /\ pc' = [pc EXCEPT ![p] = "chdir"]
      /\ UNCHANGED <<rootLock, flock, want, fd, result, faults, unsynced>>
  BY DEF Mkdir, Step
<1>3. /\ d \in Dirs /\ d # None /\ TypeOK /\ root.locks = None /\ root \in rootDisk
      /\ \A r \in rootDisk : r.locks # d /\ r.init # d
  BY <1>1, <1>2, UserAssumption DEF UnusedDirs, Harmless, Inv, Good
<1> DEFINE n == [root EXCEPT !.init = d]
<1>4. n.locks = None /\ n.init = d /\ root' = n /\ rootDisk' = rootDisk \cup {n}
  BY <1>1, <1>3 DEF SetRoot, TypeOK, Root
<1> HIDE DEF n
<1>5. pc[p] \in Publishing /\ Others(p) /\ pc'[p] = "chdir"
  BY <1>1, <1>2, <1>3 DEF Others, TypeOK, Publishing, DirSteps
<1>6. /\ entry'[d] = Empty /\ dirDisk'[d] = {Empty}
      /\ \A c \in Dirs \ {d} : entry'[c] = entry[c] /\ dirDisk'[c] = dirDisk[c]
      /\ \A x \in (Dirs \cup Files) \ {d} : uid'[x] = uid[x]
  BY <1>1, <1>3 DEF TypeOK
<1>7. Versions'
  <2> SUFFICES ASSUME NEW c \in Dirs
               PROVE  entry'[c] \in dirDisk'[c] /\ \A v \in dirDisk'[c] : Sane(v, uid')
    BY DEF Versions
  <2>1. CASE c = d
    <3>1. Sane(Empty, uid')
      BY DEF Sane, Empty, NoFile, Uses
    <3> QED BY <1>6, <2>1, <3>1
  <2>2. CASE c # d
    <3>1. ASSUME NEW v \in dirDisk[c] PROVE Sane(v, uid')
      <4>1. Sane(v, uid) /\ v \in [Stripes -> Entry]
        BY <1>3 DEF Harmless, Disk, Versions, TypeOK
      <4>2. \A s \in Stripes : v[s].name # None => uid'[v[s].name] = uid[v[s].name]
        BY <1>3, <1>6, <4>1, UserAssumption DEF Entry
      <4> QED BY <4>1, <4>2 DEF Sane
    <3> QED BY <1>6, <2>2, <3>1 DEF Harmless, Disk, Versions
  <2> QED BY <2>1, <2>2
<1>8. Roots'
  <2> SUFFICES ASSUME NEW r \in rootDisk \cup {n}
               PROVE  /\ r.locks # None => uid'[r.locks] = Owner /\ r.init = None
                      /\ ~unsynced /\ r.init # None => dirDisk'[r.init] = {Empty}
    BY <1>2, <1>4 DEF Roots
  <2>1. CASE r = n
    BY <1>4, <1>6, <2>1
  <2>2. CASE r \in rootDisk
    <3>1. r.locks \in Dirs \cup {None} /\ r.init \in Dirs \cup {None}
      BY <1>3, <2>2 DEF TypeOK, Root
    <3> QED BY <1>3, <1>6, <2>2, <3>1 DEF Harmless, Disk, Roots
  <2> QED BY <2>1, <2>2
<1>9. Synced'
  BY <1>4 DEF Synced
<1>10. \A q \in Callers : Careful(q)'
  <2>1. Careful(p)'
    BY <1>5 DEF Careful
  <2> QED BY <1>5, <2>1, CarefulFrame
<1> QED BY <1>2, <1>7, <1>8, <1>9, <1>10 DEF Harmless, Disk, LeftoversAreHarmless

LEMMA InheritDirHarmless ==
    ASSUME Harmless, Inv', NEW p \in Callers, InheritDir(p)
    PROVE  Harmless'
<1>1. /\ TypeOK /\ pc[p] = "chdir" /\ pc[p] \in Publishing /\ dir[p] \in Dirs
      /\ pc' = [pc EXCEPT ![p] = "rename"] /\ uid' = [uid EXCEPT ![dir[p]] = Owner]
      /\ UNCHANGED <<root, entry, rootDisk, dirDisk, rootLock, flock, want, dir, fd, result, unsynced>>
  BY DEF Harmless, Inv, Good, InheritDir, Step, Publishing, DirSteps
<1>2. Others(p) /\ pc'[p] = "rename" /\ uid'[dir[p]] = Owner
  BY <1>1 DEF Others, TypeOK
<1>3. OwnersStay
  BY <1>1 DEF OwnersStay, TypeOK
<1>4. Disk'
  BY <1>1, <1>2, <1>3, DiskStays DEF Others
<1>5. \A q \in Callers : Careful(q)'
  <2>1. Careful(p)'
    BY <1>1, <1>2 DEF Careful
  <2> QED BY <1>1, <1>2, <2>1, CarefulFrame
<1> QED BY <1>1, <1>4, <1>5 DEF Harmless, LeftoversAreHarmless

LEMMA RenameDirHarmless ==
    ASSUME Harmless, Inv', NEW p \in Callers, RenameDir(p)
    PROVE  Harmless'
<1> DEFINE n == [locks |-> dir[p], init |-> None]
<1>1. /\ TypeOK /\ pc[p] = "rename" /\ pc[p] \in Publishing
      /\ dir[p] \in Dirs /\ root.init = dir[p] /\ uid[dir[p]] = Owner
      /\ pc' = [pc EXCEPT ![p] = "syncroot"]
      /\ UNCHANGED <<entry, uid, dirDisk, rootLock, flock, want, dir, fd, result, unsynced>>
  BY DEF Harmless, Inv, Good, Careful, RenameDir, Step, Publishing, DirSteps
<1>2. root' = n /\ rootDisk' = rootDisk \cup {n} /\ n.locks = dir[p] /\ n.init = None
  BY <1>1 DEF RenameDir, SetRoot
<1> HIDE DEF n
<1>3. Others(p) /\ pc'[p] = "syncroot"
  BY <1>1 DEF Others, TypeOK
<1>4. Disk'
  <2>1. Versions'
    BY <1>1 DEF Harmless, Disk, Versions
  <2>2. Roots'
    BY <1>1, <1>2 DEF Harmless, Disk, Roots
  <2>3. Synced'
    BY <1>3 DEF Synced
  <2> QED BY <2>1, <2>2, <2>3 DEF Disk
<1>5. \A q \in Callers : Careful(q)'
  <2>1. Careful(p)'
    BY <1>3 DEF Careful
  <2> QED BY <1>1, <1>3, <2>1, CarefulFrame
<1> QED BY <1>1, <1>4, <1>5 DEF Harmless, LeftoversAreHarmless

LEMMA SyncRootHarmless ==
    ASSUME Harmless, Inv', NEW p \in Callers, SyncRoot(p)
    PROVE  Harmless'
<1>1. /\ TypeOK /\ pc[p] = "syncroot" /\ pc[p] \in Publishing /\ root \in rootDisk
      /\ pc' = [pc EXCEPT ![p] = "stale"] /\ rootDisk' = {root}
      /\ UNCHANGED <<root, entry, uid, dirDisk, rootLock, flock, want, dir, fd, result, unsynced>>
  BY DEF Harmless, Inv, SyncRoot, Step, Publishing, DirSteps
<1>2. Others(p) /\ pc'[p] = "stale"
  BY <1>1 DEF Others, TypeOK
<1>3. Disk'
  <2>1. Versions'
    BY <1>1 DEF Harmless, Disk, Versions
  <2>2. Roots'
    BY <1>1 DEF Harmless, Disk, Roots
  <2>3. Synced'
    BY <1>1 DEF Synced
  <2> QED BY <2>1, <2>2, <2>3 DEF Disk
<1>4. \A q \in Callers : Careful(q)'
  <2>1. Careful(p)'
    BY <1>2 DEF Careful
  <2> QED BY <1>1, <1>2, <2>1, CarefulFrame
<1> QED BY <1>1, <1>3, <1>4 DEF Harmless, LeftoversAreHarmless

LEMMA UnlinkHarmless ==
    ASSUME Harmless, Inv', NEW p \in Callers, RemoveStale(p) \/ UnlinkTemp(p)
    PROVE  Harmless'
<1> DEFINE d == dir[p]
           s == want[p]
<1>1. /\ TypeOK /\ d \in Dirs /\ s \in Stripes
      /\ pc[p] \in FileSteps /\ pc[p] \in Publishing
      /\ SetEntry(d, s, [entry[d][s] EXCEPT !.temp = None])
      /\ UNCHANGED <<root, uid, rootDisk, rootLock, flock, want, dir, fd, result, unsynced>>
      /\ pc' = [pc EXCEPT ![p] = pc'[p]] /\ pc'[p] \in {"open", "syncdir"}
  BY DEF RemoveStale, UnlinkTemp, Step, Harmless, Inv, Good, Publishing, FileSteps, TypeOK
<1>2. Others(p)
  BY <1>1 DEF Others, TypeOK
<1>3. Disk'
  BY <1>1, <1>2, TempGone DEF Others
<1>4. entry'[d][s].temp = None
  <2>1. None \in Files \cup {None}
    OBVIOUS
  <2> HIDE DEF d, s
  <2> QED BY <1>1, <2>1, SetTemp
<1>5. \A q \in Callers : Careful(q)'
  <2>1. Careful(p)'
    BY <1>1, <1>4 DEF Careful
  <2> QED BY <1>1, <1>2, <2>1, CarefulFrame
<1> QED BY <1>1, <1>3, <1>5 DEF Harmless, LeftoversAreHarmless

LEMMA OpenFileHarmless ==
    ASSUME Harmless, Inv', NEW p \in Callers, OpenFile(p)
    PROVE  Harmless'
<1> DEFINE f == entry[dir[p]][want[p]].name
<1>1. /\ TypeOK /\ dir[p] \in Dirs /\ want[p] \in Stripes
      /\ pc[p] = "open" /\ pc[p] \in Publishing /\ rootLock = p /\ Careful(p)
  BY DEF Harmless, OpenFile, Inv, Good, Publishing, FileSteps
<1>2. f \in Files \cup {None} /\ entry[dir[p]][want[p]].temp = None
  BY <1>1 DEF TypeOK, Entry, Careful
<1>3. UNCHANGED <<root, entry, rootDisk, dirDisk, flock, want, result, faults, unsynced>>
  BY DEF OpenFile
<1>4. \/ f = None /\ pc' = [pc EXCEPT ![p] = "create"] /\ UNCHANGED <<uid, rootLock, dir, fd>>
      \/ /\ f # None /\ pc' = [pc EXCEPT ![p] = "flock"]
         /\ uid' = [uid EXCEPT ![f] = Owner] /\ fd' = [fd EXCEPT ![p] = f]
         /\ dir' = [dir EXCEPT ![p] = None] /\ rootLock' = Free
  BY DEF OpenFile, Step
<1>5. Others(p)
  BY <1>1, <1>3, <1>4, UserAssumption DEF TypeOK, Others
<1>6. \/ pc'[p] = "create" /\ f = None /\ dir' = dir
      \/ pc'[p] = "flock"
  BY <1>1, <1>4 DEF TypeOK
<1>7. OwnersStay
  <2> HIDE DEF f
  <2>1. \A x \in Dirs \cup Files : uid[x] = Owner => uid'[x] = Owner
    BY <1>1, <1>2, <1>4 DEF TypeOK
  <2> QED BY <1>1, <2>1, OwnersAre
<1>8. Disk'
  BY <1>1, <1>3, <1>5, <1>6, <1>7, DiskStays DEF Others
<1>9. \A q \in Callers : Careful(q)'
  <2>1. Careful(p)'
    BY <1>2, <1>3, <1>6 DEF Careful
  <2> QED BY <1>1, <1>5, <2>1, CarefulFrame
<1> QED BY <1>3, <1>8, <1>9 DEF Harmless, LeftoversAreHarmless

LEMMA CreateFileHarmless ==
    ASSUME Harmless, Inv', NEW p \in Callers, CreateFile(p)
    PROVE  Harmless'
<1> DEFINE d == dir[p]
           s == want[p]
           v == entry[d][s]
<1>1. PICK f \in UnusedFiles :
          /\ SetEntry(d, s, [v EXCEPT !.temp = f])
          /\ uid' = [uid EXCEPT ![f] = User[p]]
          /\ fd' = [fd EXCEPT ![p] = f]
  BY DEF CreateFile
<1> DEFINE e == [v EXCEPT !.temp = f]
<1>2. /\ pc[p] = "create" /\ pc' = [pc EXCEPT ![p] = "chown"]
      /\ UNCHANGED <<root, rootDisk, rootLock, flock, want, dir, result, faults, unsynced>>
      /\ pc[p] \in FileSteps /\ pc[p] \in Publishing
  BY DEF CreateFile, Step, Publishing, FileSteps
<1>3. /\ TypeOK /\ d \in Dirs /\ s \in Stripes /\ v \in Entry /\ v.name = None
      /\ entry[d] \in dirDisk[d]
  BY <1>2 DEF Harmless, Inv, Good, Careful, TypeOK, Disk, Versions
<1>4. /\ f \in Files /\ f \notin Dirs
      /\ \A c \in Dirs : \A w \in dirDisk[c] : \A t \in Stripes : w[t].name # f /\ w[t].temp # f
  BY UserAssumption DEF UnusedFiles
<1>5. e \in Entry /\ e.name = None /\ e.temp = f
  BY <1>3, <1>4, EntryType
<1>6. SetEntry(d, s, e)
  BY <1>1
<1> HIDE DEF e
<1>7. Others(p) /\ pc'[p] = "chown"
  BY <1>1, <1>2, <1>3 DEF TypeOK, Others
<1>8. \A x \in (Dirs \cup Files) \ {f} : uid'[x] = uid[x]
  BY <1>1, <1>3 DEF TypeOK
<1>9. OwnersStay
  <2>1. ASSUME NEW c \in Dirs, NEW w \in dirDisk[c], NEW t \in Stripes, w[t].name # None
        PROVE  uid'[w[t].name] = uid[w[t].name]
    <3>1. w[t].name \in Files \ {f}
      BY <1>3, <1>4, <2>1 DEF TypeOK, Entry
    <3> QED BY <1>8, <3>1
  <2>2. ASSUME NEW r \in rootDisk, r.locks # None PROVE uid'[r.locks] = uid[r.locks]
    BY <1>3, <1>4, <1>8, <2>2 DEF TypeOK, Root
  <2> QED BY <2>1, <2>2 DEF OwnersStay
<1>10. \A t \in Stripes \ {s} : Uses(e) \cap Uses(entry[d][t]) = {}
  <2>1. \A t \in Stripes : entry[d][t].name # f /\ entry[d][t].temp # f
    BY <1>3, <1>4
  <2>2. Uses(e) \subseteq {f}
    BY <1>5 DEF Uses
  <2> QED BY <2>1, <2>2 DEF Uses
<1>11. Disk'
  BY <1>2, <1>5, <1>6, <1>7, <1>9, <1>10, DiskSet DEF Others
<1>12. entry'[d][s].name = None
  BY <1>3, <1>5, <1>6, SetEntryType
<1>13. \A q \in Callers : Careful(q)'
  <2>1. Careful(p)'
    BY <1>2, <1>7, <1>12 DEF Careful
  <2> QED BY <1>2, <1>7, <2>1, CarefulFrame
<1> QED BY <1>2, <1>11, <1>13 DEF Harmless, LeftoversAreHarmless

LEMMA InheritFileHarmless ==
    ASSUME Harmless, Inv', NEW p \in Callers, InheritFile(p)
    PROVE  Harmless'
<1>1. /\ TypeOK /\ pc[p] = "chown" /\ pc[p] \in Publishing /\ fd[p] \in Files /\ Careful(p)
      /\ pc' = [pc EXCEPT ![p] = "link"] /\ uid' = [uid EXCEPT ![fd[p]] = Owner]
      /\ UNCHANGED <<root, entry, rootDisk, dirDisk, rootLock, flock, want, dir, fd, result, unsynced>>
  BY DEF Harmless, Inv, Good, InheritFile, Step, Publishing, FileSteps
<1>2. Others(p) /\ pc'[p] = "link" /\ uid'[fd[p]] = Owner
  BY <1>1 DEF Others, TypeOK
<1>3. OwnersStay
  <2>1. \A x \in Dirs \cup Files : uid[x] = Owner => uid'[x] = Owner
    BY <1>1 DEF TypeOK
  <2> QED BY <1>1, <2>1, OwnersAre
<1>4. Disk'
  BY <1>1, <1>2, <1>3, DiskStays DEF Others
<1>5. \A q \in Callers : Careful(q)'
  <2>1. Careful(p)'
    BY <1>1, <1>2 DEF Careful
  <2> QED BY <1>1, <1>2, <2>1, CarefulFrame
<1> QED BY <1>1, <1>4, <1>5 DEF Harmless, LeftoversAreHarmless

LEMMA LinkFileHarmless ==
    ASSUME Harmless, Inv', NEW p \in Callers, LinkFile(p)
    PROVE  Harmless'
<1> DEFINE d == dir[p]
           s == want[p]
           v == entry[d][s]
           e == [v EXCEPT !.name = fd[p]]
<1>1. /\ TypeOK /\ pc[p] = "link" /\ pc[p] \in Publishing /\ pc[p] \in FileSteps
      /\ d \in Dirs /\ s \in Stripes /\ fd[p] \in Files /\ v.temp = fd[p] /\ v \in Entry
      /\ uid[fd[p]] = Owner /\ Sane(entry[d], uid)
  BY DEF Harmless, Inv, Good, Careful, LinkFile, Step, Publishing, FileSteps, TypeOK, Disk, Versions
<1>2. /\ pc' = [pc EXCEPT ![p] = "unlink"] /\ SetEntry(d, s, [v EXCEPT !.name = v.temp])
      /\ UNCHANGED <<root, uid, rootDisk, rootLock, flock, want, dir, fd, result, unsynced>>
  BY DEF LinkFile, Step
<1>3. e \in Entry /\ e.name = fd[p] /\ e.temp = fd[p]
  BY <1>1, EntryType
<1>4. SetEntry(d, s, e)
  BY <1>1, <1>2
<1> HIDE DEF e
<1>5. \A t \in Stripes \ {s} : Uses(e) \cap Uses(entry[d][t]) = {}
  <2>1. Uses(e) \subseteq Uses(v)
    BY <1>1, <1>3 DEF Uses
  <2> QED BY <1>1, <2>1 DEF Sane
<1>6. Others(p) /\ pc'[p] = "unlink"
  BY <1>1, <1>2 DEF Others, TypeOK
<1>7. Disk'
  BY <1>1, <1>2, <1>3, <1>4, <1>5, <1>6, DiskSet DEF Others, OwnersStay
<1>8. \A q \in Callers : Careful(q)'
  <2>1. Careful(p)'
    BY <1>6 DEF Careful
  <2> QED BY <1>1, <1>6, <2>1, CarefulFrame
<1> QED BY <1>2, <1>7, <1>8 DEF Harmless, LeftoversAreHarmless

LEMMA SyncDirHarmless ==
    ASSUME Harmless, Inv', NEW p \in Callers, SyncDir(p)
    PROVE  Harmless'
<1>1. /\ TypeOK /\ pc[p] = "syncdir" /\ pc[p] \in Publishing /\ dir[p] \in Dirs /\ rootLock = p
      /\ pc' = [pc EXCEPT ![p] = "flock"]
      /\ dirDisk' = [dirDisk EXCEPT ![dir[p]] = {entry[dir[p]]}]
      /\ UNCHANGED <<root, entry, uid, rootDisk, flock, want, fd, result, unsynced>>
      /\ dir' = [dir EXCEPT ![p] = None] /\ rootLock' = Free
  BY DEF Harmless, Inv, Good, SyncDir, Step, Publishing, FileSteps
<1>2. Others(p) /\ pc'[p] = "flock"
  BY <1>1, UserAssumption DEF Others, TypeOK
<1>3. \A d \in Dirs : dirDisk'[d] = dirDisk[d] \/ dirDisk'[d] = {entry[d]}
  BY <1>1 DEF TypeOK
<1>4. Versions'
  <2>1. \A d \in Dirs : entry[d] \in dirDisk[d] /\ \A v \in dirDisk[d] : Sane(v, uid)
    BY DEF Harmless, Disk, Versions
  <2>2. ASSUME NEW d \in Dirs PROVE entry[d] \in dirDisk'[d] /\ \A v \in dirDisk'[d] : Sane(v, uid)
    BY <1>3, <2>1
  <2> QED BY <1>1, <2>2 DEF Versions
<1>5. Roots'
  <2> SUFFICES ASSUME NEW r \in rootDisk, ~unsynced, r.init # None PROVE dirDisk'[r.init] = {Empty}
    BY <1>1 DEF Harmless, Disk, Roots
  <2>1. r.init \in Dirs /\ dirDisk[r.init] = {Empty}
    BY <1>1 DEF Harmless, Disk, Roots, TypeOK, Root
  <2>2. entry[r.init] = Empty
    BY <2>1 DEF Harmless, Disk, Versions
  <2> QED BY <1>3, <2>1, <2>2
<1>6. Synced'
  BY <1>1, <1>2 DEF Harmless, Disk, Synced, Others
<1>7. \A q \in Callers : Careful(q)'
  <2>1. Careful(p)'
    BY <1>2 DEF Careful
  <2> QED BY <1>1, <1>2, <2>1, CarefulFrame
<1> QED BY <1>1, <1>4, <1>5, <1>6, <1>7 DEF Harmless, Disk, LeftoversAreHarmless

\* What a power loss brings back is one of the versions.
LEMMA PowerLossHarmless ==
    ASSUME Harmless, Inv', PowerLoss
    PROVE  Harmless'
<1>1. /\ root' \in rootDisk /\ rootDisk' = {root'} /\ UNCHANGED <<uid, unsynced>>
      /\ \A d \in Dirs : entry'[d] \in dirDisk[d]
      /\ dirDisk' = [d \in Dirs |-> {entry'[d]}]
      /\ pc' = [p \in Callers |-> "idle"] /\ result' = [p \in Callers |-> "none"]
  BY DEF PowerLoss
<1>2. \A d \in Dirs : dirDisk'[d] = {entry'[d]}
  BY <1>1
<1>3. Versions'
  <2> SUFFICES ASSUME NEW d \in Dirs
               PROVE  entry'[d] \in dirDisk'[d] /\ \A v \in dirDisk'[d] : Sane(v, uid)
    BY <1>1 DEF Versions
  <2>1. Sane(entry'[d], uid)
    BY <1>1 DEF Harmless, Disk, Versions
  <2> QED BY <1>2, <2>1
<1>4. Roots'
  <2> DEFINE r == root'
  <2>1. r \in rootDisk /\ r.init \in Dirs \cup {None}
    BY <1>1 DEF Harmless, Inv, TypeOK, Root
  <2> HIDE DEF r
  <2>2. r.locks # None => uid[r.locks] = Owner /\ r.init = None
    BY <2>1 DEF Harmless, Disk, Roots
  <2>3. ASSUME ~unsynced, r.init # None PROVE dirDisk'[r.init] = {Empty}
    <3>1. r.init \in Dirs /\ dirDisk[r.init] = {Empty}
      BY <2>1, <2>3 DEF Harmless, Disk, Roots
    <3>2. entry'[r.init] = Empty
      BY <1>1, <3>1
    <3> QED BY <1>2, <3>1, <3>2
  <2> QED BY <1>1, <2>2, <2>3 DEF Roots, r
<1>5. Synced'
  BY <1>1 DEF Synced
<1>6. \A q \in Callers : Careful(q)'
  BY <1>1 DEF Careful
<1>7. LeftoversAreHarmless'
  BY <1>1 DEF LeftoversAreHarmless
<1> QED BY <1>3, <1>4, <1>5, <1>6, <1>7 DEF Harmless, Disk

LEMMA InitHarmless == Init => Harmless
<1> SUFFICES ASSUME Init PROVE Harmless
  OBVIOUS
<1>1. Inv
  BY InitInv
<1>2. Versions
  <2>1. Sane(Empty, uid)
    BY DEF Sane, Empty, NoFile, Uses
  <2> QED BY <2>1 DEF Init, Versions
<1>3. Roots /\ Synced
  BY DEF Init, Roots, Synced
<1>4. LeftoversAreHarmless /\ \A p \in Callers : Careful(p)
  BY DEF Init, LeftoversAreHarmless, Careful
<1> QED BY <1>1, <1>2, <1>3, <1>4 DEF Harmless, Disk

LEMMA NextHarmless == Harmless /\ [Next]_vars => Harmless'
<1> SUFFICES ASSUME Harmless, [Next]_vars PROVE Harmless'
  OBVIOUS
<1>1. Inv'
  BY NextInv DEF Harmless
<1>2. ASSUME NEW p \in Callers, (\E s \in Stripes : Call(p, s)) \/ LockFlock(p) PROVE Harmless'
  BY <1>1, <1>2, WaitHarmless
<1>3. ASSUME NEW p \in Callers, OpenStep(p) PROVE Harmless'
  <2>1. CASE LockRoot(p) \/ OpenDir(p) \/ Mkdir(p) \/ InheritDir(p) \/ RenameDir(p) \/ SyncRoot(p)
    BY <1>1, <2>1, WaitHarmless, OpenDirHarmless, MkdirHarmless, InheritDirHarmless,
       RenameDirHarmless, SyncRootHarmless
  <2>2. CASE RemoveStale(p) \/ OpenFile(p) \/ CreateFile(p) \/ InheritFile(p)
             \/ LinkFile(p) \/ UnlinkTemp(p) \/ SyncDir(p)
    BY <1>1, <2>2, UnlinkHarmless, OpenFileHarmless, CreateFileHarmless, InheritFileHarmless,
       LinkFileHarmless, SyncDirHarmless
  <2>3. CASE Refuse(p)
    BY <1>1, <2>3, EndHarmless
  <2> QED BY <1>3, <2>1, <2>2, <2>3 DEF OpenStep
<1>4. ASSUME NEW p \in Callers, Close(p) \/ Busy(p) \/ Cancel(p) \/ Fail(p) \/ Die(p) PROVE Harmless'
  BY <1>1, <1>4, EndHarmless
<1>5. CASE PowerLoss
  BY <1>1, <1>5, PowerLossHarmless
<1>6. CASE UNCHANGED vars
  <2>1. UNCHANGED <<fsVars, unsynced, pc, want, dir, fd, result>>
    BY <1>6 DEF vars, callVars
  <2>2. Disk'
    BY <2>1, DiskStays DEF fsVars, OwnersStay
  <2> QED BY <1>1, <2>1, <2>2 DEF Harmless, Careful, LeftoversAreHarmless, fsVars
<1> QED BY <1>2, <1>3, <1>4, <1>5, <1>6 DEF Next

\* Whatever a caller of either user leaves behind when it dies or fails between
\* two system calls of lockDirectory and lockFile, and whatever a power loss
\* takes back, no later call is refused: except through a directory that was
\* renamed and used before anyone synced the root directory.
THEOREM LeftoversAreHarmlessCorrect == Spec => []LeftoversAreHarmless
<1>1. Harmless => LeftoversAreHarmless
  BY DEF Harmless
<1> QED BY <1>1, InitHarmless, NextHarmless, PTL DEF Spec

=============================================================================
