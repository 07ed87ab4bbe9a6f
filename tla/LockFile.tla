------------------------------ MODULE LockFile ------------------------------
(***************************************************************************)
(* The lock files of package gcroot (lock.go, ownership.go): how callers   *)
(* of several processes publish the lock directory and the lock file of a  *)
(* stripe under a lock on the root directory, and then wait for the flock  *)
(* on the file.  A caller may die between any two system calls, a system   *)
(* call may fail, and a power loss forgets what no fsync made durable.     *)
(*                                                                         *)
(* An opened file is its inode.  flock belongs to the open file, so two    *)
(* callers exclude each other whether or not they share a process.         *)
(***************************************************************************)
EXTENDS Integers, FiniteSets

CONSTANTS
    Callers,    \* calls of Acquire and TryAcquire that may overlap
    Stripes,    \* the lock file names v1-00 .. v1-ff
    Dirs,       \* inodes for directories
    Files,      \* inodes for lock files
    None,
    User,       \* User[p]: the user that p runs as
    Owner,      \* the owner of the root directory
    Waits,      \* the callers of Acquire; the others call TryAcquire
    MaxFaults   \* bound on deaths, failed system calls and power losses

Free  == "free"
Super == "root"

ASSUME UserAssumption ==
    /\ User \in [Callers -> {Super, Owner}]
    /\ Waits \subseteq Callers
    /\ Dirs \cap Files = {}
    /\ None \notin Dirs \cup Files \cup Callers \cup Stripes
    /\ Free \notin Callers
    /\ MaxFaults \in Nat

VARIABLES
    root,       \* the entries .locks and .locks.init of the root directory
    entry,      \* entry[d][s]: the lock file s of directory d and its temporary name
    uid,        \* the owner of every inode
    rootDisk,   \* the versions of root that a power loss can leave behind
    dirDisk,    \* dirDisk[d]: the same for directory d
    rootLock,   \* holder of the flock on the root directory
    flock,      \* flock[f]: holder of the flock on file f
    pc, want,   \* where p is, and the stripe it wants
    dir, fd,    \* the directory and the lock file that p has opened
    result,     \* what p's last call returned
    faults,     \* the faults so far
    unsynced    \* a caller died or failed between the rename and the fsync of root

fsVars   == <<root, entry, uid, rootDisk, dirDisk>>
callVars == <<pc, want, dir, fd, result>>
vars     == <<fsVars, rootLock, flock, callVars, faults, unsynced>>

NoFile == [name |-> None, temp |-> None]
Empty  == [s \in Stripes |-> NoFile]
Entry  == [name : Files \cup {None}, temp : Files \cup {None}]
Root   == [locks : Dirs \cup {None}, init : Dirs \cup {None}]

\* The steps of openLock that run under the lock on the root directory.
DirSteps  == {"dir", "mkdir", "chdir", "rename", "syncroot"}
FileSteps == {"stale", "open", "create", "chown", "link", "unlink", "syncdir"}
Steps     == {"idle", "root", "flock", "held"} \cup DirSteps \cup FileSteps
Results   == {"none", "held", "busy", "canceled", "io", "access", "invalid", "exists"}

TypeOK ==
    /\ root \in Root /\ rootDisk \subseteq Root
    /\ entry \in [Dirs -> [Stripes -> Entry]]
    /\ dirDisk \in [Dirs -> SUBSET [Stripes -> Entry]]
    /\ uid \in [Dirs \cup Files -> {Super, Owner}]
    /\ rootLock \in Callers \cup {Free}
    /\ flock \in [Files -> Callers \cup {Free}]
    /\ pc \in [Callers -> Steps]
    /\ want \in [Callers -> Stripes \cup {None}]
    /\ dir \in [Callers -> Dirs \cup {None}]
    /\ fd \in [Callers -> Files \cup {None}]
    /\ result \in [Callers -> Results]
    /\ faults \in 0..MaxFaults /\ unsynced \in BOOLEAN

Init ==
    /\ root = [locks |-> None, init |-> None] /\ rootDisk = {root}
    /\ entry = [d \in Dirs |-> Empty] /\ dirDisk = [d \in Dirs |-> {Empty}]
    /\ uid = [x \in Dirs \cup Files |-> Owner]
    /\ rootLock = Free /\ flock = [f \in Files |-> Free]
    /\ pc = [p \in Callers |-> "idle"] /\ want = [p \in Callers |-> None]
    /\ dir = [p \in Callers |-> None] /\ fd = [p \in Callers |-> None]
    /\ result = [p \in Callers |-> "none"]
    /\ faults = 0 /\ unsynced = FALSE

(***************************************************************************)
(* The file system (external).                                             *)
(***************************************************************************)
Links(d, f) ==
    Cardinality({s \in Stripes : entry[d][s].name = f})
    + Cardinality({s \in Stripes : entry[d][s].temp = f})

SetRoot(r) == root' = r /\ rootDisk' = rootDisk \cup {r}

SetEntry(d, s, e) ==
    /\ entry' = [entry EXCEPT ![d][s] = e]
    /\ dirDisk' = [dirDisk EXCEPT ![d] = @ \cup {[entry[d] EXCEPT ![s] = e]}]

\* An inode is unused when no entry, open file or version on disk names it.
UnusedDirs ==
    {d \in Dirs : /\ \A r \in rootDisk : d \notin {r.locks, r.init}
                  /\ \A p \in Callers : dir[p] # d}

UnusedFiles ==
    {f \in Files : /\ \A d \in Dirs, s \in Stripes :
                         \A v \in dirDisk[d] : f \notin {v[s].name, v[s].temp}
                   /\ \A p \in Callers : fd[p] # f}

MayOpen(p, x) == User[p] \in {Super, uid[x]}

Step(p, from, to) == pc[p] = from /\ pc' = [pc EXCEPT ![p] = to]

\* Mutant: a closed root directory stays locked, by nobody.
CloseAllNone(p) ==
    /\ rootLock' = IF rootLock = p THEN None ELSE rootLock
    /\ flock' = [f \in Files |-> IF flock[f] = p THEN Free ELSE flock[f]]
    /\ dir' = [dir EXCEPT ![p] = None]
    /\ fd' = [fd EXCEPT ![p] = None]
    /\ want' = [want EXCEPT ![p] = None]

\* Closing what p has open gives up the locks on it.
CloseAll(p) ==
    /\ rootLock' = IF rootLock = p THEN Free ELSE rootLock
    /\ flock' = [f \in Files |-> IF flock[f] = p THEN Free ELSE flock[f]]
    /\ dir' = [dir EXCEPT ![p] = None]
    /\ fd' = [fd EXCEPT ![p] = None]
    /\ want' = [want EXCEPT ![p] = None]

\* p's call returns without the lock.
Return(p, res) ==
    /\ CloseAll(p)
    /\ pc' = [pc EXCEPT ![p] = "idle"]
    /\ result' = [result EXCEPT ![p] = res]
    /\ UNCHANGED <<faults, unsynced>>

(***************************************************************************)
(* openLock: the root directory, and its lock.  The directory exists: that *)
(* makeDir creates and syncs it first is left out.                         *)
(***************************************************************************)
Call(p, s) ==
    /\ Step(p, "idle", "root")
    /\ want' = [want EXCEPT ![p] = s]
    /\ UNCHANGED <<fsVars, rootLock, flock, dir, fd, result, faults, unsynced>>

\* Mutant: publication is not serialised.
LockRootUnguarded(p) ==
    /\ Step(p, "root", "dir")
    /\ UNCHANGED <<fsVars, rootLock, flock, want, dir, fd, result, faults, unsynced>>

LockRoot(p) ==
    /\ rootLock = Free /\ rootLock' = p
    /\ Step(p, "root", "dir")
    /\ UNCHANGED <<fsVars, flock, want, dir, fd, result, faults, unsynced>>

\* TryAcquire does not wait for either lock.
Busy(p) ==
    /\ p \notin Waits
    /\ \/ pc[p] = "root" /\ rootLock # Free
       \/ pc[p] = "flock" /\ flock[fd[p]] # Free
    /\ Return(p, "busy")
    /\ UNCHANGED fsVars

\* Acquire waits until its context is cancelled.
Cancel(p) ==
    /\ p \in Waits /\ pc[p] \in {"root", "flock"}
    /\ Return(p, "canceled")
    /\ UNCHANGED fsVars

(***************************************************************************)
(* lockDirectory.                                                          *)
(***************************************************************************)
OpenDir(p) ==
    LET d == root.locks IN
    /\ IF d = None
       THEN Step(p, "dir", "mkdir") /\ UNCHANGED <<uid, dir>>
       ELSE /\ MayOpen(p, d)
            /\ Step(p, "dir", "stale")
            /\ dir' = [dir EXCEPT ![p] = d]
            /\ uid' = [uid EXCEPT ![d] = Owner]
    /\ UNCHANGED <<root, entry, rootDisk, dirDisk, rootLock, flock, want, fd, result, faults, unsynced>>

\* A dead creator's temporary directory is removed and made again.
Mkdir(p) ==
    /\ Step(p, "mkdir", "chdir")
    /\ root.init # None => entry[root.init] = Empty
    /\ \E d \in UnusedDirs :
          /\ SetRoot([root EXCEPT !.init = d])
          /\ entry' = [entry EXCEPT ![d] = Empty]
          /\ dirDisk' = [dirDisk EXCEPT ![d] = {Empty}]
          /\ uid' = [uid EXCEPT ![d] = User[p]]
          /\ dir' = [dir EXCEPT ![p] = d]
    /\ UNCHANGED <<rootLock, flock, want, fd, result, faults, unsynced>>

InheritDir(p) ==
    /\ Step(p, "chdir", "rename")
    /\ uid' = [uid EXCEPT ![dir[p]] = Owner]
    /\ UNCHANGED <<root, entry, rootDisk, dirDisk, rootLock, flock, want, dir, fd, result, faults, unsynced>>

\* rename replaces an empty directory.
RenameDir(p) ==
    /\ Step(p, "rename", "syncroot")
    /\ root.init # None /\ (root.locks # None => entry[root.locks] = Empty)
    /\ SetRoot([locks |-> root.init, init |-> None])
    /\ UNCHANGED <<entry, uid, dirDisk, rootLock, flock, want, dir, fd, result, faults, unsynced>>

SyncRoot(p) ==
    /\ Step(p, "syncroot", "stale")
    /\ rootDisk' = {root}
    /\ UNCHANGED <<root, entry, uid, dirDisk, rootLock, flock, want, dir, fd, result, faults, unsynced>>

(***************************************************************************)
(* lockFile.                                                               *)
(***************************************************************************)
\* Mutant: the second link of a dead creator stays.
RemoveStaleNot(p) ==
    /\ Step(p, "stale", "open")
    /\ UNCHANGED <<fsVars, rootLock, flock, want, dir, fd, result, faults, unsynced>>

RemoveStale(p) ==
    /\ Step(p, "stale", "open")
    /\ SetEntry(dir[p], want[p], [entry[dir[p]][want[p]] EXCEPT !.temp = None])
    /\ UNCHANGED <<root, uid, rootDisk, rootLock, flock, want, dir, fd, result, faults, unsynced>>

\* The file is published: openLock returns it and lets the root directory go.
OpenFile(p) ==
    LET f == entry[dir[p]][want[p]].name IN
    /\ pc[p] = "open"
    /\ IF f = None
       THEN Step(p, "open", "create") /\ UNCHANGED <<uid, rootLock, dir, fd>>
       ELSE /\ MayOpen(p, f) /\ Links(dir[p], f) = 1
            /\ Step(p, "open", "flock")
            /\ uid' = [uid EXCEPT ![f] = Owner]
            /\ fd' = [fd EXCEPT ![p] = f]
            /\ dir' = [dir EXCEPT ![p] = None]
            /\ rootLock' = Free
    /\ UNCHANGED <<root, entry, rootDisk, dirDisk, flock, want, result, faults, unsynced>>

CreateFile(p) ==
    /\ Step(p, "create", "chown")
    /\ entry[dir[p]][want[p]].temp = None
    /\ \E f \in UnusedFiles :
          /\ SetEntry(dir[p], want[p], [entry[dir[p]][want[p]] EXCEPT !.temp = f])
          /\ uid' = [uid EXCEPT ![f] = User[p]]
          /\ fd' = [fd EXCEPT ![p] = f]
    /\ UNCHANGED <<root, rootDisk, rootLock, flock, want, dir, result, faults, unsynced>>

InheritFile(p) ==
    /\ Step(p, "chown", "link")
    /\ Links(dir[p], fd[p]) = 1
    /\ uid' = [uid EXCEPT ![fd[p]] = Owner]
    /\ UNCHANGED <<root, entry, rootDisk, dirDisk, rootLock, flock, want, dir, fd, result, faults, unsynced>>

\* Linking never replaces a published lock inode.
LinkFile(p) ==
    LET e == entry[dir[p]][want[p]] IN
    /\ Step(p, "link", "unlink")
    /\ e.name = None /\ e.temp # None
    /\ SetEntry(dir[p], want[p], [e EXCEPT !.name = e.temp])
    /\ UNCHANGED <<root, uid, rootDisk, rootLock, flock, want, dir, fd, result, faults, unsynced>>

UnlinkTemp(p) ==
    /\ Step(p, "unlink", "syncdir")
    /\ SetEntry(dir[p], want[p], [entry[dir[p]][want[p]] EXCEPT !.temp = None])
    /\ UNCHANGED <<root, uid, rootDisk, rootLock, flock, want, dir, fd, result, faults, unsynced>>

SyncDir(p) ==
    /\ Step(p, "syncdir", "flock")
    /\ dirDisk' = [dirDisk EXCEPT ![dir[p]] = {entry[dir[p]]}]
    /\ dir' = [dir EXCEPT ![p] = None]
    /\ rootLock' = Free
    /\ UNCHANGED <<root, entry, uid, rootDisk, flock, want, fd, result, faults, unsynced>>

(***************************************************************************)
(* The flock on the opened file, and the end of the critical section.      *)
(***************************************************************************)
\* Mutant: the caller trusts that it is alone on an opened file.
LockFlockAlways(p) ==
    /\ Step(p, "flock", "held")
    /\ flock' = [flock EXCEPT ![fd[p]] = p]
    /\ result' = [result EXCEPT ![p] = "held"]
    /\ UNCHANGED <<fsVars, rootLock, want, dir, fd, faults, unsynced>>

LockFlock(p) ==
    /\ Step(p, "flock", "held")
    /\ flock[fd[p]] = Free
    /\ flock' = [flock EXCEPT ![fd[p]] = p]
    /\ result' = [result EXCEPT ![p] = "held"]
    /\ UNCHANGED <<fsVars, rootLock, want, dir, fd, faults, unsynced>>

Close(p) ==
    /\ pc[p] = "held"
    /\ Return(p, "none")
    /\ UNCHANGED fsVars

(***************************************************************************)
(* Errors.  What is found on disk can be refused, and any system call can  *)
(* fail; the deferred functions then remove the temporary entry, unless    *)
(* that fails too.                                                         *)
(***************************************************************************)
Refusal(p) ==
    LET e == entry[dir[p]][want[p]] IN
    CASE pc[p] = "dir" /\ root.locks # None /\ ~MayOpen(p, root.locks) -> "access"
      [] pc[p] = "mkdir" /\ root.init # None /\ entry[root.init] # Empty -> "exists"
      [] pc[p] = "rename" /\ root.init = None -> "io"
      [] pc[p] = "rename" /\ root.locks # None /\ entry[root.locks] # Empty -> "exists"
      [] pc[p] = "open" /\ e.name # None /\ ~MayOpen(p, e.name) -> "access"
      [] pc[p] = "open" /\ e.name # None /\ Links(dir[p], e.name) # 1 -> "invalid"
      [] pc[p] = "create" /\ e.temp # None -> "exists"
      [] pc[p] = "chown" /\ Links(dir[p], fd[p]) # 1 -> "invalid"
      [] pc[p] = "link" /\ e.name # None -> "exists"
      [] pc[p] = "link" /\ e.temp = None -> "io"
      [] OTHER -> "none"

\* removeAt in the deferred functions of lockDirectory and lockFile.
Cleanup(p) ==
    CASE pc[p] \in {"chdir", "rename", "syncroot"} ->
            /\ SetRoot([root EXCEPT !.init =
                          IF @ # None /\ entry[@] # Empty THEN @ ELSE None])
            /\ UNCHANGED <<entry, uid, dirDisk>>
      [] pc[p] \in {"chown", "link", "unlink", "syncdir"} ->
            /\ SetEntry(dir[p], want[p], [entry[dir[p]][want[p]] EXCEPT !.temp = None])
            /\ UNCHANGED <<root, uid, rootDisk>>
      [] OTHER -> UNCHANGED fsVars

Refuse(p) ==
    /\ Refusal(p) # "none"
    /\ Cleanup(p)
    /\ Return(p, Refusal(p))

Fail(p) ==
    /\ faults < MaxFaults /\ faults' = faults + 1
    /\ pc[p] \in {"root", "flock"} \cup DirSteps \cup FileSteps
    /\ Cleanup(p) \/ UNCHANGED fsVars
    /\ CloseAll(p)
    /\ pc' = [pc EXCEPT ![p] = "idle"]
    /\ result' = [result EXCEPT ![p] = "io"]
    /\ unsynced' = (unsynced \/ pc[p] = "syncroot")

\* The kernel closes the files of a dead process.
Die(p) ==
    /\ faults < MaxFaults /\ faults' = faults + 1
    /\ pc[p] # "idle"
    /\ CloseAll(p)
    /\ pc' = [pc EXCEPT ![p] = "idle"]
    /\ result' = [result EXCEPT ![p] = "none"]
    /\ unsynced' = (unsynced \/ pc[p] = "syncroot")
    /\ UNCHANGED fsVars

PowerLoss ==
    /\ faults < MaxFaults /\ faults' = faults + 1
    /\ root' \in rootDisk /\ rootDisk' = {root'}
    /\ entry' \in [Dirs -> UNION {dirDisk[d] : d \in Dirs}]
    /\ \A d \in Dirs : entry'[d] \in dirDisk[d]
    /\ dirDisk' = [d \in Dirs |-> {entry'[d]}]
    /\ rootLock' = Free /\ flock' = [f \in Files |-> Free]
    /\ pc' = [p \in Callers |-> "idle"] /\ want' = [p \in Callers |-> None]
    /\ dir' = [p \in Callers |-> None] /\ fd' = [p \in Callers |-> None]
    /\ result' = [p \in Callers |-> "none"]
    /\ UNCHANGED <<uid, unsynced>>

OpenStep(p) ==
    \/ LockRoot(p)
    \/ OpenDir(p) \/ Mkdir(p) \/ InheritDir(p) \/ RenameDir(p) \/ SyncRoot(p)
    \/ RemoveStale(p) \/ OpenFile(p) \/ CreateFile(p) \/ InheritFile(p)
    \/ LinkFile(p) \/ UnlinkTemp(p) \/ SyncDir(p)
    \/ Refuse(p)

Next ==
    \/ \E p \in Callers : \/ \E s \in Stripes : Call(p, s)
                          \/ OpenStep(p) \/ LockFlock(p) \/ Close(p)
                          \/ Busy(p) \/ Cancel(p) \/ Fail(p) \/ Die(p)
    \/ PowerLoss

Spec == Init /\ [][Next]_vars

(***************************************************************************)
(* Properties.                                                             *)
(***************************************************************************)

\* The lock files are a lock: whoever publishes, dies, fails or waits on an
\* opened file meanwhile, no two callers hold a stripe, and a lock is given up
\* only when its holder closes it or dies.
Lock == INSTANCE RootLock
            WITH held <- {<<p, want[p]>> : p \in {q \in Callers : pc[q] = "held"}}

ImplementsRootLock == Lock!Spec

\* "Lock inodes must never be replaced": once callers can open a lock directory
\* or a lock file by its name, the name keeps that inode, since a caller may be
\* waiting for the flock on it.
LockInodesStay ==
    [][ \/ PowerLoss
        \/ root.locks # None =>
              /\ root'.locks = root.locks
              /\ \A s \in Stripes : LET f == entry[root.locks][s].name IN
                    f # None => entry'[root.locks][s].name = f ]_vars

\* Nothing that a caller of either user leaves behind by dying or failing half
\* way, and nothing a power loss undoes, makes a later call fail: no leftover
\* link, temporary entry or file of the wrong owner.  The exception: after a
\* death between the rename and the fsync of the root directory, callers use the
\* directory without syncing it, and a power loss can leave .locks.init with a
\* lock file in it, which lockDirectory cannot remove.
LeftoversAreHarmless ==
    \A p \in Callers : /\ result[p] \notin {"access", "invalid"}
                       /\ result[p] = "exists" => unsynced
=============================================================================
