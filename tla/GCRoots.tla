------------------------------ MODULE GCRoots ------------------------------
(***************************************************************************)
(* What importers and garbage collectors share: the directory of GC roots  *)
(* (niximport.go, gcroot/sync.go), the lock stripe that guards each root   *)
(* (gcroot/lock.go) and the Nix store the roots keep alive.                *)
(*                                                                         *)
(* A root is a symlink named after the hash part of its store path, so a   *)
(* root is identified with its path and its content is its mtime.          *)
(***************************************************************************)
EXTENDS Integers, FiniteSets, Sequences

CONSTANTS
    Paths,      \* store paths that clients push
    Refs,       \* Refs[p]: the other paths in the closure of p
    Bodies,     \* what a decoded NAR can contain
    Want,       \* Want[p]: the contents p's NarHash and NarSize describe
    Stripes,    \* lock files; 256 of them in the code
    StripeOf,   \* StripeOf[p]: the lock file of p's hash part
    MaxTime,    \* bound on the clock
    Faults      \* the kinds of failure that may occur

NoRoot == -1
NoBody == "none"
Free   == "free"

ASSUME RefsAssumption ==
    /\ Refs \in [Paths -> SUBSET Paths]
    /\ \A p \in Paths : \A q \in Refs[p] : Refs[q] \subseteq Refs[p]

ASSUME SharedAssumption ==
    /\ Want \in [Paths -> Bodies] /\ NoBody \notin Bodies
    /\ StripeOf \in [Paths -> Stripes]
    /\ MaxTime \in Nat
    /\ Faults \subseteq {"import", "root", "prune", "collect", "crash", "power"}

VARIABLES
    now,        \* the wall clock
    root,       \* root[p]: mtime of p's root as every process sees it, or NoRoot
    disk,       \* disk[p]: the versions of p's root a power loss can leave behind
    owner,      \* owner[s]: holder of the flock on lock file s, or Free
    stored,     \* stored[p]: contents of p in the Nix store, or NoBody
    collecting, \* a nix-collect-garbage is running
    keep        \* what it will not delete

nixVars    == <<stored, collecting, keep>>
sharedVars == <<now, root, disk, owner, nixVars>>

RootVal == Nat \cup {NoRoot}

SharedTypeOK(procs) ==
    /\ now \in Nat
    /\ root \in [Paths -> RootVal]
    /\ disk \in [Paths -> SUBSET RootVal]
    /\ owner \in [Stripes -> procs \cup {Free}]
    /\ stored \in [Paths -> Bodies \cup {NoBody}]
    /\ collecting \in BOOLEAN
    /\ keep \subseteq Paths

SharedInit ==
    /\ now = 0
    /\ root = [p \in Paths |-> NoRoot]
    /\ disk = [p \in Paths |-> {NoRoot}]
    /\ owner = [s \in Stripes |-> Free]
    /\ stored = [p \in Paths |-> NoBody]
    /\ collecting = FALSE
    /\ keep = {}

(***************************************************************************)
(* The root directory.  A rename or unlink is visible at once, but only    *)
(* fsync of the directory (SyncDir) makes it survive a power loss: until   *)
(* then the disk may hold any version since the last sync.                 *)
(***************************************************************************)
WriteRoot(p, v) ==
    /\ root' = [root EXCEPT ![p] = v]
    /\ disk' = [disk EXCEPT ![p] = disk[p] \cup {v}]

SyncDir ==
    /\ disk' = [p \in Paths |-> {root[p]}]
    /\ UNCHANGED root

LoseUnsynced ==
    /\ root' \in [Paths -> UNION {disk[p] : p \in Paths}]
    /\ \A p \in Paths : root'[p] \in disk[p]
    /\ disk' = [p \in Paths |-> {root'[p]}]

(***************************************************************************)
(* The lock file of a root.  flock is exclusive, and the kernel drops it   *)
(* when the holder closes the file or dies.                                *)
(***************************************************************************)
Holds(proc, p) == owner[StripeOf[p]] = proc

Lock(proc, p) ==
    /\ owner[StripeOf[p]] = Free
    /\ owner' = [owner EXCEPT ![StripeOf[p]] = proc]

Unlock(proc) ==
    owner' = [s \in Stripes |-> IF owner[s] = proc THEN Free ELSE owner[s]]

UnlockAll(procs) ==
    owner' = [s \in Stripes |-> IF owner[s] \in procs THEN Free ELSE owner[s]]

(***************************************************************************)
(* The Nix store (external).  A path is valid only together with its       *)
(* references; a root that points at an absent path keeps nothing alive.   *)
(* Adding a path, even one that is already valid, first registers it as a  *)
(* temporary root of any collection in progress.                           *)
(***************************************************************************)
Valid(p) == stored[p] # NoBody

Live == {p \in Paths : \E q \in Paths : /\ root[q] # NoRoot
                                        /\ Valid(q)
                                        /\ p \in Refs[q] \cup {q}}

Garbage == {p \in Paths : Valid(p) /\ p \notin Live}

NixAdd(p, b) ==
    /\ \A q \in Refs[p] \ {p} : Valid(q)
    /\ stored' = [stored EXCEPT ![p] = IF Valid(p) THEN @ ELSE b]
    /\ keep' = IF collecting THEN keep \cup Refs[p] \cup {p} ELSE keep
    /\ UNCHANGED collecting

Tick ==
    /\ now < MaxTime
    /\ now' = now + 1
=============================================================================
