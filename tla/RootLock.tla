------------------------------ MODULE RootLock ------------------------------
(***************************************************************************)
(* What package gcroot promises its callers: a lock per stripe of roots    *)
(* that one caller holds at a time and that a dead caller does not keep.   *)
(* GCRoots uses the lock in this form; LockFile shows that the lock files  *)
(* of gcroot/lock.go and gcroot/ownership.go implement it.                 *)
(***************************************************************************)
CONSTANTS Callers, Stripes

VARIABLE held   \* the pairs <<caller, stripe>> of locks that are held

Init == held = {}

Acquire(p, s) ==
    /\ \A q \in Callers : <<q, s>> \notin held
    /\ held' = held \cup {<<p, s>>}

\* One caller closes its lock, or several die at once.
Release(ps) ==
    /\ \E h \in held : h[1] \in ps
    /\ held' = {h \in held : h[1] \notin ps}

Next ==
    \/ \E p \in Callers, s \in Stripes : Acquire(p, s)
    \/ \E ps \in SUBSET Callers : Release(ps)

Spec == Init /\ [][Next]_held
=============================================================================
