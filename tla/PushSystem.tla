----------------------------- MODULE PushSystem -----------------------------
(***************************************************************************)
(* The cache server with pushes, garbage collection, crashes and power     *)
(* losses: NarImport and GCRunner over the shared GCRoots.                 *)
(***************************************************************************)
EXTENDS NarImport, GCRunner

ASSUME SystemAssumption == Reqs \cap Runners = {}

vars == <<sharedVars, importVars, gcVars>>

TypeOK == SharedTypeOK(Reqs \cup Runners) /\ ImportTypeOK /\ GCTypeOK

Init == SharedInit /\ ImportInit /\ GCInit

Clock == Tick /\ UNCHANGED <<root, disk, owner, nixVars, importVars, gcVars>>

GCCheck(g) == (g \in Loops => up) /\ StartCheck(g) /\ UNCHANGED importVars

GCStep(g) == RunnerStep(g) /\ UNCHANGED importVars

\* Pruning a root ends the promise its import made.
GCRemove(g) ==
    /\ RemoveRoot(g)
    /\ promised' = [promised EXCEPT ![gcur[g]] = FALSE]
    /\ UNCHANGED <<up, uploadVars, reqVars, acked>>

\* A killed runner takes its nix-collect-garbage along.
Killed(dead) ==
    /\ KillRunners(dead)
    /\ IF \E g \in dead : gpc[g] = "sweep"
       THEN collecting' = FALSE /\ keep' = {}
       ELSE UNCHANGED <<collecting, keep>>

ServerCrash ==
    /\ "crash" \in Faults /\ up
    /\ KillRequests
    /\ Killed(Loops)
    /\ UnlockAll(Reqs \cup Loops)
    /\ UNCHANGED <<now, root, disk, stored>>

RunnerCrash(g) ==
    /\ "crash" \in Faults
    /\ g \notin Loops /\ gpc[g] # "idle"
    /\ Killed({g})
    /\ UnlockAll({g})
    /\ UNCHANGED <<now, root, disk, stored, importVars>>

\* The store survives: Nix syncs its database before it acknowledges.
PowerLoss ==
    /\ "power" \in Faults /\ up
    /\ KillRequests
    /\ Killed(Runners)
    /\ UnlockAll(Reqs \cup Runners)
    /\ LoseUnsynced
    /\ UNCHANGED <<now, stored>>

Next ==
    \/ ImportNext /\ UNCHANGED gcVars
    \/ \E g \in Runners : GCCheck(g) \/ GCStep(g) \/ GCRemove(g)
    \/ Clock
    \/ ServerCrash \/ PowerLoss
    \/ \E g \in Runners : RunnerCrash(g)
    \/ Restart /\ UNCHANGED gcVars

Spec == Init /\ [][Next]_vars

\* Goroutines are scheduled, system calls return, and the deadlines of
\* handlePutNarInfo and acquireImportSlot expire.
FairSpec ==
    Spec /\ \A r \in Reqs : WF_vars(ReqStep(r) /\ UNCHANGED gcVars)

(***************************************************************************)
(* Safety.                                                                 *)
(***************************************************************************)

\* Nothing reaches the store except contents that match the pushed narinfo,
\* whatever concurrent uploads do to the spool name between the hash check
\* and the import (niximport.go Import, one open for both passes).
StoreHoldsVerified == \A p \in Paths : stored[p] \in {NoBody, Want[p]}

\* A path answered with 200 stays rooted, and it and its closure stay in the
\* store, until the import is older than a rule allows: no prune, collection,
\* failed re-push, crash or power loss takes it before that.
Retained(p) ==
    /\ root[p] # NoRoot
    /\ \A q \in Refs[p] \cup {p} : Valid(q)

Expired(t) == \E i \in DOMAIN Rules : now >= t + Rules[i].olderThan

AckedRetained ==
    \A p \in Paths : acked[p] # Never => Expired(acked[p]) \/ Retained(p)

\* Only the pruner takes the root of an imported path: a failed re-push
\* keeps a root that existed before it (Import, createdRoot).
PromiseKeepsRoot == \A p \in Paths : promised[p] => root[p] # NoRoot

\* From the first addGCRoot until the import is over, the root exists, so a
\* collection that starts in between cannot miss the imported path.
RootDuringImport ==
    \A r \in Reqs : rpc[r] \in {"sync", "import", "reply", "refresh", "resync"}
        => root[rpath[r]] # NoRoot

\* The root of a path that Nix is given, or has been given, is only the pruner's.
RootsKept == PromiseKeepsRoot /\ RootDuringImport

\* importSem holds one token per request between acquireImportSlot and its
\* deferred release; none leaks on any error path.
SlotsAccounted == inUse = Cardinality({r \in Reqs : rpc[r] \in SlotPC})

\* The types hold because the slots are accounted for: a release finds one.
Accounted == TypeOK /\ SlotsAccounted

\* Every narinfo request is answered (or dies with the server), however many
\* others want its slot or its root's lock.
RequestEnds == \A r \in Reqs : rpc[r] # "idle" ~> rpc[r] = "idle"

\* A check that has removed a root and has not collected since.
Owes(g) == gpc[g] = "sync" \/ gpruned[g]

\* Garbage that no check knows of: what a failed collection, import or prune
\* leaves, and what a killed `tsnixcache gc` pruned and did not collect.
LeavesGarbage ==
    \/ Faults \cap {"collect", "import", "prune"} # {}
    \/ "crash" \in Faults /\ Runners # Loops

\* When skipCollect leaves nix-collect-garbage alone, there is no garbage for it
\* to free but what another check has unrooted and is about to collect: the
\* memory of the last collection may be trusted across prunes, pushes, lost
\* roots and restarts, unless something failed (cli/gc.go skipCollect).
SkipFreesNothing ==
    ~LeavesGarbage =>
        \A g \in Loops : gpc[g] = "decide" /\ SkipCollect(g) =>
            Garbage = {} \/ \E h \in Runners \ {g} : Owes(h)
=============================================================================
