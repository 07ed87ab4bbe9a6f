------------------------------ MODULE GCRunner ------------------------------
(***************************************************************************)
(* The garbage collector (cli/gc.go): a check reads the disk usage, selects*)
(* a rule, prunes the roots the rule makes eligible, one lock at a time,   *)
(* and runs nix-collect-garbage.  The server runs one such loop, and an    *)
(* operator may run `tsnixcache gc` beside it.                             *)
(***************************************************************************)
EXTENDS GCRoots

CONSTANTS
    Runners,    \* processes that apply GC rules
    Loops,      \* the one in the server, if any; the others exit after a check
    Rules,      \* the rules, in the order of the flags
    Usage,      \* percentages diskUsedPct can return
    Cooldown,   \* Cooldown[g]: shortest gap between collections without effect
    Epoch       \* roots with an older mtime come from an unset clock

ASSUME GCAssumption ==
    /\ Loops \subseteq Runners
    /\ Free \notin Runners
    /\ Rules \in Seq([threshold : Nat, olderThan : Nat])
    /\ Usage \subseteq 0..100
    /\ Cooldown \in [Runners -> Nat]
    /\ Epoch \in Nat

VARIABLES
    gpc,        \* control state of runner g
    gcutoff,    \* roots with a later mtime are too young
    gtodo,      \* stale roots still to prune
    gcur,       \* the root being pruned, or NoTarget
    gpruned,    \* pruneResult.pruned > 0
    gfailed,    \* pruneResult.failed > 0
    glast,      \* lastCollect, or NoCollect
    gfreed      \* lastFreed > 0

gcVars == <<gpc, gcutoff, gtodo, gcur, gpruned, gfailed, glast, gfreed>>

NoTarget  == "notarget"
NoCollect == -1

PrunePC == {"check", "remove", "sync"}

GCTypeOK ==
    /\ gpc \in [Runners -> {"idle", "prune", "decide", "sweep"} \cup PrunePC]
    /\ gcutoff \in [Runners -> Int]
    /\ gtodo \in [Runners -> SUBSET Paths]
    /\ gcur \in [Runners -> Paths \cup {NoTarget}]
    /\ \A g \in Runners : gpc[g] \in PrunePC => gcur[g] \in Paths
    /\ gpruned \in [Runners -> BOOLEAN]
    /\ gfailed \in [Runners -> BOOLEAN]
    /\ glast \in [Runners -> Nat \cup {NoCollect}]
    /\ gfreed \in [Runners -> BOOLEAN]

GCInit ==
    /\ gpc = [g \in Runners |-> "idle"]
    /\ gcutoff = [g \in Runners |-> 0]
    /\ gtodo = [g \in Runners |-> {}]
    /\ gcur = [g \in Runners |-> NoTarget]
    /\ gpruned = [g \in Runners |-> FALSE]
    /\ gfailed = [g \in Runners |-> FALSE]
    /\ glast = [g \in Runners |-> NoCollect]
    /\ gfreed = [g \in Runners |-> FALSE]

\* selectRule: the highest threshold reached, the first flag on a tie.
SelectRule(usedPct) ==
    {i \in DOMAIN Rules :
        /\ Rules[i].threshold <= usedPct
        /\ \A j \in DOMAIN Rules : Rules[j].threshold <= usedPct =>
              \/ Rules[j].threshold < Rules[i].threshold
              \/ Rules[j].threshold = Rules[i].threshold /\ i <= j}

\* selectStaleGCRoots on the entries that are roots of ours.
Stale(p, cutoff) == root[p] # NoRoot /\ root[p] <= cutoff /\ root[p] >= Epoch

EndCheck(g) ==
    /\ gpc' = [gpc EXCEPT ![g] = "idle"]
    /\ gcutoff' = [gcutoff EXCEPT ![g] = 0]
    /\ gtodo' = [gtodo EXCEPT ![g] = {}]
    /\ gpruned' = [gpruned EXCEPT ![g] = FALSE]
    /\ gfailed' = [gfailed EXCEPT ![g] = FALSE]

\* apply up to the end of selectStaleGCRoots, which takes no lock.  A check
\* that selects no rule changes nothing.
StartCheck(g) ==
    /\ gpc[g] = "idle"
    /\ \E used \in Usage : \E i \in SelectRule(used) :
          LET cutoff == now - Rules[i].olderThan
              stale  == {p \in Paths : Stale(p, cutoff)}
          IN /\ gcutoff' = [gcutoff EXCEPT ![g] = cutoff]
             /\ gtodo' = [gtodo EXCEPT ![g] = stale]
    /\ gpc' = [gpc EXCEPT ![g] = "prune"]
    /\ UNCHANGED <<gcur, gpruned, gfailed, glast, gfreed, sharedVars>>

(***************************************************************************)
(* pruneLockedRoot: TryAcquire, look again, unlink, sync, unlock.          *)
(***************************************************************************)
NextRoot(g) ==
    /\ gtodo' = [gtodo EXCEPT ![g] = @ \ {gcur[g]}]
    /\ gcur' = [gcur EXCEPT ![g] = NoTarget]
    /\ gpc' = [gpc EXCEPT ![g] = "prune"]
    /\ Unlock(g)

TryLockRoot(g, p) ==
    /\ gpc[g] = "prune" /\ p \in gtodo[g]
    /\ Lock(g, p)
    /\ gcur' = [gcur EXCEPT ![g] = p]
    /\ gpc' = [gpc EXCEPT ![g] = "check"]
    /\ UNCHANGED <<gcutoff, gtodo, gpruned, gfailed, glast, gfreed,
                   now, root, disk, nixVars>>

\* ErrBusy, from the root's lock or from another process that is opening a
\* lock file at this moment, skips the root; any other error fails the check.
SkipRoot(g, p) ==
    /\ gpc[g] = "prune" /\ p \in gtodo[g]
    /\ gtodo' = [gtodo EXCEPT ![g] = @ \ {p}]
    /\ \/ UNCHANGED gfailed
       \/ "prune" \in Faults /\ gfailed' = [gfailed EXCEPT ![g] = TRUE]
    /\ UNCHANGED <<gpc, gcutoff, gcur, gpruned, glast, gfreed, sharedVars>>

\* Mutant of RecheckRoot: trusts the mtime read before the lock was taken.
RecheckRootTrusting(g) ==
    /\ gpc[g] = "check"
    /\ gpc' = [gpc EXCEPT ![g] = "remove"]
    /\ UNCHANGED <<gcutoff, gtodo, gcur, gpruned, gfailed, glast, gfreed,
                   sharedVars>>

\* Revalidate under the lock.
RecheckRoot(g) ==
    /\ gpc[g] = "check"
    /\ IF Stale(gcur[g], gcutoff[g])
       THEN /\ gpc' = [gpc EXCEPT ![g] = "remove"]
            /\ UNCHANGED <<gtodo, gcur, owner>>
       ELSE NextRoot(g)
    /\ UNCHANGED <<gcutoff, gpruned, gfailed, glast, gfreed,
                   now, root, disk, nixVars>>

RemoveRoot(g) ==
    /\ gpc[g] = "remove"
    /\ WriteRoot(gcur[g], NoRoot)
    /\ gpc' = [gpc EXCEPT ![g] = "sync"]
    /\ UNCHANGED <<gcutoff, gtodo, gcur, gpruned, gfailed, glast, gfreed,
                   now, owner, nixVars>>

SyncRemoval(g) ==
    /\ gpc[g] = "sync"
    /\ SyncDir
    /\ gpruned' = [gpruned EXCEPT ![g] = TRUE]
    /\ NextRoot(g)
    /\ UNCHANGED <<gcutoff, gfailed, glast, gfreed, now, nixVars>>

\* Lstat, unlink or sync fails; after the unlink the root is gone but is not
\* counted as pruned.
PruneFails(g) ==
    /\ "prune" \in Faults
    /\ gpc[g] \in PrunePC
    /\ gfailed' = [gfailed EXCEPT ![g] = TRUE]
    /\ NextRoot(g)
    /\ UNCHANGED <<gcutoff, gpruned, glast, gfreed, now, root, disk, nixVars>>

(***************************************************************************)
(* The rest of apply: nothing is collected after a failed prune, nor when  *)
(* skipCollect expects a collection to free nothing.                       *)
(***************************************************************************)
PruneDone(g) ==
    /\ gpc[g] = "prune" /\ gtodo[g] = {}
    /\ IF gfailed[g]
       THEN EndCheck(g)
       ELSE /\ gpc' = [gpc EXCEPT ![g] = "decide"]
            /\ UNCHANGED <<gcutoff, gtodo, gpruned, gfailed>>
    /\ UNCHANGED <<gcur, glast, gfreed, sharedVars>>

\* Mutant of SkipCollect: the cooldown also applies after a prune.
SkipCollectAfterPrune(g) ==
    /\ glast[g] # NoCollect
    /\ ~gfreed[g] /\ now - glast[g] < Cooldown[g]

SkipCollect(g) ==
    /\ ~gpruned[g] /\ glast[g] # NoCollect
    /\ ~gfreed[g] /\ now - glast[g] < Cooldown[g]

DontCollect(g) ==
    /\ gpc[g] = "decide" /\ SkipCollect(g)
    /\ EndCheck(g)
    /\ UNCHANGED <<gcur, glast, gfreed, sharedVars>>

\* nix-collect-garbage (external) takes Nix's global GC lock, marks what the
\* roots keep alive, and later deletes the rest, except what was added in the
\* meantime.
StartCollect(g) ==
    /\ gpc[g] = "decide" /\ ~SkipCollect(g)
    /\ ~collecting
    /\ collecting' = TRUE
    /\ keep' = Live
    /\ gpc' = [gpc EXCEPT ![g] = "sweep"]
    /\ UNCHANGED <<gcutoff, gtodo, gcur, gpruned, gfailed, glast, gfreed,
                   now, root, disk, owner, stored>>

\* lastFreed is the space the file system gained meanwhile, whoever freed it.
EndCollect(g, dead, gained) ==
    /\ gpc[g] = "sweep"
    /\ stored' = [p \in Paths |-> IF p \in dead THEN NoBody ELSE stored[p]]
    /\ collecting' = FALSE
    /\ keep' = {}
    /\ IF g \in Loops
       THEN /\ glast' = [glast EXCEPT ![g] = now]
            /\ gfreed' = [gfreed EXCEPT ![g] = gained]
       ELSE UNCHANGED <<glast, gfreed>>
    /\ EndCheck(g)
    /\ UNCHANGED <<gcur, now, root, disk, owner>>

Unkept == {p \in Paths : Valid(p)} \ keep

FinishCollect(g) == \E gained \in BOOLEAN : EndCollect(g, Unkept, gained)

\* nix-collect-garbage exits with an error, before or after it deleted.
CollectFails(g) ==
    /\ "collect" \in Faults
    /\ \E dead \in {{}, Unkept} : EndCollect(g, dead, FALSE)

RunnerStep(g) ==
    \/ RecheckRoot(g) \/ SyncRemoval(g) \/ PruneFails(g)
    \/ PruneDone(g) \/ DontCollect(g) \/ StartCollect(g)
    \/ FinishCollect(g) \/ CollectFails(g)
    \/ \E p \in Paths : TryLockRoot(g, p) \/ SkipRoot(g, p)

\* A runner dies; what it knew of its last collection is lost.
KillRunners(dead) ==
    /\ gpc' = [g \in Runners |-> IF g \in dead THEN "idle" ELSE gpc[g]]
    /\ gcutoff' = [g \in Runners |-> IF g \in dead THEN 0 ELSE gcutoff[g]]
    /\ gtodo' = [g \in Runners |-> IF g \in dead THEN {} ELSE gtodo[g]]
    /\ gcur' = [g \in Runners |-> IF g \in dead THEN NoTarget ELSE gcur[g]]
    /\ gpruned' = [g \in Runners |-> IF g \in dead THEN FALSE ELSE gpruned[g]]
    /\ gfailed' = [g \in Runners |-> IF g \in dead THEN FALSE ELSE gfailed[g]]
    /\ glast' = [g \in Runners |-> IF g \in dead THEN NoCollect ELSE glast[g]]
    /\ gfreed' = [g \in Runners |-> IF g \in dead THEN FALSE ELSE gfreed[g]]
=============================================================================
