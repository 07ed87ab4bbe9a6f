-------------------------- MODULE PushSystemProofs --------------------------
(***************************************************************************)
(* Proofs about PushSystem, for every set of paths, requests, collectors,  *)
(* rules and faults.                                                       *)
(***************************************************************************)
EXTENDS PushSystem, FiniteSetTheorems, TLAPS

(***************************************************************************)
(* Types and import slots.  They go together: releasing a slot keeps inUse *)
(* in its type only because the releasing request holds one.               *)
(***************************************************************************)
Holding == {r \in Reqs : rpc[r] \in SlotPC}

USE DEF RootVal, NoRoot, NoBody, Free, File, NoFile, Never, NoPath, NoName, NoTarget,
        NoCollect

\* A request's step in terms of slots.
SlotStep(r) ==
    \E pc \in {"idle", "slot"} \cup SlotPC :
        /\ rpc' = [rpc EXCEPT ![r] = pc]
        /\ \/ rpc[r] = "slot" /\ pc \in SlotPC /\ inUse < Slots /\ inUse' = inUse + 1
           \/ rpc[r] = "slot" /\ pc = "idle" /\ inUse' = inUse
           \/ rpc[r] \in SlotPC /\ pc = "idle" /\ inUse' = inUse - 1
           \/ rpc[r] \in SlotPC /\ pc \in SlotPC /\ inUse' = inUse

LEMMA ReqStepSlots == ASSUME NEW r \in Reqs, ReqStep(r) PROVE SlotStep(r)
<1> USE DEF SlotStep, SlotPC, UnlockedPC, LockedPC, DropPC, Goto, reqFrame
<1>1. CASE AcquireImportSlot(r) \/ GiveUpImportSlot(r) \/ Respond(r)
  BY <1>1 DEF AcquireImportSlot, GiveUpImportSlot, Respond, EndReq
<1>2. CASE OpenSpool(r) \/ Verify(r) \/ VerifyFails(r)
  BY <1>2 DEF OpenSpool, Verify, VerifyFails
<1>3. CASE LockGCRoot(r) \/ LockGCRootFails(r) \/ AddGCRoot(r) \/ SyncGCRoot(r) \/ AddGCRootFails(r)
  BY <1>3 DEF LockGCRoot, LockGCRootFails, AddGCRoot, SyncGCRoot, AddGCRootFails
<1>4. CASE ImportNar(r) \/ ImportDone(r) \/ ImportFails(r)
  BY <1>4 DEF ImportNar, ImportDone, ImportFails
<1>5. CASE RollbackRoot(r) \/ SyncRollback(r) \/ RollbackFails(r)
  BY <1>5 DEF RollbackRoot, SyncRollback, RollbackFails
<1>6. CASE RefreshGCRoot(r) \/ SyncRefresh(r)
  BY <1>6 DEF RefreshGCRoot, SyncRefresh
<1>7. CASE DropSpool(r) \/ UnlinkSpool(r) \/ UnlockGCRoot(r)
  BY <1>7 DEF DropSpool, UnlinkSpool, UnlockGCRoot
<1> QED BY <1>1, <1>2, <1>3, <1>4, <1>5, <1>6, <1>7 DEF ReqStep

\* The token count follows the requests: inUse stays within the capacity.
LEMMA SlotStepKeeps ==
    ASSUME Accounted, NEW r \in Reqs, SlotStep(r)
    PROVE  SlotsAccounted' /\ inUse' \in 0..Slots
<1>1. IsFiniteSet(Holding) /\ Cardinality(Holding) \in Nat /\ inUse = Cardinality(Holding)
  <2>1. Holding \in SUBSET Reqs
    BY DEF Holding
  <2> QED BY <2>1, FS_Subset, FS_CardinalityType, ImportAssumption
             DEF Accounted, SlotsAccounted, Holding
<1>2. PICK pc \in {"idle", "slot"} \cup SlotPC :
        /\ rpc' = [rpc EXCEPT ![r] = pc]
        /\ \/ rpc[r] = "slot" /\ pc \in SlotPC /\ inUse < Slots /\ inUse' = inUse + 1
           \/ rpc[r] = "slot" /\ pc = "idle" /\ inUse' = inUse
           \/ rpc[r] \in SlotPC /\ pc = "idle" /\ inUse' = inUse - 1
           \/ rpc[r] \in SlotPC /\ pc \in SlotPC /\ inUse' = inUse
  BY DEF SlotStep
<1>3. rpc \in [Reqs -> {"idle", "slot"} \cup SlotPC] /\ inUse \in 0..Slots /\ Slots \in Nat
  BY ImportAssumption DEF Accounted, TypeOK, ImportTypeOK
<1>4. "slot" \notin SlotPC /\ "idle" \notin SlotPC
  BY DEF SlotPC, UnlockedPC, LockedPC, DropPC
<1>5. Holding' = IF pc \in SlotPC THEN Holding \cup {r} ELSE Holding \ {r}
  BY <1>2, <1>3 DEF Holding
<1>6. CASE rpc[r] \in SlotPC
  <2>1. r \in Holding /\ Holding # {}
    BY <1>6 DEF Holding
  <2>2. inUse >= 1
    BY <1>1, <2>1, FS_EmptySet
  <2>3. CASE pc \in SlotPC
    <3>1. Holding' = Holding
      BY <1>5, <2>1, <2>3
    <3> QED BY <1>1, <1>2, <1>3, <1>4, <1>6, <2>3, <3>1 DEF SlotsAccounted, Holding
  <2>4. CASE pc \notin SlotPC
    <3>1. Cardinality(Holding') = Cardinality(Holding) - 1
      BY <1>1, <1>5, <2>1, <2>4, FS_RemoveElement
    <3>2. inUse' = inUse - 1
      BY <1>2, <1>4, <1>6, <2>4
    <3> QED BY <1>1, <1>3, <2>2, <3>1, <3>2 DEF SlotsAccounted, Holding
  <2> QED BY <2>3, <2>4
<1>7. CASE rpc[r] \notin SlotPC
  <2>1. r \notin Holding
    BY <1>7 DEF Holding
  <2>2. CASE pc \in SlotPC
    <3>1. Cardinality(Holding') = Cardinality(Holding) + 1
      BY <1>1, <1>5, <2>1, <2>2, FS_AddElement
    <3> QED BY <1>1, <1>2, <1>3, <1>4, <1>7, <2>2, <3>1 DEF SlotsAccounted, Holding
  <2>3. CASE pc \notin SlotPC
    <3>1. Holding' = Holding
      BY <1>5, <2>1, <2>3
    <3> QED BY <1>1, <1>2, <1>3, <1>7, <2>3, <3>1 DEF SlotsAccounted, Holding
  <2> QED BY <2>2, <2>3
<1> QED BY <1>6, <1>7

\* The shared operations keep their types.
LEMMA WriteRootType ==
    ASSUME root \in [Paths -> RootVal], disk \in [Paths -> SUBSET RootVal],
           NEW p \in Paths, NEW v \in RootVal, WriteRoot(p, v)
    PROVE  root' \in [Paths -> RootVal] /\ disk' \in [Paths -> SUBSET RootVal]
BY DEF WriteRoot

LEMMA SyncDirType ==
    ASSUME root \in [Paths -> RootVal], SyncDir
    PROVE  root' \in [Paths -> RootVal] /\ disk' \in [Paths -> SUBSET RootVal]
BY DEF SyncDir

LEMMA ReqStepTypes ==
    ASSUME Accounted, NEW r \in Reqs, ReqStep(r)
    PROVE  SharedTypeOK(Reqs \cup Runners)' /\ ImportTypeOK'
<1> USE DEF Accounted, TypeOK, SharedTypeOK, nixVars, sharedVars, uploadVars, reqFrame, Goto
<1>1. inUse' \in 0..Slots /\ rpc' \in [Reqs -> {"idle", "slot"} \cup SlotPC]
  BY ReqStepSlots, SlotStepKeeps DEF SlotStep, ImportTypeOK
<1>2. /\ rpc[r] # "idle" /\ rpath[r] \in Paths
      /\ \A q \in Reqs \ {r} : rpc'[q] = rpc[q]
  <2>1. rpc[r] # "idle"
    BY ReqStepSlots DEF SlotStep, SlotPC, UnlockedPC, LockedPC, DropPC
  <2> QED BY <2>1, ReqStepSlots DEF SlotStep, ImportTypeOK
<1>3. CASE GiveUpImportSlot(r) \/ Respond(r)
  <2>1. acked' \in [Paths -> Nat \cup {Never}] /\ UNCHANGED <<up, uploadVars, promised, sharedVars>>
    BY <1>2, <1>3 DEF GiveUpImportSlot, Respond, ImportTypeOK
  <2>2. EndReq(r)
    BY <1>3 DEF GiveUpImportSlot, Respond
  <2> QED BY <1>1, <2>1, <2>2 DEF EndReq, ImportTypeOK
<1>4. CASE OpenSpool(r)
  <2>1. spool[NameOf[rpath[r]]] \in File \cup {NoFile}
    BY <1>2, ImportAssumption DEF ImportTypeOK
  <2> QED BY <1>1, <1>2, <1>4, <2>1 DEF OpenSpool, ImportTypeOK
<1>5. CASE AcquireImportSlot(r) \/ Verify(r) \/ VerifyFails(r) \/ LockGCRootFails(r)
           \/ AddGCRootFails(r) \/ ImportFails(r) \/ RollbackFails(r) \/ DropSpool(r)
  BY <1>1, <1>2, <1>5 DEF AcquireImportSlot, Verify, VerifyFails, LockGCRootFails,
       AddGCRootFails, ImportFails, RollbackFails, DropSpool, ImportTypeOK
<1>6. CASE LockGCRoot(r) \/ UnlockGCRoot(r)
  <2>1. owner' \in [Stripes -> Reqs \cup Runners \cup {Free}]
    BY <1>6 DEF LockGCRoot, UnlockGCRoot, Lock, Unlock
  <2> QED BY <1>1, <1>2, <1>6, <2>1 DEF LockGCRoot, UnlockGCRoot, ImportTypeOK
<1>7. CASE AddGCRoot(r) \/ RollbackRoot(r) \/ RefreshGCRoot(r)
  <2>1. root' \in [Paths -> RootVal] /\ disk' \in [Paths -> SUBSET RootVal]
    BY <1>2, <1>7, WriteRootType DEF AddGCRoot, RollbackRoot, RefreshGCRoot
  <2>2. rmade' \in [Reqs -> BOOLEAN]
    BY <1>7 DEF AddGCRoot, RollbackRoot, RefreshGCRoot, ImportTypeOK
  <2> QED BY <1>1, <1>2, <1>7, <2>1, <2>2 DEF AddGCRoot, RollbackRoot, RefreshGCRoot, ImportTypeOK
<1>8. CASE SyncGCRoot(r) \/ SyncRollback(r) \/ SyncRefresh(r)
  <2>1. root' \in [Paths -> RootVal] /\ disk' \in [Paths -> SUBSET RootVal]
    BY <1>8, SyncDirType DEF SyncGCRoot, SyncRollback, SyncRefresh
  <2>2. UNCHANGED <<now, owner, nixVars>>
    BY <1>8 DEF SyncGCRoot, SyncRollback, SyncRefresh
  <2>3. CASE SyncGCRoot(r) \/ SyncRollback(r)
    <3>1. ImportTypeOK'
      BY <1>1, <1>2, <2>3 DEF SyncGCRoot, SyncRollback, ImportTypeOK
    <3> QED BY <2>1, <2>2, <3>1
  <2>4. CASE SyncRefresh(r)
    <3>1. ImportTypeOK'
      BY <1>1, <1>2, <2>4 DEF SyncRefresh, ImportTypeOK
    <3> QED BY <2>1, <2>2, <3>1
  <2> QED BY <1>8, <2>3, <2>4
<1>9. CASE ImportNar(r)
  <2>1. rfd[r].body \in Bodies \cup {NoBody}
    BY DEF ImportTypeOK
  <2>2. stored' \in [Paths -> Bodies \cup {NoBody}] /\ collecting' \in BOOLEAN /\ keep' \subseteq Paths
    BY <1>2, <1>9, <2>1, RefsAssumption DEF ImportNar, NixAdd, Valid
  <2> QED BY <1>1, <1>2, <1>9, <2>2 DEF ImportNar, ImportTypeOK
<1>10. CASE ImportDone(r)
  BY <1>1, <1>2, <1>10 DEF ImportDone, ImportTypeOK
<1>11. CASE UnlinkSpool(r)
  BY <1>1, <1>2, <1>11 DEF UnlinkSpool, ImportTypeOK
<1> QED BY <1>3, <1>4, <1>5, <1>6, <1>7, <1>8, <1>9, <1>10, <1>11 DEF ReqStep

LEMMA UploadTypes ==
    ASSUME Accounted, UNCHANGED gcVars,
           \/ \E u \in Uploads, n \in Names, b \in Bodies : PutNar(u, n, b)
           \/ \E u \in Uploads : UploadStep(u)
           \/ SweepSpool \/ Restart
    PROVE  Accounted'
<1> USE DEF Accounted, TypeOK, SharedTypeOK, nixVars, sharedVars, uploadVars, reqVars
<1>1. UNCHANGED <<sharedVars, reqVars, acked, promised>> /\ up' \in BOOLEAN
  BY DEF PutNar, UploadStep, CopyNar, RenameNar, RenameSwept, PutNarFails, SweepSpool, Restart,
         ImportTypeOK
<1>2. spool' \in [Names -> File \cup {NoFile}]
  <2>1. ASSUME NEW u \in Uploads, RenameNar(u) \/ RenameSwept(u)
        PROVE  spool' \in [Names -> File \cup {NoFile}]
    BY <2>1 DEF RenameNar, RenameSwept, ImportTypeOK
  <2> QED BY <2>1 DEF PutNar, UploadStep, CopyNar, PutNarFails, SweepSpool, Restart,
                      ImportTypeOK
<1>3. tmp' \in [Uploads -> File \cup {NoFile}]
  <2>1. ASSUME NEW u \in Uploads, NEW n \in Names, NEW b \in Bodies, PutNar(u, n, b)
        PROVE  tmp' \in [Uploads -> File \cup {NoFile}]
    BY <2>1 DEF PutNar, ImportTypeOK
  <2>2. ASSUME NEW u \in Uploads, CopyNar(u)
        PROVE  tmp' \in [Uploads -> File \cup {NoFile}]
    BY <2>2 DEF CopyNar, ImportTypeOK
  <2>3. ASSUME NEW u \in Uploads, RenameNar(u) \/ RenameSwept(u) \/ PutNarFails(u)
        PROVE  tmp' \in [Uploads -> File \cup {NoFile}]
    BY <2>3 DEF RenameNar, RenameSwept, PutNarFails, EndUpload, ImportTypeOK
  <2>4. CASE SweepSpool \/ Restart
    BY <2>4 DEF SweepSpool, Restart, ImportTypeOK
  <2> QED BY <2>1, <2>2, <2>3, <2>4 DEF UploadStep
<1>4. /\ upc' \in [Uploads -> {"idle", "copy", "rename"}]
      /\ uname' \in [Uploads -> Names \cup {NoName}]
      /\ \A u \in Uploads : upc'[u] # "idle" => uname'[u] \in Names
  <2>1. ASSUME NEW u \in Uploads, NEW n \in Names, NEW b \in Bodies, PutNar(u, n, b)
        PROVE  /\ upc' = [upc EXCEPT ![u] = "copy"] /\ uname' = [uname EXCEPT ![u] = n]
    BY <2>1 DEF PutNar
  <2>2. ASSUME NEW u \in Uploads, CopyNar(u)
        PROVE  upc[u] # "idle" /\ upc' = [upc EXCEPT ![u] = "rename"] /\ uname' = uname
    BY <2>2 DEF CopyNar
  <2>3. ASSUME NEW u \in Uploads, RenameNar(u) \/ RenameSwept(u) \/ PutNarFails(u)
        PROVE  upc' = [upc EXCEPT ![u] = "idle"] /\ uname' = [uname EXCEPT ![u] = NoName]
    BY <2>3 DEF RenameNar, RenameSwept, PutNarFails, EndUpload
  <2>4. CASE SweepSpool \/ Restart
    BY <2>4 DEF SweepSpool, Restart, ImportTypeOK
  <2>5. ASSUME NEW u \in Uploads, NEW c \in {"idle", "copy", "rename"},
               NEW n \in Names \cup {NoName},
               upc' = [upc EXCEPT ![u] = c], uname' = [uname EXCEPT ![u] = n],
               c # "idle" => n \in Names
        PROVE  /\ upc' \in [Uploads -> {"idle", "copy", "rename"}]
               /\ uname' \in [Uploads -> Names \cup {NoName}]
               /\ \A v \in Uploads : upc'[v] # "idle" => uname'[v] \in Names
    BY <2>5 DEF ImportTypeOK
  <2>6. ASSUME NEW u \in Uploads, CopyNar(u)
        PROVE  /\ uname[u] \in Names /\ uname' = [uname EXCEPT ![u] = uname[u]]
               /\ upc' = [upc EXCEPT ![u] = "rename"]
    BY <2>2, <2>6 DEF ImportTypeOK
  <2> QED BY <2>1, <2>3, <2>4, <2>5, <2>6 DEF UploadStep
<1>5. ImportTypeOK'
  BY <1>1, <1>2, <1>3, <1>4 DEF ImportTypeOK
<1>6. GCTypeOK'
  BY DEF gcVars, GCTypeOK
<1> QED BY <1>1, <1>5, <1>6 DEF SlotsAccounted

\* A new request takes no slot yet.
LEMMA PutNarInfoTypes ==
    ASSUME Accounted, UNCHANGED gcVars, NEW r \in Reqs, NEW p \in Paths, PutNarInfo(r, p)
    PROVE  Accounted'
<1> USE DEF Accounted, TypeOK, SharedTypeOK, nixVars, sharedVars, uploadVars
<1>1. Holding' = Holding
  BY DEF Holding, PutNarInfo, Goto, ImportTypeOK, SlotPC, UnlockedPC, LockedPC, DropPC
<1>2. ImportTypeOK'
  BY DEF PutNarInfo, Goto, ImportTypeOK
<1>3. GCTypeOK'
  BY DEF gcVars, GCTypeOK
<1> QED BY <1>1, <1>2, <1>3 DEF SlotsAccounted, Holding, PutNarInfo

LEMMA ElementType == ASSUME NEW S, NEW s \in Seq(S), NEW i \in DOMAIN s PROVE s[i] \in S
OBVIOUS

LEMMA RuleType == \A i \in DOMAIN Rules : Rules[i] \in [threshold : Nat, olderThan : Nat]
BY ElementType, GCAssumption

LEMMA EndCheckType ==
    ASSUME GCTypeOK, NEW g \in Runners, EndCheck(g), gcur' = gcur,
           glast' \in [Runners -> Nat \cup {NoCollect}], gfreed' \in [Runners -> BOOLEAN]
    PROVE  GCTypeOK'
<1>1. gpruned' \in [Runners -> BOOLEAN] /\ gfailed' \in [Runners -> BOOLEAN]
  BY DEF EndCheck, GCTypeOK
<1>2. /\ gpc' \in [Runners -> {"idle", "prune", "decide", "sweep"} \cup PrunePC]
      /\ \A h \in Runners : gpc'[h] \in PrunePC => gcur'[h] \in Paths
  BY DEF EndCheck, GCTypeOK, PrunePC
<1>3. gcutoff' \in [Runners -> Int] /\ gtodo' \in [Runners -> SUBSET Paths]
  BY DEF EndCheck, GCTypeOK
<1> QED BY <1>1, <1>2, <1>3 DEF GCTypeOK

\* What a collector's step leaves alone.
LEMMA CollectorTypes ==
    ASSUME Accounted, NEW g \in Runners, GCCheck(g) \/ GCStep(g) \/ GCRemove(g)
    PROVE  Accounted'
<1> USE DEF Accounted, TypeOK, SharedTypeOK, nixVars, sharedVars
<1>1. ImportTypeOK' /\ SlotsAccounted'
  <2>1. UNCHANGED <<up, uploadVars, reqVars, acked>>
    BY DEF GCCheck, GCStep, GCRemove, importVars
  <2>2. promised' \in [Paths -> BOOLEAN]
    BY DEF GCCheck, GCStep, GCRemove, importVars, ImportTypeOK
  <2> QED BY <2>1, <2>2 DEF uploadVars, reqVars, ImportTypeOK, SlotsAccounted
<1>2. GCTypeOK' /\ SharedTypeOK(Reqs \cup Runners)'
  <2> USE DEF GCTypeOK, PrunePC
  <2>1. CASE StartCheck(g)
    <3>1. \A i \in DOMAIN Rules : now - Rules[i].olderThan \in Int
      <4>1. \A i \in DOMAIN Rules : Rules[i] \in [threshold : Nat, olderThan : Nat]
        BY RuleType
      <4> QED BY <4>1
    <3>2. PICK i \in DOMAIN Rules :
            gcutoff' = [gcutoff EXCEPT ![g] = now - Rules[i].olderThan]
      BY <2>1 DEF StartCheck, SelectRule
    <3>3. gcutoff' \in [Runners -> Int]
      BY <3>1, <3>2
    <3>4. gtodo' \in [Runners -> SUBSET Paths] /\ gpruned' \in [Runners -> BOOLEAN]
      <4>1. \A cutoff : {p \in Paths : Stale(p, cutoff)} \in SUBSET Paths
        OBVIOUS
      <4>2. PICK stale \in SUBSET Paths : gtodo' = [gtodo EXCEPT ![g] = stale]
        BY <2>1, <4>1 DEF StartCheck
      <4> QED BY <2>1, <4>2 DEF StartCheck
    <3> QED BY <2>1, <3>3, <3>4 DEF StartCheck
  <2>2. CASE RemoveRoot(g)
    <3>1. gcur[g] \in Paths
      BY <2>2 DEF RemoveRoot
    <3> QED BY <2>2, <3>1, WriteRootType DEF RemoveRoot
  <2>3. CASE RecheckRoot(g)
    BY <2>3 DEF RecheckRoot, NextRoot, Unlock
  <2>4. CASE SyncRemoval(g)
    BY <2>4, SyncDirType DEF SyncRemoval, NextRoot, Unlock
  <2>5. CASE PruneFails(g)
    BY <2>5 DEF PruneFails, NextRoot, Unlock
  <2>6. CASE PruneDone(g) \/ DontCollect(g)
    BY <2>6, EndCheckType DEF PruneDone, DontCollect
  <2>7. CASE StartCollect(g)
    BY <2>7 DEF StartCollect, Live
  <2>8. ASSUME NEW dead, NEW gained \in BOOLEAN, EndCollect(g, dead, gained)
        PROVE  GCTypeOK' /\ SharedTypeOK(Reqs \cup Runners)'
    <3>1. glast' \in [Runners -> Nat \cup {NoCollect}] /\ gfreed' \in [Runners -> BOOLEAN]
      BY <2>8 DEF EndCollect
    <3>2. /\ stored' \in [Paths -> Bodies \cup {NoBody}]
          /\ collecting' \in BOOLEAN /\ keep' \subseteq Paths
      BY <2>8 DEF EndCollect
    <3> QED BY <2>8, <3>1, <3>2, EndCheckType DEF EndCollect
  <2>9. ASSUME NEW p \in Paths, TryLockRoot(g, p) \/ SkipRoot(g, p)
        PROVE  GCTypeOK' /\ SharedTypeOK(Reqs \cup Runners)'
    <3>1. CASE TryLockRoot(g, p)
      BY <2>9, <3>1 DEF TryLockRoot, Lock
    <3>2. CASE SkipRoot(g, p)
      <4>1. gfailed' \in [Runners -> BOOLEAN]
        BY <3>2 DEF SkipRoot
      <4> QED BY <3>2, <4>1 DEF SkipRoot
    <3> QED BY <2>9, <3>1, <3>2
  <2>10. CASE FinishCollect(g) \/ CollectFails(g)
    <3>1. \E dead : \E gained \in BOOLEAN : EndCollect(g, dead, gained)
      <4> HIDE DEF TypeOK, SharedTypeOK, GCTypeOK, PrunePC
      <4> QED BY <2>10 DEF FinishCollect, CollectFails
    <3> QED BY <2>8, <3>1
  <2>11. CASE RunnerStep(g)
    <3> HIDE DEF TypeOK, SharedTypeOK, GCTypeOK, PrunePC
    <3> QED BY <2>3, <2>4, <2>5, <2>6, <2>7, <2>9, <2>10, <2>11 DEF RunnerStep
  <2> QED BY <2>1, <2>2, <2>11 DEF GCCheck, GCStep, GCRemove
<1> QED BY <1>1, <1>2

LEMMA CrashTypes ==
    ASSUME Accounted, ServerCrash \/ PowerLoss \/ \E g \in Runners : RunnerCrash(g)
    PROVE  Accounted'
<1> USE DEF Accounted, TypeOK, SharedTypeOK, nixVars, sharedVars
<1>1. ImportTypeOK' /\ SlotsAccounted'
  <2>1. CASE KillRequests
    <3>1. ImportTypeOK'
      <4>1. rmade' \in [Reqs -> BOOLEAN] /\ rok' \in [Reqs -> BOOLEAN] /\ up' \in BOOLEAN
        BY <2>1 DEF KillRequests
      <4>2. inUse' \in 0..Slots
        BY <2>1, ImportAssumption DEF KillRequests
      <4>3. /\ upc' \in [Uploads -> {"idle", "copy", "rename"}]
            /\ uname' \in [Uploads -> Names \cup {NoName}]
            /\ \A u \in Uploads : upc'[u] # "idle" => uname'[u] \in Names
        BY <2>1 DEF KillRequests
      <4>4. /\ rpc' \in [Reqs -> {"idle", "slot"} \cup SlotPC]
            /\ rpath' \in [Reqs -> Paths \cup {NoPath}]
            /\ \A r \in Reqs : rpc'[r] # "idle" => rpath'[r] \in Paths
            /\ rfd' \in [Reqs -> File \cup {NoFile}] /\ rdone' \in [Reqs -> Nat]
        BY <2>1 DEF KillRequests
      <4> QED BY <2>1, <4>1, <4>2, <4>3, <4>4 DEF KillRequests, ImportTypeOK
    <3>2. Holding' = {} /\ inUse' = 0
      BY <2>1 DEF KillRequests, Holding, SlotPC, UnlockedPC, LockedPC, DropPC
    <3> QED BY <3>1, <3>2, FS_EmptySet DEF SlotsAccounted, Holding
  <2>2. CASE UNCHANGED importVars
    BY <2>2 DEF importVars, uploadVars, reqVars, ImportTypeOK, SlotsAccounted
  <2> QED BY <2>1, <2>2 DEF ServerCrash, PowerLoss, RunnerCrash
<1>2. GCTypeOK' /\ collecting' \in BOOLEAN /\ keep' \subseteq Paths
  <2>1. PICK dead : Killed(dead)
    BY DEF ServerCrash, PowerLoss, RunnerCrash
  <2>2. /\ gpruned' \in [Runners -> BOOLEAN] /\ gfailed' \in [Runners -> BOOLEAN]
        /\ gfreed' \in [Runners -> BOOLEAN]
    BY <2>1 DEF Killed, KillRunners, GCTypeOK
  <2>3. /\ gpc' \in [Runners -> {"idle", "prune", "decide", "sweep"} \cup PrunePC]
        /\ gcutoff' \in [Runners -> Int] /\ gtodo' \in [Runners -> SUBSET Paths]
        /\ glast' \in [Runners -> Nat \cup {NoCollect}]
    BY <2>1 DEF Killed, KillRunners, GCTypeOK
  <2>4. /\ gcur' \in [Runners -> Paths \cup {NoTarget}]
        /\ \A g \in Runners : gpc'[g] \in PrunePC => gcur'[g] \in Paths
    BY <2>1 DEF Killed, KillRunners, GCTypeOK, PrunePC
  <2>5. collecting' \in BOOLEAN /\ keep' \subseteq Paths
    BY <2>1 DEF Killed
  <2> QED BY <2>2, <2>3, <2>4, <2>5 DEF GCTypeOK
<1>3. owner' \in [Stripes -> Reqs \cup Runners \cup {Free}] /\ now' \in Nat
      /\ stored' \in [Paths -> Bodies \cup {NoBody}]
  BY DEF ServerCrash, PowerLoss, RunnerCrash, UnlockAll
<1>4. root' \in [Paths -> RootVal] /\ disk' \in [Paths -> SUBSET RootVal]
  <2>1. LoseUnsynced => root' \in [Paths -> RootVal] /\ disk' \in [Paths -> SUBSET RootVal]
    BY DEF LoseUnsynced
  <2> QED BY <2>1 DEF ServerCrash, PowerLoss, RunnerCrash
<1> QED BY <1>1, <1>2, <1>3, <1>4

LEMMA AccountedInit == Init => Accounted
<1> SUFFICES ASSUME Init PROVE Accounted
  OBVIOUS
<1> USE DEF Init, SharedInit, ImportInit, GCInit
<1>1. SharedTypeOK(Reqs \cup Runners)
  BY DEF SharedTypeOK
<1>2. ImportTypeOK
  BY ImportAssumption DEF ImportTypeOK
<1>3. GCTypeOK
  BY DEF GCTypeOK, PrunePC
<1>4. Holding = {}
  BY DEF Holding, SlotPC, UnlockedPC, LockedPC, DropPC
<1> QED BY <1>1, <1>2, <1>3, <1>4, FS_EmptySet DEF Accounted, TypeOK, SlotsAccounted, Holding

LEMMA AccountedNext == Accounted /\ [Next]_vars => Accounted'
<1> SUFFICES ASSUME Accounted, [Next]_vars PROVE Accounted'
  OBVIOUS
<1>1. ASSUME NEW r \in Reqs, ReqStep(r), UNCHANGED gcVars PROVE Accounted'
  <2>1. GCTypeOK'
    BY <1>1 DEF Accounted, TypeOK, GCTypeOK, gcVars
  <2>2. SlotsAccounted'
    BY <1>1, ReqStepSlots, SlotStepKeeps
  <2> QED BY <1>1, <2>1, <2>2, ReqStepTypes DEF Accounted, TypeOK
<1>2. CASE Clock
  BY <1>2 DEF Clock, Tick, Accounted, TypeOK, SharedTypeOK, ImportTypeOK, GCTypeOK,
              SlotsAccounted, nixVars, importVars, uploadVars, reqVars, gcVars
<1>3. CASE UNCHANGED vars
  BY <1>3 DEF vars, Accounted, TypeOK, SharedTypeOK, ImportTypeOK, GCTypeOK,
              SlotsAccounted, nixVars, sharedVars, importVars, uploadVars, reqVars, gcVars
<1> QED BY <1>1, <1>2, <1>3, UploadTypes, PutNarInfoTypes, CollectorTypes, CrashTypes
           DEF Next, ImportNext

\* Types and slots together: the number of import slots in use is the number of
\* requests that hold one, and stays between 0 and the configured concurrency
\* (acquireImportSlot and its deferred release).
THEOREM AccountedCorrect == Spec => []Accounted
<1> QED BY AccountedInit, AccountedNext, PTL DEF Spec

\* Every variable keeps its type.
THEOREM TypeCorrect == Spec => []TypeOK
<1>1. Accounted => TypeOK
  BY DEF Accounted
<1> QED BY <1>1, AccountedCorrect, PTL

\* No error path, crash or restart leaks or duplicates an import slot.
THEOREM SlotsCorrect == Spec => []SlotsAccounted
<1>1. Accounted => SlotsAccounted
  BY DEF Accounted
<1> QED BY <1>1, AccountedCorrect, PTL

-----------------------------------------------------------------------------
(***************************************************************************)
(* The lock discipline: between lockGCRoot and Close an import owns the    *)
(* stripe of its root, and between TryAcquire and Close so does a pruner.  *)
(* Every write to a root happens in such a section.                        *)
(***************************************************************************)
Locks ==
    /\ \A r \in Reqs : rpc[r] \in LockedPC => Holds(r, rpath[r])
    /\ \A g \in Runners : gpc[g] \in PrunePC => Holds(g, gcur[g])

\* Two sections on the same root are the same section.
LEMMA Exclusive ==
    ASSUME Locks, NEW r \in Reqs, rpc[r] \in LockedPC
    PROVE  /\ \A q \in Reqs : rpc[q] \in LockedPC /\ rpath[q] = rpath[r] => q = r
           /\ \A g \in Runners : gpc[g] \in PrunePC => gcur[g] # rpath[r]
BY SystemAssumption DEF Locks, Holds

LEMMA LocksReqStep ==
    ASSUME TypeOK, Locks, NEW r \in Reqs, ReqStep(r), UNCHANGED gcVars
    PROVE  Locks'
<1> USE DEF TypeOK, ImportTypeOK, SharedTypeOK, GCTypeOK, Holds, Goto, reqFrame, sharedVars, gcVars
<1>1. CASE LockGCRoot(r)
  <2>1. /\ owner[StripeOf[rpath[r]]] = Free /\ rpath[r] \in Paths
        /\ owner' = [owner EXCEPT ![StripeOf[rpath[r]]] = r]
        /\ rpc' = [rpc EXCEPT ![r] = "root"] /\ rpath' = rpath
    BY <1>1 DEF LockGCRoot, Lock
  <2>2. StripeOf[rpath[r]] \in Stripes
    BY <2>1, SharedAssumption
  <2> QED BY <2>1, <2>2, ImportAssumption, GCAssumption DEF Locks
<1>2. CASE UnlockGCRoot(r)
  <2>1. /\ owner' = [s \in Stripes |-> IF owner[s] = r THEN Free ELSE owner[s]]
        /\ rpc' = [rpc EXCEPT ![r] = "respond"] /\ rpath' = rpath
    BY <1>2 DEF UnlockGCRoot, Unlock
  <2>2. \A q \in Reqs : rpc'[q] \in LockedPC => q # r /\ rpc[q] \in LockedPC /\ rpath[q] \in Paths
    BY <2>1 DEF LockedPC
  <2>3. \A g \in Runners : g # r
    BY SystemAssumption
  <2> QED BY <2>1, <2>2, <2>3, SharedAssumption DEF Locks
<1>3. CASE ~LockGCRoot(r) /\ ~UnlockGCRoot(r)
  <2>1. /\ owner' = owner
        /\ \A q \in Reqs : rpc'[q] \in LockedPC => rpc[q] \in LockedPC /\ rpath'[q] = rpath[q]
    <3>1. CASE AcquireImportSlot(r) \/ GiveUpImportSlot(r) \/ Respond(r)
      BY <3>1 DEF AcquireImportSlot, GiveUpImportSlot, Respond, EndReq, LockedPC
    <3>2. CASE OpenSpool(r) \/ Verify(r) \/ VerifyFails(r) \/ LockGCRootFails(r)
      BY <3>2 DEF OpenSpool, Verify, VerifyFails, LockGCRootFails, LockedPC
    <3>3. CASE AddGCRoot(r) \/ SyncGCRoot(r) \/ AddGCRootFails(r)
      BY <3>3 DEF AddGCRoot, SyncGCRoot, AddGCRootFails, LockedPC
    <3>4. CASE ImportNar(r) \/ ImportDone(r) \/ ImportFails(r)
      BY <3>4 DEF ImportNar, ImportDone, ImportFails, LockedPC
    <3>5. CASE RollbackRoot(r) \/ SyncRollback(r) \/ RollbackFails(r)
      BY <3>5 DEF RollbackRoot, SyncRollback, RollbackFails, LockedPC
    <3>6. CASE RefreshGCRoot(r) \/ SyncRefresh(r)
      BY <3>6 DEF RefreshGCRoot, SyncRefresh, LockedPC
    <3>7. CASE DropSpool(r) \/ UnlinkSpool(r)
      BY <3>7 DEF DropSpool, UnlinkSpool, LockedPC
    <3> QED BY <1>3, <3>1, <3>2, <3>3, <3>4, <3>5, <3>6, <3>7 DEF ReqStep
  <2> QED BY <2>1 DEF Locks
<1> QED BY <1>1, <1>2, <1>3

LEMMA LocksCollector ==
    ASSUME TypeOK, Locks, NEW g \in Runners, GCCheck(g) \/ GCStep(g) \/ GCRemove(g)
    PROVE  Locks'
<1> USE DEF TypeOK, ImportTypeOK, SharedTypeOK, GCTypeOK, Holds, sharedVars
<1>1. rpc' = rpc /\ rpath' = rpath
  BY DEF GCCheck, GCStep, GCRemove, importVars, reqVars
<1>2. ASSUME NEW p \in Paths, TryLockRoot(g, p) PROVE Locks'
  <2>1. /\ owner[StripeOf[p]] = Free /\ owner' = [owner EXCEPT ![StripeOf[p]] = g]
        /\ gpc' = [gpc EXCEPT ![g] = "check"] /\ gcur' = [gcur EXCEPT ![g] = p]
    BY <1>2 DEF TryLockRoot, Lock
  <2>2. StripeOf[p] \in Stripes
    BY SharedAssumption
  <2> QED BY <1>1, <2>1, <2>2, ImportAssumption, GCAssumption DEF Locks
<1>3. ASSUME NextRoot(g) PROVE Locks'
  <2>1. /\ owner' = [s \in Stripes |-> IF owner[s] = g THEN Free ELSE owner[s]]
        /\ gpc' = [gpc EXCEPT ![g] = "prune"] /\ gcur' = [gcur EXCEPT ![g] = NoTarget]
    BY <1>3 DEF NextRoot, Unlock
  <2>2. \A h \in Runners : gpc'[h] \in PrunePC =>
            h # g /\ gpc[h] \in PrunePC /\ gcur[h] \in Paths /\ gcur'[h] = gcur[h]
    BY <2>1 DEF PrunePC
  <2>3. \A r \in Reqs : r # g /\ (rpc[r] \in LockedPC => rpath[r] \in Paths)
    BY SystemAssumption DEF LockedPC
  <2> QED BY <1>1, <2>1, <2>2, <2>3, SharedAssumption DEF Locks
<1>4. ASSUME owner' = owner, gcur' = gcur,
             \A h \in Runners : gpc'[h] \in PrunePC => gpc[h] \in PrunePC
      PROVE  Locks'
  BY <1>1, <1>4 DEF Locks
<1>5. CASE RecheckRoot(g) \/ SyncRemoval(g) \/ PruneFails(g)
  BY <1>3, <1>4, <1>5 DEF RecheckRoot, SyncRemoval, PruneFails, PrunePC
<1>6. CASE StartCheck(g) \/ RemoveRoot(g) \/ StartCollect(g)
  BY <1>4, <1>6 DEF StartCheck, RemoveRoot, StartCollect, PrunePC
<1>7. CASE PruneDone(g) \/ DontCollect(g)
  BY <1>4, <1>7 DEF PruneDone, DontCollect, EndCheck, PrunePC
<1>8. CASE FinishCollect(g) \/ CollectFails(g)
  BY <1>4, <1>8 DEF FinishCollect, CollectFails, EndCollect, EndCheck, PrunePC
<1>9. ASSUME NEW p \in Paths, SkipRoot(g, p) PROVE Locks'
  BY <1>4, <1>9 DEF SkipRoot
<1> QED BY <1>2, <1>5, <1>6, <1>7, <1>8, <1>9 DEF GCCheck, GCStep, GCRemove, RunnerStep

\* A crash releases exactly the locks of the processes it kills.
LEMMA LocksKilled ==
    ASSUME TypeOK, Locks, NEW dead \in SUBSET Runners, NEW reqs \in SUBSET Reqs,
           Killed(dead), UnlockAll(reqs \cup dead),
           (KillRequests /\ reqs = Reqs) \/ (UNCHANGED importVars /\ reqs = {})
    PROVE  Locks'
<1> USE DEF TypeOK, ImportTypeOK, SharedTypeOK, GCTypeOK
<1>1. ASSUME NEW c, NEW p \in Paths, c \notin reqs \cup dead, Holds(c, p)
      PROVE  owner'[StripeOf[p]] = c
  BY <1>1, SharedAssumption DEF UnlockAll, Holds
<1>2. ASSUME NEW r \in Reqs, rpc'[r] \in LockedPC PROVE Holds(r, rpath[r])'
  <2>1. ~KillRequests
    BY <1>2 DEF KillRequests, LockedPC
  <2>2. rpc[r] \in LockedPC /\ rpath' = rpath /\ rpath[r] \in Paths
    BY <1>2, <2>1 DEF importVars, reqVars, LockedPC
  <2>3. r \notin reqs \cup dead
    BY <2>1, SystemAssumption
  <2> QED BY <1>1, <2>2, <2>3 DEF Locks, Holds
<1>3. ASSUME NEW g \in Runners, gpc'[g] \in PrunePC PROVE Holds(g, gcur[g])'
  <2>1. g \notin reqs \cup dead /\ gpc[g] \in PrunePC /\ gcur'[g] = gcur[g]
    BY <1>3, SystemAssumption DEF Killed, KillRunners, PrunePC
  <2>2. gcur[g] \in Paths
    BY <2>1
  <2> QED BY <1>1, <2>1, <2>2 DEF Locks, Holds
<1> QED BY <1>2, <1>3 DEF Locks

LEMMA LocksCrash ==
    ASSUME TypeOK, Locks, ServerCrash \/ PowerLoss \/ \E g \in Runners : RunnerCrash(g)
    PROVE  Locks'
<1>1. CASE ServerCrash
  <2>1. Loops \in SUBSET Runners /\ Reqs \in SUBSET Reqs
    BY GCAssumption
  <2> QED BY <1>1, <2>1, LocksKilled DEF ServerCrash
<1>2. CASE PowerLoss
  <2>1. Runners \in SUBSET Runners /\ Reqs \in SUBSET Reqs
    OBVIOUS
  <2> QED BY <1>2, <2>1, LocksKilled DEF PowerLoss
<1>3. ASSUME NEW g \in Runners, RunnerCrash(g) PROVE Locks'
  <2>1. {g} \in SUBSET Runners /\ {} \in SUBSET Reqs /\ {} \cup {g} = {g}
    OBVIOUS
  <2>2. Killed({g}) /\ UnlockAll({} \cup {g}) /\ UNCHANGED importVars
    BY <1>3, <2>1 DEF RunnerCrash
  <2> QED BY <2>1, <2>2, LocksKilled
<1> QED BY <1>1, <1>2, <1>3

LEMMA LocksNext == TypeOK /\ Locks /\ [Next]_vars => Locks'
<1> SUFFICES ASSUME TypeOK, Locks, [Next]_vars PROVE Locks'
  OBVIOUS
<1>1. ASSUME owner' = owner, UNCHANGED <<gpc, gcur>>,
             \A r \in Reqs : rpc'[r] \in LockedPC => rpc[r] \in LockedPC /\ rpath'[r] = rpath[r]
      PROVE  Locks'
  BY <1>1 DEF Locks, Holds
<1>2. ASSUME NEW r \in Reqs, NEW p \in Paths, PutNarInfo(r, p), UNCHANGED gcVars PROVE Locks'
  BY <1>1, <1>2 DEF PutNarInfo, Goto, LockedPC, TypeOK, ImportTypeOK, sharedVars, gcVars
<1>3. CASE UNCHANGED <<owner, gpc, gcur, rpc, rpath>>
  BY <1>1, <1>3
<1>4. ASSUME \/ \E u \in Uploads, n \in Names, b \in Bodies : PutNar(u, n, b)
             \/ \E u \in Uploads : UploadStep(u)
             \/ SweepSpool \/ Restart,
             UNCHANGED gcVars
      PROVE  UNCHANGED <<owner, gpc, gcur, rpc, rpath>>
  BY <1>4 DEF PutNar, UploadStep, CopyNar, RenameNar, RenameSwept, PutNarFails, SweepSpool, Restart,
              sharedVars, reqVars, gcVars
<1>5. ASSUME Clock \/ UNCHANGED vars PROVE UNCHANGED <<owner, gpc, gcur, rpc, rpath>>
  BY <1>5 DEF Clock, vars, sharedVars, importVars, reqVars, gcVars
<1> QED BY <1>2, <1>3, <1>4, <1>5, LocksReqStep, LocksCollector, LocksCrash DEF Next, ImportNext

-----------------------------------------------------------------------------
(***************************************************************************)
(* Roots.  An import may undo only a root it made itself, and a root it    *)
(* made itself carries no promise: createdRoot was decided under the lock  *)
(* that is still held.  What was promised has reached the disk, so that    *)
(* not even a power loss takes it.                                         *)
(***************************************************************************)
RootedPC == {"sync", "import", "reply", "refresh", "resync"}
UndoPC   == {"sync", "import", "reply", "rollback"}

Undo ==
    \A r \in Reqs :
        /\ rpc[r] \in UndoPC /\ rmade[r] => ~promised[rpath[r]]
        /\ rpc[r] = "rollback" => rmade[r]

OnDisk == \A p \in Paths : root[p] \in disk[p] /\ (promised[p] => NoRoot \notin disk[p])

Roots == RootDuringImport /\ Undo /\ OnDisk

\* Both are control states in which the lock is held.
LEMMA RootPCs == RootedPC \subseteq LockedPC /\ UndoPC \subseteq LockedPC
BY DEF RootedPC, UndoPC, LockedPC

\* A step that touches no root and brings no request into a rooted state.
LEMMA RootsFrame ==
    ASSUME Roots, UNCHANGED <<root, disk, promised>>,
           \A r \in Reqs :
              /\ rpc'[r] \in RootedPC => rpc[r] \in RootedPC /\ rpath'[r] = rpath[r]
              /\ rpc'[r] \in UndoPC =>
                    rpc[r] \in UndoPC /\ rpath'[r] = rpath[r] /\ (rmade'[r] <=> rmade[r])
              /\ rpc'[r] = "rollback" => rmade'[r]
    PROVE  Roots'
<1>1. RootDuringImport'
  BY DEF Roots, RootDuringImport, RootedPC
<1>2. Undo'
  BY DEF Roots, Undo, UndoPC
<1>3. OnDisk'
  BY DEF Roots, OnDisk
<1> QED BY <1>1, <1>2, <1>3 DEF Roots

\* A write of root p by the one process inside a section on p.
LEMMA RootsWrite ==
    ASSUME TypeOK, Roots, NEW p \in Paths, NEW v \in RootVal, WriteRoot(p, v),
           UNCHANGED rpath, v = NoRoot => ~promised'[p],
           promised' = promised \/ promised' = [promised EXCEPT ![p] = FALSE],
           \A r \in Reqs : rpc'[r] \in RootedPC =>
              \/ rpc[r] \in RootedPC /\ rpath[r] # p
              \/ rpath[r] = p /\ v # NoRoot,
           Undo'
    PROVE  Roots'
<1> USE DEF TypeOK, ImportTypeOK, SharedTypeOK
<1>1. root' = [root EXCEPT ![p] = v] /\ disk' = [disk EXCEPT ![p] = disk[p] \cup {v}]
  BY DEF WriteRoot
<1>2. RootDuringImport'
  <2> SUFFICES ASSUME NEW r \in Reqs, rpc'[r] \in RootedPC PROVE root'[rpath[r]] # NoRoot
    BY DEF RootDuringImport, RootedPC
  <2>1. CASE rpc[r] \in RootedPC /\ rpath[r] # p
    <3>1. rpath[r] \in Paths /\ root[rpath[r]] # NoRoot
      BY <2>1 DEF Roots, RootDuringImport, RootedPC
    <3> QED BY <1>1, <2>1, <3>1
  <2>2. CASE rpath[r] = p /\ v # NoRoot
    BY <1>1, <2>2
  <2> QED BY <2>1, <2>2
<1>3. OnDisk'
  <2> SUFFICES ASSUME NEW q \in Paths PROVE root'[q] \in disk'[q] /\ (promised'[q] => NoRoot \notin disk'[q])
    BY DEF OnDisk
  <2>1. promised'[q] => promised[q]
    OBVIOUS
  <2>2. root[q] \in disk[q] /\ (promised[q] => NoRoot \notin disk[q])
    BY DEF Roots, OnDisk
  <2>3. CASE q = p
    BY <1>1, <2>1, <2>2, <2>3
  <2>4. CASE q # p
    BY <1>1, <2>1, <2>2, <2>4
  <2> QED BY <2>3, <2>4
<1> QED BY <1>2, <1>3 DEF Roots

LEMMA RootsReqStep ==
    ASSUME TypeOK, Locks, Roots, NEW r \in Reqs, ReqStep(r)
    PROVE  Roots'
<1> USE DEF TypeOK, ImportTypeOK, SharedTypeOK, Goto, reqFrame, sharedVars
<1>0. rpc[r] \in LockedPC =>
        \A q \in Reqs : rpc[q] \in RootedPC \cup UndoPC /\ rpath[q] = rpath[r] => q = r
  BY Exclusive, RootPCs
<1>1. CASE AddGCRoot(r)
  <2>1. /\ rpc[r] = "root" /\ rpc' = [rpc EXCEPT ![r] = "sync"] /\ rpath[r] \in Paths
        /\ rpath' = rpath /\ promised' = promised /\ WriteRoot(rpath[r], now)
    BY <1>1 DEF AddGCRoot
  <2>2. /\ \A q \in Reqs \ {r} : rmade'[q] <=> rmade[q]
        /\ rmade'[r] <=> root[rpath[r]] = NoRoot
    BY <1>1 DEF AddGCRoot
  <2>3. Undo'
    <3>1. root[rpath[r]] = NoRoot => ~promised[rpath[r]]
      BY <2>1 DEF Roots, OnDisk
    <3> QED BY <2>1, <2>2, <3>1 DEF Roots, Undo, UndoPC
  <2>4. \A q \in Reqs : rpc'[q] \in RootedPC =>
            (rpc[q] \in RootedPC /\ rpath[q] # rpath[r]) \/ (rpath[q] = rpath[r] /\ now # NoRoot)
    BY <2>1
  <2> QED BY <2>1, <2>3, <2>4, RootsWrite
<1>2. CASE RollbackRoot(r)
  <2>1. /\ rpc[r] = "rollback" /\ rpc' = [rpc EXCEPT ![r] = "unsync"] /\ rpath[r] \in Paths
        /\ rpath' = rpath /\ promised' = promised /\ rmade' = rmade
        /\ WriteRoot(rpath[r], NoRoot)
    BY <1>2 DEF RollbackRoot
  <2>2. ~promised[rpath[r]]
    BY <2>1 DEF Roots, Undo, UndoPC
  <2>3. Undo'
    BY <2>1 DEF Roots, Undo, UndoPC
  <2>4. \A q \in Reqs : rpc'[q] \in RootedPC => rpc[q] \in RootedPC /\ rpath[q] # rpath[r]
    BY <1>0, <2>1 DEF RootedPC, LockedPC
  <2> QED BY <2>1, <2>2, <2>3, <2>4, RootsWrite
<1>3. CASE RefreshGCRoot(r)
  <2>1. /\ rpc[r] = "refresh" /\ rpc' = [rpc EXCEPT ![r] = "resync"] /\ rpath[r] \in Paths
        /\ rpath' = rpath /\ promised' = promised /\ rmade' = rmade
        /\ WriteRoot(rpath[r], now)
    BY <1>3 DEF RefreshGCRoot
  <2>2. Undo'
    BY <2>1 DEF Roots, Undo, UndoPC
  <2>3. \A q \in Reqs : rpc'[q] \in RootedPC =>
            (rpc[q] \in RootedPC /\ rpath[q] # rpath[r]) \/ (rpath[q] = rpath[r] /\ now # NoRoot)
    BY <2>1
  <2> QED BY <2>1, <2>2, <2>3, RootsWrite
<1>4. CASE SyncGCRoot(r) \/ SyncRollback(r) \/ SyncRefresh(r)
  <2>1. /\ disk' = [p \in Paths |-> {root[p]}] /\ root' = root /\ rpath' = rpath /\ rmade' = rmade
        /\ \A q \in Reqs \ {r} : rpc'[q] = rpc[q]
        /\ rpc[r] \in LockedPC /\ rpath[r] \in Paths
    BY <1>4 DEF SyncGCRoot, SyncRollback, SyncRefresh, SyncDir, LockedPC
  <2>2. \/ promised' = promised /\ rpc[r] = "sync" /\ rpc'[r] = "import"
        \/ promised' = promised /\ rpc'[r] = "drop"
        \/ /\ promised' = [promised EXCEPT ![rpath[r]] = TRUE]
           /\ rpc[r] = "resync" /\ rpc'[r] = "drop"
    BY <1>4 DEF SyncGCRoot, SyncRollback, SyncRefresh
  <2>3. RootDuringImport'
    BY <2>1, <2>2 DEF Roots, RootDuringImport
  <2>4. Undo'
    <3>1. ASSUME NEW q \in Reqs, rpc'[q] \in UndoPC, rmade'[q] PROVE ~promised'[rpath'[q]]
      <4>1. rpc[q] \in UndoPC /\ rmade[q] /\ ~promised[rpath[q]] /\ rpath[q] \in Paths
        BY <2>1, <2>2, <3>1 DEF Roots, Undo, UndoPC
      <4>2. CASE promised' = promised
        BY <2>1, <4>1, <4>2
      <4>3. CASE promised' = [promised EXCEPT ![rpath[r]] = TRUE] /\ rpc'[r] = "drop"
        <5>1. q # r
          BY <3>1, <4>3 DEF UndoPC
        <5>2. rpath[q] # rpath[r]
          BY <1>0, <2>1, <4>1, <5>1
        <5> QED BY <2>1, <4>1, <4>3, <5>2
      <4> QED BY <2>2, <4>2, <4>3
    <3>2. \A q \in Reqs : rpc'[q] = "rollback" => rmade'[q]
      BY <2>1, <2>2 DEF Roots, Undo
    <3> QED BY <3>1, <3>2 DEF Undo
  <2>5. OnDisk'
    <3> SUFFICES ASSUME NEW p \in Paths, promised'[p] PROVE root[p] # NoRoot
      BY <2>1 DEF OnDisk
    <3>1. CASE promised[p]
      BY <3>1 DEF Roots, OnDisk
    <3>2. CASE ~promised[p]
      <4>1. p = rpath[r] /\ rpc[r] = "resync"
        BY <2>2, <3>2
      <4> QED BY <4>1 DEF Roots, RootDuringImport
    <3> QED BY <3>1, <3>2
  <2> QED BY <2>3, <2>4, <2>5 DEF Roots
<1>5. CASE \/ AcquireImportSlot(r) \/ GiveUpImportSlot(r) \/ Respond(r)
           \/ OpenSpool(r) \/ Verify(r) \/ VerifyFails(r) \/ LockGCRoot(r) \/ LockGCRootFails(r)
           \/ AddGCRootFails(r) \/ ImportNar(r) \/ ImportDone(r) \/ RollbackFails(r)
           \/ DropSpool(r) \/ UnlinkSpool(r) \/ UnlockGCRoot(r)
  <2>1. /\ UNCHANGED <<root, disk, promised>>
        /\ \A q \in Reqs \ {r} : rpc'[q] = rpc[q] /\ rpath'[q] = rpath[q] /\ (rmade'[q] <=> rmade[q])
    <3>1. CASE GiveUpImportSlot(r) \/ Respond(r)
      BY <3>1 DEF GiveUpImportSlot, Respond, EndReq
    <3>2. CASE ~GiveUpImportSlot(r) /\ ~Respond(r)
      BY <1>5, <3>2 DEF AcquireImportSlot, OpenSpool, Verify, VerifyFails,
          LockGCRoot, LockGCRootFails, AddGCRootFails, ImportNar, ImportDone, RollbackFails,
          DropSpool, UnlinkSpool, UnlockGCRoot
    <3> QED BY <3>1, <3>2
  <2>2. \/ rpc'[r] \notin RootedPC \cup UndoPC
        \/ /\ UNCHANGED <<rpath, rmade>>
           /\ \/ rpc[r] = "import" /\ rpc'[r] = "reply"
              \/ rpc[r] = "reply" /\ rpc'[r] = "refresh"
    <3>1. CASE ImportNar(r) \/ ImportDone(r)
      BY <3>1 DEF ImportNar, ImportDone
    <3>2. CASE AcquireImportSlot(r) \/ GiveUpImportSlot(r) \/ Respond(r) \/ OpenSpool(r)
      BY <3>2 DEF AcquireImportSlot, GiveUpImportSlot, Respond, EndReq, OpenSpool, RootedPC, UndoPC
    <3>3. CASE Verify(r) \/ VerifyFails(r) \/ LockGCRoot(r) \/ LockGCRootFails(r)
               \/ AddGCRootFails(r) \/ RollbackFails(r)
      BY <3>3 DEF Verify, VerifyFails, LockGCRoot, LockGCRootFails, AddGCRootFails,
                  RollbackFails, RootedPC, UndoPC
    <3>4. CASE DropSpool(r) \/ UnlinkSpool(r) \/ UnlockGCRoot(r)
      BY <3>4 DEF DropSpool, UnlinkSpool, UnlockGCRoot, RootedPC, UndoPC
    <3> QED BY <1>5, <3>1, <3>2, <3>3, <3>4
  <2>3. \A q \in Reqs :
              /\ rpc'[q] \in RootedPC => rpc[q] \in RootedPC /\ rpath'[q] = rpath[q]
              /\ rpc'[q] \in UndoPC =>
                    rpc[q] \in UndoPC /\ rpath'[q] = rpath[q] /\ (rmade'[q] <=> rmade[q])
              /\ rpc'[q] = "rollback" => rmade'[q]
    BY <2>1, <2>2 DEF Roots, Undo, RootedPC, UndoPC
  <2> QED BY <2>1, <2>3, RootsFrame
<1>6. CASE ImportFails(r)
  <2>1. /\ UNCHANGED <<root, disk, promised, rpath, rmade>>
        /\ rpc[r] \in {"import", "reply"}
        /\ rpc' = [rpc EXCEPT ![r] = IF rmade[r] THEN "rollback" ELSE "drop"]
    BY <1>6 DEF ImportFails
  <2>2. \A q \in Reqs :
              /\ rpc'[q] \in RootedPC => rpc[q] \in RootedPC /\ rpath'[q] = rpath[q]
              /\ rpc'[q] \in UndoPC =>
                    rpc[q] \in UndoPC /\ rpath'[q] = rpath[q] /\ (rmade'[q] <=> rmade[q])
              /\ rpc'[q] = "rollback" => rmade'[q]
    BY <2>1 DEF Roots, Undo, RootedPC, UndoPC
  <2> QED BY <2>1, <2>2, RootsFrame
<1> QED BY <1>1, <1>2, <1>3, <1>4, <1>5, <1>6 DEF ReqStep

LEMMA RootsCollector ==
    ASSUME TypeOK, Locks, Roots, NEW g \in Runners, GCCheck(g) \/ GCStep(g) \/ GCRemove(g)
    PROVE  Roots'
<1> USE DEF TypeOK, ImportTypeOK, SharedTypeOK, GCTypeOK, sharedVars
<1>1. UNCHANGED <<rpc, rpath, rmade>>
  BY DEF GCCheck, GCStep, GCRemove, importVars, reqVars
<1>2. CASE GCRemove(g)
  <2>1. /\ gpc[g] = "remove" /\ gcur[g] \in Paths /\ WriteRoot(gcur[g], NoRoot)
        /\ promised' = [promised EXCEPT ![gcur[g]] = FALSE]
    BY <1>2 DEF GCRemove, RemoveRoot, PrunePC
  <2>2. \A r \in Reqs : rpc[r] \in RootedPC => rpath[r] # gcur[g]
    BY <2>1, Exclusive, RootPCs DEF PrunePC
  <2>3. Undo'
    <3>1. \A p \in Paths : promised'[p] => promised[p]
      BY <2>1
    <3>2. \A r \in Reqs : rpc[r] \in UndoPC => rpath[r] \in Paths
      BY DEF UndoPC
    <3> QED BY <1>1, <3>1, <3>2 DEF Roots, Undo
  <2>4. ~promised'[gcur[g]]
    BY <2>1
  <2> QED BY <1>1, <2>1, <2>2, <2>3, <2>4, RootsWrite
<1>3. CASE SyncRemoval(g) /\ UNCHANGED importVars
  <2>1. disk' = [p \in Paths |-> {root[p]}] /\ root' = root /\ promised' = promised
    BY <1>3 DEF SyncRemoval, SyncDir, importVars
  <2>2. OnDisk'
    BY <2>1 DEF Roots, OnDisk
  <2>3. RootDuringImport' /\ Undo'
    BY <1>1, <2>1 DEF Roots, RootDuringImport, Undo
  <2> QED BY <2>2, <2>3 DEF Roots
<1>4. ASSUME UNCHANGED <<root, disk, promised>> PROVE Roots'
  BY <1>1, <1>4, RootsFrame DEF Roots, Undo
<1>5. CASE GCCheck(g)
  BY <1>4, <1>5 DEF GCCheck, StartCheck, importVars
<1>6. ASSUME NEW p \in Paths, TryLockRoot(g, p) \/ SkipRoot(g, p), UNCHANGED importVars PROVE Roots'
  BY <1>4, <1>6 DEF TryLockRoot, SkipRoot, importVars
<1>7. CASE (FinishCollect(g) \/ CollectFails(g)) /\ UNCHANGED importVars
  BY <1>4, <1>7 DEF FinishCollect, CollectFails, EndCollect, importVars
<1>8. CASE /\ \/ RecheckRoot(g) \/ PruneFails(g) \/ PruneDone(g) \/ DontCollect(g)
              \/ StartCollect(g)
           /\ UNCHANGED importVars
  BY <1>4, <1>8 DEF RecheckRoot, PruneFails, PruneDone, DontCollect, StartCollect, importVars
<1> QED BY <1>2, <1>3, <1>5, <1>6, <1>7, <1>8 DEF GCStep, RunnerStep

LEMMA RootsCrash ==
    ASSUME TypeOK, Roots, ServerCrash \/ PowerLoss \/ \E g \in Runners : RunnerCrash(g)
    PROVE  Roots'
<1>1. ASSUME KillRequests PROVE RootDuringImport' /\ Undo' /\ promised' = promised
  BY <1>1 DEF KillRequests, RootDuringImport, Undo, UndoPC
<1>2. CASE ServerCrash
  BY <1>1, <1>2 DEF ServerCrash, Roots, OnDisk
<1>3. CASE PowerLoss
  <2>1. /\ \A p \in Paths : root'[p] \in disk[p]
        /\ disk' = [p \in Paths |-> {root'[p]}]
    BY <1>3 DEF PowerLoss, LoseUnsynced
  <2>2. KillRequests
    BY <1>3 DEF PowerLoss
  <2> QED BY <1>1, <2>1, <2>2 DEF Roots, OnDisk
<1>4. ASSUME NEW g \in Runners, RunnerCrash(g) PROVE Roots'
  BY <1>4, RootsFrame DEF RunnerCrash, importVars, reqVars, Roots, Undo
<1> QED BY <1>2, <1>3, <1>4

LEMMA RootsInit == Init => Roots
BY DEF Init, SharedInit, ImportInit, Roots, RootDuringImport, Undo, OnDisk, UndoPC

LEMMA RootsNext == TypeOK /\ Locks /\ Roots /\ [Next]_vars => Roots'
<1> SUFFICES ASSUME TypeOK, Locks, Roots, [Next]_vars PROVE Roots'
  OBVIOUS
<1>1. ASSUME NEW r \in Reqs, NEW p \in Paths, PutNarInfo(r, p) PROVE Roots'
  <2>1. UNCHANGED <<root, disk, promised, rmade>>
    BY <1>1 DEF PutNarInfo, sharedVars
  <2>2. /\ rpc' = [rpc EXCEPT ![r] = "slot"] /\ rpath' = [rpath EXCEPT ![r] = p]
    BY <1>1 DEF PutNarInfo, Goto
  <2>3. rpc \in [Reqs -> {"idle", "slot"} \cup SlotPC] /\ rpath \in [Reqs -> Paths \cup {NoPath}]
    BY DEF TypeOK, ImportTypeOK
  <2>4. \A q \in Reqs : rpc'[q] \in RootedPC \cup UndoPC => rpc'[q] = rpc[q] /\ rpath'[q] = rpath[q]
    BY <2>2, <2>3 DEF RootedPC, UndoPC
  <2> QED BY <2>1, <2>4, RootsFrame DEF Roots, Undo, RootedPC, UndoPC
<1>2. ASSUME UNCHANGED <<root, disk, promised, rpc, rpath, rmade>> PROVE Roots'
  BY <1>2, RootsFrame DEF Roots, Undo
<1>3. ASSUME \/ \E u \in Uploads, n \in Names, b \in Bodies : PutNar(u, n, b)
             \/ \E u \in Uploads : UploadStep(u)
             \/ SweepSpool \/ Restart
      PROVE  UNCHANGED <<root, disk, promised, rpc, rpath, rmade>>
  BY <1>3 DEF PutNar, UploadStep, CopyNar, RenameNar, RenameSwept, PutNarFails, SweepSpool, Restart,
              sharedVars, reqVars
<1>4. ASSUME Clock \/ UNCHANGED vars PROVE UNCHANGED <<root, disk, promised, rpc, rpath, rmade>>
  BY <1>4 DEF Clock, vars, sharedVars, importVars, reqVars
<1> QED BY <1>1, <1>2, <1>3, <1>4, RootsReqStep, RootsCollector, RootsCrash DEF Next, ImportNext

LEMMA LocksInit == Init => Locks
BY DEF Init, ImportInit, GCInit, Locks, LockedPC, PrunePC

LEMMA RootsAlways == Spec => [](Locks /\ Roots)
<1>1. Locks /\ TypeOK /\ [Next]_vars => Locks'
  BY LocksNext
<1> QED BY TypeCorrect, LocksInit, <1>1, RootsInit, RootsNext, PTL DEF Spec

\* From the first addGCRoot to the end of an import its root exists, whatever
\* pruners, re-pushes that roll back and crashes do meanwhile: the lock of
\* lockGCRoot keeps them out (niximport.go Import).
THEOREM RootDuringImportCorrect == Spec => []RootDuringImport
<1>1. Roots => RootDuringImport
  BY DEF Roots
<1> QED BY <1>1, RootsAlways, PTL

\* An imported path loses its root to the pruner only: not to the rollback of a
\* failed re-push (createdRoot), and not to a power loss (the fsync of
\* addGCRoot comes before the answer).
THEOREM PromiseKeepsRootCorrect == Spec => []PromiseKeepsRoot
<1>1. Roots => PromiseKeepsRoot
  BY DEF Roots, OnDisk, PromiseKeepsRoot
<1> QED BY <1>1, RootsAlways, PTL

\* The two together: a root disappears under an import or a promise only by the
\* hand of the pruner.
THEOREM RootsKeptCorrect == Spec => []RootsKept
<1>1. PromiseKeepsRoot /\ RootDuringImport => RootsKept
  BY DEF RootsKept
<1> QED BY <1>1, PromiseKeepsRootCorrect, RootDuringImportCorrect, PTL

-----------------------------------------------------------------------------
(***************************************************************************)
(* Contents.  The descriptor, not the spool name, carries the verdict of   *)
(* verify to importNar.                                                    *)
(***************************************************************************)
Verified ==
    \A r \in Reqs : rpc[r] \in {"lock"} \cup LockedPC => rfd[r].body = Want[rpath[r]]

LEMMA VerifiedReqStep ==
    ASSUME TypeOK, Verified, StoreHoldsVerified, NEW r \in Reqs, ReqStep(r)
    PROVE  Verified' /\ StoreHoldsVerified'
<1> USE DEF TypeOK, ImportTypeOK, SharedTypeOK, Goto, reqFrame, sharedVars, nixVars
<1>1. CASE Verify(r)
  BY <1>1 DEF Verify, Verified, StoreHoldsVerified
<1>2. CASE ImportNar(r)
  <2>1. rfd[r].body = Want[rpath[r]] /\ rpath[r] \in Paths
    BY <1>2 DEF ImportNar, Verified, LockedPC
  <2>2. StoreHoldsVerified'
    BY <1>2, <2>1 DEF ImportNar, NixAdd, StoreHoldsVerified
  <2>3. Verified'
    BY <1>2 DEF ImportNar, Verified, LockedPC
  <2> QED BY <2>2, <2>3
<1>3. CASE ~Verify(r) /\ ~ImportNar(r)
  <2>1. stored' = stored /\ \A q \in Reqs \ {r} : rpc'[q] = rpc[q] /\ rpath'[q] = rpath[q] /\ rfd'[q] = rfd[q]
    <3>1. CASE AcquireImportSlot(r) \/ GiveUpImportSlot(r) \/ Respond(r) \/ OpenSpool(r)
      BY <3>1 DEF AcquireImportSlot, GiveUpImportSlot, Respond, EndReq, OpenSpool
    <3>2. CASE VerifyFails(r) \/ LockGCRoot(r) \/ LockGCRootFails(r) \/ AddGCRoot(r)
               \/ SyncGCRoot(r) \/ AddGCRootFails(r)
      BY <3>2 DEF VerifyFails, LockGCRoot, LockGCRootFails, AddGCRoot, SyncGCRoot, AddGCRootFails
    <3>3. CASE ImportDone(r) \/ ImportFails(r) \/ RollbackRoot(r) \/ SyncRollback(r)
               \/ RollbackFails(r) \/ RefreshGCRoot(r) \/ SyncRefresh(r)
      BY <3>3 DEF ImportDone, ImportFails, RollbackRoot, SyncRollback, RollbackFails,
                  RefreshGCRoot, SyncRefresh
    <3>4. CASE DropSpool(r) \/ UnlinkSpool(r) \/ UnlockGCRoot(r)
      BY <3>4 DEF DropSpool, UnlinkSpool, UnlockGCRoot
    <3> QED BY <1>3, <3>1, <3>2, <3>3, <3>4 DEF ReqStep
  <2>2. rpc'[r] \in {"lock"} \cup LockedPC =>
          rpc[r] \in {"lock"} \cup LockedPC /\ rpath'[r] = rpath[r] /\ rfd'[r] = rfd[r]
    <3> USE DEF LockedPC
    <3>1. CASE AcquireImportSlot(r) \/ GiveUpImportSlot(r) \/ Respond(r) \/ OpenSpool(r)
      BY <3>1 DEF AcquireImportSlot, GiveUpImportSlot, Respond, EndReq, OpenSpool
    <3>2. CASE VerifyFails(r) \/ LockGCRoot(r) \/ LockGCRootFails(r) \/ AddGCRoot(r)
               \/ SyncGCRoot(r) \/ AddGCRootFails(r)
      BY <3>2 DEF VerifyFails, LockGCRoot, LockGCRootFails, AddGCRoot, SyncGCRoot, AddGCRootFails
    <3>3. CASE ImportDone(r) \/ ImportFails(r) \/ RollbackRoot(r) \/ SyncRollback(r)
               \/ RollbackFails(r) \/ RefreshGCRoot(r) \/ SyncRefresh(r)
      BY <3>3 DEF ImportDone, ImportFails, RollbackRoot, SyncRollback, RollbackFails,
                  RefreshGCRoot, SyncRefresh
    <3>4. CASE DropSpool(r) \/ UnlinkSpool(r) \/ UnlockGCRoot(r)
      BY <3>4 DEF DropSpool, UnlinkSpool, UnlockGCRoot
    <3> QED BY <1>3, <3>1, <3>2, <3>3, <3>4 DEF ReqStep
  <2> QED BY <2>1, <2>2 DEF Verified, StoreHoldsVerified
<1> QED BY <1>1, <1>2, <1>3

LEMMA VerifiedNext == TypeOK /\ Verified /\ StoreHoldsVerified /\ [Next]_vars
                        => Verified' /\ StoreHoldsVerified'
<1> SUFFICES ASSUME TypeOK, Verified, StoreHoldsVerified, [Next]_vars
             PROVE  Verified' /\ StoreHoldsVerified'
  OBVIOUS
<1> USE DEF TypeOK, ImportTypeOK, SharedTypeOK, sharedVars, nixVars
<1>1. ASSUME \A r \in Reqs : rpc'[r] \in {"lock"} \cup LockedPC =>
                rpc[r] \in {"lock"} \cup LockedPC /\ rpath'[r] = rpath[r] /\ rfd'[r] = rfd[r],
             \A p \in Paths : stored'[p] \in {stored[p], NoBody}
      PROVE  Verified' /\ StoreHoldsVerified'
  BY <1>1 DEF Verified, StoreHoldsVerified
<1>2. ASSUME NEW r \in Reqs, NEW p \in Paths, PutNarInfo(r, p)
      PROVE  Verified' /\ StoreHoldsVerified'
  <2>1. /\ rpc' = [rpc EXCEPT ![r] = "slot"] /\ rpath' = [rpath EXCEPT ![r] = p]
        /\ rfd' = rfd /\ stored' = stored
    BY <1>2 DEF PutNarInfo, Goto
  <2> QED BY <1>1, <2>1 DEF LockedPC
<1>3. ASSUME UNCHANGED <<rpc, rpath, rfd>>, \A p \in Paths : stored'[p] \in {stored[p], NoBody}
      PROVE  Verified' /\ StoreHoldsVerified'
  BY <1>1, <1>3
<1>4. ASSUME \/ \E u \in Uploads, n \in Names, b \in Bodies : PutNar(u, n, b)
             \/ \E u \in Uploads : UploadStep(u)
             \/ SweepSpool \/ Restart \/ Clock \/ UNCHANGED vars
      PROVE  UNCHANGED <<stored, rpc, rpath, rfd>>
  BY <1>4 DEF PutNar, UploadStep, CopyNar, RenameNar, RenameSwept, PutNarFails, SweepSpool, Restart, Clock,
              vars, importVars, reqVars
<1>5. ASSUME NEW g \in Runners, GCCheck(g) \/ GCStep(g) \/ GCRemove(g)
      PROVE  UNCHANGED <<rpc, rpath, rfd>> /\ \A p \in Paths : stored'[p] \in {stored[p], NoBody}
  <2>1. UNCHANGED <<rpc, rpath, rfd>>
    BY <1>5 DEF GCCheck, GCStep, GCRemove, importVars, reqVars
  <2>2. CASE FinishCollect(g) \/ CollectFails(g)
    <3>1. PICK dead, gained : EndCollect(g, dead, gained)
      BY <2>2 DEF FinishCollect, CollectFails
    <3> QED BY <2>1, <3>1 DEF EndCollect
  <2>3. CASE ~FinishCollect(g) /\ ~CollectFails(g)
    <3>1. stored' = stored
      BY <1>5, <2>3 DEF GCCheck, GCStep, GCRemove, RunnerStep, StartCheck, RemoveRoot, RecheckRoot,
           SyncRemoval, PruneFails, PruneDone, DontCollect, StartCollect, TryLockRoot, SkipRoot
    <3> QED BY <2>1, <3>1
  <2> QED BY <2>2, <2>3
<1>6. CASE ServerCrash \/ PowerLoss
  BY <1>1, <1>6 DEF ServerCrash, PowerLoss, KillRequests, LockedPC
<1>7. ASSUME NEW g \in Runners, RunnerCrash(g) PROVE UNCHANGED <<stored, rpc, rpath, rfd>>
  BY <1>7 DEF RunnerCrash, importVars, reqVars
<1> QED BY <1>2, <1>3, <1>4, <1>5, <1>6, <1>7, VerifiedReqStep DEF Next, ImportNext

\* Whatever uploads, sweeps and crashes do to the spool between the hash check
\* and the import, only contents that match the narinfo enter the store: the
\* check and the import read the same open file (niximport.go Import).
THEOREM StoreHoldsVerifiedCorrect == Spec => []StoreHoldsVerified
<1>1. Init => Verified /\ StoreHoldsVerified
  BY DEF Init, SharedInit, ImportInit, Verified, StoreHoldsVerified, LockedPC
<1> QED BY <1>1, TypeCorrect, VerifiedNext, PTL DEF Spec

(***************************************************************************)
(* AckedRetained, what a client that got its 200 relies on, for every set  *)
(* of paths and references, requests, collectors, rules and faults.  Two   *)
(* invariants carry it: the store and the mark of a running collection     *)
(* (Kept), and the ages of the roots (Aged).                               *)
(***************************************************************************)

-----------------------------------------------------------------------------
(***************************************************************************)
(* The store.  Only one collection sweeps at a time; what it will keep is  *)
(* closed under references, as the store is; and a path whose import got   *)
(* as far as Nix is in the store and outside the reach of the collection   *)
(* that is running, because the root was there before the path was added.  *)
(***************************************************************************)
Sweeping ==
    \A g \in Runners : gpc[g] = "sweep" =>
        collecting /\ \A h \in Runners : gpc[h] = "sweep" => h = g

StoreClosed == \A p \in Paths : Valid(p) => \A q \in Refs[p] : Valid(q)

KeepClosed == \A p \in keep : Refs[p] \subseteq keep

Safe(p) == Valid(p) /\ (collecting => p \in keep)

AddedPC == {"reply", "refresh", "resync"}

Marked ==
    /\ \A p \in Paths : promised[p] => Safe(p)
    /\ \A r \in Reqs : rpc[r] \in AddedPC => Safe(rpath[r])

Kept == Sweeping /\ StoreClosed /\ KeepClosed /\ Marked

\* A step that changes neither the store nor a collection, and brings no path
\* under a promise that its import did not reach.
LEMMA KeptFrame ==
    ASSUME Kept, UNCHANGED nixVars,
           \A g \in Runners : gpc'[g] = "sweep" <=> gpc[g] = "sweep",
           \A r \in Reqs : rpc'[r] \in AddedPC => rpc[r] \in AddedPC /\ rpath'[r] = rpath[r],
           \A p \in Paths : promised'[p] =>
              promised[p] \/ \E r \in Reqs : rpc[r] \in AddedPC /\ rpath[r] = p
    PROVE  Kept'
<1>1. Sweeping' /\ StoreClosed' /\ KeepClosed'
  BY DEF Kept, Sweeping, StoreClosed, KeepClosed, Valid, nixVars
<1>2. \A p : Safe(p)' <=> Safe(p)
  BY DEF Safe, Valid, nixVars
<1>3. Marked'
  BY <1>2 DEF Kept, Marked
<1> QED BY <1>1, <1>3 DEF Kept

\* The steps of a request but the one that adds the path.
LEMMA AddedReqStep ==
    ASSUME TypeOK, NEW r \in Reqs, ReqStep(r), ~ImportNar(r)
    PROVE  /\ UNCHANGED nixVars
           /\ \A q \in Reqs : rpc'[q] \in AddedPC => rpc[q] \in AddedPC /\ rpath'[q] = rpath[q]
           /\ \A p \in Paths : promised'[p] => promised[p] \/ (rpc[r] \in AddedPC /\ rpath[r] = p)
<1> USE DEF TypeOK, ImportTypeOK, Goto, reqFrame, sharedVars, AddedPC
<1>1. CASE AcquireImportSlot(r) \/ GiveUpImportSlot(r) \/ Respond(r) \/ OpenSpool(r)
  BY <1>1 DEF AcquireImportSlot, GiveUpImportSlot, Respond, EndReq, OpenSpool
<1>2. CASE Verify(r) \/ VerifyFails(r) \/ LockGCRoot(r) \/ LockGCRootFails(r)
  BY <1>2 DEF Verify, VerifyFails, LockGCRoot, LockGCRootFails
<1>3. CASE AddGCRoot(r) \/ SyncGCRoot(r) \/ AddGCRootFails(r)
  BY <1>3 DEF AddGCRoot, SyncGCRoot, AddGCRootFails
<1>4. CASE ImportDone(r) \/ ImportFails(r)
  BY <1>4 DEF ImportDone, ImportFails
<1>5. CASE RollbackRoot(r) \/ SyncRollback(r) \/ RollbackFails(r)
  BY <1>5 DEF RollbackRoot, SyncRollback, RollbackFails
<1>6. CASE RefreshGCRoot(r)
  BY <1>6 DEF RefreshGCRoot
<1>7. CASE SyncRefresh(r)
  <2>1. /\ rpc[r] = "resync" /\ rpc' = [rpc EXCEPT ![r] = "drop"] /\ rpath' = rpath
        /\ promised' = [promised EXCEPT ![rpath[r]] = TRUE] /\ UNCHANGED nixVars
    BY <1>7 DEF SyncRefresh
  <2> QED BY <2>1
<1>8. CASE DropSpool(r) \/ UnlinkSpool(r) \/ UnlockGCRoot(r)
  BY <1>8 DEF DropSpool, UnlinkSpool, UnlockGCRoot
<1> QED BY <1>1, <1>2, <1>3, <1>4, <1>5, <1>6, <1>7, <1>8 DEF ReqStep

\* Adding a path to the store puts it, and its references, out of the reach of
\* the collection that is running.
LEMMA KeptImportNar ==
    ASSUME TypeOK, Verified, Kept, NEW r \in Reqs, ImportNar(r), UNCHANGED gcVars
    PROVE  Kept'
<1> DEFINE p == rpath[r]
<1>1. /\ rpc[r] = "import" /\ p \in Paths
      /\ rpc' = [rpc EXCEPT ![r] = "reply"] /\ rpc \in [Reqs -> {"idle", "slot"} \cup SlotPC]
      /\ UNCHANGED <<rpath, promised, gpc, collecting>>
  BY DEF ImportNar, NixAdd, Goto, reqFrame, TypeOK, ImportTypeOK, gcVars
<1>2. /\ \A q \in Refs[p] \ {p} : Valid(q)
      /\ stored' = [stored EXCEPT ![p] = IF Valid(p) THEN @ ELSE rfd[r].body]
      /\ keep' = IF collecting THEN keep \cup Refs[p] \cup {p} ELSE keep
  BY DEF ImportNar, NixAdd
<1>3. stored \in [Paths -> Bodies \cup {NoBody}] /\ Refs \in [Paths -> SUBSET Paths]
      /\ \A x \in Paths : \A y \in Refs[x] : Refs[y] \subseteq Refs[x]
  BY RefsAssumption DEF TypeOK, SharedTypeOK
<1>4. rfd[r].body # NoBody
  BY <1>1, SharedAssumption DEF Verified, LockedPC
<1>5. \A q \in Paths : Valid(q)' <=> Valid(q) \/ q = p
  BY <1>1, <1>2, <1>3, <1>4 DEF Valid
<1>6. Sweeping'
  BY <1>1 DEF Kept, Sweeping
<1>7. StoreClosed'
  BY <1>1, <1>2, <1>3, <1>5 DEF Kept, StoreClosed
<1>8. KeepClosed'
  BY <1>1, <1>2, <1>3 DEF Kept, KeepClosed
<1>9. \A q \in Paths : Safe(q) \/ q = p => Safe(q)'
  BY <1>1, <1>2, <1>5 DEF Safe
<1>10. Marked'
  <2>1. \A q \in Paths : promised'[q] => Safe(q)'
    BY <1>1, <1>9 DEF Kept, Marked
  <2>2. ASSUME NEW q \in Reqs, NEW x, rpc'[q] \in AddedPC, rpath'[q] = x PROVE Safe(x)'
    <3>1. x \in Paths /\ rpath[q] = x /\ (q = r \/ rpc[q] \in AddedPC)
      BY <1>1, <2>2 DEF TypeOK, ImportTypeOK, AddedPC
    <3>2. Safe(x) \/ x = p
      BY <3>1 DEF Kept, Marked
    <3> QED BY <1>9, <3>1, <3>2
  <2> QED BY <2>1, <2>2 DEF Marked, Safe, Valid
<1> QED BY <1>6, <1>7, <1>8, <1>10 DEF Kept

LEMMA KeptReqStep ==
    ASSUME TypeOK, Verified, Kept, NEW r \in Reqs, ReqStep(r), UNCHANGED gcVars
    PROVE  Kept'
<1>1. \A g \in Runners : gpc'[g] = "sweep" <=> gpc[g] = "sweep"
  BY DEF gcVars
<1> QED BY <1>1, AddedReqStep, KeptFrame, KeptImportNar

\* What the roots keep alive is closed under references, and holds every rooted
\* path of the store.
LEMMA LiveClosed ==
    /\ \A p \in Live : Refs[p] \subseteq Live
    /\ \A p \in Paths : root[p] # NoRoot /\ Valid(p) => p \in Live
<1>1. /\ \A x \in Paths : \A y \in Refs[x] : Refs[y] \subseteq Refs[x]
      /\ \A x \in Paths : Refs[x] \subseteq Paths
  BY RefsAssumption
<1>2. ASSUME NEW p \in Live PROVE Refs[p] \subseteq Live
  <2>1. PICK q \in Paths : root[q] # NoRoot /\ Valid(q) /\ p \in Refs[q] \cup {q}
    BY DEF Live
  <2>2. Refs[p] \subseteq Refs[q]
    BY <1>1, <2>1
  <2> QED BY <1>1, <2>1, <2>2 DEF Live
<1> QED BY <1>2 DEF Live

\* The mark: what imports reached and what they promised is rooted.
LEMMA KeptStartCollect ==
    ASSUME TypeOK, Roots, Kept, NEW g \in Runners, StartCollect(g), UNCHANGED importVars
    PROVE  Kept'
<1>1. /\ ~collecting /\ collecting' /\ keep' = Live /\ stored' = stored
      /\ gpc' = [gpc EXCEPT ![g] = "sweep"] /\ root' = root
      /\ UNCHANGED <<rpc, rpath, promised>>
  BY DEF StartCollect, importVars, reqVars
<1>2. \A p : Valid(p)' <=> Valid(p)
  BY <1>1 DEF Valid
<1>3. Sweeping'
  BY <1>1 DEF Kept, Sweeping, TypeOK, GCTypeOK
<1>4. StoreClosed' /\ KeepClosed'
  BY <1>1, <1>2, LiveClosed DEF Kept, StoreClosed, KeepClosed
<1>5. \A p \in Paths : root[p] # NoRoot /\ Safe(p) => Safe(p)'
  BY <1>1, <1>2, LiveClosed DEF Safe
<1>6. Marked'
  <2>1. ASSUME NEW p \in Paths, promised[p] PROVE Safe(p)'
    <3>1. root[p] # NoRoot
      BY <2>1 DEF Roots, OnDisk
    <3> QED BY <1>5, <2>1, <3>1 DEF Kept, Marked
  <2>2. ASSUME NEW r \in Reqs, rpc[r] \in AddedPC PROVE Safe(rpath[r])'
    <3>1. rpath[r] \in Paths /\ root[rpath[r]] # NoRoot
      BY <2>2 DEF Roots, RootDuringImport, AddedPC, TypeOK, ImportTypeOK
    <3> QED BY <1>1, <1>5, <2>2, <3>1 DEF Kept, Marked
  <2> QED BY <1>1, <2>1, <2>2 DEF Marked, Safe, Valid
<1> QED BY <1>3, <1>4, <1>6 DEF Kept

\* The sweep: everything that is not kept goes, or nothing at all.
LEMMA KeptEndCollect ==
    ASSUME TypeOK, Kept, NEW g \in Runners, NEW dead \in {{}, Unkept}, NEW gained,
           EndCollect(g, dead, gained), UNCHANGED importVars
    PROVE  Kept'
<1>1. /\ gpc[g] = "sweep" /\ collecting /\ ~collecting' /\ keep' = {}
      /\ stored' = [p \in Paths |-> IF p \in dead THEN NoBody ELSE stored[p]]
      /\ gpc' = [gpc EXCEPT ![g] = "idle"]
      /\ UNCHANGED <<rpc, rpath, promised>>
  BY DEF EndCollect, EndCheck, Kept, Sweeping, importVars, reqVars
<1>2. \A p \in Paths : Valid(p)' <=> Valid(p) /\ p \notin dead
  BY <1>1 DEF Valid
<1>3. Sweeping'
  BY <1>1 DEF Kept, Sweeping, TypeOK, GCTypeOK
<1>4. StoreClosed'
  BY <1>2, RefsAssumption DEF Kept, StoreClosed, KeepClosed, Unkept
<1>5. KeepClosed'
  BY <1>1 DEF KeepClosed
<1>6. \A p \in Paths : Safe(p) => Safe(p)'
  BY <1>1, <1>2 DEF Safe, Unkept
<1>7. Marked'
  <2>1. \A r \in Reqs : rpc[r] \in AddedPC => rpath[r] \in Paths
    BY DEF AddedPC, TypeOK, ImportTypeOK
  <2> QED BY <1>1, <1>6, <2>1 DEF Kept, Marked, Safe, Valid
<1> QED BY <1>3, <1>4, <1>5, <1>7 DEF Kept

LEMMA KeptCollector ==
    ASSUME TypeOK, Roots, Kept, NEW g \in Runners, GCCheck(g) \/ GCStep(g) \/ GCRemove(g)
    PROVE  Kept'
<1> USE DEF TypeOK, GCTypeOK, sharedVars
<1>1. UNCHANGED <<rpc, rpath>> /\ \A p \in Paths : promised'[p] => promised[p]
  BY DEF GCCheck, GCStep, GCRemove, importVars, reqVars, ImportTypeOK
<1>2. ASSUME UNCHANGED nixVars, \A h \in Runners : gpc'[h] = "sweep" <=> gpc[h] = "sweep"
      PROVE  Kept'
  BY <1>1, <1>2, KeptFrame
<1>3. CASE StartCheck(g) \/ RemoveRoot(g) \/ RecheckRoot(g)
  BY <1>2, <1>3 DEF StartCheck, RemoveRoot, RecheckRoot, NextRoot
<1>4. CASE SyncRemoval(g) \/ PruneFails(g)
  BY <1>2, <1>4 DEF SyncRemoval, PruneFails, NextRoot, PrunePC
<1>5. CASE PruneDone(g) \/ DontCollect(g)
  BY <1>2, <1>5 DEF PruneDone, DontCollect, EndCheck
<1>6. ASSUME NEW p \in Paths, TryLockRoot(g, p) \/ SkipRoot(g, p) PROVE Kept'
  BY <1>2, <1>6 DEF TryLockRoot, SkipRoot
<1>7. CASE (FinishCollect(g) \/ CollectFails(g)) /\ UNCHANGED importVars
  BY <1>7, KeptEndCollect DEF FinishCollect, CollectFails
<1> QED BY <1>3, <1>4, <1>5, <1>6, <1>7, KeptStartCollect
           DEF GCCheck, GCStep, GCRemove, RunnerStep

\* A killed collector takes its collection along, and only its own.
LEMMA KeptCrash ==
    ASSUME TypeOK, Kept, ServerCrash \/ PowerLoss \/ \E g \in Runners : RunnerCrash(g)
    PROVE  Kept'
<1> USE DEF TypeOK, GCTypeOK
<1>1. PICK dead \in SUBSET Runners : Killed(dead)
  <2>1. Loops \in SUBSET Runners /\ Runners \in SUBSET Runners /\ \A g \in Runners : {g} \in SUBSET Runners
    BY GCAssumption
  <2>2. CASE ServerCrash
    BY <2>1, <2>2 DEF ServerCrash
  <2>3. CASE PowerLoss
    BY <2>1, <2>3 DEF PowerLoss
  <2>4. ASSUME NEW g \in Runners, RunnerCrash(g) PROVE \E dead \in SUBSET Runners : Killed(dead)
    BY <2>1, <2>4 DEF RunnerCrash
  <2> QED BY <2>2, <2>3, <2>4
<1>2. /\ stored' = stored /\ promised' = promised
      /\ \A r \in Reqs : rpc'[r] \in AddedPC => rpc[r] \in AddedPC /\ rpath'[r] = rpath[r]
  BY DEF ServerCrash, PowerLoss, RunnerCrash, KillRequests, importVars, reqVars, AddedPC
<1>3. \A h \in Runners : gpc'[h] = "sweep" <=> gpc[h] = "sweep" /\ h \notin dead
  BY <1>1 DEF Killed, KillRunners
<1>4. CASE \E g \in dead : gpc[g] = "sweep"
  <2>1. ~collecting' /\ keep' = {}
    BY <1>1, <1>4 DEF Killed
  <2>2. \A h \in Runners : gpc'[h] # "sweep"
    BY <1>1, <1>3, <1>4 DEF Kept, Sweeping
  <2>3. \A p : Safe(p) => Safe(p)'
    BY <1>2, <2>1 DEF Safe, Valid
  <2>4. Sweeping' /\ StoreClosed' /\ KeepClosed'
    BY <1>2, <2>1, <2>2 DEF Kept, Sweeping, StoreClosed, KeepClosed, Valid
  <2>5. Marked'
    BY <1>2, <2>3 DEF Kept, Marked, Safe, Valid
  <2> QED BY <2>4, <2>5 DEF Kept
<1>5. CASE ~\E g \in dead : gpc[g] = "sweep"
  <2>1. UNCHANGED nixVars
    BY <1>1, <1>2, <1>5 DEF Killed, nixVars
  <2> QED BY <1>2, <1>3, <1>5, <2>1, KeptFrame
<1> QED BY <1>4, <1>5

LEMMA KeptNext == TypeOK /\ Verified /\ Roots /\ Kept /\ [Next]_vars => Kept'
<1> SUFFICES ASSUME TypeOK, Verified, Roots, Kept, [Next]_vars PROVE Kept'
  OBVIOUS
<1>1. ASSUME NEW r \in Reqs, NEW p \in Paths, PutNarInfo(r, p), UNCHANGED gcVars PROVE Kept'
  <2>1. UNCHANGED nixVars /\ UNCHANGED <<promised, gpc>>
    BY <1>1 DEF PutNarInfo, sharedVars, gcVars
  <2>2. \A q \in Reqs : rpc'[q] \in AddedPC => rpc[q] \in AddedPC /\ rpath'[q] = rpath[q]
    BY <1>1 DEF PutNarInfo, Goto, AddedPC, TypeOK, ImportTypeOK
  <2> QED BY <2>1, <2>2, KeptFrame
<1>2. ASSUME UNCHANGED <<nixVars, promised, gpc, rpc, rpath>> PROVE Kept'
  BY <1>2, KeptFrame
<1>3. ASSUME \/ \E u \in Uploads, n \in Names, b \in Bodies : PutNar(u, n, b)
             \/ \E u \in Uploads : UploadStep(u)
             \/ SweepSpool \/ Restart,
             UNCHANGED gcVars
      PROVE  UNCHANGED <<nixVars, promised, gpc, rpc, rpath>>
  BY <1>3 DEF PutNar, UploadStep, CopyNar, RenameNar, RenameSwept, PutNarFails, SweepSpool, Restart,
              sharedVars, reqVars, gcVars
<1>4. ASSUME Clock \/ UNCHANGED vars PROVE UNCHANGED <<nixVars, promised, gpc, rpc, rpath>>
  BY <1>4 DEF Clock, vars, sharedVars, importVars, reqVars, gcVars
<1> QED BY <1>1, <1>2, <1>3, <1>4, KeptReqStep, KeptCollector, KeptCrash DEF Next, ImportNext

-----------------------------------------------------------------------------
(***************************************************************************)
(* The ages.  A root that answers for an import is as young as that        *)
(* import, on the disk too; whoever removes it saw, under the root's lock, *)
(* that a rule lets it go.                                                 *)
(***************************************************************************)
Backed(p, t) == Expired(t) \/ (promised[p] /\ \A v \in disk[p] : v >= t)

Times ==
    /\ \A p \in Paths : acked[p] <= now
    /\ \A r \in Reqs : rdone[r] <= now
    /\ \A r \in Reqs : rpc[r] = "resync" => root[rpath[r]] >= rdone[r]

Cutoffs ==
    \A g \in Runners :
        /\ gpc[g] # "idle" => \E i \in DOMAIN Rules : gcutoff[g] <= now - Rules[i].olderThan
        /\ gpc[g] = "remove" => root[gcur[g]] <= gcutoff[g]

AnswerPC == {"drop", "unlink", "unlock", "respond"}

Answers ==
    /\ \A p \in Paths : acked[p] # Never => Backed(p, acked[p])
    /\ \A r \in Reqs : rok[r] => rpc[r] \in AnswerPC /\ Backed(rpath[r], rdone[r])

Aged == Times /\ Cutoffs /\ Answers

\* Expiry is for good.
LEMMA ExpiredStays ==
    ASSUME now \in Nat, now' \in Nat, now <= now', NEW t \in Nat, Expired(t)
    PROVE  Expired(t)'
<1>1. PICK i \in DOMAIN Rules : now >= t + Rules[i].olderThan
  BY DEF Expired
<1>2. Rules[i].olderThan \in Nat
  BY RuleType
<1>3. now' >= t + Rules[i].olderThan
  BY <1>1, <1>2
<1> QED BY <1>3 DEF Expired

\* What answers for an import keeps doing so while its promise stands, whatever
\* is synced or lost, and when its root is written again.
LEMMA BackedStays ==
    ASSUME now \in Nat, now' \in Nat, now <= now', NEW p \in Paths, NEW t \in Nat, t <= now,
           promised[p] => promised'[p] /\ \A v \in disk'[p] : v \in disk[p] \/ v = now,
           Backed(p, t)
    PROVE  Backed(p, t)'
<1>1. CASE Expired(t)
  BY <1>1, ExpiredStays DEF Backed
<1>2. CASE promised[p] /\ \A v \in disk[p] : v >= t
  <2>1. promised'[p] /\ \A v \in disk'[p] : v >= t
    BY <1>2
  <2> QED BY <2>1 DEF Backed
<1> QED BY <1>1, <1>2 DEF Backed

\* Nothing gets a new answer to stand for, except what a request hands over.
LEMMA AnswersFrame ==
    ASSUME TypeOK, TypeOK', Times, Answers, now <= now',
           \A p \in Paths : promised[p] =>
              promised'[p] /\ \A v \in disk'[p] : v \in disk[p] \/ v = now,
           \A p \in Paths :
              \/ acked'[p] = acked[p]
              \/ \E r \in Reqs : rok[r] /\ rpath[r] = p /\ acked'[p] = rdone[r],
           \A r \in Reqs : rok'[r] =>
              /\ rpc'[r] \in AnswerPC
              /\ \/ rok[r] /\ rpath'[r] = rpath[r] /\ rdone'[r] = rdone[r]
                 \/ promised'[rpath'[r]] /\ \A v \in disk'[rpath'[r]] : v >= rdone'[r]
    PROVE  Answers'
<1> USE DEF TypeOK, ImportTypeOK, SharedTypeOK
<1>1. \A p \in Paths, t \in Nat : t <= now /\ Backed(p, t) => Backed(p, t)'
  BY BackedStays
<1>2. \A r \in Reqs : rok[r] => rpath[r] \in Paths /\ rdone[r] \in Nat /\ rdone[r] <= now
                                /\ Backed(rpath[r], rdone[r])
  BY DEF Answers, Times, AnswerPC
<1>3. ASSUME NEW p \in Paths, NEW t, acked'[p] = t, t # Never PROVE Backed(p, t)'
  <2>1. t \in Nat /\ t <= now /\ Backed(p, t)
    <3>1. CASE acked'[p] = acked[p]
      BY <1>3, <3>1 DEF Answers, Times
    <3>2. CASE acked'[p] # acked[p]
      BY <1>2, <1>3, <3>2
    <3> QED BY <3>1, <3>2
  <2> QED BY <1>1, <2>1
<1>4. ASSUME NEW r \in Reqs, NEW p, NEW t, rok'[r], rpath'[r] = p, rdone'[r] = t
      PROVE  Backed(p, t)'
  <2>1. CASE rok[r] /\ rpath'[r] = rpath[r] /\ rdone'[r] = rdone[r]
    BY <1>1, <1>2, <1>4, <2>1
  <2>2. CASE promised'[p] /\ \A v \in disk'[p] : v >= t
    BY <2>2 DEF Backed
  <2> QED BY <1>4, <2>1, <2>2
<1> QED BY <1>3, <1>4 DEF Answers, Backed, Expired

\* What a request's step does to the roots: nothing; a write under the lock,
\* which is a removal only where nothing is promised; or a sync.
RootWrite(r, v) ==
    /\ rpc[r] \in LockedPC /\ WriteRoot(rpath[r], v) /\ promised' = promised
    /\ v = now \/ (v = NoRoot /\ ~promised[rpath[r]])

LEMMA RootReqStep ==
    ASSUME TypeOK, Roots, NEW r \in Reqs, ReqStep(r)
    PROVE  \/ UNCHANGED <<root, disk, promised>>
           \/ \E v \in RootVal : RootWrite(r, v)
           \/ SyncDir /\ (promised' = promised \/ SyncRefresh(r))
<1> USE DEF TypeOK, ImportTypeOK, SharedTypeOK, reqFrame, sharedVars, LockedPC
<1>1. CASE AcquireImportSlot(r) \/ GiveUpImportSlot(r) \/ Respond(r) \/ OpenSpool(r)
  BY <1>1 DEF AcquireImportSlot, GiveUpImportSlot, Respond, OpenSpool
<1>2. CASE Verify(r) \/ VerifyFails(r) \/ LockGCRoot(r) \/ LockGCRootFails(r) \/ AddGCRootFails(r)
  BY <1>2 DEF Verify, VerifyFails, LockGCRoot, LockGCRootFails, AddGCRootFails
<1>3. CASE AddGCRoot(r) \/ RefreshGCRoot(r)
  <2>1. RootWrite(r, now)
    BY <1>3 DEF AddGCRoot, RefreshGCRoot, RootWrite
  <2> QED BY <2>1
<1>4. CASE RollbackRoot(r)
  <2>1. ~promised[rpath[r]]
    BY <1>4 DEF RollbackRoot, Roots, Undo, UndoPC
  <2>2. RootWrite(r, NoRoot)
    BY <1>4, <2>1 DEF RollbackRoot, RootWrite
  <2> QED BY <2>2
<1>5. CASE SyncGCRoot(r) \/ SyncRollback(r) \/ SyncRefresh(r)
  BY <1>5 DEF SyncGCRoot, SyncRollback, SyncRefresh
<1>6. CASE ImportNar(r) \/ ImportDone(r) \/ ImportFails(r) \/ RollbackFails(r)
  BY <1>6 DEF ImportNar, ImportDone, ImportFails, RollbackFails
<1>7. CASE DropSpool(r) \/ UnlinkSpool(r) \/ UnlockGCRoot(r)
  BY <1>7 DEF DropSpool, UnlinkSpool, UnlockGCRoot
<1> QED BY <1>1, <1>2, <1>3, <1>4, <1>5, <1>6, <1>7 DEF ReqStep

\* The times of a request: its own step changes no other request's, and a
\* result is what the end of resync makes it.
LEMMA TimeReqStep ==
    ASSUME TypeOK, NEW r \in Reqs, ReqStep(r)
    PROVE  /\ now' = now
           /\ \A q \in Reqs \ {r} : /\ rpc'[q] = rpc[q] /\ rpath'[q] = rpath[q]
                                    /\ rdone'[q] = rdone[q] /\ (rok'[q] <=> rok[q])
           /\ rdone'[r] \in {0, now, rdone[r]}
           /\ rok'[r] /\ rpc[r] \in AnswerPC =>
                 rok[r] /\ rpath'[r] = rpath[r] /\ rdone'[r] = rdone[r] /\ rpc'[r] \in AnswerPC
           /\ rok'[r] /\ rpc[r] \notin AnswerPC => rok[r] \/ SyncRefresh(r)
           /\ rpc'[r] = "resync" =>
                 RefreshGCRoot(r) /\ rpath'[r] = rpath[r] /\ rdone'[r] = rdone[r]
           /\ \/ acked' = acked
              \/ rok[r] /\ acked' = [acked EXCEPT ![rpath[r]] = rdone[r]]
<1> USE DEF TypeOK, ImportTypeOK, SharedTypeOK, Goto, reqFrame, sharedVars, AnswerPC
<1>1. CASE AcquireImportSlot(r) \/ GiveUpImportSlot(r) \/ OpenSpool(r)
  BY <1>1 DEF AcquireImportSlot, GiveUpImportSlot, EndReq, OpenSpool
<1>2. CASE Respond(r)
  BY <1>2 DEF Respond, EndReq
<1>3. CASE Verify(r) \/ VerifyFails(r) \/ LockGCRoot(r) \/ LockGCRootFails(r)
  BY <1>3 DEF Verify, VerifyFails, LockGCRoot, LockGCRootFails
<1>4. CASE AddGCRoot(r) \/ SyncGCRoot(r) \/ AddGCRootFails(r)
  BY <1>4 DEF AddGCRoot, SyncGCRoot, AddGCRootFails
<1>5. CASE ImportNar(r) \/ ImportDone(r) \/ ImportFails(r)
  BY <1>5 DEF ImportNar, ImportDone, ImportFails
<1>6. CASE RollbackRoot(r) \/ SyncRollback(r) \/ RollbackFails(r)
  BY <1>6 DEF RollbackRoot, SyncRollback, RollbackFails
<1>7. CASE RefreshGCRoot(r)
  BY <1>7 DEF RefreshGCRoot
<1>8. CASE SyncRefresh(r)
  BY <1>8 DEF SyncRefresh
<1>9. CASE DropSpool(r) \/ UnlinkSpool(r) \/ UnlockGCRoot(r)
  BY <1>9 DEF DropSpool, UnlinkSpool, UnlockGCRoot
<1> QED BY <1>1, <1>2, <1>3, <1>4, <1>5, <1>6, <1>7, <1>8, <1>9 DEF ReqStep

LEMMA AgedReqStep ==
    ASSUME TypeOK, TypeOK', Locks, Roots, Aged, NEW r \in Reqs, ReqStep(r), UNCHANGED gcVars
    PROVE  Aged'
<1> USE DEF TypeOK, ImportTypeOK, SharedTypeOK
<1>1. /\ rpc[r] \in AnswerPC \cup LockedPC => rpath[r] \in Paths
      /\ \A p \in Paths : root[p] \in disk[p]
  BY DEF AnswerPC, LockedPC, Roots, OnDisk
<1>2. ASSUME NEW p \in Paths, p # rpath[r] \/ rpc[r] \notin LockedPC PROVE root'[p] = root[p]
  <2>1. ASSUME NEW v \in RootVal, RootWrite(r, v) PROVE root'[p] = root[p]
    BY <1>2, <2>1 DEF RootWrite, WriteRoot
  <2>2. SyncDir => root' = root
    BY DEF SyncDir
  <2> QED BY <2>1, <2>2, RootReqStep
<1>3. Times'
  <2>1. \A p \in Paths : acked'[p] <= now'
    <3>1. CASE acked' = acked
      BY <3>1, TimeReqStep DEF Aged, Times
    <3>2. CASE acked' = [acked EXCEPT ![rpath[r]] = rdone[r]]
      BY <3>2, TimeReqStep DEF Aged, Times
    <3> QED BY <3>1, <3>2, TimeReqStep
  <2>2. ASSUME NEW q \in Reqs PROVE rdone'[q] <= now'
    <3>1. now' = now /\ rdone'[q] \in {0, now, rdone[q]}
      BY TimeReqStep
    <3> QED BY <3>1 DEF Aged, Times
  <2>3. ASSUME NEW q \in Reqs, rpc'[q] = "resync" PROVE root'[rpath'[q]] >= rdone'[q]
    <3>1. CASE q = r
      <4>1. rpath[r] \in Paths /\ root'[rpath[r]] = now /\ rdone'[r] <= now
        BY <2>2, <2>3, <3>1, TimeReqStep DEF RefreshGCRoot, WriteRoot
      <4> QED BY <2>3, <3>1, <4>1, TimeReqStep
    <3>2. CASE q # r
      <4>1. rpc[q] = "resync" /\ rpath'[q] = rpath[q] /\ rdone'[q] = rdone[q] /\ rpath[q] \in Paths
        BY <2>3, <3>2, TimeReqStep
      <4>2. rpc[r] \notin LockedPC \/ rpath[r] # rpath[q]
        BY <3>2, <4>1, Exclusive DEF LockedPC
      <4> QED BY <1>2, <4>1, <4>2 DEF Aged, Times
    <3> QED BY <3>1, <3>2
  <2> QED BY <2>1, <2>2, <2>3 DEF Times
<1>4. Cutoffs'
  <2>1. UNCHANGED <<gpc, gcur, gcutoff, now>>
    BY TimeReqStep DEF gcVars
  <2>2. ASSUME NEW g \in Runners, gpc[g] = "remove" PROVE root'[gcur[g]] = root[gcur[g]]
    <3>1. gcur[g] \in Paths /\ (rpc[r] \in LockedPC => gcur[g] # rpath[r])
      BY <2>2, Exclusive DEF GCTypeOK, PrunePC
    <3> QED BY <1>2, <3>1
  <2> QED BY <2>1, <2>2 DEF Aged, Cutoffs
<1>5. Answers'
  <2>1. \A p \in Paths : promised[p] =>
              promised'[p] /\ \A v \in disk'[p] : v \in disk[p] \/ v = now
    <3>1. CASE UNCHANGED <<root, disk, promised>>
      BY <3>1
    <3>2. ASSUME NEW v \in RootVal, RootWrite(r, v)
          PROVE  \A p \in Paths : promised[p] =>
                   promised'[p] /\ \A w \in disk'[p] : w \in disk[p] \/ w = now
      BY <1>1, <3>2 DEF RootWrite, WriteRoot
    <3>3. CASE SyncDir /\ (promised' = promised \/ SyncRefresh(r))
      BY <1>1, <3>3 DEF SyncDir, SyncRefresh
    <3> QED BY <3>1, <3>2, <3>3, RootReqStep
  <2>2. \A p \in Paths :
              \/ acked'[p] = acked[p]
              \/ \E q \in Reqs : rok[q] /\ rpath[q] = p /\ acked'[p] = rdone[q]
    BY TimeReqStep
  <2>3. ASSUME SyncRefresh(r)
        PROVE  /\ rpc'[r] \in AnswerPC
               /\ promised'[rpath'[r]] /\ \A v \in disk'[rpath'[r]] : v >= rdone'[r]
    BY <2>3 DEF SyncRefresh, SyncDir, Goto, AnswerPC, reqFrame, Aged, Times
  <2>4. \A q \in Reqs : rok'[q] =>
              /\ rpc'[q] \in AnswerPC
              /\ \/ rok[q] /\ rpath'[q] = rpath[q] /\ rdone'[q] = rdone[q]
                 \/ promised'[rpath'[q]] /\ \A v \in disk'[rpath'[q]] : v >= rdone'[q]
    BY <2>3, TimeReqStep DEF Aged, Answers
  <2>5. now <= now' /\ Times /\ Answers
    BY TimeReqStep DEF Aged
  <2> QED BY <2>1, <2>2, <2>4, <2>5, AnswersFrame
<1> QED BY <1>3, <1>4, <1>5 DEF Aged

\* A check fixes its cutoff by a rule, and the clock only makes it later.
LEMMA CutoffStays ==
    ASSUME TypeOK, now' \in Nat, now <= now', NEW g \in Runners,
           \E i \in DOMAIN Rules : gcutoff[g] <= now - Rules[i].olderThan
    PROVE  \E i \in DOMAIN Rules : gcutoff[g] <= now' - Rules[i].olderThan
<1>1. PICK i \in DOMAIN Rules : gcutoff[g] <= now - Rules[i].olderThan
  OBVIOUS
<1>2. Rules[i].olderThan \in Nat /\ gcutoff[g] \in Int /\ now \in Nat
  BY RuleType DEF TypeOK, GCTypeOK, SharedTypeOK
<1>3. gcutoff[g] <= now' - Rules[i].olderThan
  BY <1>1, <1>2
<1> QED BY <1>3

\* A step of a collector that writes no root.
LEMMA AgedCollectorFrame ==
    ASSUME TypeOK, TypeOK', Roots, Aged, UNCHANGED <<importVars, now>>,
           UNCHANGED <<root, disk>> \/ SyncDir, NEW g \in Runners,
           \A h \in Runners \ {g} : gpc'[h] = gpc[h] /\ gcutoff'[h] = gcutoff[h] /\ gcur'[h] = gcur[h],
           gpc'[g] # "idle" =>
              \/ gpc[g] # "idle" /\ gcutoff'[g] = gcutoff[g]
              \/ \E i \in DOMAIN Rules : gcutoff'[g] <= now - Rules[i].olderThan,
           gpc'[g] = "remove" => root[gcur'[g]] <= gcutoff'[g]
    PROVE  Aged'
<1> USE DEF TypeOK, ImportTypeOK, SharedTypeOK
<1>1. root' = root /\ \A p \in Paths : \A v \in disk'[p] : v \in disk[p]
  BY DEF SyncDir, Roots, OnDisk
<1>2. Times'
  BY <1>1 DEF Aged, Times, importVars, reqVars
<1>3. Cutoffs'
  <2>1. ASSUME NEW h \in Runners, h # g
        PROVE  /\ gpc'[h] # "idle" => \E i \in DOMAIN Rules : gcutoff'[h] <= now' - Rules[i].olderThan
               /\ gpc'[h] = "remove" => root'[gcur'[h]] <= gcutoff'[h]
    BY <1>1, <2>1 DEF Aged, Cutoffs
  <2>2. gpc'[g] # "idle" => \E i \in DOMAIN Rules : gcutoff'[g] <= now' - Rules[i].olderThan
    BY DEF Aged, Cutoffs
  <2>3. gpc'[g] = "remove" => root'[gcur'[g]] <= gcutoff'[g]
    BY <1>1
  <2> QED BY <2>1, <2>2, <2>3 DEF Cutoffs
<1>4. Answers'
  BY <1>1, AnswersFrame DEF Aged, Answers, importVars, reqVars
<1> QED BY <1>2, <1>3, <1>4 DEF Aged

\* The prune: the root is too old to stand for an answer that has not expired.
LEMMA AgedRemove ==
    ASSUME TypeOK, TypeOK', Locks, Roots, Aged, NEW g \in Runners, GCRemove(g)
    PROVE  Aged'
<1> USE DEF TypeOK, ImportTypeOK, SharedTypeOK, GCTypeOK
<1> DEFINE p == gcur[g]
<1>1. /\ gpc[g] = "remove" /\ p \in Paths /\ WriteRoot(p, NoRoot)
      /\ promised' = [promised EXCEPT ![p] = FALSE] /\ gpc' = [gpc EXCEPT ![g] = "sync"]
      /\ UNCHANGED <<now, reqVars, acked, gcur, gcutoff>>
  BY DEF GCRemove, RemoveRoot, PrunePC
<1>2. \A q \in Paths \ {p} : root'[q] = root[q] /\ disk'[q] = disk[q] /\ promised'[q] = promised[q]
  BY <1>1 DEF WriteRoot
<1>3. ASSUME NEW t \in Nat, Backed(p, t) PROVE Expired(t)
  <2>1. CASE promised[p] /\ \A v \in disk[p] : v >= t
    <3>1. root[p] \in disk[p] /\ root[p] <= gcutoff[g] /\ root[p] \in Int /\ gcutoff[g] \in Int
      BY <1>1 DEF Roots, OnDisk, Aged, Cutoffs
    <3>2. PICK i \in DOMAIN Rules : gcutoff[g] <= now - Rules[i].olderThan
      BY <1>1 DEF Aged, Cutoffs
    <3>3. Rules[i].olderThan \in Nat
      BY RuleType
    <3>4. t <= root[p]
      BY <1>1, <2>1, <3>1
    <3>5. now >= t + Rules[i].olderThan
      BY <3>1, <3>2, <3>3, <3>4
    <3> QED BY <3>5 DEF Expired
  <2> QED BY <1>3, <2>1 DEF Backed
<1>4. Times'
  <2>1. \A r \in Reqs : rpc[r] = "resync" => rpath[r] \in Paths \ {p}
    BY <1>1, Exclusive DEF LockedPC, PrunePC
  <2> QED BY <1>1, <1>2, <2>1 DEF Aged, Times, reqVars
<1>5. Cutoffs'
  <2>1. ASSUME NEW h \in Runners, gpc'[h] = "remove" PROVE gcur[h] \in Paths \ {p} /\ gpc[h] = "remove"
    <3>1. h # g /\ gpc[h] = "remove" /\ gcur[h] \in Paths
      BY <1>1, <2>1 DEF PrunePC
    <3> QED BY <1>1, <3>1 DEF Locks, Holds, PrunePC
  <2>2. \A h \in Runners : gpc'[h] # "idle" => gpc[h] # "idle"
    BY <1>1
  <2>3. ASSUME NEW h \in Runners, gpc'[h] # "idle"
        PROVE  \E i \in DOMAIN Rules : gcutoff'[h] <= now' - Rules[i].olderThan
    BY <1>1, <2>2, <2>3 DEF Aged, Cutoffs
  <2>4. ASSUME NEW h \in Runners, gpc'[h] = "remove" PROVE root'[gcur'[h]] <= gcutoff'[h]
    BY <1>1, <1>2, <2>1, <2>4 DEF Aged, Cutoffs
  <2> QED BY <2>3, <2>4 DEF Cutoffs
<1>6. ASSUME NEW q \in Paths, NEW t \in Nat, Backed(q, t) PROVE Backed(q, t)'
  <2>1. Expired(t) => Expired(t)'
    BY <1>1, ExpiredStays
  <2>2. CASE q = p
    BY <1>3, <1>6, <2>1, <2>2 DEF Backed
  <2>3. CASE q # p
    BY <1>2, <1>6, <2>1, <2>3 DEF Backed
  <2> QED BY <2>2, <2>3
<1>7. Answers'
  <2>1. ASSUME NEW q \in Paths, acked[q] # Never PROVE acked[q] \in Nat /\ Backed(q, acked[q])
    BY <2>1 DEF Aged, Answers
  <2>2. ASSUME NEW r \in Reqs, rok[r]
        PROVE  rpath[r] \in Paths /\ rdone[r] \in Nat /\ rpc[r] \in AnswerPC /\ Backed(rpath[r], rdone[r])
    BY <2>2 DEF Aged, Answers, AnswerPC
  <2> QED BY <1>1, <1>6, <2>1, <2>2 DEF Answers, Backed, Expired, reqVars
<1> QED BY <1>4, <1>5, <1>7 DEF Aged

LEMMA AgedCollector ==
    ASSUME TypeOK, TypeOK', Locks, Roots, Aged, NEW g \in Runners,
           GCCheck(g) \/ GCStep(g) \/ GCRemove(g)
    PROVE  Aged'
<1> USE DEF TypeOK, GCTypeOK, sharedVars
<1>1. ASSUME UNCHANGED importVars, StartCheck(g) PROVE Aged'
  <2>1. PICK i \in DOMAIN Rules : gcutoff' = [gcutoff EXCEPT ![g] = now - Rules[i].olderThan]
    BY <1>1 DEF StartCheck, SelectRule
  <2>2. now - Rules[i].olderThan \in Int
    BY RuleType DEF SharedTypeOK
  <2> QED BY <1>1, <2>1, <2>2, AgedCollectorFrame DEF StartCheck
<1>2. ASSUME UNCHANGED importVars, RecheckRoot(g) PROVE Aged'
  BY <1>2, AgedCollectorFrame DEF RecheckRoot, Stale, NextRoot, nixVars
<1>3. ASSUME UNCHANGED importVars, SyncRemoval(g) \/ PruneFails(g) PROVE Aged'
  BY <1>3, AgedCollectorFrame DEF SyncRemoval, PruneFails, NextRoot, PrunePC
<1>4. ASSUME UNCHANGED importVars, PruneDone(g) \/ DontCollect(g) PROVE Aged'
  BY <1>4, AgedCollectorFrame DEF PruneDone, DontCollect, EndCheck
<1>5. ASSUME UNCHANGED importVars, StartCollect(g) \/ FinishCollect(g) \/ CollectFails(g)
      PROVE  Aged'
  BY <1>5, AgedCollectorFrame DEF StartCollect, FinishCollect, CollectFails, EndCollect, EndCheck
<1>6. ASSUME UNCHANGED importVars, NEW p \in Paths, TryLockRoot(g, p) \/ SkipRoot(g, p)
      PROVE  Aged'
  BY <1>6, AgedCollectorFrame DEF TryLockRoot, SkipRoot
<1> QED BY <1>1, <1>2, <1>3, <1>4, <1>5, <1>6, AgedRemove DEF GCCheck, GCStep, RunnerStep

\* A crash ends the requests, and the collectors it kills; a power loss brings
\* back a version of a root that a promise had already outlived.
LEMMA AgedCrash ==
    ASSUME TypeOK, TypeOK', Locks, Roots, Aged,
           ServerCrash \/ PowerLoss \/ \E g \in Runners : RunnerCrash(g)
    PROVE  Aged'
<1> USE DEF TypeOK, ImportTypeOK, SharedTypeOK, GCTypeOK
<1>1. now' = now /\ acked' = acked /\ promised' = promised
  BY DEF ServerCrash, PowerLoss, RunnerCrash, KillRequests, importVars
<1>2. KillRequests \/ UNCHANGED reqVars
  BY DEF ServerCrash, PowerLoss, RunnerCrash, importVars
<1>3. \A p \in Paths : \A v \in disk'[p] : v \in disk[p]
  <2>1. LoseUnsynced => \A p \in Paths : \A v \in disk'[p] : v \in disk[p]
    BY DEF LoseUnsynced
  <2> QED BY <2>1 DEF ServerCrash, PowerLoss, RunnerCrash
<1>4. Times'
  <2>1. CASE KillRequests
    <3>1. \A r \in Reqs : rdone'[r] = 0 /\ rpc'[r] = "idle"
      BY <2>1 DEF KillRequests
    <3> QED BY <1>1, <3>1 DEF Aged, Times
  <2>2. CASE ~KillRequests
    <3>1. root' = root /\ UNCHANGED reqVars
      BY <2>2 DEF ServerCrash, PowerLoss, RunnerCrash, importVars
    <3> QED BY <1>1, <3>1 DEF Aged, Times, reqVars
  <2> QED BY <2>1, <2>2
<1>5. Cutoffs'
  <2>1. CASE PowerLoss
    <3>1. \A g \in Runners : gpc'[g] = "idle"
      BY <2>1 DEF PowerLoss, Killed, KillRunners
    <3> QED BY <3>1 DEF Cutoffs
  <2>2. CASE ~PowerLoss
    <3>1. root' = root /\ \E dead : Killed(dead)
      BY <2>2 DEF ServerCrash, RunnerCrash
    <3>2. \A g \in Runners : \/ gpc'[g] = "idle"
                             \/ gpc'[g] = gpc[g] /\ gcutoff'[g] = gcutoff[g] /\ gcur'[g] = gcur[g]
      BY <3>1 DEF Killed, KillRunners
    <3> QED BY <1>1, <3>1, <3>2 DEF Aged, Cutoffs
  <2> QED BY <2>1, <2>2
<1>6. Answers'
  <2>1. /\ \A r \in Reqs : rok'[r] =>
              /\ rpc'[r] \in AnswerPC
              /\ rok[r] /\ rpath'[r] = rpath[r] /\ rdone'[r] = rdone[r]
    BY <1>2 DEF KillRequests, reqVars, Aged, Answers
  <2>2. \A p \in Paths : acked'[p] = acked[p]
    BY <1>1
  <2>3. \A p \in Paths : promised[p] =>
           promised'[p] /\ \A v \in disk'[p] : v \in disk[p] \/ v = now
    BY <1>1, <1>3
  <2>4. now <= now' /\ Times /\ Answers
    BY <1>1 DEF Aged
  <2> QED BY <2>1, <2>2, <2>3, <2>4, AnswersFrame
<1> QED BY <1>4, <1>5, <1>6 DEF Aged

LEMMA AgedNext ==
    TypeOK /\ TypeOK' /\ Locks /\ Roots /\ Aged /\ [Next]_vars => Aged'
<1> SUFFICES ASSUME TypeOK, TypeOK', Locks, Roots, Aged, [Next]_vars PROVE Aged'
  OBVIOUS
<1> USE DEF TypeOK, ImportTypeOK, SharedTypeOK
<1>1. ASSUME now <= now', UNCHANGED <<root, disk, promised, acked, gcVars>>,
             \A r \in Reqs :
                \/ UNCHANGED reqVars
                \/ rpc'[r] = rpc[r] /\ rpath'[r] = rpath[r] /\ rdone'[r] = rdone[r] /\ rok'[r] = rok[r]
                \/ rpc[r] = "idle" /\ rpc'[r] = "slot" /\ rdone'[r] = rdone[r] /\ rok'[r] = rok[r]
      PROVE  Aged'
  <2>1. Times'
    <3> USE DEF Aged, Times
    <3>1. ASSUME NEW p \in Paths PROVE acked'[p] <= now'
      <4>1. acked'[p] = acked[p] /\ acked[p] \in Nat \cup {Never} /\ acked[p] <= now
        BY <1>1
      <4>2. now \in Nat /\ now' \in Nat
        OBVIOUS
      <4> QED BY <1>1, <4>1, <4>2
    <3>2. ASSUME NEW r \in Reqs
          PROVE  /\ rdone'[r] = rdone[r]
                 /\ rpc'[r] = "resync" => rpc[r] = "resync" /\ rpath'[r] = rpath[r]
      BY <1>1 DEF reqVars
    <3>3. ASSUME NEW r \in Reqs PROVE rdone'[r] <= now'
      <4>1. rdone'[r] = rdone[r] /\ rdone[r] \in Nat /\ rdone[r] <= now
        BY <3>2
      <4> QED BY <1>1, <4>1
    <3>4. ASSUME NEW r \in Reqs, rpc'[r] = "resync" PROVE root'[rpath'[r]] >= rdone'[r]
      <4>1. rpc[r] = "resync" /\ rpath'[r] = rpath[r] /\ rdone'[r] = rdone[r]
        BY <3>2, <3>4
      <4> QED BY <1>1, <4>1
    <3> QED BY <3>1, <3>3, <3>4
  <2>2. Cutoffs'
    BY <1>1, CutoffStays DEF Aged, Cutoffs, gcVars
  <2>3. \A r \in Reqs : rok'[r] =>
              rpc'[r] \in AnswerPC /\ rok[r] /\ rpath'[r] = rpath[r] /\ rdone'[r] = rdone[r]
    BY <1>1 DEF Aged, Answers, AnswerPC, reqVars
  <2>4. Answers'
    BY <1>1, <2>3, AnswersFrame DEF Aged
  <2> QED BY <2>1, <2>2, <2>4 DEF Aged
<1>2. ASSUME NEW r \in Reqs, NEW p \in Paths, PutNarInfo(r, p), UNCHANGED gcVars PROVE Aged'
  <2>1. UNCHANGED <<now, root, disk, promised, acked, rdone, rok>>
    BY <1>2 DEF PutNarInfo, sharedVars
  <2>2. /\ rpc[r] = "idle" /\ rpc' = [rpc EXCEPT ![r] = "slot"] /\ rpath' = [rpath EXCEPT ![r] = p]
    BY <1>2 DEF PutNarInfo, Goto
  <2> QED BY <1>1, <1>2, <2>1, <2>2
<1>3. ASSUME \/ \E u \in Uploads, n \in Names, b \in Bodies : PutNar(u, n, b)
             \/ \E u \in Uploads : UploadStep(u)
             \/ SweepSpool \/ Restart,
             UNCHANGED gcVars
      PROVE  Aged'
  <2>1. UNCHANGED <<now, root, disk, promised, acked, reqVars>>
    BY <1>3 DEF PutNar, UploadStep, CopyNar, RenameNar, RenameSwept, PutNarFails, SweepSpool, Restart, sharedVars
  <2> QED BY <1>1, <1>3, <2>1
<1>4. CASE Clock \/ UNCHANGED vars
  <2>1. UNCHANGED <<root, disk, promised, acked, reqVars, gcVars>> /\ now <= now'
    BY <1>4 DEF Clock, Tick, vars, sharedVars, importVars
  <2> QED BY <1>1, <2>1
<1> QED BY <1>2, <1>3, <1>4, AgedReqStep, AgedCollector, AgedCrash DEF Next, ImportNext

LEMMA RetentionInit == Init => Kept /\ Aged
<1> SUFFICES ASSUME Init PROVE Kept /\ Aged
  OBVIOUS
<1> USE DEF Init, SharedInit, ImportInit, GCInit
<1>1. Kept
  BY DEF Kept, Sweeping, StoreClosed, KeepClosed, Marked, Valid, AddedPC
<1>2. Aged
  BY DEF Aged, Times, Cutoffs, Answers
<1> QED BY <1>1, <1>2

\* What is in the store is what was verified, and what was added stays.
LEMMA StoreAlways == Spec => [](Verified /\ Kept)
<1>1. Init => Verified /\ StoreHoldsVerified
  BY DEF Init, SharedInit, ImportInit, Verified, StoreHoldsVerified, LockedPC
<1>2. TypeOK /\ TypeOK' /\ Verified /\ StoreHoldsVerified /\ Roots /\ Kept
        /\ [Next]_vars => (Verified /\ StoreHoldsVerified /\ Kept)'
  BY VerifiedNext, KeptNext
<1> QED BY <1>1, <1>2, RetentionInit, TypeCorrect, RootsAlways, PTL DEF Spec

\* An answered import is retained with everything it refers to until a rule lets
\* it go by age: no prune that read an older time, no collection that marked
\* before the import, no failed re-push, crash or power loss takes it earlier
\* (niximport.go Import: root before import, refresh after it; gc.go
\* pruneLockedRoot: look again under the lock).
THEOREM AckedRetainedCorrect == Spec => []AckedRetained
<1>1. TypeOK /\ Kept /\ Aged /\ Roots => AckedRetained
  <2> SUFFICES ASSUME TypeOK, Kept, Aged, Roots, NEW p \in Paths, acked[p] # Never, ~Expired(acked[p])
               PROVE  Retained(p)
    BY DEF AckedRetained
  <2>1. promised[p] /\ \A v \in disk[p] : v >= acked[p]
    BY DEF Aged, Answers, Backed
  <2>2. root[p] # NoRoot
    BY <2>1 DEF Roots, OnDisk
  <2>3. Valid(p)
    BY <2>1 DEF Kept, Marked, Safe
  <2>4. \A q \in Refs[p] : Valid(q)
    BY <2>3 DEF Kept, StoreClosed
  <2> QED BY <2>2, <2>3, <2>4 DEF Retained
<1>2. TypeOK /\ TypeOK' /\ Locks /\ Roots /\ Aged /\ [Next]_vars => Aged'
  BY AgedNext
<1> QED BY <1>1, <1>2, RetentionInit, TypeCorrect, RootsAlways, StoreAlways, PTL DEF Spec

-----------------------------------------------------------------------------
(***************************************************************************)
(* Garbage.  While nothing fails, every path that lost its last root is    *)
(* owed a collection by the check that unrooted it, or no check has        *)
(* collected yet in the life of its process.  A running collection keeps   *)
(* only what roots keep alive, unless another check has unrooted some of   *)
(* it since the mark.                                                      *)
(***************************************************************************)
LiveFrom(S) == {p \in Paths : \E q \in S : /\ root[q] # NoRoot
                                           /\ Valid(q)
                                           /\ p \in Refs[q] \cup {q}}

\* Nothing has failed, and an import that is undone has added nothing.
Quiet ==
    /\ \A g \in Runners : ~gfailed[g] /\ (g \notin Loops => glast[g] = NoCollect)
    /\ \A r \in Reqs : rpc[r] = "rollback" => ~Valid(rpath[r])

SweepsAll ==
    \A g \in Runners : gpc[g] = "sweep" =>
        keep \subseteq LiveFrom(keep) \/ \E h \in Runners \ {g} : Owes(h)

Owed ==
    \/ Garbage = {}
    \/ \E h \in Runners : Owes(h)
    \/ \A g \in Runners : glast[g] = NoCollect

Ledger == Quiet /\ SweepsAll /\ Owed

\* A step that unroots nothing that is in the store.
LEMMA LedgerFrame ==
    ASSUME Ledger, UNCHANGED <<nixVars, glast>>,
           \A p \in Paths : root[p] # NoRoot /\ Valid(p) => root'[p] # NoRoot,
           keep \subseteq Paths,
           \A h \in Runners : /\ gpc'[h] = "sweep" <=> gpc[h] = "sweep"
                              /\ Owes(h) => Owes(h)'
                              /\ ~gfailed'[h],
           \A r \in Reqs : rpc'[r] = "rollback" => ~Valid(rpath'[r])
    PROVE  Ledger'
<1>1. \A p : Valid(p)' <=> Valid(p)
  BY DEF Valid, nixVars
<1>2. Quiet'
  BY <1>1 DEF Ledger, Quiet, Valid
<1>3. LiveFrom(keep) \subseteq LiveFrom(keep)' /\ keep' = keep
  BY <1>1 DEF LiveFrom, nixVars
<1>4. SweepsAll'
  BY <1>3 DEF Ledger, SweepsAll
<1>5. Garbage' \subseteq Garbage
  BY <1>1 DEF Garbage, Live
<1>6. Owed'
  BY <1>5 DEF Ledger, Owed
<1> QED BY <1>2, <1>4, <1>6 DEF Ledger

\* What a request does to roots, and how it comes to undo one.
LEMMA UnrootReqStep ==
    ASSUME TypeOK, NEW r \in Reqs, ReqStep(r)
    PROVE  /\ \/ root' = root
              \/ root' = [root EXCEPT ![rpath[r]] = now]
              \/ rpc[r] = "rollback" /\ root' = [root EXCEPT ![rpath[r]] = NoRoot]
           /\ \A q \in Reqs : rpc'[q] = "rollback" =>
                 /\ rpath'[q] = rpath[q]
                 /\ rpc[q] = "rollback" \/ (q = r /\ ImportFails(r))
<1> USE DEF TypeOK, ImportTypeOK, Goto, reqFrame, sharedVars
<1>1. CASE AcquireImportSlot(r) \/ GiveUpImportSlot(r) \/ Respond(r) \/ OpenSpool(r)
  BY <1>1 DEF AcquireImportSlot, GiveUpImportSlot, Respond, EndReq, OpenSpool
<1>2. CASE Verify(r) \/ VerifyFails(r) \/ LockGCRoot(r) \/ LockGCRootFails(r)
  BY <1>2 DEF Verify, VerifyFails, LockGCRoot, LockGCRootFails
<1>3. CASE AddGCRoot(r) \/ SyncGCRoot(r) \/ AddGCRootFails(r)
  BY <1>3 DEF AddGCRoot, SyncGCRoot, AddGCRootFails, WriteRoot, SyncDir
<1>4. CASE ImportNar(r) \/ ImportDone(r) \/ ImportFails(r)
  BY <1>4 DEF ImportNar, ImportDone, ImportFails
<1>5. CASE RollbackRoot(r) \/ SyncRollback(r) \/ RollbackFails(r)
  BY <1>5 DEF RollbackRoot, SyncRollback, RollbackFails, WriteRoot, SyncDir
<1>6. CASE RefreshGCRoot(r) \/ SyncRefresh(r)
  BY <1>6 DEF RefreshGCRoot, SyncRefresh, WriteRoot, SyncDir
<1>7. CASE DropSpool(r) \/ UnlinkSpool(r) \/ UnlockGCRoot(r)
  BY <1>7 DEF DropSpool, UnlinkSpool, UnlockGCRoot
<1> QED BY <1>1, <1>2, <1>3, <1>4, <1>5, <1>6, <1>7 DEF ReqStep

\* Nix refuses a path only for want of a reference, so a path whose import is
\* undone is not in the store, and its root kept nothing alive.
LEMMA LedgerReqStep ==
    ASSUME TypeOK, Kept, Ledger, ~LeavesGarbage, NEW r \in Reqs,
           ReqStep(r), ~ImportNar(r), UNCHANGED gcVars
    PROVE  Ledger'
<1> USE DEF TypeOK, ImportTypeOK, SharedTypeOK
<1>1. UNCHANGED nixVars /\ UNCHANGED <<gpc, gpruned, gfailed, glast>>
  BY AddedReqStep DEF gcVars
<1>2. \A p : Valid(p)' <=> Valid(p)
  BY <1>1 DEF nixVars, Valid
<1>3. \A p \in Paths : root[p] # NoRoot /\ Valid(p) => root'[p] # NoRoot
  <2>1. rpc[r] = "rollback" => ~Valid(rpath[r])
    BY DEF Ledger, Quiet
  <2> QED BY <2>1, UnrootReqStep
<1>4. ImportFails(r) => rpath[r] \in Paths /\ ~Valid(rpath[r])
  BY DEF ImportFails, LeavesGarbage, Kept, StoreClosed
<1>5. ASSUME NEW q \in Reqs, rpc'[q] = "rollback" PROVE ~Valid(rpath'[q])
  BY <1>4, <1>5, UnrootReqStep DEF Ledger, Quiet
<1> QED BY <1>1, <1>3, <1>5, LedgerFrame DEF Owes, Ledger, Quiet

\* A path is added under its root, so it is no garbage, and a running collection
\* keeps it for that root.
LEMMA LedgerImportNar ==
    ASSUME TypeOK, Locks, Roots, Verified, Ledger, NEW r \in Reqs, ImportNar(r), UNCHANGED gcVars
    PROVE  Ledger'
<1> DEFINE p == rpath[r]
<1>1. /\ rpc[r] = "import" /\ p \in Paths /\ keep \subseteq Paths
      /\ rpc' = [rpc EXCEPT ![r] = "reply"] /\ rpc \in [Reqs -> {"idle", "slot"} \cup SlotPC]
      /\ UNCHANGED <<root, rpath, gpc, gpruned, gfailed, glast, collecting>>
  BY DEF ImportNar, NixAdd, Goto, reqFrame, TypeOK, ImportTypeOK, SharedTypeOK, gcVars
<1>2. /\ stored' = [stored EXCEPT ![p] = IF Valid(p) THEN @ ELSE rfd[r].body]
      /\ keep' = IF collecting THEN keep \cup Refs[p] \cup {p} ELSE keep
  BY DEF ImportNar, NixAdd
<1>3. stored \in [Paths -> Bodies \cup {NoBody}] /\ Refs[p] \subseteq Paths
  BY <1>1, RefsAssumption DEF TypeOK, SharedTypeOK
<1>4. rfd[r].body # NoBody /\ root[p] # NoRoot
  BY <1>1, SharedAssumption DEF Verified, LockedPC, Roots, RootDuringImport
<1>5. \A q \in Paths : Valid(q)' <=> Valid(q) \/ q = p
  BY <1>1, <1>2, <1>3, <1>4 DEF Valid
<1>6. Quiet'
  <2>1. \A q \in Reqs : rpc[q] = "rollback" => rpath[q] # p
    BY <1>1, Exclusive DEF LockedPC
  <2>2. \A q \in Reqs : rpc'[q] = "rollback" => rpc[q] = "rollback" /\ rpath[q] \in Paths
    BY <1>1 DEF TypeOK, ImportTypeOK
  <2>3. \A q \in Reqs : rpc'[q] = "rollback" => ~Valid(rpath[q])'
    BY <1>1, <1>5, <2>1, <2>2 DEF Ledger, Quiet
  <2> QED BY <1>1, <2>3 DEF Ledger, Quiet, Valid
<1>7. keep \subseteq LiveFrom(keep) => keep' \subseteq LiveFrom(keep)'
  BY <1>1, <1>2, <1>3, <1>4, <1>5 DEF LiveFrom
<1>8. SweepsAll'
  BY <1>1, <1>7 DEF Ledger, SweepsAll, Owes
<1>9. Garbage' \subseteq Garbage
  BY <1>1, <1>4, <1>5 DEF Garbage, Live
<1>10. Owed'
  BY <1>1, <1>9 DEF Ledger, Owed, Owes
<1> QED BY <1>6, <1>8, <1>10 DEF Ledger

\* What a finished collection leaves is alive, or another check has unrooted it
\* since the mark.
LEMMA LedgerEndCollect ==
    ASSUME TypeOK, Kept, Ledger, NEW g \in Runners, FinishCollect(g), UNCHANGED importVars
    PROVE  Ledger'
<1> USE DEF TypeOK, SharedTypeOK, ImportTypeOK, GCTypeOK
<1>1. /\ gpc[g] = "sweep" /\ keep' = {} /\ root' = root
      /\ stored' = [p \in Paths |-> IF p \in Unkept THEN NoBody ELSE stored[p]]
      /\ gpc' = [gpc EXCEPT ![g] = "idle"] /\ gpruned' = [gpruned EXCEPT ![g] = FALSE]
      /\ gfailed' = [gfailed EXCEPT ![g] = FALSE]
      /\ \A h \in Runners : (h = g /\ g \in Loops) \/ glast'[h] = glast[h]
      /\ UNCHANGED <<rpc, rpath>>
  BY DEF FinishCollect, EndCollect, EndCheck, importVars, reqVars
<1>2. \A p \in Paths : Valid(p)' <=> Valid(p) /\ p \in keep
  BY <1>1 DEF Valid, Unkept
<1>3. \A h \in Runners \ {g} : Owes(h) => Owes(h)'
  BY <1>1 DEF Owes
<1>4. Quiet'
  <2>1. \A q \in Reqs : rpc'[q] = "rollback" => ~Valid(rpath[q])'
    BY <1>1, <1>2 DEF Ledger, Quiet
  <2>2. \A h \in Runners : ~gfailed'[h] /\ (h \notin Loops => glast'[h] = NoCollect)
    BY <1>1 DEF Ledger, Quiet
  <2> QED BY <1>1, <2>1, <2>2 DEF Quiet, Valid
<1>5. SweepsAll'
  BY <1>1 DEF SweepsAll
<1>6. Owed'
  <2>1. CASE \E h \in Runners \ {g} : Owes(h)
    BY <1>3, <2>1 DEF Owed
  <2>2. CASE keep \subseteq LiveFrom(keep)
    <3>1. ASSUME NEW p \in Paths, Valid(p)' PROVE p \in Live'
      <4>1. p \in LiveFrom(keep)
        BY <1>2, <2>2, <3>1
      <4>2. PICK q \in keep : root[q] # NoRoot /\ Valid(q) /\ p \in Refs[q] \cup {q}
        BY <4>1 DEF LiveFrom
      <4>3. q \in Paths /\ root'[q] # NoRoot /\ Valid(q)'
        BY <1>1, <1>2, <4>2
      <4> QED BY <4>2, <4>3 DEF Live
    <3> QED BY <3>1 DEF Garbage, Owed
  <2> QED BY <1>1, <2>1, <2>2 DEF Ledger, SweepsAll
<1> QED BY <1>4, <1>5, <1>6 DEF Ledger

LEMMA LedgerCollector ==
    ASSUME TypeOK, Kept, Ledger, ~LeavesGarbage, NEW g \in Runners,
           GCCheck(g) \/ GCStep(g) \/ GCRemove(g)
    PROVE  Ledger'
<1> USE DEF TypeOK, SharedTypeOK, ImportTypeOK, GCTypeOK
<1>1. UNCHANGED <<rpc, rpath>> /\ "prune" \notin Faults /\ "collect" \notin Faults
  BY DEF GCCheck, GCStep, GCRemove, importVars, reqVars, LeavesGarbage
<1>2. ASSUME UNCHANGED <<root, nixVars, glast>>,
             \A h \in Runners : /\ gpc'[h] = "sweep" <=> gpc[h] = "sweep"
                                /\ Owes(h) => Owes(h)'
                                /\ ~gfailed'[h]
      PROVE  Ledger'
  <2>1. \A q \in Reqs : rpc'[q] = "rollback" => ~Valid(rpath'[q])
    BY <1>1 DEF Ledger, Quiet
  <2> QED BY <1>2, <2>1, LedgerFrame
<1>3. \A h \in Runners : ~gfailed[h]
  BY DEF Ledger, Quiet
<1>4. CASE StartCheck(g) \/ RecheckRoot(g)
  BY <1>2, <1>3, <1>4 DEF StartCheck, RecheckRoot, NextRoot, Owes, sharedVars
<1>5. CASE SyncRemoval(g)
  BY <1>2, <1>3, <1>5 DEF SyncRemoval, SyncDir, NextRoot, Owes
<1>6. CASE PruneDone(g) \/ DontCollect(g)
  BY <1>2, <1>3, <1>6 DEF PruneDone, DontCollect, SkipCollect, EndCheck, Owes, sharedVars
<1>7. ASSUME NEW p \in Paths, TryLockRoot(g, p) \/ SkipRoot(g, p) PROVE Ledger'
  BY <1>1, <1>2, <1>3, <1>7 DEF TryLockRoot, SkipRoot, Owes, sharedVars
<1>8. CASE GCRemove(g)
  <2>1. /\ gpc[g] = "remove" /\ gpc' = [gpc EXCEPT ![g] = "sync"]
        /\ UNCHANGED <<nixVars, gpruned, gfailed, glast>>
    BY <1>8 DEF GCRemove, RemoveRoot
  <2>2. \A p : Valid(p)' <=> Valid(p)
    BY <2>1 DEF Valid, nixVars
  <2>3. Owes(g)' /\ \A h \in Runners : gpc'[h] = "sweep" => h # g
    BY <2>1 DEF Owes
  <2>4. Quiet'
    BY <1>1, <2>1, <2>2 DEF Ledger, Quiet, Valid
  <2> QED BY <2>3, <2>4 DEF Ledger, SweepsAll, Owed
<1>9. CASE StartCollect(g)
  <2>1. /\ gpc' = [gpc EXCEPT ![g] = "sweep"] /\ gpc[g] = "decide"
        /\ ~collecting /\ keep' = Live /\ UNCHANGED <<root, stored, gpruned, gfailed, glast>>
    BY <1>9 DEF StartCollect
  <2>2. /\ \A p : Valid(p)' <=> Valid(p)
        /\ \A h \in Runners : Owes(h)' <=> Owes(h)
    BY <2>1 DEF Valid, Owes
  <2>3. Quiet'
    BY <1>1, <2>1, <2>2 DEF Ledger, Quiet, Valid
  <2>4. keep' \subseteq LiveFrom(keep)'
    BY <2>1, <2>2 DEF LiveFrom, Live
  <2>5. Garbage' = Garbage
    BY <2>1, <2>2 DEF Garbage, Live
  <2>6. Owed'
    BY <2>1, <2>2, <2>5 DEF Ledger, Owed
  <2> QED BY <2>3, <2>4, <2>6 DEF Ledger, SweepsAll
<1>10. CASE FinishCollect(g) /\ UNCHANGED importVars
  BY <1>10, LedgerEndCollect
<1> QED BY <1>1, <1>4, <1>5, <1>6, <1>7, <1>8, <1>9, <1>10
           DEF GCCheck, GCStep, RunnerStep, PruneFails, CollectFails

\* Who loses what a dead check still owed has lost the memory of its last
\* collection too.
LEMMA LedgerCrash ==
    ASSUME ~LeavesGarbage, ServerCrash \/ PowerLoss \/ \E g \in Runners : RunnerCrash(g)
    PROVE  Ledger'
<1>1. Killed(Runners) /\ KillRequests
  BY DEF ServerCrash, PowerLoss, RunnerCrash, LeavesGarbage
<1>2. \A g \in Runners : gpc'[g] = "idle" /\ ~gfailed'[g] /\ glast'[g] = NoCollect
  BY <1>1 DEF Killed, KillRunners
<1>3. \A r \in Reqs : rpc'[r] = "idle"
  BY <1>1 DEF KillRequests
<1> QED BY <1>2, <1>3 DEF Ledger, Quiet, SweepsAll, Owed

LEMMA LedgerNext ==
    ASSUME ~LeavesGarbage
    PROVE  TypeOK /\ Locks /\ Roots /\ Verified /\ Kept /\ Ledger /\ [Next]_vars => Ledger'
<1> SUFFICES ASSUME TypeOK, Locks, Roots, Verified, Kept, Ledger, [Next]_vars PROVE Ledger'
  OBVIOUS
<1>1. ASSUME UNCHANGED <<root, nixVars, gcVars>>,
             \A r \in Reqs : rpc'[r] = "rollback" => rpc[r] = "rollback" /\ rpath'[r] = rpath[r]
      PROVE  Ledger'
  <2>1. keep \subseteq Paths /\ UNCHANGED <<gpc, gpruned, gfailed, glast>>
    BY <1>1 DEF TypeOK, SharedTypeOK, gcVars
  <2>2. \A r \in Reqs : rpc'[r] = "rollback" => ~Valid(rpath'[r])
    BY <1>1 DEF Ledger, Quiet
  <2> QED BY <1>1, <2>1, <2>2, LedgerFrame DEF Owes, Ledger, Quiet
<1>2. ASSUME NEW r \in Reqs, NEW p \in Paths, PutNarInfo(r, p), UNCHANGED gcVars PROVE Ledger'
  BY <1>1, <1>2 DEF PutNarInfo, Goto, sharedVars, TypeOK, ImportTypeOK
<1>3. ASSUME \/ \E u \in Uploads, n \in Names, b \in Bodies : PutNar(u, n, b)
             \/ \E u \in Uploads : UploadStep(u)
             \/ SweepSpool \/ Restart,
             UNCHANGED gcVars
      PROVE  UNCHANGED <<root, nixVars, rpc, rpath>>
  BY <1>3 DEF PutNar, UploadStep, CopyNar, RenameNar, RenameSwept, PutNarFails, SweepSpool, Restart,
              sharedVars, reqVars
<1>4. ASSUME Clock \/ UNCHANGED vars PROVE UNCHANGED <<root, nixVars, rpc, rpath, gcVars>>
  BY <1>4 DEF Clock, vars, sharedVars, importVars, reqVars
<1>5. ASSUME NEW r \in Reqs, ReqStep(r), UNCHANGED gcVars PROVE Ledger'
  BY <1>5, LedgerReqStep, LedgerImportNar
<1> QED BY <1>1, <1>2, <1>3, <1>4, <1>5, LedgerCollector, LedgerCrash DEF Next, ImportNext

\* skipCollect is right to leave nix-collect-garbage alone: what the check could
\* free is nothing, or what another check has just unrooted and is about to
\* collect itself.  An empty collection remains proof of this through any number
\* of pushes, refused imports, power losses and restarts (cli/gc.go skipCollect).
THEOREM SkipFreesNothingCorrect == Spec => []SkipFreesNothing
<1>1. CASE LeavesGarbage
  <2>1. SkipFreesNothing
    BY <1>1 DEF SkipFreesNothing
  <2> QED BY <2>1, PTL
<1>2. CASE ~LeavesGarbage
  <2>1. Init => Ledger
    BY DEF Init, SharedInit, ImportInit, GCInit, Ledger, Quiet, SweepsAll, Owed
  <2>2. TypeOK /\ Locks /\ Roots /\ Verified /\ Kept /\ Ledger /\ [Next]_vars => Ledger'
    BY <1>2, LedgerNext
  <2>3. Ledger => SkipFreesNothing
    <3> SUFFICES ASSUME Ledger, NEW g \in Loops, SkipCollect(g), gpc[g] = "decide"
                 PROVE  Garbage = {} \/ \E h \in Runners \ {g} : Owes(h)
      BY DEF SkipFreesNothing
    <3>1. g \in Runners /\ glast[g] # NoCollect /\ ~Owes(g)
      BY GCAssumption DEF SkipCollect, Owes
    <3> QED BY <3>1 DEF Ledger, Owed
  <2> QED BY <2>1, <2>2, <2>3, TypeCorrect, RootsAlways, StoreAlways, PTL DEF Spec
<1> QED BY <1>1, <1>2

=============================================================================
