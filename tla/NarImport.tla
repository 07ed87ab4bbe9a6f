----------------------------- MODULE NarImport -----------------------------
(***************************************************************************)
(* The push side of the cache server: PUT /nar/{name} spools a NAR         *)
(* (cache.handlePutNar), PUT /{hash}.narinfo imports it                    *)
(* (cache.handlePutNarInfo and niximport.Import), and the sweeper deletes  *)
(* abandoned uploads (cache.SweepSpool).  Every handler runs in its own    *)
(* goroutine, so each system call another goroutine can observe is a step. *)
(***************************************************************************)
EXTENDS GCRoots

CONSTANTS
    Uploads,    \* goroutines serving PUT /nar
    Reqs,       \* goroutines serving PUT /{hash}.narinfo
    Names,      \* file names in the spool directory
    NameOf,     \* NameOf[p]: the spool file p's narinfo names in its URL
    SizeOf,     \* SizeOf[b]: length of contents b
    Slots,      \* import concurrency
    MaxIdle     \* age at which the sweeper drops a spool file

ASSUME ImportAssumption ==
    /\ NameOf \in [Paths -> Names]
    /\ SizeOf \in [Bodies -> Nat]
    /\ Slots \in Nat \ {0}
    /\ MaxIdle \in Nat
    /\ IsFiniteSet(Reqs) /\ Free \notin Reqs

VARIABLES
    up,         \* the server process is running
    spool,      \* spool[n]: the file at name n, or NoFile
    tmp,        \* tmp[u]: the temporary file of upload u, or NoFile
    upc,        \* control state of upload u
    uname,      \* the spool name upload u is for
    rpc,        \* control state of request r
    rpath,      \* the store path request r imports
    rfd,        \* the file request r has open: renames do not change it
    rmade,      \* addGCRoot created the root for r (createdRoot # "")
    rdone,      \* when Nix acknowledged r's import
    rok,        \* Import has succeeded so far for r
    inUse,      \* tokens in importSem
    acked,      \* acked[p]: last import completion answered with 200, or Never
    promised    \* promised[p]: an import of p succeeded and p was not pruned since

uploadVars == <<spool, tmp, upc, uname>>
reqVars    == <<rpc, rpath, rfd, rmade, rdone, rok, inUse>>
importVars == <<up, uploadVars, reqVars, acked, promised>>

NoPath == "nopath"
NoName == "noname"
File   == [body : Bodies, mtime : Nat]
NoFile == [body |-> NoBody, mtime |-> 0]
Never  == -1

\* Control states in which a request holds an import slot, and in which it
\* holds the lock on its root.
UnlockedPC == {"open", "verify", "lock", "respond"}
LockedPC   == {"root", "sync", "import", "reply", "rollback", "unsync",
               "refresh", "resync"}
DropPC     == {"drop", "unlink", "unlock"}
SlotPC     == UnlockedPC \cup LockedPC \cup DropPC

ImportTypeOK ==
    /\ up \in BOOLEAN
    /\ spool \in [Names -> File \cup {NoFile}]
    /\ tmp \in [Uploads -> File \cup {NoFile}]
    /\ upc \in [Uploads -> {"idle", "copy", "rename"}]
    /\ uname \in [Uploads -> Names \cup {NoName}]
    /\ rpc \in [Reqs -> {"idle", "slot"} \cup SlotPC]
    /\ rpath \in [Reqs -> Paths \cup {NoPath}]
    /\ \A r \in Reqs : rpc[r] # "idle" => rpath[r] \in Paths
    /\ \A u \in Uploads : upc[u] # "idle" => uname[u] \in Names
    /\ rfd \in [Reqs -> File \cup {NoFile}]
    /\ rmade \in [Reqs -> BOOLEAN]
    /\ rdone \in [Reqs -> Nat]
    /\ rok \in [Reqs -> BOOLEAN]
    /\ inUse \in 0..Slots
    /\ acked \in [Paths -> Nat \cup {Never}]
    /\ promised \in [Paths -> BOOLEAN]

ImportInit ==
    /\ up = TRUE
    /\ spool = [n \in Names |-> NoFile]
    /\ tmp = [u \in Uploads |-> NoFile]
    /\ upc = [u \in Uploads |-> "idle"]
    /\ uname = [u \in Uploads |-> NoName]
    /\ rpc = [r \in Reqs |-> "idle"]
    /\ rpath = [r \in Reqs |-> NoPath]
    /\ rfd = [r \in Reqs |-> NoFile]
    /\ rmade = [r \in Reqs |-> FALSE]
    /\ rdone = [r \in Reqs |-> 0]
    /\ rok = [r \in Reqs |-> FALSE]
    /\ inUse = 0
    /\ acked = [p \in Paths |-> Never]
    /\ promised = [p \in Paths |-> FALSE]

(***************************************************************************)
(* PUT /nar/{name}: write the body to a private file, close it, rename it  *)
(* over the spool name.  Every failure removes the private file.           *)
(***************************************************************************)
EndUpload(u) ==
    /\ tmp' = [tmp EXCEPT ![u] = NoFile]
    /\ upc' = [upc EXCEPT ![u] = "idle"]
    /\ uname' = [uname EXCEPT ![u] = NoName]

PutNar(u, n, b) ==
    /\ up /\ upc[u] = "idle"
    /\ tmp' = [tmp EXCEPT ![u] = [body |-> b, mtime |-> now]]
    /\ upc' = [upc EXCEPT ![u] = "copy"]
    /\ uname' = [uname EXCEPT ![u] = n]
    /\ UNCHANGED <<up, spool, reqVars, acked, promised, sharedVars>>

\* The last write and the close; a swept file is still written through its fd.
CopyNar(u) ==
    /\ upc[u] = "copy"
    /\ upc' = [upc EXCEPT ![u] = "rename"]
    /\ tmp' = IF tmp[u] = NoFile THEN tmp ELSE [tmp EXCEPT ![u].mtime = now]
    /\ UNCHANGED <<up, spool, uname, reqVars, acked, promised, sharedVars>>

RenameNar(u) ==
    /\ upc[u] = "rename" /\ tmp[u] # NoFile
    /\ spool' = [spool EXCEPT ![uname[u]] = tmp[u]]
    /\ EndUpload(u)
    /\ UNCHANGED <<up, reqVars, acked, promised, sharedVars>>

\* Body read error, oversized body, close error, rename error.
PutNarFails(u) ==
    /\ upc[u] # "idle"
    /\ EndUpload(u)
    /\ UNCHANGED <<up, spool, reqVars, acked, promised, sharedVars>>

\* The periodic sweep of files, temporary ones included, idle for MaxIdle.
Idle(f) == f # NoFile /\ f.mtime <= now - MaxIdle

SweepSpool ==
    /\ up
    /\ \/ \E n \in Names : Idle(spool[n])
       \/ \E u \in Uploads : Idle(tmp[u])
    /\ spool' = [n \in Names |-> IF Idle(spool[n]) THEN NoFile ELSE spool[n]]
    /\ tmp' = [u \in Uploads |-> IF Idle(tmp[u]) THEN NoFile ELSE tmp[u]]
    /\ UNCHANGED <<up, upc, uname, reqVars, acked, promised, sharedVars>>

\* The sweep removes by name what it looked at before: an upload renames its file
\* over an idle one in between, and the fresh file goes.
RenameSwept(u) ==
    /\ upc[u] = "rename" /\ tmp[u] # NoFile
    /\ Idle(spool[uname[u]])
    /\ spool' = [spool EXCEPT ![uname[u]] = NoFile]
    /\ EndUpload(u)
    /\ UNCHANGED <<up, reqVars, acked, promised, sharedVars>>

(***************************************************************************)
(* PUT /{hash}.narinfo: take an import slot, then niximport.Import.        *)
(***************************************************************************)
Goto(r, pc) == rpc' = [rpc EXCEPT ![r] = pc]

EndReq(r) ==
    /\ Goto(r, "idle")
    /\ rpath' = [rpath EXCEPT ![r] = NoPath]
    /\ rfd' = [rfd EXCEPT ![r] = NoFile]
    /\ rmade' = [rmade EXCEPT ![r] = FALSE]
    /\ rdone' = [rdone EXCEPT ![r] = 0]
    /\ rok' = [rok EXCEPT ![r] = FALSE]

\* Everything but the program counter of a request stays.
reqFrame == <<up, uploadVars, rpath, rfd, inUse, acked, promised>>

PutNarInfo(r, p) ==
    /\ up /\ rpc[r] = "idle"
    /\ Goto(r, "slot")
    /\ rpath' = [rpath EXCEPT ![r] = p]
    /\ UNCHANGED <<up, uploadVars, rfd, rmade, rdone, rok, inUse, acked,
                   promised, sharedVars>>

AcquireImportSlot(r) ==
    /\ rpc[r] = "slot" /\ inUse < Slots
    /\ inUse' = inUse + 1
    /\ Goto(r, "open")
    /\ UNCHANGED <<up, uploadVars, rpath, rfd, rmade, rdone, rok, acked,
                   promised, sharedVars>>

\* 503 after importWait, or the client went away: the NAR stays in the spool.
GiveUpImportSlot(r) ==
    /\ rpc[r] = "slot"
    /\ EndReq(r)
    /\ UNCHANGED <<up, uploadVars, inUse, acked, promised, sharedVars>>

OpenSpool(r) ==
    /\ rpc[r] = "open"
    /\ rfd' = [rfd EXCEPT ![r] = spool[NameOf[rpath[r]]]]
    /\ Goto(r, IF rfd'[r] = NoFile THEN "respond" ELSE "verify")
    /\ UNCHANGED <<up, uploadVars, rpath, rmade, rdone, rok, inUse, acked,
                   promised, sharedVars>>

Verify(r) ==
    /\ rpc[r] = "verify"
    /\ rfd[r].body = Want[rpath[r]]
    /\ Goto(r, "lock")
    /\ UNCHANGED <<reqFrame, rmade, rdone, rok, sharedVars>>

\* Size or hash mismatch, a read error or the deadline; or, with nothing to
\* drop, a spool entry that cannot be statted or is not a regular file.
VerifyFails(r) ==
    /\ rpc[r] = "verify"
    /\ \E pc \in {"drop", "respond"} : Goto(r, pc)
    /\ UNCHANGED <<reqFrame, rmade, rdone, rok, sharedVars>>

LockGCRoot(r) ==
    /\ rpc[r] = "lock"
    /\ Lock(r, rpath[r])
    /\ Goto(r, "root")
    /\ UNCHANGED <<reqFrame, rmade, rdone, rok, now, root, disk, nixVars>>

\* Mutant of LockGCRootFails: waiting for the lock has no deadline.
LockGCRootForever(r) == FALSE /\ UNCHANGED <<importVars, sharedVars>>

\* The deadline of handlePutNarInfo, or an error of the lock file.
LockGCRootFails(r) ==
    /\ rpc[r] = "lock"
    /\ Goto(r, "drop")
    /\ UNCHANGED <<reqFrame, rmade, rdone, rok, sharedVars>>

\* The first addGCRoot: remembers whether the root was already there.
AddGCRoot(r) ==
    /\ rpc[r] = "root"
    /\ rmade' = [rmade EXCEPT ![r] = root[rpath[r]] = NoRoot]
    /\ WriteRoot(rpath[r], now)
    /\ Goto(r, "sync")
    /\ UNCHANGED <<reqFrame, rdone, rok, now, owner, nixVars>>

SyncGCRoot(r) ==
    /\ rpc[r] = "sync"
    /\ SyncDir
    /\ Goto(r, "import")
    /\ UNCHANGED <<reqFrame, rmade, rdone, rok, now, owner, nixVars>>

\* Either addGCRoot can fail at the symlink or at the sync.
AddGCRootFails(r) ==
    /\ "root" \in Faults
    /\ rpc[r] \in {"root", "sync", "refresh", "resync"}
    /\ Goto(r, "drop")
    /\ UNCHANGED <<reqFrame, rmade, rdone, rok, sharedVars>>

\* Mutant of ImportNar: the second pass opens the spool by name again.
ImportNarReopened(r) ==
    /\ rpc[r] = "import"
    /\ spool[NameOf[rpath[r]]] # NoFile
    /\ NixAdd(rpath[r], spool[NameOf[rpath[r]]].body)
    /\ Goto(r, "reply")
    /\ UNCHANGED <<reqFrame, rmade, rdone, rok, now, root, disk, owner>>

\* nix-store --serve commits the bytes of the descriptor that was verified...
ImportNar(r) ==
    /\ rpc[r] = "import"
    /\ NixAdd(rpath[r], rfd[r].body)
    /\ Goto(r, "reply")
    /\ UNCHANGED <<reqFrame, rmade, rdone, rok, now, root, disk, owner>>

\* ...and acknowledges them.
ImportDone(r) ==
    /\ rpc[r] = "reply"
    /\ rdone' = [rdone EXCEPT ![r] = now]
    /\ Goto(r, "refresh")
    /\ UNCHANGED <<reqFrame, rmade, rok, sharedVars>>

\* Mutant of ImportFails: undoes the root whoever made it.
ImportFailsAlwaysRollsBack(r) ==
    /\ "import" \in Faults
    /\ rpc[r] \in {"import", "reply"}
    /\ Goto(r, "rollback")
    /\ UNCHANGED <<reqFrame, rmade, rdone, rok, sharedVars>>

\* Refused, killed at the deadline, or the acknowledgement was lost.
ImportFails(r) ==
    /\ rpc[r] \in {"import", "reply"}
    /\ "import" \in Faults \/ \E q \in Refs[rpath[r]] : ~Valid(q)
    /\ Goto(r, IF rmade[r] THEN "rollback" ELSE "drop")
    /\ UNCHANGED <<reqFrame, rmade, rdone, rok, sharedVars>>

RollbackRoot(r) ==
    /\ rpc[r] = "rollback"
    /\ WriteRoot(rpath[r], NoRoot)
    /\ Goto(r, "unsync")
    /\ UNCHANGED <<reqFrame, rmade, rdone, rok, now, owner, nixVars>>

SyncRollback(r) ==
    /\ rpc[r] = "unsync"
    /\ SyncDir
    /\ Goto(r, "drop")
    /\ UNCHANGED <<reqFrame, rmade, rdone, rok, now, owner, nixVars>>

RollbackFails(r) ==
    /\ "root" \in Faults
    /\ rpc[r] \in {"rollback", "unsync"}
    /\ Goto(r, "drop")
    /\ UNCHANGED <<reqFrame, rmade, rdone, rok, sharedVars>>

\* The second addGCRoot: retention starts when the import completes.
RefreshGCRoot(r) ==
    /\ rpc[r] = "refresh"
    /\ WriteRoot(rpath[r], now)
    /\ Goto(r, "resync")
    /\ UNCHANGED <<reqFrame, rmade, rdone, rok, now, owner, nixVars>>

SyncRefresh(r) ==
    /\ rpc[r] = "resync"
    /\ SyncDir
    /\ rok' = [rok EXCEPT ![r] = TRUE]
    /\ promised' = [promised EXCEPT ![rpath[r]] = TRUE]
    /\ Goto(r, "drop")
    /\ UNCHANGED <<up, uploadVars, rpath, rfd, inUse, acked, rmade, rdone,
                   now, owner, nixVars>>

\* dropSpool stats the name and then unlinks whatever is at the name.
SameSpool(f, g) == SizeOf[f.body] = SizeOf[g.body] /\ f.mtime = g.mtime

DropSpool(r) ==
    LET cur == spool[NameOf[rpath[r]]] IN
    /\ rpc[r] = "drop"
    /\ Goto(r, IF cur # NoFile /\ SameSpool(cur, rfd[r]) THEN "unlink"
                                                         ELSE "unlock")
    /\ UNCHANGED <<reqFrame, rmade, rdone, rok, sharedVars>>

UnlinkSpool(r) ==
    /\ rpc[r] = "unlink"
    /\ spool' = [spool EXCEPT ![NameOf[rpath[r]]] = NoFile]
    /\ Goto(r, "unlock")
    /\ UNCHANGED <<up, tmp, upc, uname, rpath, rfd, rmade, rdone, rok, inUse,
                   acked, promised, sharedVars>>

\* Import returns: its deferred Close gives up the root's lock.
UnlockGCRoot(r) ==
    /\ rpc[r] = "unlock"
    /\ Unlock(r)
    /\ Goto(r, "respond")
    /\ UNCHANGED <<reqFrame, rmade, rdone, rok, now, root, disk, nixVars>>

\* Mutant of Respond: a failed import keeps its slot.
RespondLeaksSlot(r) ==
    /\ rpc[r] = "respond"
    /\ acked' = IF rok[r] /\ acked[rpath[r]] < rdone[r]
                THEN [acked EXCEPT ![rpath[r]] = rdone[r]] ELSE acked
    /\ inUse' = IF rok[r] THEN inUse - 1 ELSE inUse
    /\ EndReq(r)
    /\ UNCHANGED <<up, uploadVars, promised, sharedVars>>

\* The handler answers 200 or 500 and its deferred call gives up the slot.
Respond(r) ==
    /\ rpc[r] = "respond"
    /\ acked' = IF rok[r] /\ acked[rpath[r]] < rdone[r]
                THEN [acked EXCEPT ![rpath[r]] = rdone[r]] ELSE acked
    /\ inUse' = inUse - 1
    /\ EndReq(r)
    /\ UNCHANGED <<up, uploadVars, promised, sharedVars>>

ReqStep(r) ==
    \/ AcquireImportSlot(r) \/ GiveUpImportSlot(r)
    \/ OpenSpool(r) \/ Verify(r) \/ VerifyFails(r)
    \/ LockGCRoot(r) \/ LockGCRootFails(r)
    \/ AddGCRoot(r) \/ SyncGCRoot(r) \/ AddGCRootFails(r)
    \/ ImportNar(r) \/ ImportDone(r) \/ ImportFails(r)
    \/ RollbackRoot(r) \/ SyncRollback(r) \/ RollbackFails(r)
    \/ RefreshGCRoot(r) \/ SyncRefresh(r)
    \/ DropSpool(r) \/ UnlinkSpool(r) \/ UnlockGCRoot(r)
    \/ Respond(r)

UploadStep(u) == CopyNar(u) \/ RenameNar(u) \/ RenameSwept(u) \/ PutNarFails(u)

ImportNext ==
    \/ \E u \in Uploads, n \in Names, b \in Bodies : PutNar(u, n, b)
    \/ \E u \in Uploads : UploadStep(u)
    \/ \E r \in Reqs, p \in Paths : PutNarInfo(r, p)
    \/ \E r \in Reqs : ReqStep(r)
    \/ SweepSpool

(***************************************************************************)
(* The server process dies: its goroutines and their flocks are gone, the  *)
(* files stay.  New starts with SweepSpool(0), which empties the spool.    *)
(***************************************************************************)
KillRequests ==
    /\ up' = FALSE
    /\ upc' = [u \in Uploads |-> "idle"]
    /\ uname' = [u \in Uploads |-> NoName]
    /\ rpc' = [r \in Reqs |-> "idle"]
    /\ rpath' = [r \in Reqs |-> NoPath]
    /\ rfd' = [r \in Reqs |-> NoFile]
    /\ rmade' = [r \in Reqs |-> FALSE]
    /\ rdone' = [r \in Reqs |-> 0]
    /\ rok' = [r \in Reqs |-> FALSE]
    /\ inUse' = 0
    /\ UNCHANGED <<spool, tmp, acked, promised>>

Restart ==
    /\ ~up
    /\ up' = TRUE
    /\ spool' = [n \in Names |-> NoFile]
    /\ tmp' = [u \in Uploads |-> NoFile]
    /\ UNCHANGED <<upc, uname, reqVars, acked, promised, sharedVars>>
=============================================================================
