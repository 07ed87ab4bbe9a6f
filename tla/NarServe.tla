------------------------------ MODULE NarServe ------------------------------
(***************************************************************************)
(* How the cache answers reads (cache.go, store.go, nar.go) while Nix      *)
(* collects and re-adds the path that is read: the two database queries of *)
(* PathInfo, the narinfo that is built and signed from them, and the NAR   *)
(* that is generated from the files as they are found, straight to the     *)
(* client or through the cache of compressed NARs.                         *)
(*                                                                         *)
(* One store path.  Its contents are a tree whose nodes are named by the   *)
(* sequence of directory entries that leads to them, so <<>> is the path   *)
(* itself, and what is re-added is what was there before.  A NAR is the    *)
(* sequence of the nodes written to it.                                    *)
(***************************************************************************)
EXTENDS Integers, FiniteSets, Sequences

CONSTANTS
    Trees,          \* the contents to try: functions from nodes to their type
    Refs,           \* the references of the path
    Reqs,           \* clients, each with one request at a time
    Builder,        \* the shared build of a compressed NAR
    None,
    MaxDirDepth,    \* 64 in the code
    MaxAdds,        \* bound: how often the path is added again
    MaxRestarts,    \* bound on server restarts
    MaxFaults       \* bound on failing queries, reads and connections

Walkers == Reqs \cup {Builder}
Modes   == {"none", "zstd"}

\* The first i entries on the way to a node: the directory at depth i above it.
Cut(n, i) == SubSeq(n, 1, i)

ASSUME ReadAssumption ==
    /\ Builder \notin Reqs
    /\ \A t \in Trees :
          /\ IsFiniteSet(DOMAIN t) /\ DOMAIN t \subseteq Seq(Nat) /\ <<>> \in DOMAIN t
          /\ \A n \in DOMAIN t :
                /\ t[n] \in {"directory", "regular", "symlink", "other"}
                /\ \A i \in 0..(Len(n) - 1) :
                      Cut(n, i) \in DOMAIN t /\ t[Cut(n, i)] = "directory"
    /\ MaxDirDepth \in Nat /\ MaxAdds \in Nat /\ MaxRestarts \in Nat /\ MaxFaults \in Nat

VARIABLES
    tree,       \* the contents of the path
    sized,      \* its row has a usable narSize
    id,         \* the row of the path in the Nix database, 0 when there is none
    files,      \* files[n]: whether node n is on disk: gone, partly written or full
    nix,        \* what Nix does with the path
    mode,       \* --serve-compression
    cached,     \* the compressed NAR in the cache, or None
    flight,     \* the PathInfo the builder works from, or None
    lease,      \* lease[r]: the compressed NAR that r copies, or None
    walk,       \* walk[w]: nodes still to write, and the NAR written so far
    req,        \* req[r]: the request that r waits for
    info,       \* info[r]: the narinfo that r was last given
    resp,       \* resp[r]: r's last response, if it was a NAR and ended without an error
    adds, restarts, faults

nixVars == <<tree, sized, id, files, nix, adds>>
srvVars == <<mode, cached, flight, lease, walk>>
cliVars == <<req, info, resp>>
vars    == <<nixVars, srvVars, cliVars, restarts, faults>>

Nodes   == DOMAIN tree
Pieces  == Nodes \X {"part", "full"}
NoWalk  == [todo |-> <<>>, nar |-> <<>>]
Idle    == [step |-> "idle", kind |-> "none", url |-> "none", id |-> 0, refs |-> {}]
Kinds   == {"none", "info", "head", "nar"}
Stalled == "stalled"
Steps   == {"idle", "row", "refs", "lease", "wait", "write", "copy", Stalled}
Ids     == 0..(MaxAdds + 1)

ReqType   == [step : Steps, kind : Kinds, url : Modes, id : Ids, refs : SUBSET Refs]
InfoType  == [refs : SUBSET Refs, compression : Modes]
EntryType == [nar : Seq(Pieces), raced : BOOLEAN]
RespType  == [encoding : Modes, url : Modes, nar : Seq(Pieces), raced : BOOLEAN]
WalkType  == [todo : Seq(Nodes), nar : Seq(Pieces)]

TypeOK ==
    /\ tree \in Trees /\ sized \in BOOLEAN /\ id \in Ids
    /\ files \in [Nodes -> {"gone", "part", "full"}]
    /\ nix \in {"idle", "deleting", "adding"}
    /\ mode \in Modes
    /\ cached \in EntryType \cup {None} /\ flight \in Ids \cup {None}
    /\ lease \in [Reqs -> EntryType \cup {None}]
    /\ walk \in [Walkers -> WalkType]
    /\ req \in [Reqs -> ReqType]
    /\ info \in [Reqs -> InfoType \cup {None}]
    /\ resp \in [Reqs -> RespType \cup {None}]
    /\ adds \in 0..MaxAdds /\ restarts \in 0..MaxRestarts /\ faults \in 0..MaxFaults

Init ==
    /\ tree \in Trees /\ sized \in BOOLEAN
    /\ id = 1 /\ nix = "idle"
    /\ files = [n \in Nodes |-> "full"]
    /\ mode \in Modes /\ cached = None /\ flight = None
    /\ lease = [r \in Reqs |-> None]
    /\ walk = [w \in Walkers |-> NoWalk]
    /\ req = [r \in Reqs |-> Idle]
    /\ info = [r \in Reqs |-> None] /\ resp = [r \in Reqs |-> None]
    /\ adds = 0 /\ restarts = 0 /\ faults = 0

(***************************************************************************)
(* Nix (external).  A collection first forgets the row, with the rows of   *)
(* its references, and then unlinks the tree; an import writes the tree    *)
(* and then registers it as a new row.                                     *)
(***************************************************************************)
Children(n) == {m \in Nodes : Len(m) = Len(n) + 1 /\ Cut(m, Len(n)) = n}
Exists(n)   == files[n] # "gone"

Invalidate ==
    /\ nix = "idle" /\ id # 0
    /\ id' = 0 /\ nix' = "deleting"
    /\ UNCHANGED <<tree, sized, files, adds>>

Unlink(n) ==
    /\ nix = "deleting" /\ Exists(n)
    /\ \A m \in Children(n) : ~Exists(m)
    /\ files' = [files EXCEPT ![n] = "gone"]
    /\ nix' = IF n = <<>> THEN "idle" ELSE nix
    /\ UNCHANGED <<tree, sized, id, adds>>

StartAdd ==
    /\ nix = "idle" /\ id = 0 /\ adds < MaxAdds
    /\ nix' = "adding" /\ adds' = adds + 1
    /\ UNCHANGED <<tree, sized, id, files>>

Restore(n) ==
    /\ nix = "adding" /\ files[n] # "full"
    /\ n # <<>> => Exists(Cut(n, Len(n) - 1))
    /\ files' = [files EXCEPT ![n] =
                   IF @ = "gone" /\ tree[n] = "regular" THEN "part" ELSE "full"]
    /\ UNCHANGED <<tree, sized, id, nix, adds>>

Register ==
    /\ nix = "adding" /\ \A n \in Nodes : files[n] = "full"
    /\ id' = adds + 1 /\ nix' = "idle"
    /\ UNCHANGED <<tree, sized, files, adds>>

NixStep ==
    /\ \/ Invalidate \/ StartAdd \/ Register
       \/ \E n \in Nodes : Unlink(n) \/ Restore(n)
    /\ UNCHANGED <<srvVars, cliVars, restarts, faults>>

(***************************************************************************)
(* nar.Write: depth first, the entries of a directory as ReadDir finds     *)
(* them, sorted by name.  What is gone by the time it is opened, is of     *)
(* another type or is nested too deep ends the NAR with an error.          *)
(***************************************************************************)
ByName(m, n) == m[Len(m)] < n[Len(n)]

\* The one listing of n: in order, and with nothing left out.
ReadDir(n) ==
    LET found == {m \in Children(n) : Exists(m)} IN
    {s \in [1..Cardinality(found) -> found] :
        \A i, j \in DOMAIN s : i < j => ByName(s[i], s[j])}

Entries(n) == IF tree[n] = "directory" THEN ReadDir(n) ELSE {<<>>}

Writable(n) ==
    /\ Exists(n) /\ tree[n] # "other"
    /\ tree[n] = "directory" => Len(n) + 1 <= MaxDirDepth

\* The next node ends the NAR with an error.
Blocked(w) == walk[w].todo # <<>> /\ ~Writable(Head(walk[w].todo))

WriteNode(w) ==
    LET n == Head(walk[w].todo) IN
    /\ walk[w].todo # <<>>
    /\ Writable(n)
    /\ \E entries \in Entries(n) :
          walk' = [walk EXCEPT ![w] = [todo |-> entries \o Tail(walk[w].todo),
                                       nar  |-> Append(walk[w].nar, <<n, files[n]>>)]]

\* The bytes of a NAR: every node has some, and a partly written one has fewer.
Bytes(nar) == Len(nar) + Cardinality({i \in DOMAIN nar : nar[i][2] = "full"})

NarSize == 2 * Cardinality(Nodes)

Start(w) == [walk EXCEPT ![w] = [todo |-> << <<>> >>, nar |-> <<>>]]

Stop(w) == [walk EXCEPT ![w] = NoWalk]

(***************************************************************************)
(* Requests.                                                               *)
(***************************************************************************)
Busy(r, step) == req[r].step = step /\ UNCHANGED <<nixVars, restarts>>

GoTo(r, step) == req' = [req EXCEPT ![r].step = step]

\* The request is over, without a body that the client could use.
End(r) == req' = [req EXCEPT ![r] = Idle] /\ UNCHANGED <<info, resp>>

Ask(r, kind, url) ==
    /\ req[r] = Idle
    /\ req' = [req EXCEPT ![r] = [step |-> "row", kind |-> kind, url |-> url,
                                  id |-> 0, refs |-> {}]]
    /\ resp' = [resp EXCEPT ![r] = None]
    /\ UNCHANGED <<nixVars, srvVars, info, restarts, faults>>

\* GET and HEAD of a narinfo and of a NAR.  The client takes the URL of the NAR
\* from a narinfo it may have kept for a while.
GetNarInfo(r)  == Ask(r, "info", "none")
HeadRequest(r) == Ask(r, "head", "none")
GetNar(r)      == info[r] # None /\ Ask(r, "nar", info[r].compression)

\* isZstd is taken from the name in the URL.
WantsZstd(r) == req[r].kind = "nar" /\ req[r].url = "zstd"

\* A compressed NAR is asked of a server that no longer compresses.
NotCompressed(r) == WantsZstd(r) /\ mode # "zstd"

\* PathInfo: the row, and then with a query of its own the references of the row.
QueryRow(r) ==
    /\ Busy(r, "row")
    /\ IF NotCompressed(r) \/ id = 0 \/ ~sized
       THEN End(r)
       ELSE /\ req' = [req EXCEPT ![r].step = "refs", ![r].id = id]
            /\ UNCHANGED <<info, resp>>
    /\ UNCHANGED <<srvVars, faults>>

RefRows(i) == IF i = id THEN Refs ELSE {}

GiveNarInfo(r, refs, compression) ==
    /\ info' = [info EXCEPT ![r] = [refs |-> refs, compression |-> compression]]
    /\ req' = [req EXCEPT ![r] = Idle]
    /\ UNCHANGED resp

QueryRefs(r) ==
    LET refs == RefRows(req[r].id) IN
    /\ Busy(r, "refs")
    /\ \/ req[r].kind = "head" /\ End(r) /\ UNCHANGED srvVars
       \/ /\ req[r].kind = "info" /\ mode = "none"
          /\ GiveNarInfo(r, refs, "none") /\ UNCHANGED srvVars
       \/ /\ \/ req[r].kind = "info" /\ mode = "zstd"
             \/ WantsZstd(r)
          /\ req' = [req EXCEPT ![r].step = "lease", ![r].refs = refs]
          /\ UNCHANGED <<info, resp, srvVars>>
       \/ /\ req[r].kind = "nar" /\ ~WantsZstd(r)
          /\ GoTo(r, "write") /\ walk' = Start(r)
          /\ UNCHANGED <<info, resp, mode, cached, flight, lease>>
    /\ UNCHANGED faults

QueryFails(r) ==
    /\ req[r].step \in {"row", "refs"} /\ Busy(r, req[r].step)
    /\ faults < MaxFaults /\ faults' = faults + 1
    /\ End(r) /\ UNCHANGED srvVars

(***************************************************************************)
(* The uncompressed NAR, generated into a response whose Content-Length is *)
(* the narSize of the row.  net/http breaks the connection under a handler *)
(* that wrote less (and fails the write that would be too much).           *)
(***************************************************************************)
WriteNar(r) ==
    /\ Busy(r, "write") /\ WriteNode(r)
    /\ UNCHANGED <<mode, cached, flight, lease, cliVars, faults>>

\* Mutant: no Content-Length.
NarWrittenAnyLength(r) ==
    /\ Busy(r, "write") /\ walk[r].todo = <<>>
    /\ resp' = [resp EXCEPT ![r] = [encoding |-> "none", url |-> req[r].url,
                                    nar |-> walk[r].nar, raced |-> FALSE]]
    /\ req' = [req EXCEPT ![r] = Idle]
    /\ walk' = Stop(r)
    /\ UNCHANGED <<info, mode, cached, flight, lease, faults>>

NarWritten(r) ==
    /\ Busy(r, "write") /\ walk[r].todo = <<>>
    /\ IF Bytes(walk[r].nar) = NarSize
       THEN /\ resp' = [resp EXCEPT ![r] = [encoding |-> "none", url |-> req[r].url,
                                            nar |-> walk[r].nar, raced |-> FALSE]]
            /\ req' = [req EXCEPT ![r] = Idle]
            /\ UNCHANGED info
       ELSE End(r)
    /\ walk' = Stop(r)
    /\ UNCHANGED <<mode, cached, flight, lease, faults>>

\* abortNar: the 200 is on the wire, so the connection is broken.
AbortNar(r) ==
    /\ Busy(r, "write")
    /\ \/ Blocked(r) /\ UNCHANGED faults
       \/ faults < MaxFaults /\ faults' = faults + 1
    /\ End(r)
    /\ walk' = Stop(r)
    /\ UNCHANGED <<mode, cached, flight, lease>>

\* The client stops reading; narDeadlineWriter gives up on it.
Stall(r) ==
    /\ req[r].step \in {"write", "copy"} /\ Busy(r, req[r].step)
    /\ faults < MaxFaults /\ faults' = faults + 1
    /\ GoTo(r, Stalled)
    /\ UNCHANGED <<srvVars, info, resp>>

\* Mutant: no write deadline.
WriteDeadlineNever(r) == FALSE

WriteDeadline(r) ==
    /\ Busy(r, Stalled)
    /\ End(r) /\ walk' = Stop(r) /\ lease' = [lease EXCEPT ![r] = None]
    /\ UNCHANGED <<mode, cached, flight, faults>>

(***************************************************************************)
(* The compressed NAR: the cached file, or else one build that all         *)
(* requests for it share.                                                  *)
(***************************************************************************)

\* What a request does with the compressed NAR it has a lease on.
Use(r) ==
    IF req[r].kind = "info"
    THEN [next |-> Idle, info |-> [refs |-> req[r].refs, compression |-> "zstd"]]
    ELSE [next |-> [req[r] EXCEPT !.step = "copy"], info |-> info[r]]

\* Mutant: the fallback forgets the compression.
GiveUpUnset(r) ==
    [next |-> Idle,
     info |-> IF req[r].kind = "info"
              THEN [refs |-> req[r].refs, compression |-> ""] ELSE info[r]]

\* ... and without one: a narinfo falls back to the uncompressed NAR.
GiveUp(r) ==
    [next |-> Idle,
     info |-> IF req[r].kind = "info"
              THEN [refs |-> req[r].refs, compression |-> "none"] ELSE info[r]]

Outcome(rs, F(_)) ==
    /\ req' = [r \in Reqs |-> IF r \in rs THEN F(r).next ELSE req[r]]
    /\ info' = [r \in Reqs |-> IF r \in rs THEN F(r).info ELSE info[r]]
    /\ UNCHANGED resp

Lease(r) ==
    /\ Busy(r, "lease")
    /\ IF cached # None
       THEN /\ Outcome({r}, Use)
            /\ lease' = [lease EXCEPT ![r] = IF req[r].kind = "nar" THEN cached ELSE @]
            /\ UNCHANGED <<flight, walk>>
       ELSE /\ GoTo(r, "wait") /\ UNCHANGED <<info, resp, lease>>
            /\ IF flight = None
               THEN flight' = req[r].id /\ walk' = Start(Builder)
               ELSE UNCHANGED <<flight, walk>>
    /\ UNCHANGED <<mode, cached, faults>>

\* No slot, no room in the budget, or a client that left.
Shed(r) ==
    /\ req[r].step \in {"lease", "wait"} /\ Busy(r, req[r].step)
    /\ faults < MaxFaults /\ faults' = faults + 1
    /\ Outcome({r}, GiveUp)
    /\ UNCHANGED srvVars

Waiting == {r \in Reqs : req[r].step = "wait"}

Compress ==
    /\ flight # None /\ WriteNode(Builder)
    /\ UNCHANGED <<nixVars, mode, cached, flight, lease, cliVars, restarts, faults>>

\* The file is complete and enters the cache under the NarHash of the row.
CompressDone ==
    LET entry == [nar |-> walk[Builder].nar, raced |-> flight # id] IN
    /\ flight # None /\ walk[Builder].todo = <<>>
    /\ cached' = entry /\ flight' = None
    /\ Outcome(Waiting, Use)
    /\ lease' = [r \in Reqs |->
                   IF r \in Waiting /\ req[r].kind = "nar" THEN entry ELSE lease[r]]
    /\ walk' = Stop(Builder)
    /\ UNCHANGED <<nixVars, mode, restarts, faults>>

CompressFails ==
    /\ flight # None
    /\ \/ Blocked(Builder) /\ UNCHANGED faults
       \/ faults < MaxFaults /\ faults' = faults + 1
    /\ flight' = None /\ walk' = Stop(Builder)
    /\ Outcome(Waiting, GiveUp)
    /\ UNCHANGED <<nixVars, mode, cached, lease, restarts>>

\* The lease keeps the file while it is copied, with its own length declared.
CopyDone(r) ==
    /\ Busy(r, "copy")
    /\ resp' = [resp EXCEPT ![r] = [encoding |-> "zstd", url |-> req[r].url,
                                    nar |-> lease[r].nar, raced |-> lease[r].raced]]
    /\ req' = [req EXCEPT ![r] = Idle]
    /\ lease' = [lease EXCEPT ![r] = None]
    /\ UNCHANGED <<info, mode, cached, flight, walk, faults>>

Evict ==
    /\ cached # None /\ cached' = None
    /\ UNCHANGED <<nixVars, mode, flight, lease, walk, cliVars, restarts, faults>>

\* The server starts again, perhaps with another --serve-compression.
Restart(m) ==
    /\ restarts < MaxRestarts /\ restarts' = restarts + 1
    /\ mode' = m /\ cached' = None /\ flight' = None
    /\ lease' = [r \in Reqs |-> None]
    /\ walk' = [w \in Walkers |-> NoWalk]
    /\ req' = [r \in Reqs |-> Idle]
    /\ UNCHANGED <<nixVars, info, resp, faults>>

Answer(r) ==
    \/ QueryRow(r) \/ QueryRefs(r)
    \/ WriteNar(r) \/ NarWritten(r) \/ AbortNar(r) \/ WriteDeadline(r)
    \/ Lease(r) \/ CopyDone(r)

Build == Compress \/ CompressDone \/ CompressFails

Next ==
    \/ NixStep
    \/ \E r \in Reqs : \/ GetNarInfo(r) \/ HeadRequest(r) \/ GetNar(r)
                       \/ Answer(r) \/ QueryFails(r) \/ Stall(r) \/ Shed(r)
    \/ Build \/ Evict
    \/ \E m \in Modes : Restart(m)

Spec == Init /\ [][Next]_vars

\* Handlers and the build are scheduled, and the write deadline expires.
FairSpec ==
    /\ Spec
    /\ \A r \in Reqs : WF_vars(Answer(r))
    /\ WF_vars(Build)

(***************************************************************************)
(* Properties.                                                             *)
(***************************************************************************)
IsAbove(m, n) == Len(m) < Len(n) /\ Cut(n, Len(m)) = m

\* The names differ first in an entry that sorts m before n.
IsLeftOf(m, n) ==
    \E i \in 1..Len(m) : /\ i <= Len(n) /\ m[i] < n[i]
                         /\ Cut(m, i - 1) = Cut(n, i - 1)

Before(m, n) == IsAbove(m, n) \/ IsLeftOf(m, n)

\* The NAR of the path: all its nodes, complete, in the order of their names.
Whole(nar) ==
    /\ {nar[i] : i \in DOMAIN nar} = Nodes \X {"full"}
    /\ \A i, j \in DOMAIN nar : i < j => Before(nar[i][1], nar[j][1])

\* A NAR response that ends without an error carries the whole NAR of the path,
\* whatever Nix deletes or writes under nar.Write: what it missed breaks the
\* connection, through an error or through the declared length.  A compressed NAR
\* has no such check; it can be short when its build met a collection, but not
\* because its build failed.  And the NAR has the encoding its URL names, also
\* for a client that kept its narinfo through a restart.
CleanIsWhole ==
    \A r \in Reqs : resp[r] # None =>
       /\ Whole(resp[r].nar) \/ (resp[r].encoding = "zstd" /\ resp[r].raced)
       /\ resp[r].encoding = resp[r].url

\* References are served "exactly as the Nix DB holds them".
RefsAsHeld == \A r \in Reqs : info[r] # None => info[r].refs = Refs

\* Every read request ends: a stalled client loses its connection, and a request
\* that waits for a build is answered however the build ends.
ReadEnds == \A r \in Reqs : req[r] # Idle ~> req[r] = Idle
=============================================================================
