----------------------------- MODULE ZstdCache -----------------------------
(***************************************************************************)
(* The compressed-NAR cache of the server (cache/zstd.go): a byte budget   *)
(* shared by files that are being written, served, idle, or whose deletion *)
(* failed; one shared build ("flight") per NAR; leases that pin a file     *)
(* while it is served; and Close, which gives the directory up.            *)
(*                                                                         *)
(* A section under zstdCacheMu is one action.  File operations happen      *)
(* outside the lock and are actions of their own.                          *)
(***************************************************************************)
EXTENDS Integers, Sequences, FiniteSets

CONSTANTS
    Keys,       \* NAR hashes
    Size,       \* Size[k]: length of the compressed NAR
    Entries,    \* zstdEntry objects, each with the temporary file it names
    Reqs,       \* goroutines that serve a request
    Slots,      \* cap(zstdSem)
    Limit,      \* zstdCacheLimit
    Chunk,      \* zstdReservationChunk
    WriteSizes, \* how much the encoder may write at once
    MaxFaults,  \* bound on failing file operations and files removed by others
    None

Sweeper == "sweeper"
Closer  == "closer"

ASSUME ZstdAssumption ==
    /\ IsFiniteSet(Keys) /\ IsFiniteSet(Entries) /\ IsFiniteSet(Reqs)
    /\ Size \in [Keys -> Nat \ {0}]
    /\ Slots \in Nat \ {0} /\ Limit \in Nat /\ Chunk \in Nat \ {0}
    /\ WriteSizes \subseteq Nat \ {0} /\ MaxFaults \in Nat
    /\ None \notin Keys \cup Entries
    /\ Keys \cap Reqs = {} /\ {Sweeper, Closer} \cap (Keys \cup Reqs) = {}

\* Whoever may be inside deleteZstd: a build, a request, the sweeper, Close.
Deleters == Keys \cup Reqs \cup {Sweeper, Closer}

VARIABLES
    phase,      \* "down", "open", or how far Close has come
    files,      \* the entries whose file exists
    entry,      \* the zstdEntry objects
    cache,      \* zstdCache
    lru,        \* zstdLRU
    failed,     \* zstdFailed
    bytes,      \* zstdCacheBytes
    flight,     \* zstdFlights, and the goroutine building each
    req,        \* the requests
    victims,    \* victims[d]: retired entries that d has yet to delete
    removed,    \* removed[d]: what os.Remove answered, before d locks
    faults

vars == <<phase, files, entry, cache, lru, failed, bytes, flight, req, victims,
          removed, faults>>

Phases   == {"down", "open", "builds", "requests", "leases", "sweep", "released"}
Building == {"write", "reserve", "data"}
Stages   == Building \cup {"none", "queue", "clean", "publish", "done"}
Steps    == {"idle", "lease", "wait", "open", "read", "missing", "remove"}

NoFlight == [stage |-> "none", waiters |-> 0, entry |-> None, want |-> 0]
NoReq    == [step |-> "idle", key |-> None, entry |-> None, tries |-> 0, gone |-> FALSE]
NotYet   == [entry |-> None, ok |-> FALSE]

TypeOK ==
    /\ phase \in Phases /\ files \subseteq Entries /\ failed \subseteq Entries
    /\ entry \in [Entries -> [pins : Nat, size : Nat, charged : Nat]]
    /\ cache \in [Keys -> Entries \cup {None}] /\ lru \in Seq(Entries)
    /\ bytes \in Nat
    /\ flight \in [Keys -> [stage : Stages, waiters : Nat,
                            entry : Entries \cup {None}, want : Nat]]
    /\ req \in [Reqs -> [step : Steps, key : Keys \cup {None},
                         entry : Entries \cup {None}, tries : 0..1, gone : BOOLEAN]]
    /\ victims \in [Deleters -> SUBSET Entries]
    /\ removed \in [Deleters -> [entry : Entries \cup {None}, ok : BOOLEAN]]
    /\ faults \in 0..MaxFaults

Fresh ==
    /\ entry = [e \in Entries |-> [pins |-> 0, size |-> 0, charged |-> 0]]
    /\ cache = [k \in Keys |-> None] /\ lru = <<>> /\ failed = {} /\ bytes = 0
    /\ flight = [k \in Keys |-> NoFlight]
    /\ req = [r \in Reqs |-> NoReq]
    /\ victims = [d \in Deleters |-> {}] /\ removed = [d \in Deleters |-> NotYet]

Init == phase = "down" /\ files = {} /\ faults = 0 /\ Fresh

Closed  == phase \notin {"down", "open"}
Flights == {k \in Keys : flight[k].stage # "none"}
Cached  == {cache[k] : k \in Keys} \ {None}
Idle    == {lru[i] : i \in DOMAIN lru}

\* list.Remove of a list that holds e at most once.
Without(s, e) ==
    IF \A i \in DOMAIN s : s[i] # e THEN s
    ELSE LET n == CHOOSE n \in DOMAIN s : s[n] = e
         IN  [i \in 1..(Len(s) - 1) |-> s[IF i < n THEN i ELSE i + 1]]

\* Go frees an entry nothing refers to; a new temporary file gets a new name.
Free == Entries \ (files \cup failed \cup Cached \cup (UNION {victims[d] : d \in Deleters})
                   \cup {flight[k].entry : k \in Keys} \cup {req[r].entry : r \in Reqs})

Fault == faults < MaxFaults /\ faults' = faults + 1

(***************************************************************************)
(* pinZstdLocked, unpinZstdLocked: n pins more or fewer.                   *)
(***************************************************************************)
Repin(e, n) ==
    /\ entry' = [entry EXCEPT ![e].pins = @ + n]
    /\ lru' = IF entry[e].pins + n = 0 THEN Append(Without(lru, e), e)
                                        ELSE Without(lru, e)

\* retireZstdLocked, for each entry of S; rest is what it leaves of the list.
Retire(S, rest) ==
    /\ cache' = [k \in Keys |-> IF cache[k] \in S THEN None ELSE cache[k]]
    /\ lru' = rest

(***************************************************************************)
(* deleteZstd: os.Remove, then the bookkeeping under the lock.             *)
(***************************************************************************)
Remove(d) ==
    /\ removed[d] = NotYet
    /\ \E e \in victims[d] :
          /\ removed' = [removed EXCEPT ![d] = [entry |-> e, ok |-> TRUE]]
          /\ files' = files \ {e}
    /\ UNCHANGED <<phase, entry, cache, lru, failed, bytes, flight, req, victims, faults>>

RemoveFails(d) ==
    /\ removed[d] = NotYet
    /\ \E e \in victims[d] \cap files :
          removed' = [removed EXCEPT ![d] = [entry |-> e, ok |-> FALSE]]
    /\ Fault
    /\ UNCHANGED <<phase, files, entry, cache, lru, failed, bytes, flight, req, victims>>

Account(d) ==
    /\ removed[d] # NotYet
    /\ LET e == removed[d].entry
           charge == IF removed[d].ok THEN entry[e].charged ELSE 0
       IN  /\ failed' = IF removed[d].ok THEN failed \ {e} ELSE failed \cup {e}
           /\ bytes' = bytes - charge
           /\ entry' = [entry EXCEPT ![e].charged = @ - charge]
           /\ victims' = [victims EXCEPT ![d] = @ \ {e}]
    /\ removed' = [removed EXCEPT ![d] = NotYet]
    /\ UNCHANGED <<phase, files, cache, lru, flight, req, faults>>

(***************************************************************************)
(* acquireZstd and zstdLease: what a request does.                         *)
(***************************************************************************)
Arrive(r, k) ==
    /\ phase # "down" /\ req[r].step = "idle"
    /\ req' = [req EXCEPT ![r].step = "lease", ![r].key = k]
    /\ UNCHANGED <<phase, files, entry, cache, lru, failed, bytes, flight, victims,
                   removed, faults>>

\* The client goes away: ctx is cancelled.
Disconnect(r) ==
    /\ req[r].step \in {"lease", "wait"} /\ ~req[r].gone
    /\ req' = [req EXCEPT ![r].gone = TRUE]
    /\ UNCHANGED <<phase, files, entry, cache, lru, failed, bytes, flight, victims,
                   removed, faults>>

\* ctx was cancelled before the call, the server is closed, or too many flights.
LeaseFails(r) ==
    LET k == req[r].key IN
    /\ req[r].step = "lease"
    /\ \/ req[r].gone
       \/ Closed
       \/ /\ cache[k] = None /\ flight[k].stage = "none"
          /\ Cardinality(Flights) >= 2 * Slots
    /\ req' = [req EXCEPT ![r] = NoReq]
    /\ UNCHANGED <<phase, files, entry, cache, lru, failed, bytes, flight, victims,
                   removed, faults>>

\* A request that checked ctx just before the client left carries on.
LeaseHit(r) ==
    LET e == cache[req[r].key] IN
    /\ req[r].step = "lease" /\ ~Closed
    /\ e # None
    /\ Repin(e, 1)
    /\ req' = [req EXCEPT ![r].step = "open", ![r].entry = e]
    /\ UNCHANGED <<phase, files, cache, failed, bytes, flight, victims, removed, faults>>

LeaseWait(r) ==
    LET k == req[r].key IN
    /\ req[r].step = "lease" /\ ~Closed
    /\ cache[k] = None
    /\ flight[k].stage = "none" => Cardinality(Flights) < 2 * Slots
    /\ flight' = [flight EXCEPT ![k].waiters = @ + 1,
                                ![k].stage = IF @ = "none" THEN "queue" ELSE @]
    /\ req' = [req EXCEPT ![r].step = "wait"]
    /\ UNCHANGED <<phase, files, entry, cache, lru, failed, bytes, victims, removed,
                   faults>>

\* Mutant: a waiter whose client left does not drop the flight's pin.
WakeKeepsPin(r) ==
    LET k    == req[r].key
        f    == flight[k]
        gets == ~req[r].gone /\ ~Closed /\ f.entry # None
        last == f.waiters = 1 /\ f.stage = "done"
    IN  /\ req[r].step = "wait"
        /\ req[r].gone \/ f.stage = "done"
        /\ IF gets THEN Repin(f.entry, IF last THEN 0 ELSE 1)
                   ELSE UNCHANGED <<entry, lru>>
        /\ flight' = IF last THEN [flight EXCEPT ![k] = NoFlight]
                             ELSE [flight EXCEPT ![k].waiters = @ - 1]
        /\ req' = IF gets THEN [req EXCEPT ![r].step = "open", ![r].entry = f.entry]
                          ELSE [req EXCEPT ![r] = NoReq]
        /\ UNCHANGED <<phase, files, cache, failed, bytes, victims, removed, faults>>

\* The end of zstdLease: the last waiter of a finished flight drops its pin.
Wake(r) ==
    LET k    == req[r].key
        f    == flight[k]
        gets == ~req[r].gone /\ ~Closed /\ f.entry # None
        last == f.waiters = 1 /\ f.stage = "done"
    IN  /\ req[r].step = "wait"
        /\ req[r].gone \/ f.stage = "done"
        /\ IF f.stage = "done" /\ f.entry # None
           THEN Repin(f.entry, (IF gets THEN 1 ELSE 0) - (IF last THEN 1 ELSE 0))
           ELSE UNCHANGED <<entry, lru>>
        /\ flight' = IF last THEN [flight EXCEPT ![k] = NoFlight]
                             ELSE [flight EXCEPT ![k].waiters = @ - 1]
        /\ req' = IF gets THEN [req EXCEPT ![r].step = "open", ![r].entry = f.entry]
                          ELSE [req EXCEPT ![r] = NoReq]
        /\ UNCHANGED <<phase, files, cache, failed, bytes, victims, removed, faults>>

OpenFile(r) ==
    /\ req[r].step = "open" /\ req[r].entry \in files
    /\ req' = [req EXCEPT ![r].step = "read"]
    /\ UNCHANGED <<phase, files, entry, cache, lru, failed, bytes, flight, victims,
                   removed, faults>>

\* zstdLease.Close after the file was served, or could not be opened.
CloseLease(r) ==
    /\ Repin(req[r].entry, -1)
    /\ UNCHANGED <<phase, files, cache, failed, bytes, flight, victims, removed>>

OpenFails(r) ==
    /\ req[r].step = "open"
    /\ CloseLease(r)
    /\ req' = [req EXCEPT ![r] = NoReq]
    /\ Fault

FileMissing(r) ==
    /\ req[r].step = "open" /\ req[r].entry \notin files
    /\ CloseLease(r)
    /\ req' = [req EXCEPT ![r].step = "missing"]
    /\ UNCHANGED faults

Served(r) ==
    /\ req[r].step = "read"
    /\ CloseLease(r)
    /\ req' = [req EXCEPT ![r] = NoReq]
    /\ UNCHANGED faults

\* Mutant: a missing file's entry is dropped while others still read it.
RemoveMissingPinned(r) ==
    LET e == req[r].entry IN
    /\ req[r].step = "missing"
    /\ IF e \in Cached
       THEN Retire({e}, Without(lru, e)) /\ victims' = [victims EXCEPT ![r] = {e}]
       ELSE UNCHANGED <<cache, lru, victims>>
    /\ req' = [req EXCEPT ![r].step = "remove"]
    /\ UNCHANGED <<phase, files, entry, failed, bytes, flight, removed, faults>>

\* removeMissingZstd.
RemoveMissing(r) ==
    LET e == req[r].entry IN
    /\ req[r].step = "missing"
    /\ IF entry[e].pins = 0 /\ e \in Cached
       THEN Retire({e}, Without(lru, e)) /\ victims' = [victims EXCEPT ![r] = {e}]
       ELSE UNCHANGED <<cache, lru, victims>>
    /\ req' = [req EXCEPT ![r].step = "remove"]
    /\ UNCHANGED <<phase, files, entry, failed, bytes, flight, removed, faults>>

\* The end of one of acquireZstd's two rounds.
TryAgain(r) ==
    /\ req[r].step = "remove" /\ victims[r] = {}
    /\ req' = IF req[r].tries = 1 THEN [req EXCEPT ![r] = NoReq]
              ELSE [req EXCEPT ![r].step = "lease", ![r].entry = None, ![r].tries = 1]
    /\ UNCHANGED <<phase, files, entry, cache, lru, failed, bytes, flight, victims,
                   removed, faults>>

(***************************************************************************)
(* buildZstdFlight, compressToZstdCache, zstdWriter and reserveZstd.       *)
(***************************************************************************)
Compressing == {k \in Keys : flight[k].stage \in Building \cup {"clean"}}

\* The build gets a slot and creates its file.
StartBuild(k) ==
    /\ flight[k].stage = "queue" /\ Cardinality(Compressing) < Slots
    /\ \E e \in Free :
          /\ flight' = [flight EXCEPT ![k].stage = "write", ![k].entry = e]
          /\ entry' = [entry EXCEPT ![e] = [pins |-> 0, size |-> 0, charged |-> 0]]
          /\ files' = files \cup {e}
    /\ UNCHANGED <<phase, cache, lru, failed, bytes, req, victims, removed, faults>>

\* zstdWait passes, the server is closed, or no file can be created.
ShedBuild(k) ==
    /\ flight[k].stage = "queue"
    /\ flight' = [flight EXCEPT ![k].stage = "publish"]
    /\ UNCHANGED <<phase, files, entry, cache, lru, failed, bytes, req, victims,
                   removed, faults>>

\* The encoder writes its next n bytes.
Write(k, n) ==
    /\ flight[k].stage = "write" /\ entry[flight[k].entry].size + n <= Size[k]
    /\ flight' = [flight EXCEPT ![k].stage = "reserve", ![k].want = n]
    /\ UNCHANGED <<phase, files, entry, cache, lru, failed, bytes, req, victims,
                   removed, faults>>

RoundUp(n) == ((n + Chunk - 1) \div Chunk) * Chunk

\* What zstdWriter.Write reserves: the new end, rounded up to whole chunks.
More(k) ==
    LET e == entry[flight[k].entry] IN RoundUp(e.size + flight[k].want) - e.charged

Fits(n) == n <= Limit /\ bytes <= Limit - n

Reserve(k) ==
    /\ flight[k].stage = "reserve" /\ victims[k] = {}
    /\ ~Closed /\ Fits(More(k))
    /\ bytes' = bytes + More(k)
    /\ entry' = [entry EXCEPT ![flight[k].entry].charged = @ + More(k)]
    /\ flight' = [flight EXCEPT ![k].stage = "data"]
    /\ UNCHANGED <<phase, files, cache, lru, failed, req, victims, removed, faults>>

Evict(k) ==
    /\ flight[k].stage = "reserve" /\ victims[k] = {}
    /\ ~Closed /\ ~Fits(More(k)) /\ More(k) <= Limit /\ lru # <<>>
    /\ Retire({Head(lru)}, Tail(lru))
    /\ victims' = [victims EXCEPT ![k] = {Head(lru)}]
    /\ UNCHANGED <<phase, files, entry, failed, bytes, flight, req, removed, faults>>

\* compressToZstdCache returns an error: its deferred function deletes the file.
Abandon(k) ==
    /\ flight' = [flight EXCEPT ![k].stage = "clean", ![k].want = 0]
    /\ victims' = [victims EXCEPT ![k] = {flight[k].entry}]
    /\ UNCHANGED <<phase, files, cache, lru, failed, bytes, req, removed>>

ReserveFails(k) ==
    /\ flight[k].stage = "reserve" /\ victims[k] = {}
    /\ \/ Closed
       \/ ~Fits(More(k)) /\ (lru = <<>> \/ More(k) > Limit)
    /\ Abandon(k)
    /\ UNCHANGED <<entry, faults>>

WriteData(k) ==
    /\ flight[k].stage = "data"
    /\ entry' = [entry EXCEPT ![flight[k].entry].size = @ + flight[k].want]
    /\ flight' = [flight EXCEPT ![k].stage = "write", ![k].want = 0]
    /\ UNCHANGED <<phase, files, cache, lru, failed, bytes, req, victims, removed,
                   faults>>

\* A short write: the disk is full.
WriteFails(k) ==
    /\ flight[k].stage = "data"
    /\ \E n \in 0..(flight[k].want - 1) :
          entry' = [entry EXCEPT ![flight[k].entry].size = @ + n]
    /\ Fault
    /\ Abandon(k)

\* The store path cannot be read, importTimeout passes, or the server is closed.
BuildFails(k) ==
    /\ flight[k].stage = "write"
    /\ \/ Closed /\ entry[flight[k].entry].size = Size[k] /\ UNCHANGED faults
       \/ Fault
    /\ Abandon(k)
    /\ UNCHANGED entry

Cleaned(k) ==
    /\ flight[k].stage = "clean" /\ victims[k] = {}
    /\ flight' = [flight EXCEPT ![k].stage = "publish", ![k].entry = None]
    /\ UNCHANGED <<phase, files, entry, cache, lru, failed, bytes, req, victims,
                   removed, faults>>

Built(k) ==
    /\ flight[k].stage = "write" /\ entry[flight[k].entry].size = Size[k] /\ ~Closed
    /\ flight' = [flight EXCEPT ![k].stage = "publish"]
    /\ UNCHANGED <<phase, files, entry, cache, lru, failed, bytes, req, victims,
                   removed, faults>>

\* Mutant: a failed build returns before it closes flight.done.
PublishOnlySuccess(k) ==
    LET f == flight[k] IN
    /\ f.stage = "publish" /\ f.entry # None
    /\ cache' = [cache EXCEPT ![k] = f.entry]
    /\ Repin(f.entry, IF f.waiters > 0 THEN 1 ELSE 0)
    /\ flight' = IF f.waiters = 0 THEN [flight EXCEPT ![k] = NoFlight]
                                  ELSE [flight EXCEPT ![k].stage = "done"]
    /\ UNCHANGED <<phase, files, failed, bytes, req, victims, removed, faults>>

\* The result: pinned once for all waiters, or idle when they all left.
Publish(k) ==
    LET f == flight[k] IN
    /\ f.stage = "publish"
    /\ IF f.entry = None THEN UNCHANGED <<cache, entry, lru>>
       ELSE /\ cache' = [cache EXCEPT ![k] = f.entry]
            /\ Repin(f.entry, IF f.waiters > 0 THEN 1 ELSE 0)
    /\ flight' = IF f.waiters = 0 THEN [flight EXCEPT ![k] = NoFlight]
                                  ELSE [flight EXCEPT ![k].stage = "done"]
    /\ UNCHANGED <<phase, files, failed, bytes, req, victims, removed, faults>>

(***************************************************************************)
(* SweepZstdCache.  Entries join the LRU list in the order of lastUsed, so *)
(* the idle ones are a prefix of it.                                       *)
(***************************************************************************)
SweepZstdCache(d, n) ==
    LET S == failed \cup {lru[i] : i \in 1..n} IN
    /\ victims' = [victims EXCEPT ![d] = S]
    /\ failed' = {}
    /\ Retire(S, SubSeq(lru, n + 1, Len(lru)))
    /\ UNCHANGED <<files, entry, bytes, flight, req, removed, faults>>

Sweep ==
    /\ phase = "open" /\ victims[Sweeper] = {}
    /\ \E n \in 0..Len(lru) : SweepZstdCache(Sweeper, n)
    /\ UNCHANGED phase

(***************************************************************************)
(* Close.  The serve command has joined the sweeper by then.               *)
(***************************************************************************)
Advance(from, to) ==
    /\ phase = from /\ phase' = to
    /\ UNCHANGED <<files, entry, cache, lru, failed, bytes, flight, req, victims,
                   removed, faults>>

\* Mutant: Close does not wait for the requests that wait for a build.
RequestsNotAwaited == Advance("requests", "leases")

BeginClose    == victims[Sweeper] = {} /\ Advance("open", "builds")
BuildsEnded   == (\A k \in Flights : flight[k].stage = "done") /\ Advance("builds", "requests")
RequestsEnded == (\A r \in Reqs : req[r].step # "wait") /\ Advance("requests", "leases")
LeasesEnded   == (\A r \in Reqs : req[r].step \notin {"open", "read"})
                 /\ Advance("leases", "sweep")

CloseSweeps ==
    /\ phase = "sweep" /\ phase' = "released"
    /\ SweepZstdCache(Closer, Len(lru))

\* The process ends, killed or after Close: the kernel drops its lock.
Exit ==
    /\ phase # "down" /\ phase' = "down"
    /\ entry' = [e \in Entries |-> [pins |-> 0, charged |-> 0,
                                    size |-> IF e \in files THEN entry[e].size ELSE 0]]
    /\ cache' = [k \in Keys |-> None] /\ lru' = <<>> /\ failed' = {} /\ bytes' = 0
    /\ flight' = [k \in Keys |-> NoFlight]
    /\ req' = [r \in Reqs |-> NoReq]
    /\ victims' = [d \in Deleters |-> {}] /\ removed' = [d \in Deleters |-> NotYet]
    /\ UNCHANGED <<files, faults>>

\* Mutant: a file left behind that cannot be removed is skipped.
InitLenient ==
    /\ phase = "down" /\ phase' = "open"
    /\ \/ files' = {} /\ UNCHANGED faults
       \/ Fault /\ files' \in SUBSET files
    /\ UNCHANGED <<entry, cache, lru, failed, bytes, flight, req, victims, removed>>

\* initZstdCache: remove what an earlier process left, or refuse to start.
InitZstdCache ==
    /\ phase = "down"
    /\ \/ phase' = "open" /\ files' = {} /\ UNCHANGED faults
       \/ UNCHANGED phase /\ Fault /\ files' \in (SUBSET files) \ {{}}
    /\ UNCHANGED <<entry, cache, lru, failed, bytes, flight, req, victims, removed>>

\* Someone else removes a file from the spool directory.
Reap ==
    /\ \E e \in files : files' = files \ {e}
    /\ Fault
    /\ UNCHANGED <<phase, entry, cache, lru, failed, bytes, flight, req, victims, removed>>

DeleteStep(d) == Remove(d) \/ RemoveFails(d) \/ Account(d)
LeaseStep(r)  == LeaseFails(r) \/ LeaseHit(r) \/ LeaseWait(r) \/ Wake(r)
FileStep(r)   == OpenFile(r) \/ OpenFails(r) \/ FileMissing(r) \/ Served(r)
RetryStep(r)  == RemoveMissing(r) \/ TryAgain(r)
BuildStep(k)  ==
    \/ StartBuild(k) \/ ShedBuild(k) \/ Reserve(k) \/ Evict(k) \/ ReserveFails(k)
    \/ WriteData(k) \/ WriteFails(k) \/ BuildFails(k) \/ Cleaned(k) \/ Built(k)
    \/ Publish(k) \/ \E n \in WriteSizes : Write(k, n)
CloseStep     == BuildsEnded \/ RequestsEnded \/ LeasesEnded \/ CloseSweeps

Next ==
    \/ \E d \in Deleters : DeleteStep(d)
    \/ \E r \in Reqs : \/ \E k \in Keys : Arrive(r, k)
                       \/ Disconnect(r) \/ LeaseStep(r) \/ FileStep(r) \/ RetryStep(r)
    \/ \E k \in Keys : BuildStep(k)
    \/ Sweep \/ BeginClose \/ CloseStep \/ Exit \/ InitZstdCache \/ Reap

Spec == Init /\ [][Next]_vars

(***************************************************************************)
(* Properties                                                              *)
(***************************************************************************)
\* The sum of f over S, counted one by one.
Sum(S, f) == Cardinality(UNION {{e} \X (1..f[e]) : e \in S})

Charges == [e \in Entries |-> entry[e].charged]
Sizes   == [e \in Entries |-> entry[e].size]

InDeletion == UNION {victims[d] : d \in Deleters}
InBuild    == {flight[k].entry : k \in {j \in Keys : flight[j].stage \in Building \cup {"publish"}}}
              \ {None}

Tracked == InBuild \cup Cached \cup InDeletion \cup failed

\* The files with data on the disk: linked, or unlinked and still open.
OnDisk ==
    files \cup {req[r].entry : r \in {q \in Reqs : req[q].step = "read"}}
          \cup {flight[k].entry : k \in {j \in Keys : flight[j].stage \in Building}}

\* zstdCacheBytes is the sum of the charges of the entries that are being
\* built, cached, being deleted, or kept in zstdFailed (reserveZstd,
\* deleteZstd): no charge is lost with an entry that nothing can reach.
BytesAccounted ==
    bytes = Sum(Tracked, Charges)

\* "The compressed cache has a 4 GiB file-data budget ... Files being created or
\* read still count": what the running server's directory and its open files hold
\* fits the budget, with builds, evictions, failed deletions, files removed by
\* others and leftovers of a killed process (zstdWriter.Write, initZstdCache).
DiskWithinBudget ==
    phase # "down" => /\ Sum(OnDisk, Sizes) <= bytes
                      /\ bytes <= Limit

Readers(e)  == {r \in Reqs : req[r].step \in {"open", "read"} /\ req[r].entry = e}
Finished(e) == {k \in Keys : flight[k].stage = "done" /\ flight[k].entry = e}

\* An entry has one pin per lease, and one for the finished flight whose waiters
\* have not all left; the LRU list holds each cached entry without a pin, once
\* (pinZstdLocked, unpinZstdLocked, the end of zstdLease): a leaked pin would
\* keep a file forever, a missing one would delete it under a reader.
PinsAccounted ==
    /\ \A e \in Entries :
          entry[e].pins = Cardinality(Readers(e)) + Cardinality(Finished(e))
    /\ Idle = {e \in Cached : entry[e].pins = 0}
    /\ \A i, j \in DOMAIN lru : lru[i] = lru[j] => i = j

\* The books are right: types, bytes and pins.
Accounted == TypeOK /\ BytesAccounted /\ PinsAccounted

\* What a request serves is the complete file of the NAR it asked for, although
\* entries are evicted, swept, abandoned half-written and rebuilt around it.
ServesWhole ==
    \A r \in Reqs : req[r].step \in {"open", "read"} =>
       entry[req[r].entry].size = Size[req[r].key] /\ cache[req[r].key] = req[r].entry

\* "Close cancels builds and waits for readers before releasing directory
\* ownership": once released no reader and no build is left, and a remaining
\* file is one whose deletion failed or is being tried.
CloseReleasesAll ==
    phase = "released" =>
       /\ \A r \in Reqs : req[r].step \notin {"open", "read"}
       /\ Flights = {} /\ Cached = {}
       /\ files \subseteq failed \cup InDeletion

Fairness ==
    /\ \A d \in Deleters : WF_vars(DeleteStep(d))
    /\ \A r \in Reqs : WF_vars(LeaseStep(r)) /\ WF_vars(FileStep(r)) /\ WF_vars(RetryStep(r))
    /\ \A k \in Keys : WF_vars(BuildStep(k))
    /\ WF_vars(CloseStep)

FairSpec == Spec /\ Fairness

\* A call of Close returns: builds notice the closed flag, readers are bounded by
\* the write deadline, and nobody waits for a lease that nobody holds.
CloseReturns == (phase = "builds") ~> (phase \in {"released", "down"} /\ victims[Closer] = {})

\* A request that waits for a build is answered on every path of the build, its
\* failure, its shedding and the end of the server included.  It can wait forever
\* only while builds evict each other's results forever: reserveZstd retries
\* without a bound (flight.done, buildZstdFlight, reserveZstd).
WaitsOnlyForEviction ==
    \A r \in Reqs :
       <>[](req[r].step = "wait")
          => []<>(\E k \in Keys : flight[k].stage = "reserve" /\ victims[k] # {})
=============================================================================
