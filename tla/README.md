# A TLA+ model of tsnixcache

tsnixcache serves a Nix store over HTTP on a tailnet, accepts pushed store
paths, collects garbage by disk usage, and runs a watcher on build machines
that uploads whatever appears in their Nix database.  This directory holds TLA+
modules for the parts of it that are concurrent or must survive failure, the
TLC runs that check them on small instances, and TLAPS proofs of the most
important properties for every instance.

`PROJECT.json` maps every definition to the lines it translates, and lists
components, runs, mutants, hazards, findings and theorems.

    tlc -workers 2 -config push_retention.cfg MCPushSystem
    tlapm PushSystemProofs.tla

## 1. The system

| Part | Source | State | Operations |
|---|---|---|---|
| push handlers | `cache/cache.go` | spool directory, import semaphore | `PUT /nar`, `PUT /{hash}.narinfo`, spool sweep |
| importer | `niximport/` | one open spool file and one lock per request | verify, add root, import, roll back, refresh, drop spool file |
| lock files | `gcroot/` | lock directory, lock files, two flocks | publish under the lock on the root directory, take over ownership, wait for a stripe |
| GC roots | `gcroot/sync.go`, `niximport/` | directory of symlinks whose mtimes matter | create, refresh, remove, fsync |
| collector | `cli/gc.go` | result of the last collection | select a rule, prune roots, run `nix-collect-garbage` |
| compressed cache | `cache/zstd.go` | files, byte budget, LRU, flights, leases | lease, build, evict, sweep, Close, startup cleanup |
| read handlers | `cache/cache.go`, `store/`, `nar/` | none of their own | query the row and its references, sign, write the NAR |
| server process | `cli/serve.go` | listeners, error group, deferred calls, late store | start, serve, cancel, shut down |
| auth | `auth/auth.go` | none | decide whether a peer may push or debug |
| watcher | `watch/retry.go`, `watch/watch.go`, `db/` | SQLite queue: checkpoint and pending rows | discover, attempt, record, clean up, drain |
| sessions | `watch/session.go`, `watch/progress.go`, `cli/waitfor.go` | pid-file lock, status file, control socket | start, ready, stop, Close; wait, stop, recover |
| uploader | `upload/upload.go` | in-degrees, ready queue, outcomes of one call | resolve, schedule, upload with retries, cancel |
| notifications | `watch/notify.go` | fsnotify handle | wake the poller |
| codecs | `narinfo`, `nixbase32`, `nixcompress`, `signing` | none | encode, decode, sign |

How they interact:

* A client uploads a NAR to the spool and then PUTs the narinfo.  The request
  takes an import slot, opens the spool file, verifies it, locks the stripe of
  its root, creates the root, syncs the directory, streams the NAR to Nix,
  refreshes and syncs the root, unlinks the spool file, unlocks and answers.
  Uploads share spool names with imports; only names tie them together.
* The collector runs in the server and, possibly at the same time, as
  `tsnixcache gc` in another process and as another user.  It shares the root
  directory and the flock stripes with the importer, and the Nix store with
  everyone.
* A read goes to the Nix database with two queries and then to the files of the
  path, while Nix may collect both.  Compressed NARs are built once for all
  requests that wait for them.
* A server process owns its spool directory by a lock that it holds until the
  last reader of the compressed cache is gone; a second process on the same
  directory fails to start.
* The watcher hands batches to the uploader, which talks to a server's push
  handlers over the network.
* `wait-for` reads the status file, talks to the control socket, and when the
  watcher is dead opens the watcher's state database itself.

What is hard here: pushes, prunes and collections interleave at every system
call; a kill or a power loss can fall between any two of them; the spool is
replaced under a reader; lock files are published by processes of two users that
may die half-way; Nix deletes what a NAR is generated from; the watcher promises
delivery across crashes, a replaced Nix database and expiry; a waiter must not
report a dead watcher's drain as successful; the compressed cache accounts bytes
for files that are written, pinned, evicted and deleted by different goroutines;
a shutdown has to end although clients do not.  The `hazards` list in
`PROJECT.json` names each place and the properties aimed at it.

What makes each part correct: an acknowledged path survives as long as the rules
promise, and only verified contents are imported (push side); one holder per
lock, and no leftover that blocks later callers (lock files); a response that
ends without an error is whole (reads); no process sweeps a live one's uploads,
shutdown leaves nothing and ends (server); no registration is forgotten and a
successful drain is a true one (watcher); a published or reported result is
borne out by the drain (sessions); references first and every path accounted for
once (uploader); the budget is never exceeded, files are served whole and Close
returns (compressed cache).

## 2. Modules

    RootLock ◁── LockFile ── MCLockFile, LockFileProofs
       ┊
    GCRoots ──┬── NarImport ──┐
              └── GCRunner ───┴── PushSystem ── MCPushSystem
                                      └── PushSystemProofs
    NarServe ── MCNarServe, NarServeProofs
    Serve ── MCServe, ServeProofs
    ZstdCache ── MCZstdCache, ZstdCacheProofs
    UploadClosure ── MCUploadClosure, UploadClosureProofs
    WatchQueue ── MCWatchQueue, WatchQueueProofs
    Session ── MCSession, SessionProofs

`◁` is a refinement: `LockFile` instantiates `RootLock` and implements it; the
dotted line says that `GCRoots` takes locks in the form `RootLock` promises.

Definitions keep the code's names where possible.  Names such as
`RecheckRootTrusting` beside `RecheckRoot` are the mutants of `PROJECT.json`: the
same step with a plausible bug, used by no specification.

### RootLock, LockFile

`RootLock` is the contract of package `gcroot`: a set of pairs of a caller and a
stripe, one caller per stripe, given up by its holder or by the holder's death.

`LockFile` is how `lock.go` and `ownership.go` keep it, one action per system call
between which another process could act. `root` and `entry` are the directories
with their published and temporary names, `uid` the owner of each inode,
`rootDisk` and `dirDisk` the versions a power loss may leave behind, `rootLock`
and `flock` the two flocks. A caller opens and locks the root directory
(`LockRoot`), makes and publishes `.locks` (`Mkdir` to `SyncRoot`), makes and
publishes its lock file (`CreateFile` to `SyncDir`), lets the root directory go
and waits for the flock. `Refuse` collects the checks that end the call with an
error, `Fail` is any system call that fails, with or without its deferred removal,
`Die` a killed process and `PowerLoss` the end of them all. Callers run as root or
as the service user. The root directory exists from the start: `makeDir`, which
creates it and syncs its parents before anything is opened in it, is left out.

Left out: what someone might put in the directory by hand, and the
identity checks after open that guard against it; a directory mode that changes.

### GCRoots, NarImport, GCRunner, PushSystem

`GCRoots` is what pushes and collectors share.  `root[p]` is the mtime of `p`'s
root, or `NoRoot`; `disk[p]` is the set of values a power loss may leave
(`WriteRoot` adds one, `SyncDir` leaves only the current one); `owner` is the
holder of each stripe; `stored[p]` is the contents Nix holds; `keep` is what a
running collection has marked.  A root protects its path and that path's closure.

`NarImport` has one action per system call that another goroutine could observe:
three for an upload, one per step of `Import`, and every early return of
`handlePutNarInfo`.  `rpc[r]` is the program point of a request.  Contents are
model values: `Verify` compares them with `Want[p]`, so a wrong hash or size is a
wrong value.  `rfd[r]` is the open file, which stays the same when the name is
renamed over; `SameSpool` is the size-and-mtime comparison of `dropSpool`.
`SweepSpool` looks and unlinks by name; `RenameSwept` is an upload that renames
its file over an idle one between the two.  `LockGCRootFails` covers the errors of
`LockFile` and the deadline of a request that waits for its lock.

`GCRunner` is one check of `gcRunner.apply`: usage, rule, prune each eligible
root (try the lock, look at the age again, remove, sync), `skipCollect`, collect.

`PushSystem` composes them, with `ServerCrash` (requests and the server's loop
die, their locks are released, files stay), `RunnerCrash` and `PowerLoss`
(everything dies and unsynced root changes may be lost).  `Faults` says which
kinds of failure an instance has.

Abstractions. Store, daemon and `nix-collect-garbage` are external: the mark is
one step, the deletion another, what was marked or added during the collection
survives. A killed runner takes its collector along. Nix syncs before it
acknowledges, so a power loss keeps `stored`. The temporary link that becomes a
root by a rename is left out. An interrupted import may leave one, and both Nix
and the pruner take it for a root (`isGCRootName`): it keeps its path until a rule
removes it. No property says that a path is collected at some time. One monotone
clock stands for all mtimes. Running without a GC-root directory, without an
import limit, or with `--dry-run` is not modelled.

### NarServe

One store path, a tree of nodes named by their position, that Nix deletes (row
first, then the files from the leaves up) and adds again (files first, then a new
row). `QueryRow` and `QueryRefs` are the two statements of `PathInfo`. A walk
(`WriteNode`) is `nar.Write`: depth first, entries as `ReadDir` lists them, in
order and with none left out (`ReadDir(n)` is the set of such listings, which has
one member, so that no sort has to be defined); a node that is gone, of an unknown
type or too deep ends it. The same walk feeds a response (`WriteNar`) or the
shared build (`Compress`). `lease[r]` is the compressed NAR that a request copies
out of the cache. `Bytes` and `NarSize` are the length that `Content-Length`
declares: every node has some bytes and a partly written file has fewer. A client
may keep its narinfo through a `Restart` with another `--serve-compression`.
`Shed` is a request without a slot or room. `Whole` says of a NAR that it has
every node, complete, and each before those that follow it in a depth-first walk;
it does not say how the walk gets there.

The compressed cache is one entry here; its budget and leases are in `ZstdCache`.
Signatures, metrics, `/health` and the case hack of macOS are left out.

### Serve

`pc[p]` is the place of `runServe` in process `p`, `defers[p]` its stack of deferred
calls.  A process takes the lock on the spool directory, sweeps it, binds the
plain listeners, starts the tailnet ones, and then the goroutines of its group.
`cancelled` is the group's context: by a signal or by the first goroutine that
fails.  `serving` and `stopping` are, per listener, the goroutine in `Serve` and the
one that calls `Shutdown` with its grace period; they may run in either order.
After `eg.Wait` the deferred calls close the cache (waiting for leases), release
the spool lock and close the store.  A dropped connection leaves its handler
behind as an orphan.  `handle` is the Nix database, which `openWithRetry` may open
late.  `Authorize`, `GateDebug` and `Reject` are the middleware in front of each
listener; `held` says whether the grant was there at some time during the request.

Single steps: an import, the sweep at startup, a lease.  Left out: the exit code,
the wording of `/health`, chroot stores, the timeouts of `http.Server`, and the
idle sweep of `NarImport`.  The code never closes its tsnet servers; here the end
of the process does.

### WatchQueue

One action per transaction on the state database. `rows` is the Nix database (path
to row id, per inode of the file), `cp` the checkpoint row, `pend` the pending
rows, `pc` the place in `poll` or `finish`. `Register`, `Unregister`,
`ReplaceSource` and `Stop` are the environment. `Fails` and `SourceFails` are
errors between transactions: `SourceFails` a read at the head of `poll` that is
tried again, `Fails` any error that ends the process, among them every error of
the state database, and the `maxPollFailures`-th source error in a row; `Crash`
can follow any of them; `Start` is the restart that `Restart=on-failure`
(`nix/module-client.nix`) or an operator performs. The poller's steps stop once
`stopping` is set, because its queries fail when the context is cancelled. The
order among due rows is left open. The age limit and back-off are steps that may
happen to a row at any time. A behaviour starts with a member of `Scenarios`: how
many databases there are, whether paths expire, and how many faults may happen.

### Session

`proc[s]` is a run of `watch` and its program point, `status` the status file,
`lock` the flock on the pid file, `db` the drain generations.  The watcher is
reduced to those generations: `began`, and whether that generation ended clean;
`WatchQueue` models what a clean drain has delivered.  Watchers without a pid file
share the state database with the named ones, so they can drain between a
crash and a recovery.  `wait[w]` is a run of `wait-for`: it reads the status
without a lock, asks on the socket, and takes the lock to `Recover`.  `Interrupt`
covers signals and the idle exit.  A status write is one step (atomic rename and
directory fsync); the failure of the accept loop and power loss are left out.
`Casts` says which watchers and waiters take part in a behaviour.

### UploadClosure

One call of `Closure` for any reference graph, cycles and self-references
included (`Init` chooses it).  `Resolve`, the scheduler's loop (`StartWorker`,
`RecordUntried`, `Receive`, `Join`, `Finish`) and `uploadPath` (`HeadNarInfo`,
`PutNar`, `PutNarInfo`, `TransferFails` with its retries).  A PUT may take effect
and lose its answer.  The ready queue is a set, all paths are roots of the call,
what the server holds only grows, and the server accepts a path only when it
holds the references (which is what its importer does).  The stall watchdog is
one of the causes of `TransferFails`.

### ZstdCache

A section under `zstdCacheMu` is one action, file operations are separate ones.
`flight[k]` is the shared build of a NAR, `entry[e]` an entry with its charge and
pins, `victims[d]` the entries a goroutine has retired and still has to delete,
`failed` those it could not delete, `files` the directory.  Identities of entries
are used again when nothing refers to them.  Idle entries are swept by age and
kept in the order of last use, so a sweep takes some prefix of the LRU list.  The
server joins its sweeper before Close.  `Sum` counts charged bytes one by one, as
the size of a set of pairs, so that the proofs can add and remove charges.

## 3. Runs

| Run | Shows | Instance |
|---|---|---|
| `push_retention` | `AckedRetained`, `RootsKept`, `StoreHoldsVerified`, `Accounted` | one path, two requests, one slot, good and bad contents, `tsnixcache gc`, all six kinds of fault, time 0..1, uploads idle after 1 |
| `push_live` | `SkipFreesNothing`; `RequestEnds` under fairness | two paths that share a spool name, one referring to the other, two requests, one slot and one lock, the server's GC loop with a rule shorter than a tick of the clock and a cooldown that is longer, no faults |
| `lock_file` | `ImplementsRootLock`, `LockInodesStay`, `LeftoversAreHarmless` | three callers of two users (one does not wait), one stripe, three inodes of each kind, two faults |
| `read_path` | `CleanIsWhole`; `ReadEnds` | one client, three trees (one whole, one with a fifo, one too deep), one re-add, one restart, two faults |
| `read_refs` | violation, see 6 | one client, one re-add |
| `serve` | `AckedUploadKept`, `CleanShutdown`, `AllListenersUp`, `WriteNeedsGrant`; `StopEnds` | three scenarios: two processes on one spool; one process with every mix of listeners and goroutines; every kind of request while grants change |
| `zstd_budget` | `Accounted`, `DiskWithinBudget`, `ServesWhole`, `CloseReleasesAll` | two NARs that do not fit together, two build slots, one fault, kill and restart |
| `zstd_live` | `CloseReturns`, `WaitsOnlyForEviction` | two NARs, room for one |
| `upload` | `RefsFirst`, `RecordedRight`, `CycleIsReal`; `Returns` | all graphs on three paths (up to renaming), two workers, two attempts |
| `watch_recovery` | `NoLostWork`, `DrainIsHonest` | two paths, ids up to 2, batch 1; three scenarios: two faults; expiry; two sources |
| `watch_live` | `DrainEnds`: a stop ends; `Delivery` | one source, batch 2, one fault |
| `session` | `VerifiedResult`, `WaitIsTruthful`, `ResultIsFinal`; `StopIsAnswered` | three casts: two named watchers and a stopping waiter; a named and an unnamed watcher and a stopping waiter; one watcher with a stopping and a ready waiter and two faults |

Passing runs also check the `TypeOK` of their module, alone or in `Accounted`.  Every property
of a passing run has a mutant that TLC refutes under the same configuration.

A property that is a conjunction states two halves of one promise: `Accounted`
is the types and the counters (slots; bytes and pins), which are only inductive
together; `RootsKept` is a root during its import and after it; `DrainIsHonest`
is what a successful drain has delivered, and that a failed one tried everything;
`RecordedRight` is once, and with the true outcome; `CleanShutdown` is clients
before resources, and nothing left.

Why the bounds suffice to be interesting. Push side: two requests for one path
already meet at the spool name, the slot and the lock, and a third adds no new
pair; with rules of age 1 one tick makes a root eligible, and the cooldown is
longer than the clock. `push_live` stops the clock, since its properties are about
slots, locks and what is garbage. It has no faults and one runner either: what
`SkipFreesNothing` says of crashes and of `tsnixcache gc` rests on its proof
alone. A second path matters only through references and shared spool names
(`push_live`); the proofs lift retention to all paths, graphs and rules. Lock
files: a publisher, a caller that waits for it and one that finds the lock busy;
two faults put a power loss after a death; stripes meet only in the directory, and
`LockFileProofs` covers any number of them. Reads: the three trees have a node of
every kind; one re-add is enough to mix two rows or two versions of the files.
Server: two processes suffice to sweep each other's uploads; listeners of both
kinds and two plain ones show a partial start. Watcher: batch 1 with two paths
makes every loop take two rounds, and two ids per path include a path that was
deleted and registered again; two faults put a crash into the recovery from a
crash. Sessions: a second watcher is needed so that another drain can fall between
a crash and the recovery, or a pid file be taken over between two reads. Uploader:
three paths give chains, diamonds with a missing edge, self-loops and two- and
three-cycles. Compressed cache: sizes 1 and 3 with a limit of 4 and reservations
of 2 make a build hit the limit at the start and half-way.

Bounds in the guards: `MaxTime`, `MaxId`, `MaxSource`, `MaxStops`, `MaxFaults`,
`MaxAdds`, `MaxRestarts` and the counters of `left` in `Serve`.  `MaxFailures` is the
code's own `maxPollFailures` and `MaxDirDepth` the limit of `nar`, both reduced.
Deadlock checking is off where a part may stop (no more pushes, the call
returned, the clock at its bound); `read_path` checks it.

## 4. Fairness

* `push_live`: each request's goroutine is scheduled, and the deadlines of
  `acquireImportSlot` and of the request expire, so giving up is part of the
  fair step.  Nothing is assumed of uploads, collectors or clients.
* `read_path`: handlers and the build are scheduled, and the write deadline of a
  NAR expires.  Nothing is assumed of Nix, and a stalled client never reads on.
* `serve`: `runServe` and the goroutines of its group are scheduled, the grace
  period ends, and a handler whose connection is gone ends.  A client with a
  connection may take forever.
* `upload`: scheduler and workers run; every transfer ends since the stall
  watchdog and the HTTP client bound it.
* `watch_live`: the process runs; this is all `DrainEnds` needs, and uploads may
  fail forever.  `Delivery` names in its antecedent (`Recovers`) what it needs
  besides: the watcher is restarted, back-offs elapse, and an upload that is
  tried again and again succeeds at some time.
* `session`: watcher and waiter run; the handler of an accepted connection runs.
* `zstd_live`: goroutines run; serving ends because of the 60 s write deadline;
  a build that finds no slot is shed after `zstdWait`.  No fairness on requests
  or on the choice between two builds, so two builds that evict each other's
  results forever are allowed: `reserveZstd` retries without a bound.
  `WaitsOnlyForEviction` says that this is the only way to wait forever.

## 5. Proofs

All theorems hold for any values of the constants under the named assumptions of
the modules: types of the constant functions; finitely many requests, paths,
sessions, cache keys and entries; at least one slot, worker, attempt and byte of a
reservation; store paths are finite trees whose inner nodes are directories;
identities of different kinds (requests, collectors and builds, watchers and
waiters, directories and files) differ; closures are closed; users of the lock
files are root or the owner. Every invariant that a passing run checks is a
theorem, and so are the two action properties and the refinement. Each module has
one inductive invariant made of named parts, a lemma per action, and frame lemmas
for what a step leaves alone. The parts were checked by TLC before they were
proved.

### Push side

`PushSystemProofs`:

* `AccountedCorrect`.  `TypeOK` is not inductive: a release must find `inUse`
  above zero, which needs the count of `SlotsAccounted`.  The two together are.
* `RootsKeptCorrect`.  Three layers: `Locks` (a process between lock and unlock
  holds its stripe) and `Exclusive` (so at most one does) say that nobody else
  writes the root of a running import.  Then `Undo` (a request about to roll back
  created the root itself, and nothing has been promised since) and `OnDisk` (what
  a power loss may leave of a promised root is a root) make the two parts
  inductive together.
* `StoreHoldsVerifiedCorrect`: a request past the hash check holds a file with
  the wanted contents, whatever happened to the name.

`AckedRetainedCorrect` follows from two more invariants.  `Kept`
is about the store: one collection sweeps at a time (`Sweeping`), the store and
the mark are closed under references (`StoreClosed`, `KeepClosed`), and what an
import has given to Nix is stored and out of reach of the running collection,
because its root was there before (`Marked`).  `Aged` is about time: the roots,
the prune cutoffs and the answers.  A path that has been answered has a root at
least as young as the answer, also in every version a power loss may leave
(`Answers`, `Backed`), so a pruner that removes it has a rule under which the
acknowledgement has expired.

`SkipFreesNothingCorrect` needs a ledger of garbage (`Ledger`): nothing has failed and
an import that rolls back has put nothing into the store (`Quiet`), a sweep that
runs keeps only what is still rooted, or another check owes a collection
(`SweepsAll`), and there is no garbage, or somebody owes a collection, or nobody
remembers one (`Owed`).  The property
was too weak as first stated: it excluded every crash and every second collector.
It now allows both, apart from a `tsnixcache gc` that is killed between its
prunes and its collection (`LeavesGarbage`), and names a check that `Owes` a
collection as the only other reason for garbage.

### Lock files

`LockFileProofs` proves one inductive invariant (`Inv`): who publishes holds the
lock on the root directory, what it has made is under the temporary or the
published name, and a caller that waits or holds has open what its name still
leads to.  `Frame` is what a step of one caller leaves to the others, so each
action is proved for its own caller only (`StepFrame`).  From it follow
`TypeCorrect`, `LockInodesStayCorrect` and the refinement
`ImplementsRootLockCorrect`: two holders of one stripe would have the same inode
open, and flock gives that to one.

`LeftoversAreHarmlessCorrect` adds `Disk`, what is true of every version of the
directories that a power loss may leave, and `Careful`, what a caller has made sure of
before it gives an inode its published name (nothing else is there, and the owner
is right).  Together they say that whatever stays behind is accepted, or is a
temporary name that the next caller removes.

### Sessions

`SessionProofs`: `TypeCorrect`, `VerifiedResultCorrect`, `WaitIsTruthfulCorrect` and
the action property `ResultIsFinalCorrect`.  The invariant says what each watcher
relies on (`Watching`: it holds the session lock; nobody else moves the generation
while it has the state open; a drain it calls ended has ended), what the status
file may say of a session (`Published`), who answers control requests
(`Handling`), what a waiter remembers of the session it follows (`Follows`) and
what the database says after a crash (`Durable`).  It is needed because
`VerifiedResult` relates the status file, written by one process, to a drain that
another one may have finished: only the generation ties them together.

### Watch queue

`WatchQueueProofs`: `TypeCorrect`, `NoLostWorkCorrect` and `DrainIsHonestCorrect`, for any
paths, page size and number of sources.  `Numbered` and `Followed` say that Nix
numbers upwards and that the checkpoint follows a source and a number that exist.
`WorkKept` is `NoLostWork` itself; it is kept by `Record` because of `Uploaded` (what
an upload reports is settled) and by discovery because of `Complete` (nothing lies
between the cursor and the boundary once discovery says it is done).  `Asked` and
`Attempted` carry the promise of a drain from the stop request, over the boundary
and the passes over the queue, to its result.  The least member of a set of ids
is found by well-founded induction.

### Server process

`ServeProofs`: `TypeCorrect`, `AckedUploadKeptCorrect`, `CleanShutdownCorrect`,
`AllListenersUpCorrect` and `WriteNeedsGrantCorrect`, for any processes, listeners,
flags and clients.  `Staged` ties the stack of deferred calls, the lock, the
handle and the cache to the program point; `Listening` ties the two goroutines of
a listener to each other and to what is bound, in whichever order they run;
`Connected` says that a connection stands on a listener whose shutdown still
waits for it, and that the check of the grant saw what was true at some time
during the request; `Kept` and `Swept` say whose files are in the spool.

### Uploader

`UploadClosureProofs` proves for any finite set of paths, any reference graph and
any number of workers and attempts one inductive invariant
(`InvariantCorrect`) and from it `TypeCorrect`, `RefsFirstCorrect` and
`RecordedRightCorrect`.  The invariant ties each in-degree to the dependencies
without an outcome, so a path in the ready queue has none left.
`CycleIsRealCorrect` follows from one more part, `Stuck`: a path that is neither queued
nor worked on nor recorded still has an in-degree, so when the workers are done
each path that is left waits for another one that is left.

### Compressed cache

`ZstdCacheProofs`: `AccountedCorrect`, `DiskWithinBudgetCorrect`, `ServesWholeCorrect` and
`CloseReleasesAllCorrect`, for any NARs, sizes, slots, budget and reservation size.
The core of the invariant is that an entry is in one place (`FlightPlaces`,
`Apart`): built, cached, retired by one goroutine (`Turns`) or failed to be deleted.
So its charge is given back once (`Charged`, `Budget`: the sum over all entries,
which is the sum over the tracked ones because the others are charged nothing),
and a running server has no file it has lost track of (`Linked`).  `PinsAccounted`
is inductive with `Leases` (a lease is on the cached entry of its NAR) and `Waits` (a
finished flight has a waiter, who will drop its pin); hence what is evicted,
swept or found missing has no reader.  `Closing` records what Close has waited for.

### Reads

`NarServeProofs`: `TypeCorrect` and `CleanIsWholeCorrect`, for any trees, clients, re-adds
and restarts.  Two arguments meet in one invariant, since a NAR may be complete for
two reasons:

* An uncompressed NAR, because of its declared length.  What a walk has written and has
  still to write is strictly increasing in the depth-first order (`Ordered`): a node's
  entries come after it and before its right neighbours.  So no node is written twice
  (`OnceEach`), and a sum of lengths that reaches the declared one has every node, complete
  (`WholeByLength`).  Nix may delete and restore files under the walk.
* A compressed NAR, because nothing was missing when it was built.  The rows of the path
  have growing numbers and its files are complete while it has one (`Rows`), and a number
  that was read is not given again (`Known`).  So while the build's row is still the
  current one, every node has been written complete or lies below one still to write
  (`Complete`); a build that ends with another row is `raced`.

`Fresh` and `Asked` carry what a request has read from the query to its last step, and
`Copying` what it took from the cache, which may be evicted meanwhile.  That the entries
of a directory cover all nodes below it needs no induction: the one entry above a node
is its name cut to the directory's depth plus one (`Cut`).

### Only model-checked

* Liveness: `RequestEnds`, `Delivery`, `DrainEnds`, `Returns`, `CloseReturns`,
  `WaitsOnlyForEviction`, `StopIsAnswered`, `ReadEnds`, `StopEnds`.  The prover does not
  treat fairness or ENABLED.

Every invariant, action property and refinement of a passing run is a theorem.

## 6. Findings

`read_refs` (`store/store.go`): `PathInfo` reads a path's row and its references with
two statements and no transaction.  A collection in between deletes the row and,
by cascade, its references, and the cache signs a narinfo without references
for a path that has some, although the comment promises them "exactly as the Nix
DB holds them".  A client that substitutes by it gets the path without its
dependencies.

Smaller observations, visible in the model but without a run of their own:

* A stop request that arrives before `Watch` looks at the error of `poll` hides that
  paths have expired (`watch/watch.go`): `complete` ends the drain and resets the
  count of expired paths in one statement, and the drain exits 0.
  `docs/push-resilience.md` says "An expired path is no longer retried, and the next drain
  reports failure."  `DrainIsHonest` excludes expired paths for this reason.
* A replaced source database is recognised by the device and inode of its file, and
  otherwise only by the path in the cursor's row (`validateAnchor` in
  `watch/retry.go`).  One that is rewritten in place, or restored to an inode number
  that was free again, and that happens to have the same path in that row, is not
  replayed: other paths up to the cursor are skipped.  If it is rewritten between the
  check and `discover`, the cursor moves on to a row of the new contents and the next
  check passes too.  `ReplaceSource` always brings another file, so `NoLostWork` and
  `DrainIsHonest` say nothing about these cases.
* After an incomplete drain and a restart, a boundary whose discovery is complete
  holds back further discovery until the pending work clears or expires; and a
  state file without a checkpoint is refused at every start (`made = "empty"` in
  `Delivery`).
* A compressed NAR that was built while its path was collected can be short and
  stays in the cache, since the build compares it with neither narSize nor
  narHash; a client notices by the hash.  This is the exception `raced` of
  `CleanIsWhole`.
* After a death or failure between the rename of `.locks` and the fsync of the root
  directory, later callers use the directory without syncing it.  A power loss
  may then bring back `.locks.init`, with a lock file in it that
  `lockDirectory` does not remove, and every later call fails.  This is the
  exception `unsynced` of `LeftoversAreHarmless`.
* `gcroot/lock.go` says that `ErrBusy` means another owner of the root's stripe;
  `TryAcquire` also returns it while a caller of any other stripe has the root
  directory locked (`Busy`).  The pruner then skips the root until its next check.
* The cooldown of `skipCollect` (`cli/gc.go`) also follows a collection that failed,
  and knows nothing of the garbage that a failed import or a prune that stopped
  half-way leaves; it then waits for the cooldown, although the comment says that
  such a collection would free nothing.  Nor does the server's loop know of a
  `tsnixcache gc` that was killed between pruning and collecting.
  `SkipFreesNothing` excludes these faults (`LeavesGarbage`).
* `dropSpool` and `SweepSpool` look at a file and then unlink by name (`DropSpool`,
  `UnlinkSpool`, `RenameSwept`).  An upload that renames its file over the name in
  between loses it, and its client has to upload again; nothing wrong is
  imported.

## 7. Not modelled

Metrics, flags, terminal output, key files and dashboards: no state that outlives
a call.  The codecs work on byte strings.  The serve protocol between importer
and Nix is one step that succeeds or fails.  Notifications change only when a poll
runs.  Details are in `components`.

## 8. Plan

1. Done: push side with collection, crashes and power loss, and the proof of
   retention; lock files and their refinement; reads; server life; watcher queue;
   uploader and its proofs; compressed cache; sessions.
2. An abstract delivery contract (a set of owed registrations) that `WatchQueue`
   implements, and a one-shot result for `Session`.
3. `Session` over `WatchQueue`, so that a clean generation is a real drain.
4. Notifications with back-off; `nixbase32` against a reference definition.
5. Theorems: done for every invariant and action property; the refinements of item 2.
