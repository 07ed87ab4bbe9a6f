------------------------------- MODULE Serve -------------------------------
(***************************************************************************)
(* The life of a server process (cli/serve.go): startup, the goroutines of *)
(* its error group, shutdown with its grace period and the deferred calls  *)
(* of runServe, for processes that are given the same spool directory; the *)
(* grants that each listener asks for (auth.go); and what a client that    *)
(* pushes a NAR in two requests sees of all this.                          *)
(*                                                                         *)
(* Imports, sweeps of idle uploads and the cache of compressed NARs have   *)
(* modules of their own (NarImport, ZstdCache) and are single steps here.  *)
(***************************************************************************)
EXTENDS Integers, FiniteSets, Sequences, SequencesExt

CONSTANTS
    Procs,          \* server processes, each restarted when it has ended
    Clients,
    Local, Tsnet,   \* the listeners of the two kinds
    DefaultAddr,    \* defaultListenAddr
    Scenarios,      \* what a behaviour may contain: see left
    None

Listeners == Local \cup Tsnet

\* Requests: whether the method is safe, and the path.
PutNar  == [safe |-> FALSE, path |-> "nar"]
PutInfo == [safe |-> FALSE, path |-> "narinfo"]
GetNar  == [safe |-> TRUE, path |-> "nar"]
GetGC   == [safe |-> TRUE, path |-> "/debug/gc"]
PostGC  == [safe |-> FALSE, path |-> "/debug/gc"]
Requests == {PutNar, PutInfo, GetNar, GetGC, PostGC}

\* tsweb forces a collection whatever the method.
Mutates(r) == ~r.safe \/ r.path = "/debug/gc"

Blank == ""

\* The flags of a process, and what a behaviour may contain; a tsnet spec that is
\* given twice counts once.
ConfigType == [listen : Seq(Local \cup {Blank}), tsnet : Seq(Tsnet),
               localWrite : BOOLEAN, gc : BOOLEAN]
ScenarioType ==
    [starts : Seq(Procs), signals : Nat, grants : Nat, faults : Nat,
     requests : SUBSET Requests, granted : SUBSET SUBSET Clients, db : SUBSET BOOLEAN,
     configs : SUBSET ConfigType]

ASSUME ServeAssumption ==
    /\ Local \cap Tsnet = {} /\ DefaultAddr \in Local
    /\ None \notin Procs
    /\ \A s \in Scenarios : s \in ScenarioType

VARIABLES
    pc,         \* pc[p]: where runServe is
    cfg,        \* cfg[p]: its flags
    cancelled,  \* cancelled[p]: ctx is done, by a signal or by a failed goroutine
    signalled,  \* signalled[p]: it was asked to stop
    defers,     \* defers[p]: the calls deferred so far
    handle,     \* handle[p]: the Nix database: none, open or closed
    closed,     \* closed[p]: the cache takes no more leases
    bound,      \* bound[p]: the listeners that are open
    serving,    \* serving[p][l]: the goroutine in Serve
    stopping,   \* stopping[p][l]: the goroutine that waits to call Shutdown
    loops,      \* loops[p]: the other goroutines of the group
    owner,      \* the process with the lock on the spool directory
    spool,      \* the files in the spool directory
    db,         \* whether the Nix database can be read
    conn,       \* conn[c]: the request that c waits for
    orphans,    \* handlers whose connection is gone
    acked,      \* acked[c]: the process that answered c's upload with 200
    grants,     \* the clients with a push grant
    left        \* bounds: the processes still to start, the signals, changes of the
                \* grants and faults (failed calls, kills, lost connections) to come,
                \* the flags and requests, and how db and grants are at first

goVars   == <<serving, stopping, loops>>
procVars == <<pc, cfg, signalled, defers, handle, closed, bound, cancelled, goVars>>
cliVars  == <<conn, orphans, acked>>
envVars  == <<db, grants>>
vars     == <<procVars, owner, spool, cliVars, envVars, left>>

Addrs(c) ==
    IF c.listen # <<>> THEN c.listen
    ELSE IF c.tsnet # <<>> THEN <<>> ELSE <<DefaultAddr>>

LocalAddrs(c) == Range(Addrs(c)) \ {Blank}

Configured(c) == LocalAddrs(c) \cup Range(c.tsnet)

Startup == {"setup", "open", "lock", "sweep", "bind", "tsnet", "loops"}
Pcs     == {"off", "run", "return", "returned"} \cup Startup
Steps   == {"auth", "gate", "run", "body", "lease"}
Files   == [by : Procs \cup {None}, of : Clients, temp : BOOLEAN]
Conns   == [srv : Procs, lsn : Listeners, req : Requests, step : Steps, held : BOOLEAN]
Orphans == [srv : Procs, of : Clients, req : Requests, step : Steps]

NoListener == [l \in Listeners |-> "none"]

TypeOK ==
    /\ pc \in [Procs -> Pcs] /\ cfg \in [Procs -> left.configs \cup {None}]
    /\ cancelled \in [Procs -> BOOLEAN]
    /\ signalled \in [Procs -> BOOLEAN] /\ closed \in [Procs -> BOOLEAN]
    /\ defers \in [Procs -> {<<>>, <<"store">>, <<"store", "cache">>}]
    /\ handle \in [Procs -> {"none", "open", "closed"}]
    /\ bound \in [Procs -> SUBSET Listeners]
    /\ serving \in [Procs -> [Listeners -> {"none", "start", "accept", "done"}]]
    /\ stopping \in [Procs -> [Listeners -> {"none", "wait", "grace", "done"}]]
    /\ loops \in [Procs -> SUBSET {"gc", "sweeper", "retry"}]
    /\ owner \in Procs \cup {None}
    /\ spool \subseteq Files
    /\ conn \in [Clients -> Conns \cup {None}]
    /\ orphans \subseteq Orphans
    /\ acked \in [Clients -> Procs \cup {None}]
    /\ grants \subseteq Clients /\ db \in BOOLEAN
    /\ left \in ScenarioType

Init ==
    /\ pc = [p \in Procs |-> "off"]
    /\ cfg = [p \in Procs |-> None]
    /\ cancelled = [p \in Procs |-> FALSE]
    /\ signalled = [p \in Procs |-> FALSE] /\ closed = [p \in Procs |-> FALSE]
    /\ defers = [p \in Procs |-> <<>>] /\ handle = [p \in Procs |-> "none"]
    /\ bound = [p \in Procs |-> {}]
    /\ serving = [p \in Procs |-> NoListener] /\ stopping = [p \in Procs |-> NoListener]
    /\ loops = [p \in Procs |-> {}]
    /\ owner = None /\ spool = {}
    /\ conn = [c \in Clients |-> None] /\ orphans = {} /\ acked = [c \in Clients |-> None]
    /\ left \in Scenarios
    /\ grants \in left.granted /\ db \in left.db

Fault   == left.faults > 0 /\ left' = [left EXCEPT !.faults = @ - 1]
NoFault == UNCHANGED left

\* Requests of p whose connection stands.
Live(p) == {c \in Clients : conn[c] # None /\ conn[c].srv = p}

LiveOn(p, l) == {c \in Live(p) : conn[c].lsn = l}

\* p can still answer somebody.
Answering(p) == bound[p] # {} \/ Live(p) # {}

AsOrphan(c) == [srv |-> conn[c].srv, of |-> c, req |-> conn[c].req, step |-> conn[c].step]

\* The connections of cs break; their handlers run on.
Drop(cs) ==
    /\ conn' = [c \in Clients |-> IF c \in cs THEN None ELSE conn[c]]
    /\ orphans' = orphans \cup {AsOrphan(c) : c \in cs}

(***************************************************************************)
(* Processes come and go.                                                  *)
(***************************************************************************)
\* Whatever the process had open is gone with it.
Gone(p) ==
    /\ pc' = [pc EXCEPT ![p] = "off"] /\ cfg' = [cfg EXCEPT ![p] = None]
    /\ cancelled' = [cancelled EXCEPT ![p] = FALSE]
    /\ signalled' = [signalled EXCEPT ![p] = FALSE] /\ closed' = [closed EXCEPT ![p] = FALSE]
    /\ defers' = [defers EXCEPT ![p] = <<>>] /\ handle' = [handle EXCEPT ![p] = "none"]
    /\ bound' = [bound EXCEPT ![p] = {}] /\ loops' = [loops EXCEPT ![p] = {}]
    /\ serving' = [serving EXCEPT ![p] = NoListener]
    /\ stopping' = [stopping EXCEPT ![p] = NoListener]
    /\ owner' = IF owner = p THEN None ELSE owner
    /\ spool' = {IF f.by = p THEN [f EXCEPT !.by = None] ELSE f : f \in spool}
    /\ conn' = [c \in Clients |-> IF c \in Live(p) THEN None ELSE conn[c]]
    /\ orphans' = {o \in orphans : o.srv # p}
    /\ acked' = [c \in Clients |-> IF acked[c] = p THEN None ELSE acked[c]]
    /\ UNCHANGED envVars

Kill(p) == pc[p] # "off" /\ Fault /\ Gone(p)

\* cli.Main ends once runServe has returned.
Exit(p) == pc[p] = "returned" /\ NoFault /\ Gone(p)

Start(p, c) ==
    /\ pc[p] = "off" /\ left.starts # <<>> /\ p = Head(left.starts)
    /\ left' = [left EXCEPT !.starts = Tail(@)]
    /\ pc' = [pc EXCEPT ![p] = "setup"] /\ cfg' = [cfg EXCEPT ![p] = c]
    /\ UNCHANGED <<cancelled, signalled, defers, handle, closed, bound, goVars,
                   owner, spool, cliVars, envVars>>

\* SIGTERM or SIGINT.
Signal(p) ==
    /\ pc[p] # "off" /\ ~signalled[p]
    /\ left.signals > 0 /\ left' = [left EXCEPT !.signals = @ - 1]
    /\ signalled' = [signalled EXCEPT ![p] = TRUE]
    /\ cancelled' = [cancelled EXCEPT ![p] = TRUE]
    /\ UNCHANGED <<pc, cfg, defers, handle, closed, bound, goVars,
                   owner, spool, cliVars, envVars>>

DbReadable ==
    /\ ~db /\ db' = TRUE
    /\ UNCHANGED <<procVars, owner, spool, cliVars, grants, left>>

(***************************************************************************)
(* Startup.                                                                *)
(***************************************************************************)
At(p, from, to) ==
    /\ pc[p] = from /\ pc' = [pc EXCEPT ![p] = to]
    /\ UNCHANGED <<cfg, signalled, closed, cliVars, envVars>>

\* runServe returns an error; what it deferred runs next.
ReturnErr(p, from) ==
    /\ At(p, from, "return")
    /\ UNCHANGED <<cancelled, defers, handle, goVars>>

\* Flags, signing key and spool directory are checked before anything is opened.
Setup(p) ==
    /\ At(p, "setup", "open") /\ NoFault
    /\ UNCHANGED <<cancelled, defers, handle, bound, goVars, owner, spool>>

SetupFails(p) ==
    /\ ReturnErr(p, "setup") /\ Fault
    /\ UNCHANGED <<bound, owner, spool>>

\* Mutant: the handle is never closed.
OpenStoreNoDefer(p) ==
    /\ At(p, "open", "lock") /\ NoFault
    /\ handle' = [handle EXCEPT ![p] = IF db /\ ~cancelled[p] THEN "open" ELSE "none"]
    /\ UNCHANGED <<cancelled, defers, bound, goVars, owner, spool>>

\* A database that cannot be read yet is not an error.
OpenStore(p) ==
    /\ At(p, "open", "lock") /\ NoFault
    /\ handle' = [handle EXCEPT ![p] = IF db /\ ~cancelled[p] THEN "open" ELSE "none"]
    /\ defers' = [defers EXCEPT ![p] = <<"store">>]
    /\ UNCHANGED <<cancelled, bound, goVars, owner, spool>>

\* Mutant: the lock is not exclusive.
InitZstdCacheUnlocked(p) ==
    /\ At(p, "lock", "sweep") /\ NoFault
    /\ owner' = p
    /\ UNCHANGED <<cancelled, defers, handle, bound, goVars, spool>>

\* cache.New: first the lock, and then the sweep of all that is in the spool.
InitZstdCache(p) ==
    /\ owner = None
    /\ At(p, "lock", "sweep") /\ NoFault
    /\ owner' = p
    /\ UNCHANGED <<cancelled, defers, handle, bound, goVars, spool>>

\* The directory is owned, or its old files cannot be removed.
InitZstdCacheFails(p) ==
    /\ ReturnErr(p, "lock")
    /\ (owner # None /\ NoFault) \/ Fault
    /\ UNCHANGED <<bound, owner, spool>>

SweepSpool(p) ==
    /\ At(p, "sweep", "bind") /\ NoFault
    /\ spool' = {}
    /\ defers' = [defers EXCEPT ![p] = Append(@, "cache")]
    /\ UNCHANGED <<cancelled, handle, bound, goVars, owner>>

\* listenAll binds the addresses in order, or none; blank ones are skipped.
Unbound(p) == {i \in DOMAIN Addrs(cfg[p]) : Addrs(cfg[p])[i] \notin bound[p] \cup {Blank}}

First(S) == CHOOSE i \in S : \A j \in S : i <= j

NextAddr(p) == Addrs(cfg[p])[First(Unbound(p))]

\* An address that is given twice is in use when its second turn comes.
Repeats(c) ==
    \E i, j \in DOMAIN Addrs(c) : i < j /\ Addrs(c)[i] = Addrs(c)[j] /\ Addrs(c)[i] # Blank

InUse(p, l) == \E q \in Procs \ {p} : l \in bound[q]

Bind(p) ==
    /\ pc[p] = "bind" /\ Unbound(p) # {}
    /\ ~InUse(p, NextAddr(p))
    /\ bound' = [bound EXCEPT ![p] = @ \cup {NextAddr(p)}]
    /\ UNCHANGED <<pc, cfg, cancelled, signalled, defers, handle, closed, goVars,
                   owner, spool, cliVars, envVars, left>>

BindFails(p) ==
    /\ ReturnErr(p, "bind")
    /\ \/ Configured(cfg[p]) = {} /\ NoFault
       \/ Repeats(cfg[p]) /\ NoFault
       \/ Unbound(p) # {} /\ InUse(p, NextAddr(p)) /\ NoFault
       \/ Unbound(p) # {} /\ Fault
    /\ bound' = [bound EXCEPT ![p] = {}]
    /\ UNCHANGED <<owner, spool>>

\* serveHTTP: the goroutine that serves, and the one that shuts down.
ServeHTTP(p, ls) ==
    /\ serving' = [serving EXCEPT ![p] = [l \in Listeners |-> IF l \in ls THEN "start" ELSE @[l]]]
    /\ stopping' = [stopping EXCEPT ![p] = [l \in Listeners |-> IF l \in ls THEN "wait" ELSE @[l]]]

ServeLocal(p) ==
    /\ At(p, "bind", "tsnet") /\ NoFault
    /\ Configured(cfg[p]) # {} /\ Unbound(p) = {} /\ ~Repeats(cfg[p])
    /\ ServeHTTP(p, bound[p])
    /\ UNCHANGED <<cancelled, defers, handle, bound, loops, owner, spool>>

\* The tsnet listeners come up one by one while the local ones already serve.
PendingTsnet(p) == {i \in DOMAIN cfg[p].tsnet : stopping[p][cfg[p].tsnet[i]] = "none"}

NextTsnet(p) == cfg[p].tsnet[First(PendingTsnet(p))]

SetupTsnet(p) ==
    /\ pc[p] = "tsnet" /\ PendingTsnet(p) # {}
    /\ bound' = [bound EXCEPT ![p] = @ \cup {NextTsnet(p)}]
    /\ ServeHTTP(p, {NextTsnet(p)})
    /\ UNCHANGED <<pc, cfg, cancelled, signalled, defers, handle, closed, loops,
                   owner, spool, cliVars, envVars, left>>

\* Mutant: the loop over the tsnet listeners just ends.
SetupTsnetIgnored(p) ==
    /\ At(p, "tsnet", "loops") /\ Fault
    /\ PendingTsnet(p) # {}
    /\ UNCHANGED <<cancelled, defers, handle, bound, goVars, owner, spool>>

\* A failure goes to the group, which cancels the others.
SetupTsnetFails(p) ==
    /\ At(p, "tsnet", "loops") /\ Fault
    /\ PendingTsnet(p) # {}
    /\ cancelled' = [cancelled EXCEPT ![p] = TRUE]
    /\ UNCHANGED <<defers, handle, bound, goVars, owner, spool>>

TsnetUp(p) ==
    /\ At(p, "tsnet", "loops") /\ NoFault
    /\ PendingTsnet(p) = {}
    /\ UNCHANGED <<cancelled, defers, handle, bound, goVars, owner, spool>>

StartLoops(p) ==
    /\ At(p, "loops", "run") /\ NoFault
    /\ loops' = [loops EXCEPT ![p] = {"sweeper"} \cup (IF cfg[p].gc THEN {"gc"} ELSE {})
                                     \cup (IF handle[p] = "none" THEN {"retry"} ELSE {})]
    /\ UNCHANGED <<cancelled, defers, handle, bound, serving, stopping, owner, spool>>

StartupStep(p) ==
    \/ Setup(p) \/ OpenStore(p)
    \/ InitZstdCache(p) \/ InitZstdCacheFails(p) \/ SweepSpool(p)
    \/ Bind(p) \/ BindFails(p) \/ ServeLocal(p)
    \/ SetupTsnet(p) \/ SetupTsnetFails(p) \/ TsnetUp(p) \/ StartLoops(p)

(***************************************************************************)
(* The goroutines of the group.                                            *)
(***************************************************************************)
InGroup(p) == UNCHANGED <<pc, cfg, signalled, defers, closed, owner, spool, envVars>>

\* Serve: after Shutdown it returns at once, and closes the listener.
ServeStarts(p, l) ==
    /\ serving[p][l] = "start"
    /\ IF stopping[p][l] = "wait"
       THEN serving' = [serving EXCEPT ![p][l] = "accept"] /\ UNCHANGED bound
       ELSE /\ serving' = [serving EXCEPT ![p][l] = "done"]
            /\ bound' = [bound EXCEPT ![p] = @ \ {l}]
    /\ InGroup(p)
    /\ UNCHANGED <<cancelled, handle, stopping, loops, cliVars, left>>

\* Accept fails for good.
ServeFails(p, l) ==
    /\ serving[p][l] = "accept" /\ Fault
    /\ serving' = [serving EXCEPT ![p][l] = "done"]
    /\ bound' = [bound EXCEPT ![p] = @ \ {l}]
    /\ cancelled' = [cancelled EXCEPT ![p] = TRUE]
    /\ InGroup(p)
    /\ UNCHANGED <<handle, stopping, loops, cliVars>>

\* Shutdown closes the listener that Serve has taken over; Serve returns.
Shutdown(p, l) ==
    /\ stopping[p][l] = "wait" /\ cancelled[p]
    /\ stopping' = [stopping EXCEPT ![p][l] = "grace"]
    /\ IF serving[p][l] = "accept"
       THEN /\ serving' = [serving EXCEPT ![p][l] = "done"]
            /\ bound' = [bound EXCEPT ![p] = @ \ {l}]
       ELSE UNCHANGED <<serving, bound>>
    /\ InGroup(p)
    /\ UNCHANGED <<cancelled, handle, loops, cliVars, left>>

\* Mutant: Shutdown has no deadline.
ShutdownWaits(p, l) ==
    /\ stopping[p][l] = "grace" /\ LiveOn(p, l) = {}
    /\ stopping' = [stopping EXCEPT ![p][l] = "done"]
    /\ InGroup(p)
    /\ UNCHANGED <<cancelled, handle, bound, serving, loops, cliVars, left>>

\* It waits for the requests in flight, up to shutdownGrace.
ShutdownEnds(p, l) ==
    /\ stopping[p][l] = "grace"
    /\ stopping' = [stopping EXCEPT ![p][l] = "done"]
    /\ Drop(LiveOn(p, l))
    /\ InGroup(p)
    /\ UNCHANGED <<cancelled, handle, bound, serving, loops, acked, left>>

\* The GC watcher, the sweeper and the retries end between two rounds.
LoopEnds(p, g) ==
    /\ g \in loops[p] /\ cancelled[p]
    /\ loops' = [loops EXCEPT ![p] = @ \ {g}]
    /\ InGroup(p)
    /\ UNCHANGED <<cancelled, handle, bound, serving, stopping, cliVars, left>>

\* openWithRetry; an open that is under way may succeed after the cancellation.
RetryOpens(p) ==
    /\ "retry" \in loops[p] /\ db
    /\ handle' = [handle EXCEPT ![p] = "open"]
    /\ loops' = [loops EXCEPT ![p] = @ \ {"retry"}]
    /\ InGroup(p)
    /\ UNCHANGED <<cancelled, bound, serving, stopping, cliVars, left>>

\* Mutant: the shutdown goroutines are not part of the group.
WaitForServe(p) ==
    /\ \A l \in Listeners : serving[p][l] \in {"none", "done"}
    /\ loops[p] = {}
    /\ At(p, "run", "return") /\ NoFault
    /\ UNCHANGED <<cancelled, defers, handle, bound, goVars, owner, spool>>

GroupStep(p) ==
    \/ RetryOpens(p)
    \/ \E l \in Listeners : ServeStarts(p, l) \/ Shutdown(p, l) \/ ShutdownEnds(p, l)
    \/ \E g \in loops[p] : LoopEnds(p, g)

\* eg.Wait.
Wait(p) ==
    /\ \A l \in Listeners : /\ serving[p][l] \in {"none", "done"}
                            /\ stopping[p][l] \in {"none", "done"}
    /\ loops[p] = {}
    /\ At(p, "run", "return") /\ NoFault
    /\ UNCHANGED <<cancelled, defers, handle, bound, goVars, owner, spool>>

(***************************************************************************)
(* The deferred calls, last one first.                                     *)
(***************************************************************************)
Deferred(p, call) == pc[p] = "return" /\ defers[p] # <<>> /\ Last(defers[p]) = call

Pop(p) == defers' = [defers EXCEPT ![p] = Front(@)]

\* closeCache: no more leases, then wait for the readers, then release the lock.
CloseCache(p) ==
    /\ Deferred(p, "cache") /\ ~closed[p]
    /\ closed' = [closed EXCEPT ![p] = TRUE]
    /\ UNCHANGED <<pc, cfg, cancelled, signalled, defers, handle, bound, goVars,
                   owner, spool, cliVars, envVars, left>>

Leases(p) ==
    {c \in Live(p) : conn[c].step = "lease"}
    \cup {o \in orphans : o.srv = p /\ o.step = "lease"}

ReleaseSpool(p) ==
    /\ Deferred(p, "cache") /\ closed[p] /\ Leases(p) = {}
    /\ owner' = None
    /\ Pop(p)
    /\ UNCHANGED <<pc, cfg, cancelled, signalled, handle, closed, bound, goVars,
                   spool, cliVars, envVars, left>>

CloseStore(p) ==
    /\ Deferred(p, "store")
    /\ handle' = [handle EXCEPT ![p] = IF @ = "open" THEN "closed" ELSE @]
    /\ Pop(p)
    /\ UNCHANGED <<pc, cfg, cancelled, signalled, closed, bound, goVars,
                   owner, spool, cliVars, envVars, left>>

Returned(p) ==
    /\ defers[p] = <<>>
    /\ At(p, "return", "returned") /\ NoFault
    /\ UNCHANGED <<cancelled, defers, handle, bound, goVars, owner, spool>>

ReturnStep(p) ==
    \/ Wait(p) \/ CloseCache(p) \/ ReleaseSpool(p) \/ CloseStore(p)
    \/ Returned(p) \/ Exit(p)

(***************************************************************************)
(* Requests and their handlers.                                            *)
(***************************************************************************)
InHandler == UNCHANGED <<procVars, owner, envVars>>

Arrive(c, p, l, r) ==
    /\ conn[c] = None /\ l \in bound[p] /\ serving[p][l] = "accept"
    /\ conn' = [conn EXCEPT ![c] = [srv |-> p, lsn |-> l, req |-> r,
                                    step |-> "auth", held |-> c \in grants]]
    /\ UNCHANGED <<spool, orphans, acked, left>> /\ InHandler

Advance(c, step) ==
    /\ conn' = [conn EXCEPT ![c].step = step]
    /\ UNCHANGED <<spool, orphans, acked, left>> /\ InHandler

Answer(c) == conn' = [conn EXCEPT ![c] = None] /\ UNCHANGED orphans /\ InHandler

Pending(c, step) == conn[c] # None /\ conn[c].step = step

\* Mutant: only the method counts.
ReadOnlyByMethod(c) == conn[c].req.safe

\* localHandler: plain listeners have no identities, so they only read.
ReadOnly(c) == ~Mutates(conn[c].req)

LocalAllows(c) == cfg[conn[c].srv].localWrite \/ ReadOnly(c)

\* auth.Middleware lets safe methods pass and asks WhoIs about the others.
MiddlewareAllows(c) == conn[c].req.safe \/ c \in grants

Authorize(c) ==
    /\ Pending(c, "auth")
    /\ IF conn[c].lsn \in Local
       THEN LocalAllows(c) /\ Advance(c, "run")
       ELSE MiddlewareAllows(c) /\ Advance(c, "gate")

\* gateDebug asks WhoIs about everything under /debug.
GateAllows(c) == conn[c].req.path = "/debug/gc" => c \in grants

GateDebug(c) ==
    /\ Pending(c, "gate")
    /\ GateAllows(c)
    /\ Advance(c, "run")

Reject(c) ==
    /\ \/ /\ Pending(c, "auth")
          /\ \/ conn[c].lsn \in Local /\ ~LocalAllows(c) /\ NoFault
             \/ conn[c].lsn \in Tsnet /\ ~MiddlewareAllows(c) /\ NoFault
             \/ conn[c].lsn \in Tsnet /\ ~conn[c].req.safe /\ Fault
       \/ /\ Pending(c, "gate")
          /\ \/ ~GateAllows(c) /\ NoFault
             \/ conn[c].req.path = "/debug/gc" /\ Fault
    /\ Answer(c)
    /\ UNCHANGED <<spool, acked>>

File(p, c, temp) == [by |-> p, of |-> c, temp |-> temp]

\* handlePutNar: a temporary file that is renamed once the body is there.
PutNarStart(c) ==
    /\ Pending(c, "run") /\ conn[c].req = PutNar
    /\ spool' = spool \cup {File(conn[c].srv, c, TRUE)}
    /\ conn' = [conn EXCEPT ![c].step = "body"]
    /\ UNCHANGED <<orphans, acked, left>> /\ InHandler

PutNarDone(c) ==
    LET p == conn[c].srv IN
    /\ Pending(c, "body")
    /\ IF File(p, c, TRUE) \in spool
       THEN /\ spool' = {f \in spool : f.of # c} \cup {File(p, c, FALSE)}
            /\ acked' = [acked EXCEPT ![c] = p]
       ELSE UNCHANGED <<spool, acked>>
    /\ Answer(c) /\ NoFault

\* handlePutNarInfo: the import takes the file with it.
PutNarInfoDone(c) ==
    LET p == conn[c].srv IN
    /\ Pending(c, "run") /\ conn[c].req = PutInfo
    /\ spool' = spool \ {File(p, c, FALSE)}
    /\ acked' = [acked EXCEPT ![c] = IF @ = p THEN None ELSE @]
    /\ Answer(c) /\ NoFault

\* A read takes a lease on a compressed NAR, if the store and the cache are open.
TakeLease(c) ==
    LET p == conn[c].srv IN
    /\ Pending(c, "run") /\ conn[c].req = GetNar
    /\ handle[p] = "open" /\ ~closed[p]
    /\ Advance(c, "lease")

Served(c) ==
    /\ \/ Pending(c, "lease")
       \/ Pending(c, "run") /\ conn[c].req.path = "/debug/gc"
       \/ /\ Pending(c, "run") /\ conn[c].req = GetNar
          /\ handle[conn[c].srv] # "open" \/ closed[conn[c].srv]
    /\ Answer(c) /\ NoFault
    /\ UNCHANGED <<spool, acked>>

Handle(c) ==
    \/ Authorize(c) \/ GateDebug(c) \/ Reject(c)
    \/ PutNarStart(c) \/ PutNarDone(c) \/ PutNarInfoDone(c)
    \/ TakeLease(c) \/ Served(c)

\* The client leaves, or the network loses the connection.
Disconnect(c) ==
    /\ conn[c] # None /\ Fault
    /\ Drop({c})
    /\ UNCHANGED <<spool, acked>> /\ InHandler

\* A handler without a client: a body breaks off, or was complete; an import is
\* detached from the request and removes only the file that it has verified.
OrphanEnds(o) ==
    /\ o \in orphans /\ orphans' = orphans \ {o}
    /\ CASE o.step = "body" ->
              /\ \/ spool' = spool \ {File(o.srv, o.of, TRUE)}
                 \/ /\ File(o.srv, o.of, TRUE) \in spool
                    /\ spool' = {f \in spool : f.of # o.of} \cup {File(o.srv, o.of, FALSE)}
              /\ UNCHANGED acked
         [] o.step = "run" /\ o.req = PutInfo ->
              /\ spool' = spool \ {File(o.srv, o.of, FALSE)}
              /\ acked' = [acked EXCEPT ![o.of] = IF @ = o.srv THEN None ELSE @]
         [] OTHER -> UNCHANGED <<spool, acked>>
    /\ UNCHANGED <<conn, left>> /\ InHandler

ChangeGrant(c) ==
    /\ left.grants > 0 /\ left' = [left EXCEPT !.grants = @ - 1]
    /\ grants' = IF c \in grants THEN grants \ {c} ELSE grants \cup {c}
    /\ conn' = [conn EXCEPT ![c] = IF @ = None \/ c \in grants THEN @ ELSE [@ EXCEPT !.held = TRUE]]
    /\ UNCHANGED <<procVars, owner, spool, orphans, acked, db>>

(***************************************************************************)
(* The system.                                                             *)
(***************************************************************************)
Next ==
    \/ \E p \in Procs :
         \/ \E c \in left.configs : Start(p, c)
         \/ Signal(p) \/ Kill(p) \/ SetupFails(p)
         \/ StartupStep(p) \/ GroupStep(p) \/ ReturnStep(p)
         \/ \E l \in Listeners : ServeFails(p, l)
    \/ \E c \in Clients :
         \/ \E p \in Procs, l \in Listeners, r \in left.requests : Arrive(c, p, l, r)
         \/ Handle(c) \/ Disconnect(c) \/ ChangeGrant(c)
    \/ \E o \in orphans : OrphanEnds(o)
    \/ DbReadable

Spec == Init /\ [][Next]_vars

\* Goroutines are scheduled, timers expire, and a handler whose connection is
\* gone ends.  A process takes finitely many of these steps, so one condition for
\* all of them is as strong as one for each.  A client may take forever: its
\* handler has no fairness.
FairSpec ==
    /\ Spec
    /\ \A p \in Procs : WF_vars(StartupStep(p) \/ GroupStep(p) \/ ReturnStep(p))
    /\ WF_vars(\E o \in orphans : OrphanEnds(o))

(***************************************************************************)
(* Properties.                                                             *)
(***************************************************************************)

\* A client that was told its NAR is spooled finds it there when it sends the
\* narinfo, as long as the process that told it so can still answer: no start of
\* another process on the same directory, and no start of this one, sweeps it.
AckedUploadKept ==
    \A c \in Clients : LET p == acked[c] IN
       p # None /\ Answering(p) => File(p, c, FALSE) \in spool

\* Nobody is answered from a store or a cache that runServe has closed: it gets
\* to its deferred calls only after the last connection ended or was dropped.
ClosedAfterServing ==
    \A p \in Procs : closed[p] \/ handle[p] = "closed" => ~Answering(p)

\* When runServe has returned, on whichever path, no listener, goroutine, lock or
\* database handle is left, however late the database was opened.
NothingLeft ==
    \A p \in Procs : pc[p] = "returned" =>
       /\ bound[p] = {} /\ loops[p] = {} /\ owner # p /\ handle[p] # "open"
       /\ \A l \in Listeners : /\ serving[p][l] \in {"none", "done"}
                               /\ stopping[p][l] \in {"none", "done"}

\* Shutdown keeps both orders: clients first, and nothing after runServe.
CleanShutdown == ClosedAfterServing /\ NothingLeft

\* A process that serves, serves on every listener it was configured with; one
\* that lost a listener, or never got it, is on its way down.
AllListenersUp ==
    \A p \in Procs : pc[p] = "run" /\ ~cancelled[p] => bound[p] = Configured(cfg[p])

\* Nothing that changes state runs for a peer without the push grant, nor on a
\* plain listener unless --local-write was given, whatever the method.
WriteNeedsGrant ==
    \A c \in Clients :
       conn[c] # None /\ conn[c].step \notin {"auth", "gate"} /\ Mutates(conn[c].req) =>
          IF conn[c].lsn \in Tsnet THEN conn[c].held ELSE cfg[conn[c].srv].localWrite

\* A process that is asked to stop, or one of whose goroutines fails, ends, also
\* with a client that never finishes its request.
StopEnds == \A p \in Procs : cancelled[p] ~> pc[p] = "off"

=============================================================================
