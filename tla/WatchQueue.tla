----------------------------- MODULE WatchQueue -----------------------------
(***************************************************************************)
(* `tsnixcache watch`: the poller that discovers paths registered in the   *)
(* Nix database, uploads them, and keeps its work in a state database that *)
(* survives crashes (watch/retry.go, watch/watch.go, db/).                 *)
(*                                                                         *)
(* The watcher is one goroutine and the only writer of its state (db.Open  *)
(* takes an flock), so a step is one transaction on the state database     *)
(* together with the read of the source it acts on.  Between two steps the *)
(* environment may register or delete paths, replace the source database,  *)
(* request a stop, or kill the process.                                    *)
(***************************************************************************)
EXTENDS Integers, FiniteSets

CONSTANTS
    Paths,      \* store paths
    Rank,       \* Rank[p]: position of p in the order of path names
    MaxSource,  \* bound on the inodes the source database file goes through
    MaxId,      \* bound on row ids; Nix never reuses one in the same database
    Batch,      \* RetryQueueSize: rows handled at once
    MaxFailures,\* maxPollFailures
    MaxStops,   \* bound on stop requests
    Scenarios   \* what a behaviour may meet: see ScenarioType

ASSUME WatchAssumption ==
    /\ IsFiniteSet(Paths) /\ Rank \in [Paths -> Nat \ {0}]
    /\ \A p, q \in Paths : Rank[p] = Rank[q] => p = q
    /\ MaxSource \in Nat \ {0}
    /\ MaxId \in Nat /\ Batch \in Nat \ {0}
    /\ MaxFailures \in Nat \ {0} /\ MaxStops \in Nat

Sources == 1..MaxSource

\* expiry: RetryMaxAge > 0; sources: the last inode a restore may bring; faults:
\* bound on crashes, I/O errors and expired deadlines.
ScenarioType == [sources : Sources, expiry : BOOLEAN, faults : Nat]

ASSUME ScenarioAssumption == \A s \in Scenarios : s \in ScenarioType

VARIABLES
    \* the environment
    source,     \* inode at DBPath
    rows,       \* rows[s][p]: id of p in ValidPaths of database s, 0 if absent
    nextId,     \* nextId[s]: id the next registration in s gets
    stopping,   \* ctx is cancelled
    stops, faults,
    scenario,   \* the one of Scenarios this behaviour is in
    \* the state database
    made,       \* "absent", "empty" (created, no checkpoint) or "ready"
    cp,         \* the checkpoint row
    pend,       \* pend[p]: the pending row of p, or NoRow
    \* the process
    pc,
    handle,     \* p.source: the inode p.db reads
    latest,     \* what newPoller read before it opened the state
    active,     \* the paths being uploaded
    failed,     \* Summary.Failed of the upload
    back,       \* where attempt returns to
    ccur,       \* p.cleanupCursor
    failures,   \* p.dbFailures
    result,     \* how the last process ended
    \* history
    base,       \* the registrations that existed before the first start
    sent,       \* registrations whose upload succeeded
    owed        \* registrations that were valid when the stop was requested

envVars   == <<source, rows, nextId, stopping, stops, faults, scenario>>
stateVars == <<made, cp, pend>>
procVars  == <<pc, handle, latest, active, failed, back, ccur, failures, result>>
histVars  == <<base, sent, owed>>
vars      == <<envVars, stateVars, procVars, histVars>>

Null   == -1
NoPath == "nopath"
NoRow  == [id |-> 0, source |-> 0, tried |-> FALSE, due |-> FALSE,
           aged |-> FALSE, final |-> 0, expired |-> FALSE]
\* tried: attempts > 0, and then first_fail # 0; due: next_at <= now;
\* aged: first_fail is RetryMaxAge ago.
Row == [id : Nat \ {0}, source : Sources, tried : BOOLEAN, due : BOOLEAN,
        aged : BOOLEAN, final : Nat, expired : BOOLEAN]

NoCheckpoint ==
    [cursor |-> 0, anchor |-> NoPath, source |-> 1, boundary |-> Null,
     generation |-> 0, expired |-> 0, discovered |-> FALSE]

Checkpoint ==
    [cursor : Nat, anchor : Paths \cup {NoPath}, source : Sources,
     boundary : Nat \cup {Null}, generation : Nat, expired : Nat,
     discovered : BOOLEAN]

PollPC  == {"discover", "fresh", "due", "clean", "refresh", "complete", "raise"}
DrainPC == {"begin", "boundary", "drefresh", "ddiscover", "final", "dclean",
            "dready", "dcomplete"}
PCs == {"down", "open", "create", "idle", "upload", "record"}
           \cup PollPC \cup DrainPC

TypeOK ==
    /\ source \in Sources
    /\ rows \in [Sources -> [Paths -> 0..MaxId]]
    /\ nextId \in [Sources -> 1..(MaxId + 1)]
    /\ stopping \in BOOLEAN
    /\ stops \in 0..MaxStops /\ scenario \in Scenarios /\ faults \in 0..scenario.faults
    /\ made \in {"absent", "empty", "ready"}
    /\ cp \in Checkpoint
    /\ pend \in [Paths -> Row \cup {NoRow}]
    /\ pc \in PCs
    /\ handle \in Sources
    /\ latest \in [id : Nat, path : Paths \cup {NoPath}]
    /\ active \subseteq Paths /\ failed \subseteq active
    /\ back \in {"due", "clean", "drefresh"}
    /\ ccur \in Nat
    /\ failures \in 0..(MaxFailures - 1)
    /\ result \in {"none", "ok", "incomplete", "error", "crash"}
    /\ base \subseteq Sources \X Nat /\ sent \subseteq Sources \X Nat
    /\ owed \subseteq Sources \X Nat

NoLatest == [id |-> 0, path |-> NoPath]

\* A store may hold paths before the watcher ever runs.
Init ==
    /\ source = 1
    /\ rows = [s \in Sources |-> [p \in Paths |-> 0]]
    /\ nextId = [s \in Sources |-> 1]
    /\ stopping = FALSE /\ stops = 0 /\ faults = 0 /\ scenario \in Scenarios
    /\ made = "absent" /\ cp = NoCheckpoint
    /\ pend = [p \in Paths |-> NoRow]
    /\ pc = "down" /\ handle = 1 /\ latest = NoLatest
    /\ active = {} /\ failed = {} /\ back = "due"
    /\ ccur = 0 /\ failures = 0 /\ result = "none"
    /\ base = {} /\ sent = {} /\ owed = {}

Pending == {p \in Paths : pend[p] # NoRow}
Valid(s) == {p \in Paths : rows[s][p] # 0}
Registrations(s) == {<<s, rows[s][p]>> : p \in Valid(s)}

\* The row with the highest id.
Latest(s) ==
    IF Valid(s) = {} THEN NoLatest
    ELSE LET p == CHOOSE q \in Valid(s) : \A r \in Valid(s) : rows[s][r] <= rows[s][q]
         IN [id |-> rows[s][p], path |-> p]

\* LIMIT Batch in the given order.
Page(S, order(_)) ==
    {T \in SUBSET S :
        /\ Cardinality(T) = IF Cardinality(S) < Batch THEN Cardinality(S) ELSE Batch
        /\ \A p \in T : \A q \in S \ T : order(p) <= order(q)}

(***************************************************************************)
(* The environment: Nix registers and deletes paths; the source database   *)
(* is replaced by another file (a restore), with other rows; an operator   *)
(* or the idle timer asks for a stop.  The histories keep only             *)
(* registrations that are still in the current database.                   *)
(***************************************************************************)
Register(p) ==
    /\ rows[source][p] = 0 /\ nextId[source] <= MaxId
    /\ rows' = [rows EXCEPT ![source][p] = nextId[source]]
    /\ nextId' = [nextId EXCEPT ![source] = @ + 1]
    /\ UNCHANGED <<scenario, source, stopping, stops, faults, stateVars, procVars, histVars>>

Unregister(p) ==
    /\ rows[source][p] # 0
    /\ rows' = [rows EXCEPT ![source][p] = 0]
    /\ LET gone == {<<source, rows[source][p]>>} IN
       base' = base \ gone /\ sent' = sent \ gone /\ owed' = owed \ gone
    /\ UNCHANGED <<scenario, source, nextId, stopping, stops, faults, stateVars, procVars>>

ReplaceSource ==
    /\ source + 1 <= scenario.sources
    /\ source' = source + 1
    /\ \E n \in 1..(MaxId + 1) : \E f \in [Paths -> 0..(n - 1)] :
          /\ \A p, q \in Paths : p # q /\ f[p] # 0 => f[p] # f[q]
          /\ rows' = [rows EXCEPT ![source + 1] = f]
          /\ nextId' = [nextId EXCEPT ![source + 1] = n]
    /\ base' = {} /\ sent' = {} /\ owed' = {}
    /\ UNCHANGED <<scenario, stopping, stops, faults, stateVars, procVars>>

Stop ==
    /\ pc \notin {"down", "open", "create"} /\ ~stopping /\ stops < MaxStops
    /\ stopping' = TRUE
    /\ stops' = stops + 1
    /\ owed' = Registrations(source)
    /\ UNCHANGED <<scenario, source, rows, nextId, faults, stateVars, procVars, base, sent>>

(***************************************************************************)
(* Start: read the newest registration, then open or create the state.     *)
(***************************************************************************)
Expired == {p \in Paths : pend[p].expired}

Start ==
    /\ pc = "down"
    /\ handle' = source
    /\ latest' = Latest(source)
    /\ pc' = "open"
    /\ result' = "none" /\ owed' = {}
    /\ UNCHANGED <<envVars, stateVars, active, failed, back, ccur, failures,
                   base, sent>>

Exit(r) ==
    /\ pc' = "down" /\ result' = r /\ stopping' = FALSE
    /\ latest' = NoLatest /\ active' = {} /\ failed' = {} /\ back' = "due"
    /\ ccur' = 0 /\ failures' = 0
    /\ UNCHANGED <<scenario, source, rows, nextId, stops, handle>>

\* validateAnchor on database s: a different file, or a cursor row that no
\* longer holds the path it held, replays every registration.
Anchored(s) ==
    /\ cp.source = s
    /\ cp.cursor = 0 \/ (cp.anchor \in Paths /\ rows[s][cp.anchor] = cp.cursor)

\* Mutant: follows the file to its new inode but keeps the cursor.
ValidateAnchorKeepsCursor(s) ==
    cp' = IF cp.source = s THEN cp
          ELSE [cp EXCEPT !.source = s,
                          !.anchor = IF Valid(s) = {} THEN NoPath
                                     ELSE CHOOSE p \in Valid(s) : TRUE,
                          !.cursor = IF Valid(s) = {} THEN 0
                                     ELSE rows[s][CHOOSE p \in Valid(s) : TRUE]]

ValidateAnchor(s) ==
    cp' = IF Anchored(s) THEN cp
          ELSE [cp EXCEPT !.cursor = 0, !.anchor = NoPath, !.source = s,
                          !.discovered = FALSE,
                          !.boundary = IF cp.source # s /\ @ # Null
                                       THEN Latest(s).id ELSE @]

\* A state file without a checkpoint is refused: starting over would skip
\* what the lost queue held.
OpenState ==
    /\ pc = "open"
    /\ \/ /\ made = "absent"
          /\ made' = "empty" /\ pc' = "create"
          /\ UNCHANGED <<envVars, cp, pend, handle, latest, active, failed, back,
                         ccur, failures, result, histVars>>
       \/ /\ made = "empty"
          /\ Exit("error")
          /\ UNCHANGED <<faults, stateVars, histVars>>
       \/ /\ made = "ready"
          /\ ValidateAnchor(handle)
          /\ pc' = "idle" /\ latest' = NoLatest
          /\ UNCHANGED <<envVars, made, pend, handle, active, failed, back, ccur,
                         failures, result, histVars>>

Initialize ==
    /\ pc = "create"
    /\ made' = "ready"
    /\ cp' = [cp EXCEPT !.cursor = latest.id, !.anchor = latest.path,
                        !.source = handle]
    /\ base' = {reg \in Registrations(source) : reg[1] = handle /\ reg[2] <= latest.id}
    /\ pc' = "idle" /\ latest' = NoLatest
    /\ UNCHANGED <<envVars, pend, handle, active, failed, back, ccur, failures,
                   result, sent, owed>>

(***************************************************************************)
(* The pieces poll and finish are made of.                                 *)
(***************************************************************************)
RefreshSource(next) ==
    /\ handle' = source
    /\ ValidateAnchor(source)
    /\ pc' = next
    /\ UNCHANGED <<envVars, made, pend, latest, active, failed, back, ccur,
                   failures, result, histVars>>

\* The upsert of one row: a new registration revives an expired path.
Discovered(p, s) ==
    IF pend[p] = NoRow \/ (pend[p].expired /\ pend[p].source = s
                                           /\ pend[p].id # rows[s][p])
    THEN [NoRow EXCEPT !.id = rows[s][p], !.source = s]
    ELSE [pend[p] EXCEPT !.id = rows[s][p], !.source = s]

Undiscovered ==
    {p \in Valid(handle) :
        /\ rows[handle][p] > cp.cursor
        /\ cp.boundary # Null => rows[handle][p] <= cp.boundary}

\* Mutant: takes the first page of a drain for the last.
DiscoverOnePage(next) ==
    LET order(p) == rows[handle][p] IN
    /\ \E new \in Page(Undiscovered, order) :
          /\ pend' = [p \in Paths |-> IF p \in new THEN Discovered(p, handle)
                                                   ELSE pend[p]]
          /\ cp' = [cp EXCEPT !.discovered = @ \/ cp.boundary # Null]
    /\ pc' = next
    /\ UNCHANGED <<envVars, made, handle, latest, active, failed, back, ccur,
                   result, histVars>>

Discover(next) ==
    LET order(p) == rows[handle][p] IN
    /\ IF cp.boundary # Null /\ cp.discovered
       THEN UNCHANGED <<cp, pend>>
       ELSE \E new \in Page(Undiscovered, order) :
               /\ pend' = [p \in Paths |-> IF p \in new THEN Discovered(p, handle)
                                                        ELSE pend[p]]
               /\ IF new = {}
                  THEN cp' = [cp EXCEPT !.discovered = @ \/ cp.boundary # Null]
                  ELSE \E p \in new :
                         /\ \A q \in new : order(q) <= order(p)
                         /\ cp' = [cp EXCEPT !.cursor = order(p), !.anchor = p,
                                             !.source = handle,
                                             !.discovered = FALSE]
    /\ pc' = next
    /\ UNCHANGED <<envVars, made, handle, latest, active, failed, back, ccur,
                   result, histVars>>

\* prepare: drop what is no longer valid, give up on what failed for too long,
\* and mark the rest as having used its final attempt of this drain.  When the
\* source cannot be read every path counts as valid.
Prepare(items, generation, wanted) ==
    \E unread \in BOOLEAN :
       LET live == IF unread THEN items ELSE items \cap Valid(handle)
           old == {p \in live : ~pend[p].expired /\ pend[p].tried /\ pend[p].aged
                                /\ scenario.expiry}
           use == {p \in live : ~pend[p].expired} \ old
       IN /\ unread => faults < scenario.faults /\ items # {}
          /\ faults' = IF unread THEN faults + 1 ELSE faults
          /\ pend' = [p \in Paths |->
                IF p \in items \ live THEN NoRow
                ELSE IF p \in old THEN [pend[p] EXCEPT !.expired = TRUE]
                ELSE IF p \in use /\ generation > 0
                     THEN [pend[p] EXCEPT !.final = generation]
                ELSE pend[p]]
          /\ cp' = [cp EXCEPT !.expired = @ + Cardinality(old)]
          /\ active' = use \cap wanted

\* attempt up to the upload; nothing to upload returns at once.
Attempt(items, generation, next) ==
    /\ Prepare(items, generation, items)
    /\ IF active' = {} THEN pc' = next /\ UNCHANGED back
                       ELSE pc' = "upload" /\ back' = next
    /\ UNCHANGED <<scenario, source, rows, nextId, stopping, stops, made, handle, latest,
                   failed, ccur, failures, result, base, sent, owed>>

\* copyFn (external: upload.Closure).  A path that has left the store fails.
Upload ==
    /\ pc = "upload"
    /\ \E ok \in SUBSET (active \cap Valid(source)) :
          /\ failed' = active \ ok
          /\ sent' = sent \cup {<<source, rows[source][p]>> : p \in ok}
    /\ pc' = "record"
    /\ UNCHANGED <<envVars, stateVars, handle, latest, active, back, ccur,
                   failures, result, base, owed>>

\* Mutant: an upload that failed as a whole names no path and retires them all.
RecordTotalFailure ==
    /\ pc = "record" /\ (stopping => back = "drefresh")
    /\ pend' = [p \in Paths |->
          IF p \in failed /\ failed # active
          THEN [pend[p] EXCEPT !.tried = TRUE, !.due = FALSE]
          ELSE IF p \in active THEN NoRow
          ELSE pend[p]]
    /\ pc' = back
    /\ active' = {} /\ failed' = {} /\ back' = "due"
    /\ UNCHANGED <<envVars, made, cp, handle, latest, ccur, failures, result,
                   histVars>>

\* A failed path backs off from now; any other is done.
Record ==
    /\ pc = "record" /\ (stopping => back = "drefresh")
    /\ pend' = [p \in Paths |->
          IF p \in failed THEN [pend[p] EXCEPT !.tried = TRUE, !.due = FALSE]
          ELSE IF p \in active THEN NoRow
          ELSE pend[p]]
    /\ pc' = back
    /\ active' = {} /\ failed' = {} /\ back' = "due"
    /\ UNCHANGED <<envVars, made, cp, handle, latest, ccur, failures, result,
                   histVars>>

\* One page of cleanup, in the order of path names; prepare's other work is
\* the point, its result is ignored.
CleanupPage(onEnd, onPage) ==
    LET order(p) == Rank[p]
        rest == {p \in Pending : Rank[p] > ccur}
    IN /\ \E items \in Page(rest, order) :
             IF items = {}
             THEN /\ ccur' = 0 /\ pc' = onEnd
                  /\ UNCHANGED <<faults, cp, pend, active>>
             ELSE /\ \E p \in items : /\ \A q \in items : Rank[q] <= Rank[p]
                                      /\ ccur' = Rank[p]
                  /\ Prepare(items, 0, {})
                  /\ pc' = onPage
       /\ UNCHANGED <<scenario, source, rows, nextId, stopping, stops, made, handle, latest,
                      failed, back, failures, result, base, sent, owed>>

(***************************************************************************)
(* poll.  Once the context is cancelled every query on the state fails, so *)
(* poll returns an error where it is, and Watch drains instead.            *)
(***************************************************************************)
NotExpired == {p \in Pending : ~pend[p].expired}
ById(p) == pend[p].id

PollRefresh == pc = "idle" /\ ~stopping /\ RefreshSource("discover")

PollDiscover ==
    /\ pc = "discover" /\ ~stopping
    /\ Discover("fresh")
    /\ failures' = 0

PollFresh ==
    /\ pc = "fresh" /\ ~stopping
    /\ \E items \in Page({p \in NotExpired : ~pend[p].tried}, ById) :
          Attempt(items, 0, "due")

\* next_at orders this page; the model leaves the order of due rows open.
PollDue ==
    LET any(p) == 0 IN
    /\ pc = "due" /\ ~stopping
    /\ \E items \in Page({p \in NotExpired : pend[p].tried /\ pend[p].due}, any) :
          Attempt(items, 0, "clean")

PollCleanup == pc = "clean" /\ ~stopping /\ CleanupPage("refresh", "refresh")

PollRefreshAgain == pc = "refresh" /\ ~stopping /\ RefreshSource("complete")

\* complete, when the drain that set the boundary has nothing left to do.
Finished == cp.boundary # Null /\ cp.discovered /\ NotExpired = {}

EndDrain == cp' = [cp EXCEPT !.boundary = Null, !.expired = 0]

\* An earlier process may have left its drain unfinished.
PollComplete ==
    /\ pc = "complete" /\ ~stopping
    /\ IF Finished THEN EndDrain ELSE UNCHANGED cp
    /\ pc' = IF Finished /\ cp.expired > 0 THEN "raise" ELSE "idle"
    /\ UNCHANGED <<envVars, made, pend, handle, latest, active, failed, back, ccur,
                   failures, result, histVars>>

\* Watch has ErrIncomplete from poll: returned, unless a stop came in between.
Raise ==
    /\ pc = "raise" /\ ~stopping
    /\ Exit("incomplete")
    /\ UNCHANGED <<faults, stateVars, base, sent, owed>>

InPoll == pc \in PollPC \/ (pc \in {"upload", "record"} /\ back # "drefresh")

\* The context is cancelled: the loop's select, or poll's error, leads to finish.
TurnToDrain ==
    /\ stopping /\ (pc = "idle" \/ InPoll)
    /\ pc' = "begin"
    /\ active' = {} /\ failed' = {} /\ back' = "due"
    /\ UNCHANGED <<envVars, stateVars, handle, latest, ccur, failures, result,
                   histVars>>

(***************************************************************************)
(* finish.  The boundary is the newest registration; a drain left over     *)
(* from an earlier process keeps its generation, so paths that had their   *)
(* final attempt do not get another.                                       *)
(***************************************************************************)
DrainBegin == pc = "begin" /\ RefreshSource("boundary")

BeginDrain ==
    LET id == Latest(handle).id IN
    /\ pc = "boundary"
    /\ cp' = [cp EXCEPT
          !.boundary   = IF @ > id THEN @ ELSE id,
          !.generation = IF cp.boundary = Null THEN @ + 1 ELSE @,
          !.discovered = @ /\ cp.boundary # Null /\ cp.boundary >= id]
    /\ pc' = "drefresh"
    /\ UNCHANGED <<envVars, made, pend, handle, latest, active, failed, back, ccur,
                   failures, result, histVars>>

DrainRefresh == pc = "drefresh" /\ RefreshSource("ddiscover")

DrainDiscover == pc = "ddiscover" /\ Discover("final") /\ UNCHANGED failures

\* Mutant: forgets which paths had their final attempt.
UnattemptedAlways == NotExpired

Unattempted == {p \in NotExpired : pend[p].final < cp.generation}

DrainFinal ==
    LET order(p) == pend[p].final * (MaxId + 1) + pend[p].id IN
    /\ pc = "final"
    /\ IF Unattempted = {} /\ cp.discovered
       THEN /\ pc' = "dclean" /\ ccur' = 0
            /\ UNCHANGED <<envVars, stateVars, handle, latest, active, failed, back,
                           failures, result, histVars>>
       ELSE \E items \in Page(Unattempted, order) :
               Attempt(items, cp.generation, "drefresh")

DrainCleanup == pc = "dclean" /\ CleanupPage("dready", "dclean")

\* drainReady looks at the source once more before it trusts the queue.
DrainReady ==
    /\ pc = "dready"
    /\ handle' = source
    /\ ValidateAnchor(source)
    /\ pc' = IF cp'.discovered THEN "dcomplete" ELSE "drefresh"
    /\ UNCHANGED <<envVars, made, pend, latest, active, failed, back, ccur,
                   failures, result, histVars>>

DrainComplete ==
    /\ pc = "dcomplete"
    /\ IF Finished THEN EndDrain ELSE UNCHANGED cp
    /\ Exit(IF Finished /\ cp.expired = 0 THEN "ok" ELSE "incomplete")
    /\ UNCHANGED <<faults, made, pend, base, sent, owed>>

(***************************************************************************)
(* Failures.  An error of the state database ends the process at once; so  *)
(* does one of the source, except that the reads at the head of a poll are *)
(* retried, up to maxPollFailures.  The drain's deadline is such an error. *)
(***************************************************************************)
\* Mutant: tolerates one consecutive failure too many.
SourceFailsOnceMore ==
    /\ pc \in {"idle", "discover"} /\ faults < scenario.faults
    /\ failures + 1 <= MaxFailures
    /\ failures' = failures + 1
    /\ faults' = faults + 1
    /\ pc' = "idle"
    /\ UNCHANGED <<scenario, source, rows, nextId, stopping, stops, stateVars, handle, latest,
                   active, failed, back, ccur, result, histVars>>

SourceFails ==
    /\ pc \in {"idle", "discover"} /\ faults < scenario.faults
    /\ failures + 1 < MaxFailures
    /\ failures' = failures + 1
    /\ faults' = faults + 1
    /\ pc' = "idle"
    /\ UNCHANGED <<scenario, source, rows, nextId, stopping, stops, stateVars, handle, latest,
                   active, failed, back, ccur, result, histVars>>

Fails ==
    /\ pc # "down" /\ faults < scenario.faults
    /\ \/ ~stopping
       \/ ~InPoll /\ pc # "idle"
    /\ pc # "raise"
    /\ LET drain == ~InPoll /\ pc \notin {"idle", "open", "create"} IN
       Exit(IF drain THEN "incomplete" ELSE "error")
    /\ faults' = faults + 1
    /\ UNCHANGED <<stateVars, base, sent, owed>>

Crash ==
    /\ pc # "down" /\ faults < scenario.faults
    /\ Exit("crash")
    /\ faults' = faults + 1
    /\ UNCHANGED <<stateVars, histVars>>

\* Time passes: a backoff ends, a first failure becomes RetryMaxAge old.
BackoffElapses(p) ==
    /\ pend[p].tried /\ ~pend[p].due
    /\ pend' = [pend EXCEPT ![p].due = TRUE]
    /\ UNCHANGED <<envVars, made, cp, procVars, histVars>>

AgeElapses(p) ==
    /\ scenario.expiry /\ pend[p].tried /\ ~pend[p].aged
    /\ pend' = [pend EXCEPT ![p].aged = TRUE]
    /\ UNCHANGED <<envVars, made, cp, procVars, histVars>>

Process ==
    \/ OpenState \/ Initialize
    \/ PollRefresh \/ PollDiscover \/ PollFresh \/ PollDue \/ PollCleanup
    \/ PollRefreshAgain \/ PollComplete \/ Raise \/ TurnToDrain
    \/ DrainBegin \/ BeginDrain \/ DrainRefresh \/ DrainDiscover \/ DrainFinal
    \/ DrainCleanup \/ DrainReady \/ DrainComplete
    \/ Upload \/ Record

Environment ==
    \/ \E p \in Paths : Register(p) \/ Unregister(p)
                        \/ BackoffElapses(p) \/ AgeElapses(p)
    \/ ReplaceSource \/ Stop

Next == Start \/ Process \/ Environment \/ SourceFails \/ Fails \/ Crash

Spec == Init /\ [][Next]_vars

\* The watcher's goroutine keeps running.
FairSpec == Spec /\ WF_vars(Process)

\* Its service is started again, backoffs end, and a path that is tried again and
\* again is delivered at last.
Recovers ==
    /\ WF_vars(Start)
    /\ \A p \in Paths : /\ WF_vars(BackoffElapses(p))
                         /\ SF_vars(Upload /\ p \in active \ failed')

(***************************************************************************)
(* Properties.                                                             *)
(***************************************************************************)

\* A path registered after the watcher's baseline (initializeState) and still
\* valid is never forgotten: it was uploaded, or it has a row in the queue, or
\* discovery will still come to it, past the cursor or through the replay
\* validateAnchor starts.  This holds in every state, so across crashes between
\* any two transactions and replacements of the source database by another file.
NoLostWork ==
    made = "ready" /\ cp.source = source =>
        \A p \in Valid(source) :
            \/ <<source, rows[source][p]>> \in base \cup sent
            \/ p \in Pending
            \/ rows[source][p] > cp.cursor

\* A drain that reports success (finish returns nil) has delivered everything
\* that was valid when the stop was requested and still is, except paths the
\* queue has given up on.
DrainDelivers ==
    result = "ok" =>
        \A p \in Valid(source) :
            LET reg == <<source, rows[source][p]>> IN
            reg \in owed => reg \in base \cup sent \/ p \in Expired

\* When finish decides the outcome, each pending path it has not given up on
\* has used the final upload invocation of this drain: none was left waiting in
\* its backoff.
FinalTried ==
    pc = "dcomplete" => \A p \in NotExpired : pend[p].final = cp.generation

\* What a requested drain promises, whether it reports success or not.
DrainIsHonest == DrainDelivers /\ FinalTried

\* A registration made after the baseline is delivered in the end, through any
\* failed uploads, drains and crashes, unless the path is deleted or given up on,
\* or the state file was left without a checkpoint, which newPoller refuses.  It
\* is promised only to a watcher that is restarted and whose uploads do not fail
\* forever (Recovers).
Delivery ==
    Recovers => \A p \in Paths, id \in 1..MaxId :
        rows[source][p] = id ~>
            \/ rows[source][p] # id \/ <<source, id>> \in base \cup sent
            \/ p \in Expired \/ made = "empty"

\* A requested stop ends the process even when nothing can be uploaded and no
\* deadline is set: the loop in finish gives each path one attempt.
DrainEnds == stopping ~> ~stopping
=============================================================================
