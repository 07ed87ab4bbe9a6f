--------------------------- MODULE UploadClosure ---------------------------
(***************************************************************************)
(* upload.Closure: one call uploads a closure to the server, references    *)
(* before the paths that refer to them, with a bounded number of workers   *)
(* (upload/upload.go).  `run` is the scheduler goroutine; each worker is a  *)
(* goroutine in uploadPath that ends by sending its result.                *)
(*                                                                         *)
(* The reference graph is arbitrary, cycles and self-references included.  *)
(* The server is seen through its answers: a PUT may fail, be rejected, or *)
(* take effect and lose its answer.                                        *)
(***************************************************************************)
EXTENDS Integers, FiniteSets

CONSTANTS
    Paths,      \* the roots of the call and everything they refer to
    Jobs,       \* Options.Jobs
    Attempts    \* Options.Attempts

ASSUME UploadAssumption ==
    IsFiniteSet(Paths) /\ Jobs \in Nat \ {0} /\ Attempts \in Nat \ {0}

VARIABLES
    refs,       \* refs[p]: the references of p
    held,       \* the paths the server holds
    cancelled,  \* ctx
    phase,      \* of Closure: "resolve", "run", "join" or "done"
    metas,      \* the resolved closure
    gone,       \* roots that have left the store
    indeg,      \* g.indeg
    ready,      \* the queue of paths without unmet references
    worker,     \* worker[p]: what the goroutine for p is doing
    tries,      \* tries[p]: failed transfers of p
    outcome,    \* outcome[p]: what p was recorded with
    records     \* records[p]: how often p was recorded

vars == <<refs, held, cancelled, phase, metas, gone, indeg, ready, worker, tries,
          outcome, records>>

Succeeded == {"uploaded", "skipped"}
Failures  == {"error", "depfailed", "cancelled", "cycle", "gone"}
Busy      == {"head", "nar", "info"}

TypeOK ==
    /\ refs \in [Paths -> SUBSET Paths] /\ held \subseteq Paths
    /\ cancelled \in BOOLEAN /\ phase \in {"resolve", "run", "join", "done"}
    /\ metas \subseteq Paths /\ gone \subseteq Paths
    /\ indeg \in [Paths -> Nat] /\ ready \subseteq metas
    /\ worker \in [Paths -> Busy \cup Succeeded \cup {"none", "error"}]
    /\ tries \in [Paths -> 0..(Attempts - 1)]
    /\ outcome \in [Paths -> Succeeded \cup Failures \cup {"none"}]
    /\ records \in [Paths -> Nat]

ClosedUnder(S, r) == \A p \in S : r[p] \subseteq S

\* A server's store always holds the references of what it holds.
Init ==
    /\ refs \in [Paths -> SUBSET Paths]
    /\ held \in {S \in SUBSET Paths : ClosedUnder(S, refs)}
    /\ cancelled = FALSE /\ phase = "resolve"
    /\ metas = {} /\ gone = {} /\ ready = {}
    /\ indeg = [p \in Paths |-> 0]
    /\ worker = [p \in Paths |-> "none"]
    /\ tries = [p \in Paths |-> 0]
    /\ outcome = [p \in Paths |-> "none"]
    /\ records = [p \in Paths |-> 0]

\* Mutant: a path that refers to itself waits for itself.
DepsInWithSelf(p, closure) == refs[p] \cap closure

\* The references of p that are in the closure, itself excepted.
DepsIn(p, closure) == (refs[p] \cap closure) \ {p}

Deps(p) == DepsIn(p, metas)

Active == {p \in Paths : worker[p] # "none"}
Failed == {p \in Paths : outcome[p] \in Failures}

(***************************************************************************)
(* resolveClosure and buildGraph.  A path that is gone is referred to by   *)
(* gone paths only.                                                        *)
(***************************************************************************)
Resolve ==
    /\ phase = "resolve"
    /\ \E lost \in SUBSET Paths :
          /\ ClosedUnder(Paths \ lost, refs)
          /\ gone' = lost
          /\ metas' = Paths \ lost
    /\ indeg' = [p \in Paths |-> Cardinality(DepsIn(p, metas'))]
    /\ ready' = {p \in metas' : indeg'[p] = 0}
    /\ phase' = "run"
    /\ UNCHANGED <<refs, held, cancelled, worker, tries, outcome, records>>

\* `nix path-info` fails for another reason: Closure returns the error.
ResolveFails ==
    /\ phase = "resolve"
    /\ phase' = "done"
    /\ UNCHANGED <<refs, held, cancelled, metas, gone, indeg, ready, worker, tries,
                   outcome, records>>

(***************************************************************************)
(* run, the scheduler.                                                     *)
(***************************************************************************)
Record(p, o) ==
    /\ outcome' = [outcome EXCEPT ![p] = o]
    /\ records' = [records EXCEPT ![p] = @ + 1]

\* Mutant: a path is ready as soon as one of its references is done.
AdvanceOnFirst(p, queue) ==
    /\ indeg' = [q \in Paths |-> IF q \in metas /\ p \in Deps(q) THEN 0 ELSE indeg[q]]
    /\ ready' = queue \cup {q \in metas : p \in Deps(q) /\ indeg[q] # 0}

\* advance: p is done, and what waited only for p becomes ready.
Advance(p, queue) ==
    /\ indeg' = [q \in Paths |-> IF q \in metas /\ p \in Deps(q) THEN indeg[q] - 1
                                                             ELSE indeg[q]]
    /\ ready' = queue \cup {q \in metas : p \in Deps(q) /\ indeg[q] = 1}

Filling == phase = "run" /\ Cardinality(Active) < Jobs

HasFailedDep(p) == \E q \in Deps(p) : q \in Failed

\* A ready path whose reference failed, or after a cancellation, is not tried.
RecordUntried(p) ==
    /\ Filling /\ p \in ready
    /\ cancelled \/ HasFailedDep(p)
    /\ Record(p, IF HasFailedDep(p) THEN "depfailed" ELSE "cancelled")
    /\ Advance(p, ready \ {p})
    /\ UNCHANGED <<refs, held, cancelled, phase, metas, gone, worker, tries>>

StartWorker(p) ==
    /\ Filling /\ p \in ready
    /\ ~cancelled /\ ~HasFailedDep(p)
    /\ worker' = [worker EXCEPT ![p] = "head"]
    /\ ready' = ready \ {p}
    /\ UNCHANGED <<refs, held, cancelled, phase, metas, gone, indeg, tries, outcome,
                   records>>

\* The scheduler takes a result once it cannot start more workers.
Receive(p) ==
    /\ phase = "run" /\ (ready = {} \/ ~Filling)
    /\ worker[p] \in Succeeded \cup {"error"}
    /\ Record(p, worker[p])
    /\ worker' = [worker EXCEPT ![p] = "none"]
    /\ Advance(p, ready)
    /\ UNCHANGED <<refs, held, cancelled, phase, metas, gone, tries>>

Join ==
    /\ phase = "run" /\ ready = {} /\ Active = {}
    /\ phase' = "join"
    /\ UNCHANGED <<refs, held, cancelled, metas, gone, indeg, ready, worker, tries,
                   outcome, records>>

\* What never became ready is in or behind a cycle; Closure adds the gone roots.
Finish ==
    /\ phase = "join"
    /\ LET rest == {p \in metas : records[p] = 0} IN
       /\ outcome' = [p \in Paths |-> IF p \in rest THEN "cycle"
                                      ELSE IF p \in gone THEN "gone" ELSE outcome[p]]
       /\ records' = [p \in Paths |-> IF p \in rest \cup gone THEN records[p] + 1
                                                              ELSE records[p]]
    /\ phase' = "done"
    /\ UNCHANGED <<refs, held, cancelled, metas, gone, indeg, ready, worker, tries>>

(***************************************************************************)
(* uploadPath, in the worker for p: a presence check, then transfers until *)
(* one succeeds, is rejected for good, or the attempts are used up.        *)
(***************************************************************************)
Become(p, w) == worker' = [worker EXCEPT ![p] = w]

\* A check that fails is taken for "not there".
HeadNarInfo(p) ==
    /\ worker[p] = "head"
    /\ \/ p \in held /\ Become(p, "skipped")
       \/ Become(p, "nar")
    /\ UNCHANGED <<refs, held, cancelled, phase, metas, gone, indeg, ready, tries,
                   outcome, records>>

PutNar(p) ==
    /\ worker[p] = "nar"
    /\ Become(p, "info")
    /\ UNCHANGED <<refs, held, cancelled, phase, metas, gone, indeg, ready, tries,
                   outcome, records>>

\* Mutant: a lost answer to the narinfo counts as success.
TransferFailsQuietly(p) ==
    /\ worker[p] \in {"nar", "info"}
    /\ Become(p, IF worker[p] = "info" THEN "uploaded" ELSE "error")
    /\ UNCHANGED <<refs, held, cancelled, phase, metas, gone, indeg, ready, tries,
                   outcome, records>>

\* Mutant: one attempt too many.
TransferFailsOnceMore(p) ==
    /\ worker[p] \in {"nar", "info"}
    /\ \E permanent \in BOOLEAN :
          IF permanent \/ cancelled \/ tries[p] = Attempts
          THEN Become(p, "error") /\ UNCHANGED tries
          ELSE /\ Become(p, "nar")
               /\ tries' = [tries EXCEPT ![p] = @ + 1]
    /\ UNCHANGED <<refs, held, cancelled, phase, metas, gone, indeg, ready, outcome,
                   records>>

\* Mutant: retries without a bound.
TransferFailsForever(p) ==
    /\ worker[p] \in {"nar", "info"}
    /\ \/ Become(p, "error")
       \/ ~cancelled /\ Become(p, "nar")
    /\ UNCHANGED <<refs, held, cancelled, phase, metas, gone, indeg, ready, tries,
                   outcome, records>>

\* backoff.Retry: a transient error of either PUT repeats the whole transfer; a
\* permanent one, the last attempt or a cancellation ends it.  A narinfo whose
\* answer is lost may have been imported.
TransferFails(p) ==
    /\ worker[p] \in {"nar", "info"}
    /\ \E permanent \in BOOLEAN :
          IF permanent \/ cancelled \/ tries[p] + 1 = Attempts
          THEN Become(p, "error") /\ UNCHANGED tries
          ELSE /\ Become(p, "nar")
               /\ tries' = [tries EXCEPT ![p] = @ + 1]
    /\ \/ UNCHANGED held
       \/ worker[p] = "info" /\ refs[p] \subseteq held \cup {p} /\ held' = held \cup {p}
    /\ UNCHANGED <<refs, cancelled, phase, metas, gone, indeg, ready, outcome, records>>

\* The server imports a path only when it holds the references.
PutNarInfo(p) ==
    /\ worker[p] = "info"
    /\ refs[p] \subseteq held \cup {p}
    /\ held' = held \cup {p}
    /\ Become(p, "uploaded")
    /\ UNCHANGED <<refs, cancelled, phase, metas, gone, indeg, ready, tries, outcome,
                   records>>

Cancel ==
    /\ phase = "run" /\ ~cancelled
    /\ cancelled' = TRUE
    /\ UNCHANGED <<refs, held, phase, metas, gone, indeg, ready, worker, tries,
                   outcome, records>>

Scheduler ==
    \/ Resolve \/ ResolveFails \/ Join \/ Finish
    \/ \E p \in Paths : RecordUntried(p) \/ StartWorker(p) \/ Receive(p)

Worker(p) == HeadNarInfo(p) \/ PutNar(p) \/ TransferFails(p) \/ PutNarInfo(p)

Next == Scheduler \/ Cancel \/ \E p \in Paths : Worker(p)

Spec == Init /\ [][Next]_vars

\* Both kinds of goroutine run; requests are bounded by timeouts, so they end.
Fairness == WF_vars(Scheduler) /\ \A p \in Paths : WF_vars(Worker(p))

FairSpec == Spec /\ Fairness

(***************************************************************************)
(* Properties.                                                             *)
(***************************************************************************)

\* No transfer begins before the server holds every reference of the path, for
\* any reference graph, number of workers and mix of failures: the server would
\* reject the import (advance and hasFailedDep).
RefsFirst ==
    \A p \in Paths : worker[p] \in {"nar", "info"} => refs[p] \ {p} \subseteq held

\* Closure accounts for every root: when it returns, each path has been recorded
\* exactly once, whether delivered, failed, skipped, cyclic or gone.
RecordedOnce ==
    /\ \A p \in Paths : records[p] <= 1
    /\ phase = "done" /\ metas \cup gone # {} => \A p \in Paths : records[p] = 1

\* What watch relies on to retire a path: a path recorded without error is on the
\* server together with its whole closure.
RecordedDelivered ==
    \A p \in Paths : outcome[p] \in Succeeded =>
        {p} \cup refs[p] \subseteq held

\* What Closure records of each path, both in number and in kind.
RecordedRight == RecordedOnce /\ RecordedDelivered

\* The "reference cycle" error is only given to a path from which references lead
\* into a cycle, even when failures and cancellation empty the queue early.
CycleIsReal ==
    \A p \in Paths : outcome[p] = "cycle" =>
        \E S \in SUBSET metas : p \in S /\ \A q \in S : (refs[q] \ {q}) \cap S # {}

\* Closure returns, for every graph and whatever fails.
Returns == <>(phase = "done")
=============================================================================
