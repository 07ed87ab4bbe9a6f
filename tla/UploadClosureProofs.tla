------------------------ MODULE UploadClosureProofs ------------------------
(***************************************************************************)
(* Proofs about UploadClosure, for every finite closure, reference graph,  *)
(* number of workers and number of attempts.                               *)
(*                                                                         *)
(* The scheduler counts unmet references in indeg and never looks at the   *)
(* references again.  The invariant says what the count means: it is the   *)
(* number of references not recorded yet, and a path that has left the     *)
(* waiting stage has none.                                                 *)
(***************************************************************************)
EXTENDS UploadClosure, FiniteSetTheorems, TLAPS

Unmet(q) == {d \in Deps(q) : records[d] = 0}

\* The stages of a path exclude each other, and a record is a stage.
Stages ==
    /\ \A p \in Paths : records[p] \in {0, 1}
    /\ \A p \in Paths : records[p] = 0 <=> outcome[p] = "none"
    /\ \A p \in Paths : worker[p] # "none" => phase = "run" /\ p \in metas /\ records[p] = 0
    /\ \A p \in ready : phase = "run" /\ records[p] = 0 /\ worker[p] = "none"

\* What resolveClosure established.
Resolved ==
    /\ phase = "resolve" => /\ metas = {} /\ gone = {}
                            /\ \A p \in Paths : records[p] = 0
    /\ phase \in {"run", "join"} =>
          /\ metas = Paths \ gone
          /\ ClosedUnder(metas, refs)
          /\ \A p \in gone : records[p] = 0
    /\ phase = "done" =>
          metas \cup gone = {} \/ (\A p \in Paths : records[p] = 1)

\* indeg is the number of unmet references.
Counted == phase = "run" => \A q \in metas : indeg[q] = Cardinality(Unmet(q))

\* Only a path without unmet references is ready, running or recorded.
Waits ==
    phase = "run" => \A p \in metas :
        p \in ready \/ worker[p] # "none" \/ records[p] # 0 => indeg[p] = 0

\* A worker runs only on top of references that were delivered.
Grounded ==
    /\ \A p \in Paths : outcome[p] \in Succeeded \/ worker[p] \in Succeeded => p \in held
    /\ \A p \in Paths : worker[p] # "none" => \A d \in Deps(p) : outcome[d] \in Succeeded

IInv == TypeOK /\ Stages /\ Resolved /\ Counted /\ Waits /\ Grounded

-----------------------------------------------------------------------------
(***************************************************************************)
(* Counting.                                                               *)
(***************************************************************************)

\* The sets whose sizes indeg keeps are finite.
LEMMA DepsFinite ==
    ASSUME NEW q, NEW S \in SUBSET Paths
    PROVE  IsFiniteSet(DepsIn(q, S)) /\ Cardinality(DepsIn(q, S)) \in Nat
<1>1. DepsIn(q, S) \in SUBSET Paths
  BY DEF DepsIn
<1>2. IsFiniteSet(DepsIn(q, S))
  BY <1>1, UploadAssumption, FS_Subset
<1> QED BY <1>2, FS_CardinalityType

LEMMA UnmetFinite ==
    ASSUME TypeOK, NEW q
    PROVE  /\ IsFiniteSet(Unmet(q)) /\ Cardinality(Unmet(q)) \in Nat
           /\ Cardinality(Unmet(q)) = 0 => Unmet(q) = {}
<1>1. Unmet(q) \in SUBSET Deps(q)
  BY DEF Unmet
<1>2. IsFiniteSet(Deps(q))
  BY DepsFinite DEF Deps, TypeOK
<1>3. IsFiniteSet(Unmet(q))
  BY <1>1, <1>2, FS_Subset
<1> QED BY <1>3, FS_CardinalityType, FS_EmptySet

\* Recording p and advancing past it keeps the count exact: each path that
\* refers to p loses one unmet reference, and p is the one it loses.
LEMMA AdvanceCounts ==
    ASSUME IInv, phase = "run", NEW p \in metas, records[p] = 0,
           NEW o, NEW queue, Record(p, o), Advance(p, queue),
           UNCHANGED <<refs, metas>>
    PROVE  /\ indeg' \in [Paths -> Nat]
           /\ \A q \in metas : indeg'[q] = Cardinality(Unmet(q)')
           /\ \A q \in metas : p \in Deps(q) => indeg[q] > 0 /\ indeg'[q] = indeg[q] - 1
           /\ \A q \in metas : p \notin Deps(q) => indeg'[q] = indeg[q]
<1> USE DEF IInv
<1>1. /\ indeg \in [Paths -> Nat] /\ metas \subseteq Paths
      /\ records \in [Paths -> Nat] /\ p \in Paths
  BY DEF TypeOK
<1>2. \A q \in Paths : Deps(q)' = Deps(q)
  BY DEF Deps, DepsIn
<1>3. ASSUME NEW q \in metas
      PROVE  Unmet(q)' = Unmet(q) \ {p}
  <2>1. \A d \in Paths : records'[d] = IF d = p THEN records[p] + 1 ELSE records[d]
    BY <1>1 DEF Record
  <2>2. Deps(q) \subseteq Paths
    BY <1>1 DEF Deps, DepsIn
  <2> QED BY <1>1, <1>2, <2>1, <2>2 DEF Unmet
<1>4. ASSUME NEW q \in metas
      PROVE  Cardinality(Unmet(q)') = IF p \in Deps(q) THEN Cardinality(Unmet(q)) - 1
                                                       ELSE Cardinality(Unmet(q))
  <2>1. p \in Unmet(q) <=> p \in Deps(q)
    BY DEF Unmet
  <2> QED BY <1>3, <2>1, UnmetFinite, FS_RemoveElement
<1>5. ASSUME NEW q \in metas, p \in Deps(q)
      PROVE  indeg[q] > 0
  <2>1. Unmet(q) # {}
    BY <1>5 DEF Unmet
  <2>2. indeg[q] = Cardinality(Unmet(q)) /\ indeg[q] \in Nat
    BY <1>1 DEF Counted
  <2> QED BY <2>1, <2>2, UnmetFinite
<1>6. \A q \in Paths : indeg'[q] = IF q \in metas /\ p \in Deps(q) THEN indeg[q] - 1
                                                             ELSE indeg[q]
  BY <1>1 DEF Advance
<1>7. indeg' \in [Paths -> Nat]
  <2>1. \A q \in Paths : indeg'[q] \in Nat
    BY <1>1, <1>5, <1>6
  <2> QED BY <2>1 DEF Advance
<1>8. \A q \in metas : indeg'[q] = Cardinality(Unmet(q)')
  BY <1>1, <1>4, <1>6 DEF Counted
<1> QED BY <1>1, <1>5, <1>6, <1>7, <1>8

-----------------------------------------------------------------------------
LEMMA InitIInv == Init => IInv
<1> SUFFICES ASSUME Init PROVE IInv
  OBVIOUS
<1>1. 0 \in 0..(Attempts - 1)
  BY UploadAssumption
<1>2. [p \in Paths |-> 0] \in [Paths -> 0..(Attempts - 1)]
  BY <1>1
<1>3. TypeOK
  BY <1>2 DEF Init, TypeOK, Busy, Succeeded
<1> QED BY <1>3 DEF Init, IInv, Stages, Resolved, Counted, Waits, Grounded, Succeeded

\* Resolve counts every reference of the closure, none of which is recorded.
LEMMA ResolveKeeps == IInv /\ Resolve => IInv'
<1> SUFFICES ASSUME IInv, Resolve PROVE IInv'
  OBVIOUS
<1> USE DEF IInv
<1>1. /\ metas' = Paths \ gone' /\ gone' \subseteq Paths
      /\ ClosedUnder(metas', refs)
      /\ \A p \in Paths : records[p] = 0 /\ outcome[p] = "none" /\ worker[p] = "none"
  BY DEF Resolve, Resolved, Stages
<1>2. \A p \in Paths : /\ IsFiniteSet(DepsIn(p, metas'))
                       /\ Cardinality(DepsIn(p, metas')) \in Nat
  BY <1>1, DepsFinite
<1>3. indeg' = [p \in Paths |-> Cardinality(DepsIn(p, metas'))]
  BY DEF Resolve
<1>4. TypeOK'
  <2>1. indeg' \in [Paths -> Nat]
    BY <1>2, <1>3
  <2>2. ready' \subseteq metas' /\ metas' \subseteq Paths
    BY <1>1 DEF Resolve
  <2> QED BY <1>1, <2>1, <2>2 DEF TypeOK, Resolve
<1>5. Stages'
  BY <1>1, <1>4 DEF Resolve, Stages, TypeOK
<1>6. Resolved'
  BY <1>1, <1>4 DEF Resolve, Resolved, TypeOK, ClosedUnder
<1>7. Counted'
  <2>1. ASSUME NEW q \in metas' PROVE Unmet(q)' = DepsIn(q, metas')
    BY <1>1, <2>1 DEF Unmet, Deps, DepsIn, Resolve
  <2> QED BY <1>1, <1>3, <2>1 DEF Counted
<1>8. Waits'
  BY <1>1 DEF Waits, Resolve
<1>9. Grounded'
  BY <1>1 DEF Grounded, Resolve, Succeeded
<1> QED BY <1>4, <1>5, <1>6, <1>7, <1>8, <1>9

LEMMA RecordUntriedKeeps ==
    ASSUME IInv, NEW p \in Paths, RecordUntried(p)
    PROVE  IInv'
<1> USE DEF IInv
<1> DEFINE o == IF HasFailedDep(p) THEN "depfailed" ELSE "cancelled"
<1>1. /\ phase = "run" /\ p \in metas /\ records[p] = 0 /\ p \in ready
      /\ Record(p, o) /\ Advance(p, ready \ {p})
      /\ UNCHANGED <<refs, held, cancelled, phase, metas, gone, worker, tries>>
  BY DEF RecordUntried, Filling, Stages, TypeOK
<1>2. /\ indeg' \in [Paths -> Nat]
      /\ \A q \in metas : indeg'[q] = Cardinality(Unmet(q)')
      /\ \A q \in metas : p \in Deps(q) => indeg[q] > 0 /\ indeg'[q] = indeg[q] - 1
      /\ \A q \in metas : p \notin Deps(q) => indeg'[q] = indeg[q]
  BY <1>1, AdvanceCounts
<1>3. /\ \A q \in Paths : records'[q] = IF q = p THEN 1 ELSE records[q]
      /\ \A q \in Paths : outcome'[q] = IF q = p THEN o ELSE outcome[q]
      /\ o \in Failures /\ o # "none" /\ o \notin Succeeded
  BY <1>1 DEF Record, TypeOK, Failures, Succeeded
<1>4. /\ ready' \subseteq metas /\ p \notin ready'
      /\ \A q \in ready' : q \in ready \/ (indeg[q] = 1 /\ p \in Deps(q))
  BY <1>1 DEF Advance, TypeOK, Deps, DepsIn
<1>5. TypeOK'
  <2>1. records' \in [Paths -> Nat]
    BY <1>1 DEF Record, TypeOK
  <2>2. outcome' \in [Paths -> Succeeded \cup Failures \cup {"none"}]
    BY <1>1, <1>3 DEF Record, TypeOK
  <2> QED BY <1>1, <1>2, <1>4, <2>1, <2>2 DEF TypeOK
<1>6. Stages'
  BY <1>1, <1>3, <1>4 DEF Stages, Waits, TypeOK
<1>7. Resolved'
  BY <1>1, <1>3 DEF Resolved, ClosedUnder, TypeOK
<1>8. Counted' /\ Waits'
  BY <1>1, <1>2, <1>3, <1>4 DEF Counted, Waits, Stages, TypeOK
<1>9. Grounded'
  BY <1>1, <1>3 DEF Grounded, Deps, DepsIn, Stages, TypeOK, Succeeded
<1> QED BY <1>5, <1>6, <1>7, <1>8, <1>9

LEMMA StartWorkerKeeps ==
    ASSUME IInv, NEW p \in Paths, StartWorker(p)
    PROVE  IInv'
<1> USE DEF IInv
<1>1. /\ phase = "run" /\ p \in metas /\ records[p] = 0 /\ p \in ready
      /\ worker[p] = "none" /\ indeg[p] = 0 /\ ~HasFailedDep(p)
      /\ worker' = [worker EXCEPT ![p] = "head"] /\ ready' = ready \ {p}
      /\ UNCHANGED <<refs, held, cancelled, phase, metas, gone, indeg, tries,
                     outcome, records>>
  BY DEF StartWorker, Filling, Stages, Waits, TypeOK
<1>2. \A d \in Deps(p) : outcome[d] \in Succeeded
  <2>1. Unmet(p) = {}
    BY <1>1, UnmetFinite DEF Counted
  <2>2. ASSUME NEW d \in Deps(p) PROVE outcome[d] \in Succeeded
    <3>1. d \in Paths /\ records[d] # 0
      BY <2>1 DEF Unmet, Deps, DepsIn, TypeOK
    <3>2. outcome[d] # "none" /\ outcome[d] \notin Failures
      BY <1>1, <3>1 DEF HasFailedDep, Failed, Stages
    <3> QED BY <3>1, <3>2 DEF TypeOK
  <2> QED BY <2>2
<1>3. TypeOK'
  BY <1>1 DEF TypeOK, Busy
<1>4. Stages' /\ Resolved'
  BY <1>1 DEF Stages, Resolved, TypeOK, ClosedUnder
<1>5. Counted' /\ Waits'
  BY <1>1 DEF Counted, Waits, Unmet, Deps, DepsIn, TypeOK
<1>6. Grounded'
  BY <1>1, <1>2 DEF Grounded, Deps, DepsIn, TypeOK, Succeeded
<1> QED BY <1>3, <1>4, <1>5, <1>6

LEMMA ReceiveKeeps ==
    ASSUME IInv, NEW p \in Paths, Receive(p)
    PROVE  IInv'
<1> USE DEF IInv
<1> DEFINE o == worker[p]
<1>1. /\ phase = "run" /\ p \in metas /\ records[p] = 0 /\ o # "none"
      /\ Record(p, o) /\ Advance(p, ready) /\ worker' = [worker EXCEPT ![p] = "none"]
      /\ UNCHANGED <<refs, held, cancelled, phase, metas, gone, tries>>
      /\ o \in Succeeded \cup {"error"}
  BY DEF Receive, Stages, TypeOK, Succeeded
<1>2. /\ indeg' \in [Paths -> Nat]
      /\ \A q \in metas : indeg'[q] = Cardinality(Unmet(q)')
      /\ \A q \in metas : p \in Deps(q) => indeg[q] > 0 /\ indeg'[q] = indeg[q] - 1
      /\ \A q \in metas : p \notin Deps(q) => indeg'[q] = indeg[q]
  BY <1>1, AdvanceCounts
<1>3. /\ \A q \in Paths : records'[q] = IF q = p THEN 1 ELSE records[q]
      /\ \A q \in Paths : outcome'[q] = IF q = p THEN o ELSE outcome[q]
      /\ \A q \in Paths : worker'[q] = IF q = p THEN "none" ELSE worker[q]
  BY <1>1 DEF Record, TypeOK
<1>4. /\ ready' \subseteq metas /\ p \notin ready'
      /\ \A q \in ready' : q \in ready \/ (indeg[q] = 1 /\ p \in Deps(q))
  BY <1>1 DEF Advance, Stages, TypeOK, Deps, DepsIn
<1>5. TypeOK'
  <2>1. records' \in [Paths -> Nat]
    BY <1>1 DEF Record, TypeOK
  <2>2. outcome' \in [Paths -> Succeeded \cup Failures \cup {"none"}]
    BY <1>1 DEF Record, TypeOK, Failures
  <2> QED BY <1>1, <1>2, <1>4, <2>1, <2>2 DEF TypeOK
<1>6. Stages'
  BY <1>1, <1>3, <1>4 DEF Stages, Waits, TypeOK
<1>7. Resolved'
  BY <1>1, <1>3 DEF Resolved, ClosedUnder, TypeOK
<1>8. Counted' /\ Waits'
  BY <1>1, <1>2, <1>3, <1>4 DEF Counted, Waits, Stages, TypeOK
<1>9. Grounded'
  <2>1. \A q \in Paths : Deps(q)' = Deps(q) /\ Deps(q) \subseteq Paths
    BY <1>1 DEF Deps, DepsIn, TypeOK
  <2>2. \A q \in Paths : worker'[q] # "none" => p \notin Deps(q)
    BY <1>1, <1>3, <2>1 DEF Grounded, Stages, Succeeded
  <2> QED BY <1>1, <1>3, <2>1, <2>2 DEF Grounded, Succeeded
<1> QED BY <1>5, <1>6, <1>7, <1>8, <1>9

LEMMA FinishKeeps == IInv /\ Finish => IInv'
<1> SUFFICES ASSUME IInv, Finish PROVE IInv'
  OBVIOUS
<1> USE DEF IInv
<1>1. /\ phase = "join" /\ phase' = "done" /\ metas = Paths \ gone
      /\ UNCHANGED <<refs, held, cancelled, metas, gone, indeg, ready, worker, tries>>
      /\ \A p \in gone : records[p] = 0 /\ outcome[p] = "none"
  BY DEF Finish, Resolved, Stages, TypeOK
<1>2. \A p \in Paths : /\ records'[p] = 1
                       /\ outcome'[p] = IF p \in metas /\ records[p] = 0 THEN "cycle"
                                        ELSE IF p \in gone THEN "gone" ELSE outcome[p]
  BY <1>1 DEF Finish, Stages, TypeOK
<1>3. TypeOK'
  <2>1. records' \in [Paths -> Nat]
    BY <1>2 DEF Finish, TypeOK
  <2>2. outcome' \in [Paths -> Succeeded \cup Failures \cup {"none"}]
    BY <1>2 DEF Finish, TypeOK, Failures
  <2> QED BY <1>1, <2>1, <2>2 DEF TypeOK
<1>4. Stages' /\ Resolved'
  BY <1>1, <1>2, <1>3 DEF Stages, Resolved, TypeOK
<1>5. Counted' /\ Waits'
  BY <1>1 DEF Counted, Waits
<1>6. Grounded'
  BY <1>1, <1>2 DEF Grounded, Succeeded, Stages, TypeOK
<1> QED BY <1>3, <1>4, <1>5, <1>6

\* What a worker's own step may change: its stage, and the server.
LEMMA WorkerKeeps ==
    ASSUME IInv, NEW p \in Paths, Worker(p)
    PROVE  IInv'
<1> USE DEF IInv
<1>1. /\ worker[p] \in Busy
      /\ UNCHANGED <<refs, cancelled, phase, metas, gone, indeg, ready, outcome,
                     records>>
      /\ held \subseteq held' /\ held' \subseteq Paths
      /\ tries' \in [Paths -> 0..(Attempts - 1)]
  <2>1. CASE HeadNarInfo(p)
    BY <2>1 DEF HeadNarInfo, Busy, TypeOK
  <2>2. CASE PutNar(p)
    BY <2>2 DEF PutNar, Busy, TypeOK
  <2>3. CASE TransferFails(p)
    <3>1. tries[p] + 1 # Attempts => tries[p] + 1 \in 0..(Attempts - 1)
      BY UploadAssumption DEF TypeOK
    <3>2. tries' \in [Paths -> 0..(Attempts - 1)]
      BY <2>3, <3>1 DEF TransferFails, TypeOK
    <3> QED BY <2>3, <3>2 DEF TransferFails, Busy, TypeOK
  <2>4. CASE PutNarInfo(p)
    BY <2>4 DEF PutNarInfo, Busy, TypeOK
  <2> QED BY <2>1, <2>2, <2>3, <2>4 DEF Worker
<1>2. PICK w \in Busy \cup Succeeded \cup {"error"} :
        worker' = [worker EXCEPT ![p] = w] /\ (w \in Succeeded => p \in held')
  BY DEF Worker, HeadNarInfo, PutNar, TransferFails, PutNarInfo, Become, Busy,
         Succeeded
<1>3. /\ \A q \in Paths : worker'[q] = IF q = p THEN w ELSE worker[q]
      /\ w # "none" /\ worker[p] # "none"
  BY <1>1, <1>2 DEF TypeOK, Busy, Succeeded
<1>4. TypeOK'
  BY <1>1, <1>2 DEF TypeOK
<1>5. Stages' /\ Resolved'
  BY <1>1, <1>3 DEF Stages, Resolved, ClosedUnder, TypeOK
<1>6. Counted' /\ Waits'
  BY <1>1, <1>3 DEF Counted, Waits, Unmet, Deps, DepsIn, TypeOK
<1>7. Grounded'
  <2>1. \A q \in Paths : Deps(q)' = Deps(q)
    BY <1>1 DEF Deps, DepsIn
  <2> QED BY <1>1, <1>2, <1>3, <2>1 DEF Grounded
<1> QED BY <1>4, <1>5, <1>6, <1>7

LEMMA NextIInv == IInv /\ [Next]_vars => IInv'
<1> SUFFICES ASSUME IInv, [Next]_vars PROVE IInv'
  OBVIOUS
<1> USE DEF IInv
<1>1. CASE Resolve
  BY <1>1, ResolveKeeps
<1>2. CASE ResolveFails
  BY <1>2 DEF ResolveFails, TypeOK, Stages, Resolved, Counted, Waits, Grounded, Deps,
              DepsIn
<1>3. CASE Join
  BY <1>3 DEF Join, Active, TypeOK, Stages, Resolved, Counted, Waits, Grounded, Deps,
              DepsIn, ClosedUnder
<1>4. CASE Finish
  BY <1>4, FinishKeeps
<1>5. CASE Cancel
  BY <1>5 DEF Cancel, TypeOK, Stages, Resolved, Counted, Waits, Grounded, Deps, DepsIn,
              Unmet, ClosedUnder
<1>6. CASE \E p \in Paths : RecordUntried(p) \/ StartWorker(p) \/ Receive(p) \/ Worker(p)
  BY <1>6, RecordUntriedKeeps, StartWorkerKeeps, ReceiveKeeps, WorkerKeeps
<1>7. CASE UNCHANGED vars
  BY <1>7 DEF vars, TypeOK, Stages, Resolved, Counted, Waits, Grounded, Deps, DepsIn,
              Unmet, ClosedUnder
<1> QED BY <1>1, <1>2, <1>3, <1>4, <1>5, <1>6, <1>7 DEF Next, Scheduler

\* The invariant holds in every reachable state: the scheduler's counters always
\* mean what advance and ready take them to mean.
THEOREM InvariantCorrect == Spec => []IInv
<1> QED BY InitIInv, NextIInv, PTL DEF Spec

\* Type correctness, indeg never going negative included.
THEOREM TypeCorrect == Spec => []TypeOK
<1>1. IInv => TypeOK
  BY DEF IInv
<1> QED BY <1>1, InvariantCorrect, PTL

\* No transfer begins before the server holds the references of the path: for
\* every graph, degree of parallelism and pattern of failures.
THEOREM RefsFirstCorrect == Spec => []RefsFirst
<1>1. ASSUME IInv PROVE RefsFirst
  <2> SUFFICES ASSUME NEW p \in Paths, worker[p] \in {"nar", "info"}
               PROVE  refs[p] \ {p} \subseteq held
    BY DEF RefsFirst
  <2>1. phase = "run" /\ p \in metas
    BY <1>1 DEF IInv, Stages
  <2>2. refs[p] \ {p} = Deps(p)
    BY <1>1, <2>1 DEF IInv, Resolved, ClosedUnder, Deps, DepsIn
  <2>3. \A d \in Deps(p) : d \in Paths /\ outcome[d] \in Succeeded
    BY <1>1 DEF IInv, Grounded, TypeOK, Deps, DepsIn
  <2> QED BY <1>1, <2>2, <2>3 DEF IInv, Grounded
<1> QED BY <1>1, InvariantCorrect, PTL

\* Every path of the call is recorded exactly once before Closure returns.
THEOREM RecordedOnceCorrect == Spec => []RecordedOnce
<1>1. IInv => RecordedOnce
  BY DEF IInv, RecordedOnce, Stages, Resolved, TypeOK
<1> QED BY <1>1, InvariantCorrect, PTL

\* A path recorded without error is on the server with its references, which is
\* why watch may retire it: the server's store stays closed under references.
THEOREM RecordedDeliveredCorrect == Spec => []RecordedDelivered
<1> DEFINE HeldClosed == ClosedUnder(held, refs)
<1>1. Init => HeldClosed
  BY DEF Init
<1>2. HeldClosed /\ [Next]_vars => HeldClosed'
  <2> SUFFICES ASSUME HeldClosed, [Next]_vars PROVE HeldClosed'
    OBVIOUS
  <2> USE DEF ClosedUnder
  <2>1. CASE UNCHANGED <<held, refs>>
    BY <2>1
  <2>2. ASSUME NEW p \in Paths, TransferFails(p) \/ PutNarInfo(p) PROVE HeldClosed'
    BY <2>2 DEF TransferFails, PutNarInfo
  <2>3. ASSUME NEW p \in Paths, HeadNarInfo(p) \/ PutNar(p) PROVE UNCHANGED <<held, refs>>
    BY <2>3 DEF HeadNarInfo, PutNar
  <2>4. ASSUME Scheduler \/ Cancel PROVE UNCHANGED <<held, refs>>
    BY <2>4 DEF Scheduler, Resolve, ResolveFails, Join, Finish, RecordUntried,
               StartWorker, Receive, Cancel
  <2> QED BY <2>1, <2>2, <2>3, <2>4 DEF Next, Worker, vars
<1>3. IInv /\ HeldClosed => RecordedDelivered
  BY DEF IInv, Grounded, RecordedDelivered, ClosedUnder
<1> QED BY <1>1, <1>2, <1>3, InvariantCorrect, PTL DEF Spec

\* Both together: what Closure records is complete and true.
THEOREM RecordedRightCorrect == Spec => []RecordedRight
<1>1. RecordedOnce /\ RecordedDelivered => RecordedRight
  BY DEF RecordedRight
<1> QED BY <1>1, RecordedOnceCorrect, RecordedDeliveredCorrect, PTL

-----------------------------------------------------------------------------
(***************************************************************************)
(* Why what is left over when the queue runs dry is a cycle: the converse  *)
(* of Waits.  The scheduler forgets no path, so a path without unmet       *)
(* references is in the queue, running or recorded; what is none of these  *)
(* waits for another path that is none of these.                           *)
(***************************************************************************)
Forgotten(q) == q \notin ready /\ worker[q] = "none" /\ records[q] = 0

Stuck ==
    /\ phase = "run" => \A q \in metas : Forgotten(q) => indeg[q] # 0
    /\ phase = "join" => \A q \in metas : records[q] = 0 => Unmet(q) # {}
    /\ phase # "done" => \A q \in Paths : outcome[q] # "cycle"

\* advance puts a path into the queue when its last reference is recorded.
LEMMA AdvanceForgetsNone ==
    ASSUME IInv, Stuck, phase = "run", NEW p \in metas, records[p] = 0,
           NEW o \in (Succeeded \cup Failures) \ {"cycle"}, NEW queue,
           ready \ {p} \subseteq queue, Record(p, o), Advance(p, queue),
           \A q \in Paths \ {p} : worker'[q] = worker[q],
           UNCHANGED <<refs, metas, phase>>
    PROVE  Stuck'
<1>1. \A q \in metas : /\ p \in Deps(q) => indeg[q] > 0 /\ indeg'[q] = indeg[q] - 1
                       /\ p \notin Deps(q) => indeg'[q] = indeg[q]
  BY AdvanceCounts
<1>2. /\ metas \subseteq Paths /\ indeg \in [Paths -> Nat]
      /\ records \in [Paths -> Nat] /\ outcome \in [Paths -> Succeeded \cup Failures \cup {"none"}]
  BY DEF IInv, TypeOK
<1>3. /\ \A q \in Paths : records'[q] = IF q = p THEN 1 ELSE records[q]
      /\ \A q \in Paths : outcome'[q] = IF q = p THEN o ELSE outcome[q]
  BY <1>2 DEF Record
<1>4. ASSUME NEW q \in metas, Forgotten(q)' PROVE indeg'[q] # 0
  <2>1. q # p /\ worker[q] = "none" /\ records[q] = 0 /\ q \notin ready
    BY <1>2, <1>3, <1>4 DEF Forgotten, Advance
  <2>2. indeg[q] # 0 /\ ~(p \in Deps(q) /\ indeg[q] = 1)
    BY <1>4, <2>1 DEF Stuck, Forgotten, Advance
  <2> QED BY <1>1, <1>2, <2>2
<1> QED BY <1>2, <1>3, <1>4 DEF Stuck

LEMMA StuckNext == IInv /\ Stuck /\ [Next]_vars => Stuck'
<1> SUFFICES ASSUME IInv, Stuck, [Next]_vars PROVE Stuck'
  OBVIOUS
<1>1. CASE Resolve
  <2>1. \A q \in metas' : q \in Paths /\ (indeg'[q] = 0 => q \in ready')
    BY <1>1 DEF Resolve
  <2> QED BY <1>1, <2>1 DEF Resolve, Stuck, Forgotten
<1>2. CASE ResolveFails
  BY <1>2 DEF ResolveFails, Stuck
<1>3. CASE Join
  <2>1. ASSUME NEW q \in metas, records[q] = 0 PROVE Unmet(q) # {}
    <3>1. q \in Paths /\ worker[q] = "none" /\ q \notin ready
      BY <1>3 DEF Join, Active, IInv, TypeOK
    <3>2. indeg[q] # 0 /\ indeg[q] = Cardinality(Unmet(q))
      BY <1>3, <2>1, <3>1 DEF Join, Stuck, Forgotten, IInv, Counted
    <3> QED BY <3>2, FS_EmptySet
  <2>2. \A q \in metas : Unmet(q)' = Unmet(q)
    BY <1>3 DEF Join, Unmet, Deps, DepsIn
  <2> QED BY <1>3, <2>1, <2>2 DEF Join, Stuck
<1>4. CASE Finish
  BY <1>4 DEF Finish, Stuck
<1>5. CASE Cancel
  BY <1>5 DEF Cancel, Stuck, Forgotten
<1>6. ASSUME NEW p \in Paths, RecordUntried(p) PROVE Stuck'
  <2> DEFINE o == IF HasFailedDep(p) THEN "depfailed" ELSE "cancelled"
  <2>1. /\ phase = "run" /\ p \in metas /\ records[p] = 0
        /\ Record(p, o) /\ Advance(p, ready \ {p}) /\ UNCHANGED <<refs, metas, phase, worker>>
    BY <1>6 DEF RecordUntried, Filling, IInv, Stages, TypeOK
  <2>2. o \in (Succeeded \cup Failures) \ {"cycle"}
    BY DEF Failures
  <2> HIDE DEF o
  <2> QED BY <2>1, <2>2, AdvanceForgetsNone
<1>7. ASSUME NEW p \in Paths, Receive(p) PROVE Stuck'
  <2>1. /\ phase = "run" /\ p \in metas /\ records[p] = 0
        /\ worker[p] \in (Succeeded \cup Failures) \ {"cycle"}
        /\ Record(p, worker[p]) /\ Advance(p, ready) /\ UNCHANGED <<refs, metas, phase>>
        /\ \A q \in Paths \ {p} : worker'[q] = worker[q]
    BY <1>7 DEF Receive, IInv, Stages, TypeOK, Succeeded, Failures
  <2> QED BY <2>1, AdvanceForgetsNone
<1>8. ASSUME NEW p \in Paths, StartWorker(p) \/ Worker(p) PROVE Stuck'
  <2>1. /\ p \in metas /\ phase = "run" /\ UNCHANGED <<phase, metas, records, outcome, indeg>>
        /\ worker'[p] # "none" /\ \A q \in Paths \ {p} : worker'[q] = worker[q]
        /\ ready \ {p} \subseteq ready'
    <3>1. CASE StartWorker(p)
      BY <3>1 DEF StartWorker, Filling, IInv, TypeOK
    <3>2. CASE Worker(p)
      <4>1. PICK w \in Busy \cup Succeeded \cup {"error"} : worker' = [worker EXCEPT ![p] = w]
        BY <3>2 DEF Worker, HeadNarInfo, PutNar, TransferFails, PutNarInfo, Become, Busy, Succeeded
      <4>2. worker[p] # "none" /\ UNCHANGED <<phase, metas, records, outcome, indeg, ready>>
        BY <3>2 DEF Worker, HeadNarInfo, PutNar, TransferFails, PutNarInfo
      <4> QED BY <4>1, <4>2 DEF IInv, Stages, TypeOK, Busy, Succeeded
    <3> QED BY <1>8, <3>1, <3>2
  <2>2. metas \subseteq Paths
    BY DEF IInv, TypeOK
  <2>3. \A q \in metas : Forgotten(q)' => Forgotten(q)
    BY <2>1, <2>2 DEF Forgotten
  <2> QED BY <2>1, <2>3 DEF Stuck
<1>9. CASE UNCHANGED vars
  BY <1>9 DEF vars, Stuck, Forgotten, Unmet, Deps, DepsIn
<1> QED BY <1>1, <1>2, <1>3, <1>4, <1>5, <1>6, <1>7, <1>8, <1>9 DEF Next, Scheduler

\* When run ends, the paths without a record refer to each other: each of them
\* has a reference among them.
LEMMA CycleNext == IInv /\ Stuck /\ CycleIsReal /\ [Next]_vars => CycleIsReal'
<1> SUFFICES ASSUME IInv, Stuck, CycleIsReal, [Next]_vars PROVE CycleIsReal'
  OBVIOUS
<1>1. CASE Finish
  <2> DEFINE rest == {q \in metas : records[q] = 0}
  <2>1. /\ phase = "join" /\ UNCHANGED <<refs, metas>> /\ metas \subseteq Paths
        /\ \A p \in Paths : outcome'[p] = "cycle" => p \in rest
    BY <1>1 DEF Finish, IInv, TypeOK, Stuck
  <2>2. ASSUME NEW q \in rest PROVE (refs[q] \ {q}) \cap rest # {}
    <3>1. PICK d : d \in Unmet(q)
      BY <2>1 DEF Stuck
    <3>2. d \in (refs[q] \ {q}) \cap rest
      BY <3>1 DEF Unmet, Deps, DepsIn
    <3> QED BY <3>2
  <2>3. rest \in SUBSET metas'
    BY <2>1
  <2> HIDE DEF rest
  <2> QED BY <2>1, <2>2, <2>3 DEF CycleIsReal
<1>2. CASE phase' # "done"
  <2>1. Stuck'
    BY StuckNext
  <2> QED BY <1>2, <2>1 DEF Stuck, CycleIsReal
<1>3. CASE UNCHANGED <<refs, metas, outcome>>
  BY <1>3 DEF CycleIsReal
<1>4. Finish \/ phase' # "done" \/ UNCHANGED <<refs, metas, outcome>>
  <2>1. ASSUME NEW p \in Paths, RecordUntried(p) \/ Receive(p) PROVE phase' = "run"
    BY <2>1 DEF RecordUntried, Receive, Filling
  <2>2. ASSUME NEW p \in Paths, StartWorker(p) \/ Worker(p) PROVE UNCHANGED <<refs, metas, outcome>>
    BY <2>2 DEF StartWorker, Worker, HeadNarInfo, PutNar, TransferFails, PutNarInfo
  <2> QED BY <2>1, <2>2 DEF Next, Scheduler, Resolve, ResolveFails, Join, Cancel, vars
<1> QED BY <1>1, <1>2, <1>3, <1>4

\* The error "reference cycle" is the truth: references lead from the path into
\* a set of paths of the closure that wait for each other, however the other
\* paths fared and whenever the call was cancelled.
THEOREM CycleIsRealCorrect == Spec => []CycleIsReal
<1>1. Init => Stuck /\ CycleIsReal
  BY DEF Init, Stuck, CycleIsReal
<1> QED BY <1>1, StuckNext, CycleNext, InvariantCorrect, PTL DEF Spec
=============================================================================
