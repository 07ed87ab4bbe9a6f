---------------------------- MODULE SessionProofs ----------------------------
(***************************************************************************)
(* Proofs about Session, for any casts of watchers and waiters and any     *)
(* number of faults: its types, that a result is verified, that wait-for   *)
(* tells the truth and that a published result is final.  One inductive    *)
(* invariant carries them: it says what the session lock, the owner of the *)
(* state database and the generation of a drain tell each process about    *)
(* the others.                                                             *)
(***************************************************************************)
EXTENDS Session, TLAPS

Named == Sessions \ Unnamed

Proc == [at : Places, state : States, gen : Nat, began : Nat, cancelled : BOOLEAN,
         stopped : BOOLEAN, ok : BOOLEAN, writeErr : BOOLEAN]

Status == [sess : Sessions \cup {None}, state : States, gen : Nat]

DB == [gen : Nat, draining : BOOLEAN, lastGen : Nat, lastExpired : BOOLEAN]

Waiter == [at : {"poll", "read", "asked", "recover", "locked", "done"},
           pin : Sessions \cup {None}, sess : Sessions \cup {None}, result : Results]

\* Between NewSession and Unlock, and before BeginDrain.
Open    == {"locked", "listen", "final"} \cup Listening
Running == Open \cup {"written"}
Before  == {"new", "locked", "listen", "open", "opened", "loop", "expired"}

\* What a watcher relies on: it holds the session lock, while it has the state
\* open nobody else moves the generation, and it calls a drain ended that ended.
Watching(s) ==
    /\ s \in Named /\ proc[s].at \in Running => lock = s
    /\ proc[s].at \in HasState <=> owner = s
    /\ proc[s].at \in Open \cup {"new"} => proc[s].state \notin Terminal
    /\ proc[s].at = "written" => proc[s].state \in Terminal
    /\ proc[s].at \in Before => proc[s].began = 0
    /\ proc[s].at \in {"begun", "drain"} => proc[s].began = db.gen /\ db.gen # 0
    /\ proc[s].at = "ended" => proc[s].began \in {0, db.gen}
    /\ proc[s].gen \in {0, proc[s].began}
    /\ proc[s].at \in {"ended", "closing", "final"} /\ proc[s].ok => proc[s].began \in clean

\* What the status file may say of a session.
Published(s) ==
    status.sess = s =>
       /\ proc[s].at \notin {"new", "locked"}
       /\ proc[s].at \in Open => status.state \notin Terminal
       /\ status.gen \in {0, proc[s].began}
       /\ status.state = "completed" => proc[s].began \in clean

\* Control requests are only handled by sessions that have not ended.
Handling(s) ==
    \A w \in Waiters : <<w, s>> \in handling =>
       s \in Named /\ proc[s].at \in Listening \cup {"final", "written"}

\* What a waiter remembers of the session that it follows.
Follows(w) ==
    /\ wait[w].at = "locked" <=> lock = w
    /\ wait[w].at \in {"read", "asked", "recover", "locked"} =>
          wait[w].sess \in Named /\ cast.pin \in {None, wait[w].sess}
    /\ wait[w].at = "poll" => cast.pin \in {None, wait[w].pin}
    /\ wait[w].at # "done" => wait[w].result = "none"
    /\ wait[w].result \in {"ok", "ready"} =>
          wait[w].sess \in Named /\ cast.pin \in {None, wait[w].sess}
    /\ wait[w].result = "ok" => proc[wait[w].sess].began \in clean

\* What recoverDrain may believe of the database.
Durable ==
    /\ db.draining => db.gen # 0
    /\ db.lastGen # 0 /\ ~db.lastExpired => db.lastGen \in clean
    /\ status = NoStatus \/ status.sess \in Named

Inv ==
    /\ TypeOK
    /\ Durable
    /\ \A s \in Sessions : Watching(s) /\ Published(s) /\ Handling(s)
    /\ \A w \in Waiters : Follows(w)

Final == status.state \in Terminal => status' = status \/ status'.sess # status.sess

LEMMA Types ==
    ASSUME TypeOK
    PROVE  /\ proc \in [Sessions -> Proc] /\ status \in Status /\ db \in DB
           /\ wait \in [Waiters -> Waiter]
           /\ cast.sessions \subseteq Sessions /\ cast.waiters \subseteq Waiters
           /\ cast.pin \in Sessions \cup {None} /\ cast.faults \in Nat
           /\ None \notin Sessions /\ None \notin Waiters /\ Sessions \cap Waiters = {}
BY SessionAssumption, CastAssumption DEF TypeOK, Proc, Status, DB, Waiter, CastType

-----------------------------------------------------------------------------
(***************************************************************************)
(* Updates of a watcher.                                                   *)
(***************************************************************************)
Is(q, at, state, gen, began, ok) ==
    /\ q \in Proc
    /\ q.at = at /\ q.state = state /\ q.gen = gen /\ q.began = began /\ q.ok = ok

LEMMA Moves ==
    ASSUME NEW p \in Proc, NEW a \in Places
    PROVE  /\ Is([p EXCEPT !.at = a], a, p.state, p.gen, p.began, p.ok)
           /\ \A o \in BOOLEAN : Is([p EXCEPT !.at = a, !.ok = o], a, p.state, p.gen, p.began, o)
           /\ \A n \in Nat : Is([p EXCEPT !.at = a, !.began = n], a, p.state, p.gen, n, p.ok)
           /\ \A t \in States : Is([p EXCEPT !.at = a, !.state = t], a, t, p.gen, p.began, p.ok)
           /\ Is([p EXCEPT !.cancelled = TRUE], p.at, p.state, p.gen, p.began, p.ok)
BY DEF Proc, Is

LEMMA Spoils ==
    ASSUME NEW p \in Proc
    PROVE  Is([p EXCEPT !.ok = FALSE], p.at, p.state, p.gen, p.began, FALSE)
BY DEF Proc, Is

LEMMA Reports ==
    ASSUME NEW p \in Proc, NEW n \in Nat
    PROVE  /\ Is([p EXCEPT !.gen = 0], p.at, p.state, 0, p.began, p.ok)
           /\ Is([p EXCEPT !.gen = n, !.state = "draining"], p.at, "draining", n, p.began, p.ok)
           /\ \A e \in BOOLEAN :
                 Is([p EXCEPT !.stopped = TRUE, !.state = "draining", !.cancelled = TRUE,
                              !.writeErr = e], p.at, "draining", p.gen, p.began, p.ok)
BY DEF Proc, Is, States

LEMMA StepType ==
    ASSUME TypeOK, NEW s \in Sessions, NEW q \in Proc, Step(s, q)
    PROVE  /\ proc' \in [Sessions -> Proc] /\ proc'[s] = q
           /\ \A t \in Sessions \ {s} : proc'[t] = proc[t]
BY Types DEF Step

LEMMA WriteType ==
    ASSUME TypeOK, NEW s \in Sessions, NEW q \in Proc, Write(s, q)
    PROVE  /\ status' \in Status
           /\ s \in Unnamed => status' = status
           /\ s \in Named => status'.sess = s /\ status'.state = q.state /\ status'.gen = q.gen
BY Types DEF Write, Status, Proc, Named

-----------------------------------------------------------------------------
(***************************************************************************)
(* Steps of one watcher.                                                   *)
(***************************************************************************)
\* What a step of s leaves to the others.
Frame(s) ==
    /\ cast' = cast /\ clean \subseteq clean' /\ handling' \subseteq handling
    /\ \A t \in Sessions \ {s} : /\ proc'[t] = proc[t]
                                 /\ owner' = t <=> owner = t
                                 /\ lock = t => lock' = t
    /\ \A w \in Waiters : lock' = w <=> lock = w
    /\ db' = db \/ owner = s
    /\ proc'[s].began = proc[s].began \/ proc[s].began = 0

\* s goes on, and writes its status only until the final one.
Forward(s) ==
    /\ proc'[s].at # "new" /\ (proc'[s].at = "locked" => proc[s].at = "new")
    /\ proc'[s].at \in Open => proc[s].at \in Open \cup {"new"}
    /\ \/ status' = status
       \/ /\ s \in Named /\ proc[s].at \in Open /\ proc'[s].at # "locked"
          /\ status'.sess = s /\ status'.state = proc'[s].state /\ status'.gen = proc'[s].gen
          /\ proc'[s].state = "completed" => proc'[s].began \in clean'

LEMMA DeliveredStays ==
    ASSUME Inv, NEW s \in Sessions, Frame(s), NEW t \in Sessions, proc[t].began \in clean
    PROVE  proc'[t].began \in clean'
<1>1. proc[t].began # 0
  BY DEF Inv, TypeOK
<1> QED BY <1>1 DEF Frame

LEMMA FollowsStays ==
    ASSUME Inv, NEW s \in Sessions, Frame(s), NEW w \in Waiters, wait'[w] = wait[w]
    PROVE  Follows(w)'
<1>1. Follows(w)
  BY DEF Inv
<1>2. wait[w].result = "ok" => proc'[wait[w].sess].began \in clean'
  BY <1>1, DeliveredStays DEF Follows, Named
<1> QED BY <1>1, <1>2 DEF Follows, Frame

LEMMA SessionStep ==
    ASSUME Inv, TypeOK', NEW s \in Sessions, Frame(s), Forward(s), Durable', Watching(s)',
           Handling(s)', \A w \in Waiters : Follows(w)'
    PROVE  Inv' /\ Final
<1>1. Watching(s) /\ Published(s)
  BY DEF Inv
<1>2. ASSUME NEW t \in Sessions \ {s} PROVE Watching(t)' /\ Handling(t)'
  <2>1. Watching(t) /\ Handling(t)
    BY DEF Inv
  <2> QED BY <1>2, <2>1 DEF Frame, Watching, Handling, HasState
<1>3. ASSUME NEW t \in Sessions \ {s} PROVE Published(t)'
  <2>1. Published(t)
    BY DEF Inv
  <2>2. CASE status' = status
    BY <2>1, <2>2, DeliveredStays DEF Frame, Published
  <2>3. CASE status'.sess = s
    BY <2>3 DEF Published
  <2> QED BY <2>2, <2>3 DEF Forward
<1>4. Published(s)'
  <2>1. CASE status' = status
    <3>1. proc[s].began \in clean => proc'[s].began \in clean'
      BY DeliveredStays
    <3> QED BY <1>1, <2>1, <3>1 DEF Frame, Forward, Published
  <2>2. CASE ~(status' = status)
    BY <2>2 DEF Forward, Watching, Published
  <2> QED BY <2>1, <2>2
<1>5. Final
  <2>1. CASE ~(status' = status)
    BY <1>1, <2>1 DEF Forward, Published, Final
  <2> QED BY <2>1 DEF Final
<1> QED BY <1>2, <1>3, <1>4, <1>5 DEF Inv

\* A step that changes neither a lock nor the database.
LEMMA QuietStep ==
    ASSUME Inv, NEW s \in Sessions, NEW q \in Proc, Step(s, q),
           UNCHANGED <<cast, lock, owner, db, clean, handling, wait>>,
           faults' \in 0..cast.faults,
           q.began = proc[s].began, q.gen \in {0, q.began},
           q.at \notin {"new", "locked"},
           q.at \in Running => proc[s].at \in Running,
           q.at \in Open => proc[s].at \in Open /\ q.state \notin Terminal,
           q.at = "written" => q.state \in Terminal,
           proc[s].at \in Listening \cup {"final", "written"} =>
              q.at \in Listening \cup {"final", "written"},
           q.at \in HasState <=> proc[s].at \in HasState,
           q.at \in Before => proc[s].at \in Before,
           q.at \in {"begun", "drain"} => proc[s].at \in {"begun", "drain"},
           q.at \in {"ended", "closing", "final"} /\ q.ok => q.began \in clean,
           \/ status' = status
           \/ /\ Write(s, q) /\ proc[s].at \in Open
              /\ q.state = "completed" => q.began \in clean
    PROVE  Inv' /\ Final
<1>1. Watching(s) /\ Handling(s) /\ TypeOK
  BY DEF Inv
<1>2. /\ proc' \in [Sessions -> Proc] /\ proc'[s] = q
      /\ \A t \in Sessions \ {s} : proc'[t] = proc[t]
  BY <1>1, StepType
<1>3. status' = status \/ Write(s, q) => status' \in Status
  BY <1>1, WriteType, Types
<1>4. TypeOK'
  BY <1>1, <1>2, <1>3 DEF TypeOK, Proc, Status
<1>5. Frame(s)
  BY <1>2 DEF Frame
<1>6. Forward(s)
  BY <1>1, <1>2, WriteType DEF Forward, Named
<1>7. Durable'
  <2>1. status' = status \/ status'.sess \in Named
    BY <1>1, WriteType DEF Named
  <2> QED BY <2>1 DEF Inv, Durable
<1>8. Watching(s)'
  <2>1. q.at = "ended" => q.began \in {0, db.gen}
    BY <1>1 DEF Watching, HasState, Before
  <2> QED BY <1>1, <1>2, <2>1 DEF Watching, Open
<1>9. Handling(s)'
  BY <1>1, <1>2 DEF Handling
<1>10. \A w \in Waiters : Follows(w)'
  BY <1>5, FollowsStays
<1> QED BY <1>4, <1>5, <1>6, <1>7, <1>8, <1>9, <1>10, SessionStep

LEMMA StartSteps ==
    ASSUME Inv, NEW s \in Sessions, WriteStarting(s) \/ Listen(s) \/ Ready(s) \/ Interrupt(s)
    PROVE  Inv' /\ Final
<1> DEFINE p == proc[s]
<1>1. p \in Proc /\ Watching(s) /\ faults \in 0..cast.faults
  BY Types DEF Inv, TypeOK
<1> HIDE DEF p
<1> USE DEF Places, Running, Open, Listening, HasState, Before, Terminal
<1>2. CASE WriteStarting(s)
  <2> DEFINE q == [p EXCEPT !.at = "listen"]
  <2>1. Is(q, "listen", p.state, p.gen, p.began, p.ok) /\ Step(s, q) /\ p.at = "locked"
    BY <1>1, <1>2, Moves DEF WriteStarting, p
  <2> HIDE DEF q
  <2>2. Write(s, q)
    BY <1>2, <2>1 DEF WriteStarting, Write, Is, p
  <2> QED BY <1>1, <1>2, <2>1, <2>2, QuietStep DEF WriteStarting, Watching, Is, p
<1>3. CASE Listen(s)
  <2> DEFINE q == [p EXCEPT !.at = "open"]
  <2>1. Is(q, "open", p.state, p.gen, p.began, p.ok) /\ Step(s, q) /\ p.at = "listen"
    BY <1>1, <1>3, Moves DEF Listen, p
  <2> HIDE DEF q
  <2> QED BY <1>1, <1>3, <2>1, QuietStep DEF Listen, Watching, Is, p
<1>4. CASE Ready(s)
  <2> DEFINE state == IF p.state = "starting" THEN "ready" ELSE p.state
             q == [p EXCEPT !.at = "loop", !.state = state]
  <2>1. [p EXCEPT !.at = "loop", !.state = IF @ = "starting" THEN "ready" ELSE @] = q
    BY <1>1 DEF Proc
  <2>2. state \in States
    BY <1>1 DEF Proc, States
  <2> HIDE DEF state
  <2>3. Is(q, "loop", state, p.gen, p.began, p.ok)
    BY <1>1, <2>2, Moves
  <2>4. Step(s, q) /\ Write(s, q) /\ p.at = "opened"
    BY <1>4, <2>1 DEF Ready, p
  <2>5. p.state \notin Terminal => state \notin Terminal
    BY DEF state
  <2>6. state # "completed" \/ state = p.state
    BY DEF state
  <2> HIDE DEF q
  <2> QED BY <1>1, <1>4, <2>3, <2>4, <2>5, <2>6, QuietStep DEF Ready, Watching, Is, p
<1>5. CASE Interrupt(s)
  <2> DEFINE q == [p EXCEPT !.cancelled = TRUE]
  <2>1. Is(q, p.at, p.state, p.gen, p.began, p.ok) /\ Step(s, q) /\ p.at \in Listening
    BY <1>1, <1>5, Moves DEF Interrupt, p
  <2> HIDE DEF q
  <2> QED BY <1>1, <1>5, <2>1, QuietStep DEF Interrupt, Watching, Is, p
<1> QED BY <1>2, <1>3, <1>4, <1>5

LEMMA ReportedIs ==
    ASSUME Inv, NEW s \in Sessions
    PROVE  /\ Reported(s) \in Proc
           /\ Reported(s).at = proc[s].at /\ Reported(s).began = proc[s].began
           /\ Reported(s).ok = proc[s].ok
           /\ Reported(s).state \in {proc[s].state, "draining"}
           /\ Reported(s).gen = IF proc[s].began = 0 THEN 0 ELSE db.gen
<1>1. proc[s] \in Proc /\ db.gen \in Nat
  BY Types DEF Inv, DB
<1>2. CASE proc[s].began = 0
  BY <1>1, <1>2, Reports DEF Reported, Is
<1>3. CASE proc[s].began # 0
  <2> DEFINE q == [proc[s] EXCEPT !.gen = db.gen, !.state = "draining"]
  <2>1. Is(q, proc[s].at, "draining", db.gen, proc[s].began, proc[s].ok)
    BY <1>1, Reports
  <2>2. Reported(s) = q
    BY <1>3 DEF Reported
  <2> HIDE DEF q
  <2> QED BY <1>3, <2>1, <2>2 DEF Is
<1> QED BY <1>2, <1>3

LEMMA ReportDrainStep ==
    ASSUME Inv, NEW s \in Sessions, ReportDrain(s)
    PROVE  Inv' /\ Final
<1> DEFINE r == Reported(s)
           q == [r EXCEPT !.at = "drain"]
<1>1. r \in Proc /\ r.began = proc[s].began /\ r.state \in {proc[s].state, "draining"}
  BY ReportedIs
<1>2. Watching(s) /\ faults \in 0..cast.faults /\ proc[s].at = "begun"
  BY DEF Inv, TypeOK, ReportDrain
<1>3. r.gen = r.began
  BY <1>1, <1>2, ReportedIs DEF Watching
<1>4. Step(s, q) /\ Write(s, q)
  BY DEF ReportDrain
<1> HIDE DEF r
<1>5. Is(q, "drain", r.state, r.gen, r.began, r.ok)
  BY <1>1, Moves DEF Places
<1> HIDE DEF q
<1> QED BY <1>1, <1>2, <1>3, <1>4, <1>5, QuietStep
        DEF ReportDrain, Watching, Is, Running, Open, Listening, HasState, Before, Terminal

LEMMA FailSteps ==
    ASSUME Inv, NEW s \in Sessions, PollReturns(s) \/ WatchFails(s) \/ Shutdown(s)
    PROVE  Inv' /\ Final
<1> DEFINE p == proc[s]
<1>1. p \in Proc /\ Watching(s)
  BY Types DEF Inv
<1>2. faults \in 0..cast.faults /\ cast.faults \in Nat
  BY Types DEF Inv, TypeOK
<1> HIDE DEF p
<1> USE DEF Places, Running, Open, Listening, HasState, Before, Terminal
<1>3. CASE PollReturns(s)
  <2>1. p.at = "expired"
    BY <1>3 DEF PollReturns, p
  <2>2. CASE p.cancelled
    <3> DEFINE q == [p EXCEPT !.at = "loop"]
    <3>1. Is(q, "loop", p.state, p.gen, p.began, p.ok) /\ Step(s, q)
      BY <1>1, <1>3, <2>2, Moves DEF PollReturns, p
    <3> HIDE DEF q
    <3> QED BY <1>1, <1>2, <1>3, <2>1, <3>1, QuietStep DEF PollReturns, Watching, Is, p
  <2>3. CASE ~p.cancelled
    <3> DEFINE q == [p EXCEPT !.at = "ended", !.ok = FALSE]
    <3>1. Is(q, "ended", p.state, p.gen, p.began, FALSE) /\ Step(s, q)
      BY <1>1, <1>3, <2>3, Moves DEF PollReturns, p
    <3> HIDE DEF q
    <3> QED BY <1>1, <1>2, <1>3, <2>1, <3>1, QuietStep DEF PollReturns, Watching, Is, p
  <2> QED BY <2>2, <2>3
<1>4. CASE WatchFails(s)
  <2> DEFINE at == IF p.at \in HasState THEN "ended" ELSE "closing"
             q == [p EXCEPT !.at = at, !.ok = FALSE]
  <2>1. [p EXCEPT !.at = IF @ \in HasState THEN "ended" ELSE "closing", !.ok = FALSE] = q
    BY <1>1 DEF Proc
  <2>2. at \in Places
    OBVIOUS
  <2>3. at = IF p.at \in HasState THEN "ended" ELSE "closing"
    OBVIOUS
  <2> HIDE DEF at
  <2>4. Is(q, at, p.state, p.gen, p.began, FALSE)
    BY <1>1, <2>2, Moves
  <2>5. /\ Step(s, q)
        /\ p.at \in {"locked", "listen", "open", "opened", "loop", "begun", "drain"}
    BY <1>4, <2>1 DEF WatchFails, p
  <2>6. faults' \in 0..cast.faults
    BY <1>2, <1>4 DEF WatchFails, Fault
  <2> HIDE DEF q
  <2> QED BY <1>1, <1>4, <2>3, <2>4, <2>5, <2>6, QuietStep DEF WatchFails, Watching, Is, p
<1>5. CASE Shutdown(s)
  <2> DEFINE ok == p.ok /\ \A w \in Waiters : <<w, s>> \notin handling
             q == [p EXCEPT !.at = "final", !.ok = ok]
  <2>1. [p EXCEPT !.at = "final", !.ok = @ /\ \A w \in Waiters : <<w, s>> \notin handling] = q
    BY <1>1 DEF Proc
  <2>2. ok \in BOOLEAN /\ (ok => p.ok)
    BY <1>1 DEF Proc
  <2> HIDE DEF ok
  <2>3. Is(q, "final", p.state, p.gen, p.began, ok)
    BY <1>1, <2>2, Moves
  <2>4. Step(s, q) /\ p.at = "closing"
    BY <1>5, <2>1 DEF Shutdown, p
  <2> HIDE DEF q
  <2> QED BY <1>1, <1>2, <1>5, <2>2, <2>3, <2>4, QuietStep DEF Shutdown, Watching, Is, p
<1> QED BY <1>3, <1>4, <1>5

LEMMA WriteFinalStep ==
    ASSUME Inv, NEW s \in Sessions, WriteFinal(s)
    PROVE  Inv' /\ Final
<1> DEFINE p == proc[s]
           state == IF proc[s].ok /\ ~proc[s].writeErr THEN "completed" ELSE "failed"
           q == [p EXCEPT !.at = "written", !.state = state]
<1>1. p \in Proc /\ Watching(s) /\ p.at = "final"
  BY Types DEF Inv, WriteFinal
<1>2. faults' \in 0..cast.faults
  BY Types DEF Inv, TypeOK, WriteFinal, Fault
<1>3. state \in {"completed", "failed"} /\ (state = "completed" => p.ok)
  OBVIOUS
<1>4. Step(s, q) /\ (status' = status \/ Write(s, q))
  BY DEF WriteFinal
<1> HIDE DEF state
<1> HIDE DEF p
<1>5. Is(q, "written", state, p.gen, p.began, p.ok)
  BY <1>1, <1>3, Moves DEF Places, States
<1> HIDE DEF q
<1> QED BY <1>1, <1>2, <1>3, <1>4, <1>5, QuietStep
        DEF WriteFinal, Watching, Is, Running, Open, Listening, HasState, Before, Terminal, p

-----------------------------------------------------------------------------
(***************************************************************************)
(* Steps that move a lock or the database.                                 *)
(***************************************************************************)
LEMMA NewSessionStep ==
    ASSUME Inv, NEW s \in Sessions, NewSession(s)
    PROVE  Inv' /\ Final
<1> DEFINE p == proc[s]
<1>1. p \in Proc /\ p.at = "new" /\ Watching(s) /\ Handling(s) /\ TypeOK
  BY Types DEF Inv, NewSession
<1>2. PICK a \in {"open", "locked", "exited"} :
         /\ Step(s, [p EXCEPT !.at = a])
         /\ \/ UNCHANGED lock /\ (s \in Named => a = "exited")
            \/ s \in Named /\ lock = None /\ lock' = s
  BY DEF NewSession, Named
<1> DEFINE q == [p EXCEPT !.at = a]
<1> HIDE DEF p
<1>3. Is(q, a, p.state, p.gen, p.began, p.ok)
  BY <1>1, <1>2, Moves DEF Places
<1>4. Step(s, q)
  BY <1>2
<1> HIDE DEF q
<1>5. /\ proc' \in [Sessions -> Proc] /\ proc'[s] = q
      /\ \A t \in Sessions \ {s} : proc'[t] = proc[t]
  BY <1>1, <1>3, <1>4, StepType DEF Is
<1>6. UNCHANGED <<cast, status, owner, db, clean, handling, wait, faults>>
  BY DEF NewSession
<1>7. TypeOK'
  BY <1>1, <1>2, <1>5, <1>6 DEF TypeOK, Proc, Named
<1>8. Frame(s)
  BY <1>1, <1>2, <1>3, <1>5, <1>6, SessionAssumption DEF Frame, Is, Named, p
<1>9. Forward(s)
  BY <1>1, <1>3, <1>5, <1>6 DEF Forward, Is, p, Open, Listening
<1>10. Durable'
  BY <1>6 DEF Inv, Durable
<1>11. Watching(s)' /\ Handling(s)'
  BY <1>1, <1>2, <1>3, <1>5, <1>6 DEF Watching, Handling, Is, p, Running, Open, Listening,
                                      HasState, Before, Terminal
<1>12. \A w \in Waiters : Follows(w)'
  BY <1>6, <1>8, FollowsStays
<1> QED BY <1>7, <1>8, <1>9, <1>10, <1>11, <1>12, SessionStep

LEMMA OpenStateStep ==
    ASSUME Inv, NEW s \in Sessions, OpenState(s)
    PROVE  Inv' /\ Final
<1> DEFINE p == proc[s]
           q == [p EXCEPT !.at = "opened"]
<1>1. p \in Proc /\ p.at = "open" /\ Watching(s) /\ Handling(s) /\ TypeOK
  BY Types DEF Inv, OpenState
<1>2. Step(s, q) /\ owner = None /\ owner' = s
  BY DEF OpenState
<1> HIDE DEF p
<1>3. Is(q, "opened", p.state, p.gen, p.began, p.ok)
  BY <1>1, Moves DEF Places
<1> HIDE DEF q
<1>4. /\ proc' \in [Sessions -> Proc] /\ proc'[s] = q
      /\ \A t \in Sessions \ {s} : proc'[t] = proc[t]
  BY <1>1, <1>2, <1>3, StepType DEF Is
<1>5. UNCHANGED <<cast, lock, status, db, clean, handling, wait, faults>>
  BY DEF OpenState
<1>6. TypeOK'
  BY <1>1, <1>2, <1>4, <1>5 DEF TypeOK, Proc
<1>7. Frame(s)
  BY <1>2, <1>3, <1>4, <1>5, SessionAssumption DEF Frame, Is, p
<1>8. Forward(s) /\ Durable'
  BY <1>1, <1>3, <1>4, <1>5 DEF Inv, Durable, Forward, Is, p, Open, Listening
<1>9. Watching(s)' /\ Handling(s)'
  BY <1>1, <1>2, <1>3, <1>4, <1>5 DEF Watching, Handling, Is, p, Running, Open, Listening,
                                      HasState, Before, Terminal
<1>10. \A w \in Waiters : Follows(w)'
  BY <1>5, <1>7, FollowsStays
<1> QED BY <1>6, <1>7, <1>8, <1>9, <1>10, SessionStep

LEMMA WatchReturnsStep ==
    ASSUME Inv, NEW s \in Sessions, WatchReturns(s)
    PROVE  Inv' /\ Final
<1> DEFINE r == Reported(s)
           p == [r EXCEPT !.at = "closing"]
<1>1. proc[s].at = "ended" /\ Watching(s) /\ Handling(s) /\ TypeOK
  BY DEF Inv, WatchReturns
<1>2. /\ r \in Proc /\ r.began = proc[s].began /\ r.ok = proc[s].ok
      /\ r.state \in {proc[s].state, "draining"} /\ r.gen \in {0, r.began}
  BY <1>1, ReportedIs DEF Watching
<1>3. owner' = None /\ UNCHANGED <<cast, lock, db, clean, handling, wait>>
  BY DEF WatchReturns
<1>4. faults' \in 0..cast.faults
  BY <1>1, Types DEF WatchReturns, Fault, TypeOK
<1>5. \/ Write(s, p) /\ Step(s, p)
      \/ UNCHANGED status /\ Step(s, [p EXCEPT !.ok = FALSE])
  BY DEF WatchReturns
<1> HIDE DEF r
<1>6. Is(p, "closing", r.state, r.gen, r.began, r.ok)
  BY <1>2, Moves DEF Places
<1> HIDE DEF p
<1>7. PICK q \in Proc :
        /\ Is(q, "closing", r.state, r.gen, r.began, q.ok) /\ (q.ok => r.ok)
        /\ Step(s, q) /\ (UNCHANGED status \/ Write(s, q))
  <2>1. CASE Write(s, p) /\ Step(s, p)
    BY <1>6, <2>1 DEF Is
  <2>2. CASE UNCHANGED status /\ Step(s, [p EXCEPT !.ok = FALSE])
    <3> DEFINE f == [p EXCEPT !.ok = FALSE]
    <3>1. p \in Proc
      BY <1>6 DEF Is
    <3>2. Is(f, p.at, p.state, p.gen, p.began, FALSE)
      BY <3>1, Spoils
    <3>3. Step(s, f)
      BY <2>2
    <3> HIDE DEF f
    <3> QED BY <1>6, <2>2, <3>2, <3>3 DEF Is
  <2> QED BY <1>5, <2>1, <2>2
<1>8. /\ proc' \in [Sessions -> Proc] /\ proc'[s] = q
      /\ \A t \in Sessions \ {s} : proc'[t] = proc[t]
  BY <1>1, <1>7, StepType
<1>9. /\ status' \in Status
      /\ status' = status \/ /\ s \in Named /\ status'.sess = s
                             /\ status'.state = q.state /\ status'.gen = q.gen
  BY <1>1, <1>7, WriteType, Types DEF Named
<1>10. TypeOK'
  BY <1>1, <1>3, <1>4, <1>8, <1>9 DEF TypeOK, Proc, Status
<1>11. Frame(s)
  BY <1>1, <1>2, <1>3, <1>7, <1>8, SessionAssumption DEF Frame, Is, Watching, HasState
<1>12. Forward(s)
  BY <1>1, <1>2, <1>7, <1>8, <1>9 DEF Forward, Is, Open, Listening, Watching, Terminal
<1>13. Durable'
  BY <1>3, <1>9 DEF Inv, Durable
<1>14. Watching(s)' /\ Handling(s)'
  BY <1>1, <1>2, <1>3, <1>7, <1>8, SessionAssumption
     DEF Watching, Handling, Is, Running, Open, Listening, HasState, Before, Terminal
<1>15. \A w \in Waiters : Follows(w)'
  BY <1>3, <1>11, FollowsStays
<1> QED BY <1>10, <1>11, <1>12, <1>13, <1>14, <1>15, SessionStep

LEMMA EndedIs ==
    ASSUME NEW d \in DB, NEW e \in BOOLEAN, NEW c,
           c = [d EXCEPT !.draining = FALSE, !.lastGen = d.gen, !.lastExpired = e]
    PROVE  c \in DB /\ c.gen = d.gen /\ ~c.draining /\ c.lastGen = d.gen /\ c.lastExpired = e
BY DEF DB

LEMMA BegunIs ==
    ASSUME NEW d \in DB, NEW n \in Nat
    PROVE  /\ [d EXCEPT !.draining = TRUE, !.gen = n] \in DB
           /\ [d EXCEPT !.draining = TRUE, !.gen = n].gen = n
           /\ [d EXCEPT !.draining = TRUE, !.gen = n].draining
           /\ [d EXCEPT !.draining = TRUE, !.gen = n].lastGen = d.lastGen
           /\ [d EXCEPT !.draining = TRUE, !.gen = n].lastExpired = d.lastExpired
BY DEF DB

LEMMA EndGenerationIs ==
    ASSUME Inv, NEW e \in BOOLEAN, EndGeneration(e), db.gen # 0
    PROVE  /\ db' \in DB /\ db'.gen = db.gen /\ ~db'.draining
           /\ db'.lastGen = db.gen /\ db'.lastExpired = e
           /\ clean \subseteq clean' /\ clean' \subseteq 1..db'.gen
           /\ ~e => db.gen \in clean'
<1>1. db \in DB /\ clean \subseteq 1..db.gen /\ db.gen \in Nat
  BY Types DEF Inv, TypeOK, DB
<1>2. /\ db' \in DB /\ db'.gen = db.gen /\ ~db'.draining
      /\ db'.lastGen = db.gen /\ db'.lastExpired = e
  BY <1>1, EndedIs DEF EndGeneration
<1>3. /\ clean \subseteq clean' /\ clean' \subseteq clean \cup {db.gen}
      /\ ~e => db.gen \in clean'
  BY DEF EndGeneration
<1> QED BY <1>1, <1>2, <1>3

LEMMA EndDrainSteps ==
    ASSUME Inv, NEW s \in Sessions, PollCompletes(s) \/ EndDrain(s)
    PROVE  Inv' /\ Final
<1> DEFINE p == proc[s]
<1>1. p \in Proc /\ p.at \in {"loop", "drain"} /\ Watching(s) /\ Handling(s) /\ TypeOK
  BY Types DEF Inv, PollCompletes, EndDrain
<1>2. PICK e \in BOOLEAN :
        /\ EndGeneration(e)
        /\ \/ /\ p.at = "loop" /\ db.draining
              /\ Step(s, [p EXCEPT !.at = IF e THEN "expired" ELSE "loop"])
           \/ p.at = "drain" /\ Step(s, [p EXCEPT !.at = "ended", !.ok = ~e])
  BY DEF PollCompletes, EndDrain
<1>3. db.gen # 0
  BY <1>1, <1>2 DEF Inv, Durable, Watching
<1> HIDE DEF p
<1>4. PICK q \in Proc :
        /\ Step(s, q) /\ q.began = p.began /\ q.gen = p.gen /\ q.state = p.state
        /\ \/ p.at = "loop" /\ q.at \in {"loop", "expired"}
           \/ p.at = "drain" /\ q.at = "ended" /\ q.ok = ~e
  <2>1. CASE p.at = "loop"
    <3> DEFINE a == IF e THEN "expired" ELSE "loop"
               q == [p EXCEPT !.at = a]
    <3>1. Step(s, q) /\ a \in {"loop", "expired"}
      BY <1>2, <2>1
    <3> HIDE DEF a
    <3>2. Is(q, a, p.state, p.gen, p.began, p.ok)
      BY <1>1, <3>1, Moves DEF Places
    <3> HIDE DEF q
    <3> QED BY <2>1, <3>1, <3>2 DEF Is
  <2>2. CASE p.at = "drain"
    <3> DEFINE o == ~e
               q == [p EXCEPT !.at = "ended", !.ok = o]
    <3>1. Step(s, q) /\ o \in BOOLEAN
      BY <1>2, <2>2
    <3>2. Is(q, "ended", p.state, p.gen, p.began, o)
      BY <1>1, <3>1, Moves DEF Places
    <3> HIDE DEF q
    <3> QED BY <2>2, <3>1, <3>2 DEF Is
  <2> QED BY <1>1, <2>1, <2>2
<1>5. /\ proc' \in [Sessions -> Proc] /\ proc'[s] = q
      /\ \A t \in Sessions \ {s} : proc'[t] = proc[t]
  BY <1>1, <1>4, StepType
<1>6. UNCHANGED <<cast, lock, status, owner, handling, wait, faults>>
  BY DEF PollCompletes, EndDrain
<1>7. /\ db' \in DB /\ db'.gen = db.gen /\ ~db'.draining
      /\ db'.lastGen = db.gen /\ db'.lastExpired = e
      /\ clean \subseteq clean' /\ clean' \subseteq 1..db'.gen
      /\ ~e => db.gen \in clean'
  BY <1>2, <1>3, EndGenerationIs
<1>8. TypeOK'
  BY <1>1, <1>5, <1>6, <1>7 DEF TypeOK, Proc, DB
<1>9. Frame(s)
  BY <1>1, <1>4, <1>5, <1>6, <1>7 DEF Frame, Watching, HasState, p
<1>10. Forward(s)
  BY <1>4, <1>5, <1>6 DEF Forward, Open, Listening, p
<1>11. Durable'
  BY <1>6, <1>7 DEF Inv, Durable
<1>12. Watching(s)' /\ Handling(s)'
  BY <1>1, <1>4, <1>5, <1>6, <1>7 DEF Watching, Handling, Running, Open, Listening,
                                      HasState, Before, Terminal, p
<1>13. \A w \in Waiters : Follows(w)'
  BY <1>6, <1>9, FollowsStays
<1> QED BY <1>8, <1>9, <1>10, <1>11, <1>12, <1>13, SessionStep

LEMMA BeginDrainStep ==
    ASSUME Inv, NEW s \in Sessions, BeginDrain(s)
    PROVE  Inv' /\ Final
<1> DEFINE p == proc[s]
           gen == IF db.draining THEN db.gen ELSE db.gen + 1
           q == [p EXCEPT !.at = "begun", !.began = gen]
           d == [db EXCEPT !.draining = TRUE, !.gen = gen]
<1>1. p \in Proc /\ p.at = "loop" /\ Watching(s) /\ Handling(s) /\ TypeOK
  BY Types DEF Inv, BeginDrain
<1>2. Step(s, q) /\ db' = d
  BY DEF BeginDrain
<1>3. db \in DB /\ db.gen \in Nat /\ (db.draining => db.gen # 0)
  BY <1>1, Types DEF Inv, Durable, DB
<1>4. gen \in Nat /\ gen # 0 /\ gen >= db.gen
  BY <1>3
<1> HIDE DEF gen
<1> HIDE DEF p
<1>5. Is(q, "begun", p.state, p.gen, gen, p.ok)
  BY <1>1, <1>4, Moves DEF Places
<1>6. /\ d \in DB /\ d.gen = gen /\ d.draining
      /\ d.lastGen = db.lastGen /\ d.lastExpired = db.lastExpired
  BY <1>3, <1>4, BegunIs
<1> HIDE DEF q
<1> HIDE DEF d
<1>7. /\ proc' \in [Sessions -> Proc] /\ proc'[s] = q
      /\ \A t \in Sessions \ {s} : proc'[t] = proc[t]
  BY <1>1, <1>2, <1>5, StepType DEF Is
<1>8. UNCHANGED <<cast, lock, status, owner, clean, handling, wait, faults>>
  BY DEF BeginDrain
<1>9. clean' \subseteq 1..db'.gen
  BY <1>1, <1>2, <1>3, <1>4, <1>6, <1>8 DEF TypeOK
<1>10. TypeOK'
  BY <1>1, <1>2, <1>6, <1>7, <1>8, <1>9 DEF TypeOK, Proc, DB
<1>11. p.began = 0 /\ p.gen = 0
  BY <1>1 DEF Watching, Before, p
<1>12. Frame(s)
  BY <1>1, <1>7, <1>8, <1>11 DEF Frame, Watching, HasState, p
<1>13. Forward(s)
  BY <1>1, <1>5, <1>7, <1>8 DEF Forward, Is, Open, Listening, p
<1>14. Durable'
  BY <1>2, <1>4, <1>6, <1>8 DEF Inv, Durable
<1>15. Watching(s)' /\ Handling(s)'
  BY <1>1, <1>2, <1>4, <1>5, <1>6, <1>7, <1>8, <1>11
     DEF Watching, Handling, Is, Running, Open, Listening, HasState, Before, Terminal, p
<1>16. \A w \in Waiters : Follows(w)'
  BY <1>8, <1>12, FollowsStays
<1> QED BY <1>10, <1>12, <1>13, <1>14, <1>15, <1>16, SessionStep

LEMMA EndSteps ==
    ASSUME Inv, NEW s \in Sessions, Unlock(s) \/ Crash(s)
    PROVE  Inv' /\ Final
<1> DEFINE p == proc[s]
<1>1. p \in Proc /\ Watching(s) /\ TypeOK
  BY Types DEF Inv
<1>2. PICK a \in {"exited", "dead"} : Step(s, [p EXCEPT !.at = a])
  BY DEF Unlock, Crash
<1> DEFINE q == [p EXCEPT !.at = a]
<1> HIDE DEF p
<1>3. Is(q, a, p.state, p.gen, p.began, p.ok)
  BY <1>1, <1>2, Moves DEF Places
<1>4. Step(s, q)
  BY <1>2
<1> HIDE DEF q
<1>5. /\ proc' \in [Sessions -> Proc] /\ proc'[s] = q
      /\ \A t \in Sessions \ {s} : proc'[t] = proc[t]
  BY <1>1, <1>3, <1>4, StepType DEF Is
<1>6. /\ UNCHANGED <<cast, status, db, clean, wait>>
      /\ lock' = IF lock = s THEN None ELSE lock
      /\ handling' = {h \in handling : h[2] # s}
  BY DEF Unlock, Crash
<1>7. owner' \in {owner, None} /\ owner' # s /\ (owner' = None => owner \in {None, s})
  BY <1>1, SessionAssumption DEF Unlock, Crash, Watching, HasState
<1>8. faults' \in 0..cast.faults
  BY <1>1, Types DEF Unlock, Crash, Fault, TypeOK
<1>9. TypeOK'
  BY <1>1, <1>5, <1>6, <1>7, <1>8 DEF TypeOK, Proc
<1>10. Frame(s)
  BY <1>3, <1>5, <1>6, <1>7, SessionAssumption DEF Frame, Is, p
<1>11. Forward(s) /\ Durable'
  BY <1>3, <1>5, <1>6 DEF Inv, Durable, Forward, Is, Open, Listening
<1>12. Watching(s)' /\ Handling(s)'
  BY <1>1, <1>3, <1>5, <1>6, <1>7 DEF Watching, Handling, Is, Running, Open, Listening,
                                      HasState, Before, p
<1>13. \A w \in Waiters : Follows(w)'
  BY <1>6, <1>10, FollowsStays
<1> QED BY <1>9, <1>10, <1>11, <1>12, <1>13, SessionStep

-----------------------------------------------------------------------------
(***************************************************************************)
(* Steps of a waiter.                                                      *)
(***************************************************************************)
LEMMA WaitIs ==
    ASSUME TypeOK, NEW w \in Waiters, NEW u \in Waiter, wait' = [wait EXCEPT ![w] = u]
    PROVE  /\ wait' \in [Waiters -> Waiter] /\ wait'[w] = u
           /\ \A v \in Waiters \ {w} : wait'[v] = wait[v]
BY Types

IsWaiter(u, at, pin, sess, result) ==
    u \in Waiter /\ u.at = at /\ u.pin = pin /\ u.sess = sess /\ u.result = result

LEMMA WaiterMoves ==
    ASSUME NEW u \in Waiter, NEW at \in {"poll", "read", "asked", "recover", "locked", "done"},
           NEW x \in Sessions \cup {None}, NEW r \in Results
    PROVE  /\ IsWaiter([u EXCEPT !.at = at], at, u.pin, u.sess, u.result)
           /\ IsWaiter([u EXCEPT !.at = at, !.sess = x], at, u.pin, x, u.result)
           /\ IsWaiter([u EXCEPT !.at = at, !.pin = x], at, x, u.sess, u.result)
           /\ IsWaiter([u EXCEPT !.at = at, !.sess = x, !.result = r], at, u.pin, x, r)
BY DEF Waiter, IsWaiter

\* What becomes of the record of w.
Now(w, at, pin, sess, result) ==
    /\ wait' \in [Waiters -> Waiter]
    /\ \A v \in Waiters \ {w} : wait'[v] = wait[v]
    /\ wait'[w].at = at /\ wait'[w].pin = pin
    /\ wait'[w].sess = sess /\ wait'[w].result = result

LEMMA FinishIs ==
    ASSUME TypeOK, NEW w \in Waiters, NEW x \in Sessions \cup {None}, NEW r \in Results,
           Finish(w, x, r)
    PROVE  Now(w, "done", wait[w].pin, x, r)
<1>1. wait[w] \in Waiter
  BY Types
<1> DEFINE u == [wait[w] EXCEPT !.at = "done", !.sess = x, !.result = r]
<1>2. IsWaiter(u, "done", wait[w].pin, x, r)
  BY <1>1, WaiterMoves
<1>3. wait' = [wait EXCEPT ![w] = u]
  BY DEF Finish
<1> HIDE DEF u
<1> QED BY <1>2, <1>3, WaitIs DEF Now, IsWaiter

LEMMA AgainIs ==
    ASSUME TypeOK, NEW w \in Waiters, Again(w)
    PROVE  Now(w, "poll", wait[w].sess, wait[w].sess, wait[w].result)
<1>1. wait[w] \in Waiter
  BY Types
<1> DEFINE u == [wait[w] EXCEPT !.at = "poll", !.pin = wait[w].sess]
<1>2. IsWaiter(u, "poll", wait[w].sess, wait[w].sess, wait[w].result)
  BY <1>1, WaiterMoves DEF Waiter
<1>3. wait' = [wait EXCEPT ![w] = u]
  BY DEF Again
<1> HIDE DEF u
<1> QED BY <1>2, <1>3, WaitIs DEF Now, IsWaiter

LEMMA GoesIs ==
    ASSUME TypeOK, NEW w \in Waiters, NEW at \in {"asked", "recover", "locked"},
           wait' = [wait EXCEPT ![w].at = at]
    PROVE  Now(w, at, wait[w].pin, wait[w].sess, wait[w].result)
<1>1. wait[w] \in Waiter
  BY Types
<1>0. wait[w].result \in Results /\ wait[w].sess \in Sessions \cup {None}
  BY <1>1 DEF Waiter
<1> DEFINE u == [wait[w] EXCEPT !.at = at]
<1>2. IsWaiter(u, at, wait[w].pin, wait[w].sess, wait[w].result)
  BY <1>0, <1>1, WaiterMoves
<1>3. wait' = [wait EXCEPT ![w] = u]
  OBVIOUS
<1> HIDE DEF u
<1> QED BY <1>2, <1>3, WaitIs DEF Now, IsWaiter

LEMMA ReadIs ==
    ASSUME TypeOK, NEW w \in Waiters, NEW x \in Sessions,
           wait' = [wait EXCEPT ![w].at = "read", ![w].sess = x]
    PROVE  Now(w, "read", wait[w].pin, x, wait[w].result)
<1>1. wait[w] \in Waiter
  BY Types
<1>0. wait[w].result \in Results /\ wait[w].sess \in Sessions \cup {None}
  BY <1>1 DEF Waiter
<1> DEFINE u == [wait[w] EXCEPT !.at = "read", !.sess = x]
<1>2. IsWaiter(u, "read", wait[w].pin, x, wait[w].result)
  BY <1>0, <1>1, WaiterMoves
<1>3. wait' = [wait EXCEPT ![w] = u]
  OBVIOUS
<1> HIDE DEF u
<1> QED BY <1>2, <1>3, WaitIs DEF Now, IsWaiter

LEMMA VerdictIs ==
    ASSUME NEW w \in Waiters, NEW state \in Terminal
    PROVE  /\ Verdict(w, state) \in Results
           /\ Verdict(w, state) # "ready" /\ (Verdict(w, state) = "ok" => state = "completed")
BY DEF Verdict, Terminal, Results

\* What a step of waiter w leaves alone, and when it settles a result.
WaiterFrame(w) ==
    /\ UNCHANGED <<cast, owner, db, clean, proc>>
    /\ \A v \in Waiters \ {w} : wait'[v] = wait[v] /\ (lock' = v <=> lock = v)
    /\ \A s \in Sessions : lock' = s <=> lock = s
    /\ \A v \in Waiters, s \in Sessions :
          <<v, s>> \in handling' => \/ <<v, s>> \in handling
                                    \/ s \in Named /\ proc[s].at \in Listening
    /\ \/ status' = status
       \/ /\ lock = w /\ status.sess \in Named /\ status.state \notin Terminal
          /\ status'.sess = status.sess /\ status'.gen = status.gen
          /\ status'.state = "completed" => proc[status.sess].began \in clean

LEMMA WaiterStep ==
    ASSUME Inv, TypeOK', NEW w \in Waiters, WaiterFrame(w), Follows(w)'
    PROVE  Inv' /\ Final
<1>1. Durable'
  BY DEF Inv, Durable, WaiterFrame
<1>2. ASSUME NEW s \in Sessions PROVE Watching(s)' /\ Handling(s)' /\ Published(s)'
  <2>1. Watching(s) /\ Handling(s) /\ Published(s)
    BY DEF Inv
  <2>2. Watching(s)' /\ Handling(s)'
    BY <2>1 DEF WaiterFrame, Watching, Handling, HasState
  <2>3. Published(s)'
    BY <2>1, SessionAssumption DEF WaiterFrame, Published, Watching, Open, Running
  <2> QED BY <2>2, <2>3
<1>3. ASSUME NEW v \in Waiters \ {w} PROVE Follows(v)'
  BY DEF Inv, Follows, WaiterFrame
<1>4. Final
  BY DEF WaiterFrame, Final
<1> QED BY <1>1, <1>2, <1>3, <1>4 DEF Inv

LEMMA PollSteps ==
    ASSUME Inv, NEW w \in Waiters, PollSession(w) \/ WaitTimesOut(w)
    PROVE  Inv' /\ Final
<1>1. UNCHANGED <<cast, lock, status, owner, db, clean, proc, handling, faults>>
  BY DEF PollSession, WaitTimesOut
<1>2. WaiterFrame(w) /\ TypeOK' /\ Follows(w)' => Inv' /\ Final
  BY WaiterStep
<1>3. Follows(w) /\ TypeOK
  BY DEF Inv
<1>4. ASSUME wait' \in [Waiters -> Waiter], \A v \in Waiters \ {w} : wait'[v] = wait[v]
      PROVE  WaiterFrame(w) /\ TypeOK'
  BY <1>1, <1>3, <1>4 DEF WaiterFrame, TypeOK, Waiter
<1>5. CASE WaitTimesOut(w)
  <2>1. Now(w, "done", wait[w].pin, None, "timeout")
    BY <1>3, <1>5, FinishIs DEF WaitTimesOut, Results
  <2>2. Follows(w)'
    BY <1>1, <1>3, <1>5, <2>1 DEF Follows, Now, WaitTimesOut
  <2> QED BY <1>2, <1>4, <2>1, <2>2 DEF Now
<1>6. CASE PollSession(w)
  <2>1. /\ status.sess \in Named /\ Published(status.sess) /\ status.sess \in Sessions
        /\ wait[w].at = "poll" /\ status.state \in States
    BY <1>6, Types DEF PollSession, Inv, Durable, Named, Status
  <2>2. CASE Finish(w, status.sess, "replaced")
    <3>1. Now(w, "done", wait[w].pin, status.sess, "replaced")
      BY <1>3, <2>1, <2>2, FinishIs DEF Results
    <3>2. Follows(w)'
      BY <1>1, <1>3, <2>1, <3>1 DEF Follows, Now
    <3> QED BY <1>2, <1>4, <3>1, <3>2 DEF Now
  <2>3. CASE /\ wait[w].pin \in {None, status.sess} /\ status.state \in Terminal
             /\ Finish(w, status.sess, Verdict(w, status.state))
    <3>1. /\ Verdict(w, status.state) \in Results /\ Verdict(w, status.state) # "ready"
          /\ Verdict(w, status.state) = "ok" => status.state = "completed"
      BY <2>3, VerdictIs
    <3>2. Now(w, "done", wait[w].pin, status.sess, Verdict(w, status.state))
      BY <1>3, <2>1, <2>3, <3>1, FinishIs
    <3>3. Follows(w)'
      BY <1>1, <1>3, <2>1, <2>3, <3>1, <3>2 DEF Follows, Now, Published
    <3> QED BY <1>2, <1>4, <3>2, <3>3 DEF Now
  <2>4. CASE /\ wait[w].pin \in {None, status.sess}
             /\ wait' = [wait EXCEPT ![w].at = "read", ![w].sess = status.sess]
    <3>1. Now(w, "read", wait[w].pin, status.sess, wait[w].result)
      BY <1>3, <2>1, <2>4, ReadIs
    <3>2. Follows(w)'
      BY <1>1, <1>3, <2>1, <2>4, <3>1 DEF Follows, Now
    <3> QED BY <1>2, <1>4, <3>1, <3>2 DEF Now
  <2> QED BY <1>6, <2>2, <2>3, <2>4 DEF PollSession
<1> QED BY <1>5, <1>6

LEMMA AskSteps ==
    ASSUME Inv, NEW w \in Waiters, Ask(w) \/ AskFails(w) \/ RecoverLock(w)
    PROVE  Inv' /\ Final
<1>1. UNCHANGED <<cast, status, owner, db, clean, proc>>
  BY DEF Ask, AskFails, RecoverLock
<1>2. /\ Follows(w) /\ TypeOK /\ wait[w].at \in {"read", "asked", "recover"}
      /\ wait[w].sess \in Named /\ wait[w].sess \in Sessions
  BY DEF Inv, Follows, Ask, AskFails, RecoverLock, Named
<1>3. faults' \in 0..cast.faults
  BY <1>2, Types DEF Ask, AskFails, RecoverLock, Fault, TypeOK
<1>4. /\ handling' \subseteq handling \cup {<<w, wait[w].sess>>}
      /\ handling' = handling \/ proc[wait[w].sess].at \in Listening
  BY DEF Ask, AskFails, RecoverLock
<1>5. PICK at \in {"asked", "recover", "locked", "poll"} :
        /\ \/ at = "poll" /\ Again(w)
           \/ at # "poll" /\ wait' = [wait EXCEPT ![w].at = at]
        /\ \/ at = "locked" /\ lock = None /\ lock' = w
           \/ at # "locked" /\ lock' = lock
  <2>1. CASE Ask(w)
    BY <2>1 DEF Ask
  <2>2. CASE AskFails(w)
    BY <2>2 DEF AskFails
  <2>3. CASE RecoverLock(w)
    BY <2>3 DEF RecoverLock
  <2> QED BY <2>1, <2>2, <2>3
<1>6. PICK pin \in Sessions \cup {None} :
        /\ Now(w, at, pin, wait[w].sess, wait[w].result)
        /\ at = "poll" => pin = wait[w].sess
  <2>1. wait[w].pin \in Sessions \cup {None}
    BY <1>2, Types DEF Waiter
  <2>2. CASE at = "poll"
    BY <1>2, <1>5, <2>2, AgainIs
  <2>3. CASE at # "poll"
    BY <1>2, <1>5, <2>1, <2>3, GoesIs
  <2> QED BY <2>2, <2>3
<1>7. lock' \in Sessions \cup Waiters \cup {None}
  BY <1>2, <1>5 DEF TypeOK
<1>8. handling' \subseteq Waiters \X Sessions
  BY <1>2, <1>4 DEF TypeOK
<1>9. TypeOK'
  BY <1>1, <1>2, <1>3, <1>6, <1>7, <1>8 DEF TypeOK, Now, Waiter
<1>10. WaiterFrame(w)
  BY <1>1, <1>2, <1>4, <1>5, <1>6, SessionAssumption DEF WaiterFrame, Now
<1>11. Follows(w)'
  BY <1>1, <1>2, <1>5, <1>6, SessionAssumption DEF Follows, Now
<1> QED BY <1>9, <1>10, <1>11, WaiterStep

LEMMA RecoverStep ==
    ASSUME Inv, NEW w \in Waiters, Recover(w)
    PROVE  Inv' /\ Final
<1> DEFINE state == IF DrainEnded /\ ~db.lastExpired THEN "completed" ELSE "failed"
           x == wait[w].sess
<1>1. /\ Follows(w) /\ Published(x) /\ Watching(x) /\ TypeOK /\ Durable
      /\ wait[w].at = "locked" /\ lock = w /\ x \in Named /\ x \in Sessions
      /\ status.sess \in Sessions \cup {None}
  BY Types DEF Inv, Follows, Recover, Named, Status
<1>2. UNCHANGED <<cast, owner, db, clean, proc, handling>> /\ lock' = None
  BY DEF Recover
<1>3. faults' \in 0..cast.faults
  BY <1>1, Types DEF Recover, Fault, TypeOK
<1>4. state \in Terminal /\ (state = "completed" => status.gen # 0 /\ status.gen \in clean)
  BY <1>1 DEF Durable, DrainEnded, Terminal
<1>5. PICK r \in Results :
        /\ Finish(w, status.sess, r) /\ r # "ready"
        /\ \/ status' = status
           \/ /\ status' = [status EXCEPT !.state = state]
              /\ status.sess = x /\ status.state \notin Terminal
        /\ r = "ok" => status.sess = x /\ status'.state = "completed"
  <2>1. CASE status.sess # x
    BY <2>1 DEF Recover, Results
  <2>2. CASE status.sess = x /\ status.state \in Terminal
    BY <2>2, VerdictIs DEF Recover
  <2>3. CASE status.sess = x /\ status.state \notin Terminal
    <3>1. CASE status' = status /\ Finish(w, status.sess, "error")
      BY <3>1 DEF Results
    <3>2. CASE status' = [status EXCEPT !.state = state] /\ Finish(w, status.sess, Verdict(w, state))
      <4>1. status'.state = state
        BY <3>2, Types DEF Status, Inv
      <4> HIDE DEF state
      <4> QED BY <1>4, <2>3, <3>2, <4>1, VerdictIs
    <3> QED BY <2>3, <3>1, <3>2 DEF Recover
  <2> QED BY <2>1, <2>2, <2>3
<1> HIDE DEF state
<1>6. /\ status' \in Status /\ status'.sess = status.sess /\ status'.gen = status.gen
      /\ status'.state \in {status.state, state}
  BY <1>1, <1>4, <1>5, Types DEF Status, Terminal, States
<1>7. Now(w, "done", wait[w].pin, status.sess, r)
  BY <1>1, <1>5, FinishIs
<1>8. TypeOK'
  BY <1>1, <1>2, <1>3, <1>6, <1>7 DEF TypeOK, Now, Waiter, Status
<1>9. status.gen # 0 /\ status.sess = x => status.gen = proc[x].began
  BY <1>1 DEF Published
<1>10. WaiterFrame(w)
  BY <1>1, <1>2, <1>4, <1>5, <1>6, <1>7, <1>9, SessionAssumption DEF WaiterFrame, Now, Terminal
<1>11. Follows(w)'
  <2>1. r = "ok" => proc[x].began \in clean
    BY <1>1, <1>4, <1>5, <1>6, <1>9 DEF Published, Terminal
  <2> QED BY <1>1, <1>2, <1>5, <1>7, <2>1, SessionAssumption DEF Follows, Now
<1> QED BY <1>8, <1>10, <1>11, WaiterStep

-----------------------------------------------------------------------------
(***************************************************************************)
(* A watcher handles a request, whether or not its client still waits.     *)
(***************************************************************************)
LEMMA AnswerIs ==
    ASSUME Inv, NEW w \in Waiters, NEW s \in Named, NEW state, Answer(w, s, state)
    PROVE  /\ wait' \in [Waiters -> Waiter] /\ \A v \in Waiters \ {w} : wait'[v] = wait[v]
           /\ \/ wait' = wait
              \/ /\ wait[w].at = "asked" /\ wait[w].sess = s /\ wait'[w].sess = s
                 /\ \/ /\ wait'[w].at = "done" /\ wait'[w].result \in {"ready", "notready"}
                    \/ /\ wait'[w].at = "poll" /\ wait'[w].pin = s
                       /\ wait'[w].result = wait[w].result
<1>1. s \in Sessions /\ TypeOK /\ wait \in [Waiters -> Waiter]
  BY Types DEF Inv, Named
<1>2. CASE wait' = wait
  BY <1>1, <1>2
<1>3. CASE wait[w].at = "asked" /\ wait[w].sess = s /\ Finish(w, s, "ready")
  BY <1>1, <1>3, FinishIs DEF Now, Results
<1>4. CASE wait[w].at = "asked" /\ wait[w].sess = s /\ Finish(w, s, "notready")
  BY <1>1, <1>4, FinishIs DEF Now, Results
<1>5. CASE wait[w].at = "asked" /\ wait[w].sess = s /\ Again(w)
  BY <1>1, <1>5, AgainIs DEF Now
<1> QED BY <1>2, <1>3, <1>4, <1>5 DEF Answer

LEMMA HandleStep ==
    ASSUME Inv, NEW w \in Waiters, NEW s \in Sessions, Handle(w, s)
    PROVE  Inv' /\ Final
<1>1. /\ <<w, s>> \in handling /\ handling' = handling \ {<<w, s>>}
      /\ Answer(w, s, proc'[s].state) /\ UNCHANGED <<cast, lock, owner, db, clean>>
  BY DEF Handle
<1>2. /\ Watching(s) /\ Handling(s) /\ Follows(w) /\ TypeOK /\ proc[s] \in Proc
      /\ s \in Named /\ proc[s].at \in Listening \cup {"final", "written"}
  <2>1. Watching(s) /\ Handling(s) /\ Follows(w) /\ TypeOK /\ proc[s] \in Proc
    BY Types DEF Inv
  <2>2. s \in Named /\ proc[s].at \in Listening \cup {"final", "written"}
    BY <1>1, <2>1 DEF Handling
  <2> QED BY <2>1, <2>2
<1>3. faults' \in 0..cast.faults
  <2>1. faults' = faults \/ Fault
    BY DEF Handle
  <2>2. faults \in 0..cast.faults /\ cast.faults \in Nat
    BY <1>2, Types DEF TypeOK
  <2> QED BY <2>1, <2>2 DEF Fault
<1>4. PICK q \in Proc :
        /\ proc' = [proc EXCEPT ![s] = q]
        /\ q.at = proc[s].at /\ q.gen = proc[s].gen /\ q.began = proc[s].began /\ q.ok = proc[s].ok
        /\ \/ q.state = proc[s].state /\ status' = status
           \/ /\ q.state = "draining" /\ proc[s].state \notin Terminal
              /\ status' = status \/ Write(s, q)
  <2>1. CASE ~AcceptsStop(w, s)
    <3>1. proc' = proc /\ status' = status
      BY <2>1 DEF Handle
    <3>2. proc' = [proc EXCEPT ![s] = proc[s]]
      BY <1>2, <3>1 DEF TypeOK
    <3> QED BY <1>2, <3>1, <3>2
  <2>2. CASE AcceptsStop(w, s)
    <3>1. PICK e \in BOOLEAN :
            /\ Step(s, Stopped(s, e)) /\ (status' = status \/ Write(s, Stopped(s, e)))
      BY <2>2 DEF Handle
    <3>2. Is(Stopped(s, e), proc[s].at, "draining", proc[s].gen, proc[s].began, proc[s].ok)
      <4>1. 0 \in Nat
        OBVIOUS
      <4> QED BY <1>2, <4>1, Reports DEF Stopped
    <3> QED BY <2>2, <3>1, <3>2 DEF Is, Step, AcceptsStop
  <2> QED BY <2>1, <2>2
<1>5. /\ proc' \in [Sessions -> Proc] /\ proc'[s] = q
      /\ \A t \in Sessions \ {s} : proc'[t] = proc[t]
  BY <1>2, <1>4, StepType DEF Step
<1>6. /\ status' \in Status
      /\ \/ status' = status
         \/ status'.sess = s /\ status'.state = q.state /\ status'.gen = q.gen
  BY <1>2, <1>4, WriteType, Types
<1>7. /\ wait' \in [Waiters -> Waiter] /\ \A v \in Waiters \ {w} : wait'[v] = wait[v]
      /\ \/ wait' = wait
         \/ /\ wait[w].at = "asked" /\ wait[w].sess = s /\ wait'[w].sess = s
            /\ \/ /\ wait'[w].at = "done" /\ wait'[w].result \in {"ready", "notready"}
               \/ /\ wait'[w].at = "poll" /\ wait'[w].pin = s
                  /\ wait'[w].result = wait[w].result
  BY <1>1, <1>2, AnswerIs
<1>8. TypeOK'
  BY <1>1, <1>2, <1>3, <1>5, <1>6, <1>7 DEF TypeOK, Proc, Waiter, Status
<1>9. Frame(s)
  BY <1>1, <1>4, <1>5 DEF Frame
<1>10. proc[s].state \notin Terminal => proc[s].at \in Open /\ proc[s].at # "locked"
  BY <1>2 DEF Watching, Open, Listening
<1>11. Forward(s)
  BY <1>2, <1>4, <1>5, <1>6, <1>10 DEF Forward, Terminal, Listening
<1>12. Durable'
  BY <1>1, <1>2, <1>6 DEF Inv, Durable
<1>13. Watching(s)'
  BY <1>1, <1>2, <1>4, <1>5, <1>10 DEF Watching, Terminal, Open
<1>14. Handling(s)'
  BY <1>1, <1>2, <1>4, <1>5 DEF Handling
<1>15. ASSUME NEW v \in Waiters PROVE Follows(v)'
  <2>1. CASE wait'[v] = wait[v]
    BY <1>9, <2>1, FollowsStays
  <2>2. CASE v = w /\ ~(wait' = wait)
    BY <1>1, <1>2, <1>7, <2>2 DEF Follows
  <2> QED BY <1>7, <2>1, <2>2
<1> QED BY <1>8, <1>9, <1>11, <1>12, <1>13, <1>14, <1>15, SessionStep

-----------------------------------------------------------------------------
LEMMA InitInv == Init => Inv
<1> SUFFICES ASSUME Init PROVE Inv
  OBVIOUS
<1> USE DEF Init
<1>1. TypeOK
  <2>1. cast \in CastType
    BY CastAssumption
  <2>2. 0 \in 0..cast.faults
    BY <2>1 DEF CastType
  <2> QED BY <2>1, <2>2, SessionAssumption
          DEF TypeOK, NoStatus, States, Places, Results, CastType
<1>2. Durable
  BY DEF Durable
<1>3. ASSUME NEW s \in Sessions PROVE Watching(s) /\ Published(s) /\ Handling(s)
  BY SessionAssumption DEF Watching, Published, Handling, NoStatus, Open, Running, Listening,
                           HasState, Terminal
<1>4. ASSUME NEW w \in Waiters PROVE Follows(w)
  BY SessionAssumption DEF Follows
<1> QED BY <1>1, <1>2, <1>3, <1>4 DEF Inv

LEMMA NextInv == Inv /\ [Next]_vars => Inv' /\ Final
<1> SUFFICES ASSUME Inv, [Next]_vars PROVE Inv' /\ Final
  OBVIOUS
<1>1. ASSUME NEW s \in Sessions, WatchStep(s) \/ Interrupt(s) \/ Crash(s) PROVE Inv' /\ Final
  BY <1>1, StartSteps, ReportDrainStep, FailSteps, WriteFinalStep, NewSessionStep,
     OpenStateStep, WatchReturnsStep, EndDrainSteps, BeginDrainStep, EndSteps DEF WatchStep
<1>2. ASSUME NEW w \in Waiters, WaitStep(w) \/ WaitTimesOut(w) PROVE Inv' /\ Final
  BY <1>2, PollSteps, AskSteps, RecoverStep DEF WaitStep
<1>3. ASSUME NEW w \in Waiters, NEW s \in Sessions, Handle(w, s) PROVE Inv' /\ Final
  BY <1>3, HandleStep
<1>4. CASE UNCHANGED vars
  BY <1>4 DEF vars, Inv, TypeOK, Durable, Watching, Published, Handling, Follows, Final
<1> QED BY <1>1, <1>2, <1>3, <1>4 DEF Next

\* What the invariant is for.
LEMMA InvCorrect == Inv => TypeOK /\ VerifiedResult /\ WaitIsTruthful
<1> SUFFICES ASSUME Inv PROVE TypeOK /\ VerifiedResult /\ WaitIsTruthful
  OBVIOUS
<1>1. VerifiedResult
  BY DEF Inv, Durable, Published, VerifiedResult, Delivered, NoStatus, Named
<1>2. WaitIsTruthful
  BY DEF Inv, Follows, WaitIsTruthful, Delivered
<1> QED BY <1>1, <1>2 DEF Inv

LEMMA SpecInv == Spec => []Inv
BY InitInv, NextInv, PTL DEF Spec

-----------------------------------------------------------------------------
\* The variables of watchers, waiters, the status file and the database keep
\* their types, and a drain is recorded as clean only for a generation that has
\* begun (Session in watch/session.go, the checkpoint in db/schema.sql).
THEOREM TypeCorrect == Spec => []TypeOK
BY SpecInv, InvCorrect, PTL

\* Whoever writes "completed" into the status file - the watcher in Close or a
\* waiter in recoverSession - the session's own drain has ended with nothing
\* expired, for any number of sessions, waiters and faults.
THEOREM VerifiedResultCorrect == Spec => []VerifiedResult
BY SpecInv, InvCorrect, PTL

\* wait-for reports success only for a delivered session, and with --session
\* only for the session it was given, whatever is killed and replaced between
\* its reads (pollSession, recoverSession).
THEOREM WaitIsTruthfulCorrect == Spec => []WaitIsTruthful
BY SpecInv, InvCorrect, PTL

\* No late control request, report or recovery changes a published result; only
\* the next session replaces it (Session.handle, Session.Close).
THEOREM ResultIsFinalCorrect == Spec => ResultIsFinal
<1>1. Inv /\ [Next]_vars =>
        [status.state \in Terminal => status' = status \/ status'.sess # status.sess]_vars
  BY NextInv DEF Final
<1> QED BY <1>1, SpecInv, PTL DEF Spec, ResultIsFinal

=============================================================================
