------------------------------ MODULE Session ------------------------------
(***************************************************************************)
(* Named watcher sessions: `watch --pid-file` publishes its progress in a  *)
(* status file and answers on a control socket; `wait-for` follows both,   *)
(* and when the watcher died it takes the session lock and settles the     *)
(* result from the durable drain state (watch/session.go, progress.go).    *)
(*                                                                         *)
(* Of the watcher itself only the drain's generations are kept: WatchQueue *)
(* models what a drain delivers.  All sessions share one pid-file path and *)
(* one state database; the Unnamed watchers have no pid file.              *)
(***************************************************************************)
EXTENDS Integers, FiniteSets

CONSTANTS
    Sessions,   \* runs of `watch`, each with a fresh token
    Unnamed,    \* the runs without --pid-file
    Waiters,    \* runs of `wait-for`
    Mode,       \* Mode[w]: "ready", "stop" or "wait"
    Casts,      \* who takes part in a behaviour: see CastType
    None

ASSUME SessionAssumption ==
    /\ IsFiniteSet(Sessions) /\ IsFiniteSet(Waiters) /\ Unnamed \subseteq Sessions
    /\ Mode \in [Waiters -> {"ready", "stop", "wait"}]
    /\ None \notin Sessions \cup Waiters
    /\ Sessions \cap Waiters = {}

\* pin: the waiters' --session, or None; faults: bound on crashes, failing file
\* operations and lost answers.
CastType == [sessions : SUBSET Sessions, waiters : SUBSET Waiters,
             pin : Sessions \cup {None}, faults : Nat]

ASSUME CastAssumption == \A c \in Casts : c \in CastType

VARIABLES
    cast,       \* the one of Casts this behaviour has
    lock,       \* who holds <pid-file>.lock
    status,     \* <pid-file>.status.json
    owner,      \* who has the state database open
    db,         \* the drain fields of its checkpoint
    clean,      \* generations whose drain ended with nothing expired
    proc,       \* the watchers
    handling,   \* control requests that a watcher has accepted
    wait,       \* the waiters
    faults

vars == <<cast, lock, status, owner, db, clean, proc, handling, wait, faults>>

States   == {"starting", "ready", "draining", "completed", "failed"}
Terminal == {"completed", "failed"}
Places   == {"new", "locked", "listen", "open", "opened", "loop", "expired", "begun",
             "drain", "ended", "closing", "final", "written", "exited", "dead"}
Results  == {"none", "ok", "ready", "failed", "notready", "replaced", "timeout", "error"}

NoStatus == [sess |-> None, state |-> "starting", gen |-> 0]

TypeOK ==
    /\ lock \in Sessions \cup Waiters \cup {None} /\ owner \in Sessions \cup {None}
    /\ status \in [sess : Sessions \cup {None}, state : States, gen : Nat]
    /\ db \in [gen : Nat, draining : BOOLEAN, lastGen : Nat, lastExpired : BOOLEAN]
    /\ clean \subseteq 1..db.gen
    /\ proc \in [Sessions -> [at : Places, state : States, gen : Nat, began : Nat,
                              cancelled : BOOLEAN, stopped : BOOLEAN, ok : BOOLEAN,
                              writeErr : BOOLEAN]]
    /\ handling \subseteq Waiters \X Sessions
    /\ wait \in [Waiters -> [at : {"poll", "read", "asked", "recover", "locked", "done"},
                             pin : Sessions \cup {None}, sess : Sessions \cup {None},
                             result : Results]]
    /\ cast \in Casts /\ faults \in 0..cast.faults

Init ==
    /\ cast \in Casts
    /\ lock = None /\ owner = None /\ status = NoStatus
    /\ db = [gen |-> 0, draining |-> FALSE, lastGen |-> 0, lastExpired |-> FALSE]
    /\ clean = {} /\ handling = {} /\ faults = 0
    /\ proc = [s \in Sessions |-> [at |-> "new", state |-> "starting", gen |-> 0,
                                   began |-> 0, cancelled |-> FALSE, stopped |-> FALSE,
                                   ok |-> TRUE, writeErr |-> FALSE]]
    /\ wait = [w \in Waiters |-> [at |-> "poll", pin |-> cast.pin, sess |-> None,
                                  result |-> "none"]]

Fault == faults < cast.faults /\ faults' = faults + 1

Listening == {"open", "opened", "loop", "expired", "begun", "drain", "ended", "closing"}
HasState  == {"opened", "loop", "expired", "begun", "drain", "ended"}

\* s goes to p; Session.write puts the in-memory status into the file.
Step(s, p) == proc' = [proc EXCEPT ![s] = p]
Write(s, p) ==
    status' = IF s \in Unnamed THEN status
              ELSE [sess |-> s, state |-> p.state, gen |-> p.gen]

(***************************************************************************)
(* The watcher: NewSession, Watch and Session.Close.                       *)
(***************************************************************************)
NewSession(s) ==
    /\ s \in cast.sessions /\ proc[s].at = "new"
    /\ \/ s \in Unnamed /\ Step(s, [proc[s] EXCEPT !.at = "open"]) /\ UNCHANGED lock
       \/ s \notin Unnamed /\ lock = None /\ lock' = s
          /\ Step(s, [proc[s] EXCEPT !.at = "locked"])
       \/ s \notin Unnamed /\ lock # None /\ UNCHANGED lock
          /\ Step(s, [proc[s] EXCEPT !.at = "exited"])
    /\ UNCHANGED <<cast, status, owner, db, clean, handling, wait, faults>>

WriteStarting(s) ==
    /\ proc[s].at = "locked"
    /\ Step(s, [proc[s] EXCEPT !.at = "listen"])
    /\ Write(s, proc[s])
    /\ UNCHANGED <<cast, lock, owner, db, clean, handling, wait, faults>>

\* The PID file and the control socket.
Listen(s) ==
    /\ proc[s].at = "listen"
    /\ Step(s, [proc[s] EXCEPT !.at = "open"])
    /\ UNCHANGED <<cast, lock, status, owner, db, clean, handling, wait, faults>>

\* newPoller: db.Open and queries under ctx.
OpenState(s) ==
    /\ proc[s].at = "open" /\ owner = None /\ ~proc[s].cancelled
    /\ owner' = s
    /\ Step(s, [proc[s] EXCEPT !.at = "opened"])
    /\ UNCHANGED <<cast, lock, status, db, clean, handling, wait, faults>>

\* Ready does not undo a stop.
Ready(s) ==
    LET p == [proc[s] EXCEPT !.at = "loop",
                             !.state = IF @ = "starting" THEN "ready" ELSE @]
    IN  /\ proc[s].at = "opened"
        /\ Step(s, p)
        /\ Write(s, p)
        /\ UNCHANGED <<cast, lock, owner, db, clean, handling, wait, faults>>

\* A signal, or --idle-exit.
Interrupt(s) ==
    /\ proc[s].at \in Listening /\ ~proc[s].cancelled
    /\ Step(s, [proc[s] EXCEPT !.cancelled = TRUE])
    /\ UNCHANGED <<cast, lock, status, owner, db, clean, handling, wait, faults>>

\* EndDrain, and what complete reports of it.
EndGeneration(expired) ==
    /\ db' = [db EXCEPT !.draining = FALSE, !.lastGen = db.gen, !.lastExpired = expired]
    /\ clean' = IF expired THEN clean ELSE clean \cup {db.gen}

\* Mutant: poll ends a drain that nobody began.
PollCompletesAlways(s) ==
    /\ proc[s].at = "loop" /\ ~proc[s].cancelled
    /\ \E expired \in BOOLEAN :
          /\ EndGeneration(expired)
          /\ Step(s, [proc[s] EXCEPT !.at = IF expired THEN "expired" ELSE "loop"])
    /\ UNCHANGED <<cast, lock, status, owner, handling, wait, faults>>

\* poll finishes the drain an earlier watcher left behind.
PollCompletes(s) ==
    /\ proc[s].at = "loop" /\ ~proc[s].cancelled /\ db.draining
    /\ \E expired \in BOOLEAN :
          /\ EndGeneration(expired)
          /\ Step(s, [proc[s] EXCEPT !.at = IF expired THEN "expired" ELSE "loop"])
    /\ UNCHANGED <<cast, lock, status, owner, handling, wait, faults>>

\* Watch drops poll's error when ctx is cancelled by then.
PollReturns(s) ==
    /\ proc[s].at = "expired"
    /\ Step(s, IF proc[s].cancelled THEN [proc[s] EXCEPT !.at = "loop"]
               ELSE [proc[s] EXCEPT !.at = "ended", !.ok = FALSE])
    /\ UNCHANGED <<cast, lock, status, owner, db, clean, handling, wait, faults>>

BeginDrain(s) ==
    LET gen == IF db.draining THEN db.gen ELSE db.gen + 1 IN
    /\ proc[s].at = "loop" /\ proc[s].cancelled
    /\ db' = [db EXCEPT !.draining = TRUE, !.gen = gen]
    /\ Step(s, [proc[s] EXCEPT !.at = "begun", !.began = gen])
    /\ UNCHANGED <<cast, lock, status, owner, clean, handling, wait, faults>>

\* poller.report: the generation is named only by a watcher that drains.
Reported(s) ==
    IF proc[s].began = 0 THEN [proc[s] EXCEPT !.gen = 0]
    ELSE [proc[s] EXCEPT !.gen = db.gen, !.state = "draining"]

ReportDrain(s) ==
    LET p == [Reported(s) EXCEPT !.at = "drain"] IN
    /\ proc[s].at = "begun"
    /\ Step(s, p)
    /\ Write(s, p)
    /\ UNCHANGED <<cast, lock, owner, db, clean, handling, wait, faults>>

EndDrain(s) ==
    /\ proc[s].at = "drain"
    /\ \E expired \in BOOLEAN :
          /\ EndGeneration(expired)
          /\ Step(s, [proc[s] EXCEPT !.at = "ended", !.ok = ~expired])
    /\ UNCHANGED <<cast, lock, status, owner, handling, wait, faults>>

\* A step returns an error.  A cancelled context fails the queries of newPoller,
\* a drain may leave pending work or meet its deadline.
WatchFails(s) ==
    /\ proc[s].at \in {"locked", "listen", "open", "opened", "loop", "begun", "drain"}
    /\ \/ /\ \/ proc[s].at = "drain"
             \/ proc[s].at = "open" /\ owner # None
             \/ proc[s].at \in {"open", "opened"} /\ proc[s].cancelled
          /\ UNCHANGED faults
       \/ Fault
    /\ Step(s, [proc[s] EXCEPT !.at = IF @ \in HasState THEN "ended" ELSE "closing",
                               !.ok = FALSE])
    /\ UNCHANGED <<cast, lock, status, owner, db, clean, handling, wait>>

\* Watch's deferred report, then the state is closed.
WatchReturns(s) ==
    LET p == [Reported(s) EXCEPT !.at = "closing"] IN
    /\ proc[s].at = "ended"
    /\ \/ Write(s, p) /\ Step(s, p) /\ UNCHANGED faults
       \/ Fault /\ UNCHANGED status /\ Step(s, [p EXCEPT !.ok = FALSE])
    /\ owner' = None
    /\ UNCHANGED <<cast, lock, db, clean, handling, wait>>

\* Shutdown joins the handlers, or gives up after five seconds.
Shutdown(s) ==
    /\ proc[s].at = "closing"
    /\ Step(s, [proc[s] EXCEPT !.at = "final",
                               !.ok = @ /\ \A w \in Waiters : <<w, s>> \notin handling])
    /\ UNCHANGED <<cast, lock, status, owner, db, clean, handling, wait, faults>>

\* The terminal status; a failed write leaves the session to be recovered.
WriteFinal(s) ==
    LET p == [proc[s] EXCEPT !.at = "written",
                 !.state = IF proc[s].ok /\ ~proc[s].writeErr THEN "completed" ELSE "failed"]
    IN  /\ proc[s].at = "final"
        /\ Step(s, p)
        /\ \/ Write(s, p) /\ UNCHANGED faults
           \/ Fault /\ UNCHANGED status
        /\ UNCHANGED <<cast, lock, owner, db, clean, handling, wait>>

Unlock(s) ==
    /\ proc[s].at = "written"
    /\ lock' = IF lock = s THEN None ELSE lock
    /\ Step(s, [proc[s] EXCEPT !.at = "exited"])
    /\ handling' = {h \in handling : h[2] # s}
    /\ UNCHANGED <<cast, status, owner, db, clean, wait, faults>>

\* The watcher is killed: the kernel drops its locks.
Crash(s) ==
    /\ proc[s].at \notin {"new", "exited", "dead"}
    /\ Fault
    /\ lock' = IF lock = s THEN None ELSE lock
    /\ owner' = IF owner = s THEN None ELSE owner
    /\ handling' = {h \in handling : h[2] # s}
    /\ Step(s, [proc[s] EXCEPT !.at = "dead"])
    /\ UNCHANGED <<cast, status, db, clean, wait>>

(***************************************************************************)
(* wait-for: WaitSession and pollSession.                                  *)
(***************************************************************************)
Finish(w, sess, result) ==
    wait' = [wait EXCEPT ![w].at = "done", ![w].sess = sess, ![w].result = result]

\* The next round of WaitSession, bound to the session it saw.
Again(w) == wait' = [wait EXCEPT ![w].at = "poll", ![w].pin = wait[w].sess]

\* sessionResult.
Verdict(w, state) ==
    CASE state = "failed"   -> "failed"
      [] Mode[w] = "ready"  -> "notready"
      [] OTHER              -> "ok"

\* Mutant: a waiter that was given a session takes whichever result it finds.
PollSessionUnpinned(w) ==
    /\ w \in cast.waiters /\ wait[w].at = "poll" /\ status # NoStatus
    /\ \/ status.state \in Terminal /\ Finish(w, status.sess, Verdict(w, status.state))
       \/ status.state \notin Terminal
          /\ wait' = [wait EXCEPT ![w].at = "read", ![w].sess = status.sess]
    /\ UNCHANGED <<cast, lock, status, owner, db, clean, proc, handling, faults>>

PollSession(w) ==
    LET other == wait[w].pin \notin {None, status.sess} IN
    /\ w \in cast.waiters /\ wait[w].at = "poll" /\ status # NoStatus
    /\ \/ other /\ Finish(w, status.sess, "replaced")
       \/ ~other /\ status.state \in Terminal
          /\ Finish(w, status.sess, Verdict(w, status.state))
       \/ ~other /\ status.state \notin Terminal
          /\ wait' = [wait EXCEPT ![w].at = "read", ![w].sess = status.sess]
    /\ UNCHANGED <<cast, lock, status, owner, db, clean, proc, handling, faults>>

\* --timeout, or the startup timer while no status was read.
WaitTimesOut(w) ==
    /\ w \in cast.waiters
    /\ wait[w].at \in {"poll", "read", "asked", "recover"}
    /\ Finish(w, None, "timeout")
    /\ UNCHANGED <<cast, lock, status, owner, db, clean, proc, handling, faults>>

\* sessionControl connects to the socket that the status named.
Ask(w) ==
    LET s == wait[w].sess IN
    /\ wait[w].at = "read"
    /\ IF proc[s].at \in Listening
       THEN /\ wait' = [wait EXCEPT ![w].at = "asked"]
            /\ handling' = handling \cup {<<w, s>>}
       ELSE wait' = [wait EXCEPT ![w].at = "recover"] /\ UNCHANGED handling
    /\ UNCHANGED <<cast, lock, status, owner, db, clean, proc, faults>>

\* The client gives up after two seconds, or the connection breaks.
AskFails(w) ==
    /\ wait[w].at = "asked"
    /\ proc[wait[w].sess].at \in Listening => Fault
    /\ proc[wait[w].sess].at \notin Listening => UNCHANGED faults
    /\ wait' = [wait EXCEPT ![w].at = "recover"]
    /\ UNCHANGED <<cast, lock, status, owner, db, clean, proc, handling>>

\* What pollSession makes of the answer.
Answer(w, s, state) ==
    IF wait[w].at # "asked" \/ wait[w].sess # s THEN UNCHANGED wait
    ELSE CASE Mode[w] = "ready" /\ state = "draining" -> Finish(w, s, "notready")
           [] Mode[w] = "ready" /\ state = "ready"    -> Finish(w, s, "ready")
           [] OTHER                                   -> Again(w)

\* Session.handle, for the requests of a waiter with --stop and of the others.
Stopped(s, err) ==
    [proc[s] EXCEPT !.stopped = TRUE, !.state = "draining", !.cancelled = TRUE,
                    !.writeErr = err]

\* Mutant: a stop that arrives after the result still marks the session draining.
AcceptsStopAlways(w, s) == Mode[w] = "stop" /\ ~proc[s].stopped

AcceptsStop(w, s) ==
    Mode[w] = "stop" /\ ~proc[s].stopped /\ proc[s].state \notin Terminal

\* Mutant: the handler answers and never cancels the watcher.
HandleWithoutCancel(w, s) ==
    /\ <<w, s>> \in handling
    /\ handling' = handling \ {<<w, s>>}
    /\ IF AcceptsStop(w, s)
       THEN LET p == [proc[s] EXCEPT !.stopped = TRUE, !.state = "draining"]
            IN  Step(s, p) /\ Write(s, p)
       ELSE UNCHANGED <<proc, status>>
    /\ Answer(w, s, proc'[s].state)
    /\ UNCHANGED <<cast, lock, owner, db, clean, faults>>

Handle(w, s) ==
    /\ <<w, s>> \in handling
    /\ handling' = handling \ {<<w, s>>}
    /\ \/ /\ AcceptsStop(w, s)
          /\ \/ Step(s, Stopped(s, FALSE)) /\ Write(s, Stopped(s, FALSE)) /\ UNCHANGED faults
             \/ Step(s, Stopped(s, TRUE)) /\ UNCHANGED status /\ Fault
       \/ ~AcceptsStop(w, s) /\ UNCHANGED <<proc, status, faults>>
    /\ Answer(w, s, proc'[s].state)
    /\ UNCHANGED <<cast, lock, owner, db, clean>>

(***************************************************************************)
(* recoverSession and recoverDrain.                                        *)
(***************************************************************************)
RecoverLock(w) ==
    /\ wait[w].at = "recover"
    /\ IF lock = None THEN lock' = w /\ wait' = [wait EXCEPT ![w].at = "locked"]
                      ELSE UNCHANGED lock /\ Again(w)
    /\ UNCHANGED <<cast, status, owner, db, clean, proc, handling, faults>>

\* Mutant: any result of the database settles the session.
DrainEndedAnyGeneration == status.gen # 0 /\ db.lastGen # 0 /\ ~db.draining

\* The drain the session reported is the last one, and it has ended.
DrainEnded ==
    status.gen # 0 /\ db.gen = status.gen /\ db.lastGen = status.gen /\ ~db.draining

\* Under the session lock: believe the database, or call the session abandoned.
Recover(w) ==
    LET state == IF DrainEnded /\ ~db.lastExpired THEN "completed" ELSE "failed" IN
    /\ wait[w].at = "locked"
    /\ lock' = None
    /\ \/ status.sess # wait[w].sess
          /\ Finish(w, status.sess, "replaced") /\ UNCHANGED <<status, faults>>
       \/ status.sess = wait[w].sess /\ status.state \in Terminal
          /\ Finish(w, status.sess, Verdict(w, status.state)) /\ UNCHANGED <<status, faults>>
       \/ status.sess = wait[w].sess /\ status.state \notin Terminal
          /\ \/ /\ status.gen = 0 \/ owner = None
                /\ status' = [status EXCEPT !.state = state]
                /\ Finish(w, status.sess, Verdict(w, state))
                /\ UNCHANGED faults
             \/ /\ status.gen # 0 /\ owner # None
                /\ Finish(w, status.sess, "error") /\ UNCHANGED <<status, faults>>
             \/ Fault /\ Finish(w, status.sess, "error") /\ UNCHANGED status
    /\ UNCHANGED <<cast, owner, db, clean, proc, handling>>

WatchStep(s) ==
    \/ NewSession(s) \/ WriteStarting(s) \/ Listen(s) \/ OpenState(s) \/ Ready(s)
    \/ PollCompletes(s) \/ PollReturns(s) \/ BeginDrain(s) \/ ReportDrain(s) \/ EndDrain(s)
    \/ WatchFails(s) \/ WatchReturns(s) \/ Shutdown(s) \/ WriteFinal(s) \/ Unlock(s)

WaitStep(w) == PollSession(w) \/ Ask(w) \/ AskFails(w) \/ RecoverLock(w) \/ Recover(w)

Next ==
    \/ \E s \in Sessions : WatchStep(s) \/ Interrupt(s) \/ Crash(s)
    \/ \E w \in Waiters : WaitStep(w) \/ WaitTimesOut(w) \/ \E s \in Sessions : Handle(w, s)

Spec == Init /\ [][Next]_vars

(***************************************************************************)
(* Properties                                                              *)
(***************************************************************************)
\* The drain that session s began has ended with everything delivered.
Delivered(s) == proc[s].began \in clean

\* The status file says "completed" only of a session whose own drain ended with
\* nothing expired, whoever wrote it: the watcher in Close, or a waiter that
\* recovered the session of a killed watcher from a database in which other
\* watchers have drained since (recoverDrain).
VerifiedResult == status.state = "completed" => Delivered(status.sess)

\* wait-for exits 0 only for a delivered session, and with --session only for the
\* session it was given, although watchers are killed and replaced between its
\* reads (pollSession, recoverSession).
WaitIsTruthful ==
    \A w \in Waiters : wait[w].result \in {"ok", "ready"} =>
       /\ cast.pin \in {None, wait[w].sess}
       /\ wait[w].result = "ok" => Delivered(wait[w].sess)

\* A published result is final: late control requests, reports and recoveries do
\* not change it, only the next session replaces it (Session.handle, close).
ResultIsFinal ==
    [][status.state \in Terminal => status' = status \/ status'.sess # status.sess]_vars

Fairness ==
    /\ \A s \in Sessions : WF_vars(WatchStep(s))
    /\ \A w \in Waiters : WF_vars(WaitStep(w)) /\ \A s \in Sessions : WF_vars(Handle(w, s))

FairSpec == Spec /\ Fairness

\* A waiter with --stop that has reached a session gets a result without any
\* timeout, although the watcher may be killed, answer late, or fail to write.
StopIsAnswered ==
    \A w \in Waiters : (Mode[w] = "stop" /\ wait[w].at = "read") ~> (wait[w].at = "done")
=============================================================================
