----------------------------- MODULE MCSession -----------------------------
(* Instances of Session for TLC. *)
EXTENDS Session

CONSTANTS s1, s2, s3, w1, w2

McMode == [w \in Waiters |-> IF w = w1 THEN "stop" ELSE "ready"]

Cast(S, W, p, n) == [sessions |-> S, waiters |-> W, pin |-> p, faults |-> n]

\* One pid file taken over; a drain state shared with an unnamed watcher; two
\* waiters at one session.
McCasts == {Cast({s1, s2}, {w1}, s1, 1), Cast({s1, s3}, {w1}, None, 1),
            Cast({s1}, {w1, w2}, None, 2)}
=============================================================================
