---------------------------- MODULE MCPushSystem ----------------------------
(* Instances of PushSystem for TLC. *)
EXTENDS PushSystem, TLC

CONSTANTS p1, p2, good, evil, serve, cli

\* Two paths with the same contents: they share a spool name.
McRefs     == [p \in Paths |-> IF p = p2 THEN {p1} ELSE {}]
McNoRefs   == [p \in Paths |-> {}]
McWant     == [p \in Paths |-> good]
McStripeOf == [p \in Paths |-> "s1"]
McNameOf   == [p \in Paths |-> "n1"]
McSizeOf   == [b \in Bodies |-> 1]
McOneRule  == <<[threshold |-> 80, olderThan |-> 1]>>
\* The age of the rule is less than a tick of the clock.
McShortRule == <<[threshold |-> 80, olderThan |-> 0]>>
McCooldown == [g \in Runners |-> IF g = serve THEN 2 ELSE 0]
\* Requests are interchangeable.
McSymmetry == Permutations(Reqs)
=============================================================================
