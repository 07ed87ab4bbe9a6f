---------------------------- MODULE MCZstdCache ----------------------------
(* Instances of ZstdCache for TLC. *)
EXTENDS ZstdCache, TLC

CONSTANTS k1, k2

McSize     == [k \in Keys |-> IF k = k1 THEN 1 ELSE 3]
McOneByte  == [k \in Keys |-> 1]
McSymmetry == Permutations(Entries) \cup Permutations(Reqs)
=============================================================================
