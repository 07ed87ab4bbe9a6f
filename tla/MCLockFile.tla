----------------------------- MODULE MCLockFile -----------------------------
(* An instance of LockFile for TLC. *)
EXTENDS LockFile, TLC

CONSTANTS gc, push

McUser == [p \in Callers |-> IF p = gc THEN "root" ELSE Owner]
\* Inodes are interchangeable.
McSymmetry == Permutations(Dirs) \cup Permutations(Files)
=============================================================================
