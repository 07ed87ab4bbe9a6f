--------------------------- MODULE MCUploadClosure ---------------------------
(***************************************************************************)
(* Instances of UploadClosure for TLC: every reference graph on Paths, one *)
(* of those that differ in the names of the paths only.                    *)
(***************************************************************************)
EXTENDS UploadClosure, TLC

Renamed(r, f) == [p \in Paths |-> {f[q] : q \in r[CHOOSE o \in Paths : f[o] = p]}]

McInit ==
    Init /\ refs = CHOOSE r \in {Renamed(refs, f) : f \in Permutations(Paths)} : TRUE

McSpec == McInit /\ [][Next]_vars /\ Fairness
=============================================================================
