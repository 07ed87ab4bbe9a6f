---------------------------- MODULE MCWatchQueue ----------------------------
(***************************************************************************)
(* Instances of WatchQueue for TLC.                                        *)
(***************************************************************************)
EXTENDS WatchQueue, TLC

CONSTANTS p1, p2

MCPaths == {p1, p2}
MCRank  == p1 :> 1 @@ p2 :> 2

\* One database, failures, and paths given up on; or one that is replaced.
MCRecovery == {[sources |-> 1, expiry |-> FALSE, faults |-> 2],
               [sources |-> 1, expiry |-> TRUE, faults |-> 0],
               [sources |-> 2, expiry |-> FALSE, faults |-> 0]}
MCLive     == {[sources |-> 1, expiry |-> FALSE, faults |-> 1]}
=============================================================================
