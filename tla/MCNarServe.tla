----------------------------- MODULE MCNarServe -----------------------------
(* Instances of NarServe for TLC. *)
EXTENDS NarServe, TLC

\* A directory with a file and a directory, and what a NAR cannot hold.
McTree   == << >> :> "directory" @@ <<1>> :> "directory" @@ <<1, 1>> :> "symlink" @@ <<2>> :> "regular"
McFifo   == << >> :> "directory" @@ <<1>> :> "other"
McDeep   == << >> :> "directory" @@ <<1>> :> "directory" @@ <<1, 1>> :> "directory"
McTrees  == {McTree, McFifo, McDeep}
McRefs   == {"dep"}
=============================================================================
