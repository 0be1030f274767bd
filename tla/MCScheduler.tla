---------------------------- MODULE MCScheduler ----------------------------
(* Model-checking instances of Scheduler: two projects, the one a file      *)
(* watcher's, the other with a producer that declares the git lane.         *)
EXTENDS Scheduler, TLC

CONSTANTS p1, p2
MCLaneOf == p1 :> "fs" @@ p2 :> "git"

\* Three changes of one project let one arrive behind a recluster that waits.
MCMaxEvents == p1 :> 3 @@ p2 :> 1
MCTwoEvents == p1 :> 2 @@ p2 :> 2
MCOnePending == p1 :> 1 @@ p2 :> 1
=============================================================================
