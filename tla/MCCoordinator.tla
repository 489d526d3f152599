---------------------------- MODULE MCCoordinator ----------------------------
(***************************************************************************)
(* An instance of Coordinator in which the last node observes: until its   *)
(* first tick it shows itself as a leader, the others as followers.        *)
(***************************************************************************)
EXTENDS Coordinator

LastObserves == [n \in Node |-> IF n = N THEN "observer" ELSE "follower"]
=============================================================================
