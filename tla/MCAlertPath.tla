---------------------------- MODULE MCAlertPath ----------------------------
(***************************************************************************)
(* An instance of AlertPath: two findings share a node, and the third has  *)
(* the pattern of the second on another node.                              *)
(***************************************************************************)
EXTENDS AlertPath

Findings == {[node |-> "n1", pattern |-> "p1", headline |-> "h1"],
             [node |-> "n1", pattern |-> "p2", headline |-> "h2"],
             [node |-> "n2", pattern |-> "p2", headline |-> "h2"]}
=============================================================================
