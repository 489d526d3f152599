---------------------------- MODULE MCGovernance ----------------------------
(***************************************************************************)
(* Approvals and AuditLog in one run: the two records of what operators    *)
(* were allowed to do and did, which the daemon keeps in files and loads   *)
(* at start.  They share no variable, so the properties of each depend on  *)
(* its own steps only.  Their product would only multiply the states: each *)
(* moves while the other is at rest in its initial state, and every state  *)
(* of each is explored.                                                    *)
(***************************************************************************)
EXTENDS Approvals, AuditLog

BothInit == Init /\ AuditInit

BothNext ==
    \/ AuditInit /\ Next /\ UNCHANGED auditVars
    \/ Init /\ AuditNext /\ UNCHANGED vars

BothSpec == BothInit /\ [][BothNext]_<<vars, auditVars>>
=============================================================================
