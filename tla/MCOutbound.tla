----------------------------- MODULE MCOutbound -----------------------------
(***************************************************************************)
(* SiemOutbox and NotifyDelivery in one run: the two ways out of the       *)
(* daemon to receivers that fail, lose answers or confirm nothing.  They   *)
(* share no variable, so the properties of each depend on its own steps    *)
(* only.  Their product would only multiply the states: each moves while   *)
(* the other is at rest in its initial state, where none of its fair       *)
(* actions is enabled, and every state and every behaviour of each is      *)
(* explored.  Two channels are notified.                                   *)
(***************************************************************************)
EXTENDS SiemOutbox, NotifyDelivery

Channels == <<"slack", "webhook">>

BothInit == Init /\ NotifyInit

BothNext ==
    \/ NotifyInit /\ Next /\ UNCHANGED notifyVars
    \/ Init /\ NotifyNext /\ UNCHANGED vars

BothSpec ==
    /\ BothInit
    /\ [][BothNext]_<<vars, notifyVars>>
    /\ Fairness /\ NotifyFairness
=============================================================================
