----------------------------- MODULE ControlLoop -----------------------------
(***************************************************************************)
(* The policy loop from end to end: the control plane of PolicyServer and  *)
(* the agents that report to it.  An agent's report names the version it   *)
(* has applied; the answer names the version it should have; the agent     *)
(* downloads that version's bundle, applies it and reports it from then    *)
(* on.  Between the answer and the download the policy may change and the  *)
(* server may crash, and answers may be acted upon in any order.  The      *)
(* steps of one application and their overlap are the subject of module    *)
(* AgentPolicy; here an application is one step.                           *)
(***************************************************************************)
EXTENDS PolicyServer

CONSTANT MaxReports     \* bound: reports of agents

ASSUME ControlLoopAssumption == MaxReports \in Nat

VARIABLES
    agent,      \* per agent: the version it applied last (appliedPolicyVersion)
    acks,       \* per agent: the versions for which an OnAck goroutine is under way
    reports,
    enforced,   \* history: the <<version, rules>> each agent has applied
    lost        \* history: the versions that a crash of the server has undone

vars == <<serverVars, agent, acks, reports, enforced, lost>>

agentVars == <<agent, acks, reports, enforced>>

Init ==
    /\ ServerInit
    /\ agent = [a \in Agent |-> 0]
    /\ acks = [a \in Agent |-> {}]
    /\ reports = 0
    /\ enforced = [a \in Agent |-> {}]
    /\ lost = {}

\* ReportNow: the summary carries the applied version
ReportNow(h, a) ==
    /\ BeginReport(h, a, agent[a])
    /\ reports < MaxReports
    /\ reports' = reports + 1
    /\ UNCHANGED <<agent, acks, enforced, lost>>

\* the answer reaches the agent, go onAck(status), unless it is up to date;
\* the agent may have given up waiting, or the connection be gone
Answer(h, arrives) ==
    /\ AckTarget(h)
    /\ acks' = [a \in Agent |-> IF arrives /\ Told(h, a) /\ req[h].version # agent[a]
                                THEN acks[a] \cup {req[h].version} ELSE acks[a]]
    /\ UNCHANGED <<agent, reports, enforced, lost>>

AnyBundle(v) == Running /\ v \in DOMAIN hist       \* mutant: the version in the bundle is not compared

\* the bundle the server hands out for a version is the one written for it
Genuine(v) == Running /\ v \in DOMAIN hist /\ hist[v].bundle.of = v

\* fetchAndApplyPolicyBundle succeeds and the version is stored
Adopt(a, v) ==
    /\ v \in acks[a]
    /\ Genuine(v)
    /\ agent' = [agent EXCEPT ![a] = v]
    /\ enforced' = [enforced EXCEPT ![a] = @ \cup {<<v, hist[v].bundle.rules>>}]
    /\ acks' = [acks EXCEPT ![a] = @ \ {v}]
    /\ UNCHANGED <<serverVars, reports, lost>>

\* the download is refused, or the application fails
AdoptFails(a, v) ==
    /\ v \in acks[a]
    /\ acks' = [acks EXCEPT ![a] = @ \ {v}]
    /\ UNCHANGED <<serverVars, agent, reports, enforced, lost>>

\* the server dies and starts again from the saved state
ServerRestart ==
    /\ Restart
    /\ lost' = lost \cup (DOMAIN hist \ DOMAIN db.state.hist)
    /\ UNCHANGED agentVars

Next ==
    \/ (\E R \in Rules : UpdatePolicy(R)) /\ UNCHANGED <<agentVars, lost>>
    \/ \E h \in Handler :
        \/ (Operate(h) \/ Serve(h)) /\ UNCHANGED <<agentVars, lost>>
        \/ \E a \in Agent : ReportNow(h, a)
        \/ \E arrives \in BOOLEAN : Answer(h, arrives)
    \/ \E a \in Agent, v \in 1 .. MaxVersion : Adopt(a, v) \/ AdoptFails(a, v)
    \/ ServerRestart
    \/ StayDown /\ UNCHANGED <<agentVars, lost>>

Spec == Init /\ [][Next]_vars

\* All but mixed and returned, which no action reads and AppliedIsEnforced does
\* not mention: what a run of that property tells states apart by.
WithoutSaveHistory ==
    <<fleet, policyVars, db, tmp, req, calls, crashes, agent, acks, reports, enforced, lost>>

(***************************************************************************)
(* Properties.                                                             *)
(***************************************************************************)

\* the agents that have applied the rules of the current version, or a version
\* at least as new that a crash of the server has undone
Deployed ==
    {a \in Agent : \E e \in enforced[a] :
        \/ e = <<cur, hist[cur].rules>>
        \/ e[1] >= cur /\ e[1] \in lost}

\* A rollout that is shown as applied was applied: as many agents as it targets
\* have enforced the rules of exactly that version, although the refresh reads
\* target, fleet and policy under separate locks, reports and answers are late,
\* and bundles may not have been written.  The exception is a version that an
\* agent was told before it was saved: a crash gives its number to another
\* policy, and the agent's old report counts for that one.
AppliedIsEnforced ==
    hist[cur].status = "applied" => Cardinality(Deployed) >= hist[cur].targets
=============================================================================
