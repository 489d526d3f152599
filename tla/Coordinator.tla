----------------------------- MODULE Coordinator -----------------------------
(***************************************************************************)
(* Leader election among the control-plane nodes in active-passive mode on *)
(* a PostgreSQL backend: pkg/controlplaneha/coordinator.go.  Each node     *)
(* ticks at a fixed interval: it reads the clock and its own health and    *)
(* then runs a transaction under an advisory lock (updatePostgresState),   *)
(* which records its heartbeat in the shared state and elects a leader     *)
(* among the nodes with a recent and healthy heartbeat; once it learns     *)
(* that the transaction committed, it shows the outcome as its status.     *)
(* Transactions and statuses of other nodes may come between any two of    *)
(* these steps.  Time is kept as ages: how many clock units ago something  *)
(* happened; the clocks of the nodes agree.                                *)
(***************************************************************************)
EXTENDS Naturals, FiniteSets

CONSTANTS
    N,                  \* the nodes are 1 .. N, in the order of their ids
    ConfiguredLeader,   \* leader_id, or 0
    ConfiguredRole,     \* the role of each node
    Interval,           \* HeartbeatInterval, in clock units
    Timeout,            \* ElectionTimeout
    Delay,              \* the time limit of a tick, from reading the clock to its status
    MaxFaults           \* bound: crashes, changes of health, failing transactions

Node == 1 .. N

ASSUME CoordinatorAssumption ==
    /\ N \in Nat \ {0}
    /\ ConfiguredLeader \in 0 .. N
    /\ ConfiguredRole \in [Node -> {"leader", "follower", "observer"}]
    /\ Interval \in Nat \ {0}
    /\ Delay \in Nat /\ Delay <= Interval
    /\ Timeout \in Nat /\ Interval + Delay <= Timeout
    /\ MaxFaults \in Nat

VARIABLES
    up,         \* the nodes that run
    healthy,    \* the nodes whose Healthy() is true
    heartbeat,  \* state.Nodes: the age of each heartbeat and the health it reported
    timer,      \* how long ago the latest tick of each node began, by the clock it read
    busy,       \* the nodes whose tick is under way
    report,     \* the nodes that were healthy when the tick under way began
    elected,    \* the leader in the status that a committed tick is about to show, or 0
    made,       \* history: how long ago that tick committed
    status,     \* c.status of each node
    decided,    \* history: how long ago the tick behind the status committed
    faults

vars == <<up, healthy, heartbeat, timer, busy, report, elected, made, status, decided, faults>>

\* The age of a heartbeat that is missing or that no tick counts any more;
\* reconcileState deletes it when it is three timeouts old.
Gone == Timeout + Delay + 1

\* standaloneStatus, for a node that is healthy or not: what New shows before
\* the first tick
StandaloneStatus(n, ok) ==
    LET role == IF ConfiguredRole[n] = "observer" THEN "leader" ELSE ConfiguredRole[n] IN
    [role   |-> role,
     leader |-> IF ConfiguredLeader = 0 /\ role = "leader" THEN n ELSE ConfiguredLeader,
     ok     |-> ok,
     from   |-> "config"]

\* degradedStatus: what a tick shows that could not reach the shared state
DegradedStatus(n, ok) ==
    [StandaloneStatus(n, ok) EXCEPT
        !.role = IF ConfiguredRole[n] = "leader" THEN "leader" ELSE "follower"]

Init ==
    /\ up = Node
    /\ healthy = Node
    /\ heartbeat = [n \in Node |-> [age |-> Gone, ok |-> FALSE]]
    /\ timer = [n \in Node |-> Interval]
    /\ busy = {}
    /\ report = {}
    /\ elected = [n \in Node |-> 0]
    /\ made = [n \in Node |-> 0]
    /\ status = [n \in Node |-> StandaloneStatus(n, TRUE)]
    /\ decided = [n \in Node |-> 0]
    /\ faults = 0

\* activeNodes, by the time n read when its tick began
ActiveStrict(n, beats) == {m \in Node : beats[m].age < Timeout + timer[n]}    \* mutant: off by one

Active(n, beats) == {m \in Node : beats[m].age <= Timeout + timer[n]}

\* electLeader: the configured leader if it is active and healthy, else the
\* first of the others; n itself when there is none
Candidates(n, beats) == {m \in Active(n, beats) : beats[m].ok}

\* m is preferred to every other candidate
Elected(m, S) ==
    /\ m \in S
    /\ IF ConfiguredLeader \in S THEN m = ConfiguredLeader ELSE \A k \in S : m <= k

\* the heartbeats once n has recorded its own
BeatNot(n) == [heartbeat EXCEPT ![n].ok = n \in report]    \* mutant: LastSeen is not renewed

Beat(n) == [heartbeat EXCEPT ![n] = [age |-> timer[n], ok |-> n \in report]]

StateStatus(n, leader) ==
    [role   |-> IF n = leader THEN "leader" ELSE "follower",
     leader |-> leader,
     ok     |-> n \in report,
     from   |-> "state"]

\* c.status becomes st, which was decided so long ago
Shows(n, st, age) ==
    /\ status' = [status EXCEPT ![n] = st]
    /\ decided' = [decided EXCEPT ![n] = age]

\* the tick of n is over, or dies with n
Ends(n) ==
    /\ busy' = busy \ {n} /\ report' = report \ {n}
    /\ elected' = [elected EXCEPT ![n] = 0]
    /\ made' = [made EXCEPT ![n] = 0]

\* Tick reads the clock and Healthy()
Tick(n) ==
    /\ n \in up \ busy
    /\ timer[n] > 0
    /\ timer' = [timer EXCEPT ![n] = 0]
    /\ busy' = busy \cup {n}
    /\ report' = IF n \in healthy THEN report \cup {n} ELSE report
    /\ UNCHANGED <<up, healthy, heartbeat, elected, made, status, decided, faults>>

\* reconcilePostgres and reconcileState: the transaction commits
Commit(n) ==
    LET S == Candidates(n, Beat(n)) IN
    /\ n \in busy /\ elected[n] = 0
    /\ heartbeat' = Beat(n)
    /\ \E leader \in Node :
        /\ IF S = {} THEN leader = n ELSE Elected(leader, S)
        /\ elected' = [elected EXCEPT ![n] = leader]
    /\ UNCHANGED <<up, healthy, timer, busy, report, made, status, decided, faults>>

\* the node learns of it, and Tick assigns c.status
Show(n) ==
    /\ elected[n] # 0
    /\ Shows(n, StateStatus(n, elected[n]), made[n])
    /\ Ends(n)
    /\ UNCHANGED <<up, healthy, heartbeat, timer, faults>>

Fault == faults < MaxFaults /\ faults' = faults + 1

\* the transaction fails for the node, whether or not it was committed
ReconcileFails(n) ==
    /\ Fault
    /\ n \in busy
    /\ Shows(n, DegradedStatus(n, n \in report), 0)
    /\ Ends(n)
    /\ UNCHANGED <<up, healthy, heartbeat, timer>>

Crash(n) ==
    /\ Fault
    /\ n \in up
    /\ up' = up \ {n}
    /\ Ends(n)
    /\ UNCHANGED <<healthy, heartbeat, timer, status, decided>>

\* New and Start: the first tick follows at once
Restart(n) ==
    /\ n \notin up
    /\ up' = up \cup {n}
    /\ timer' = [timer EXCEPT ![n] = Interval]
    /\ Shows(n, StandaloneStatus(n, n \in healthy), 0)
    /\ UNCHANGED <<healthy, heartbeat, busy, report, elected, made, faults>>

ChangeHealth(n) ==
    /\ Fault
    /\ healthy' = IF n \in healthy THEN healthy \ {n} ELSE healthy \cup {n}
    /\ UNCHANGED <<up, heartbeat, timer, busy, report, elected, made, status, decided>>

\* Time passes; a node that runs ticks at the latest when its interval is
\* over, and shows the outcome at the latest when the time limit is.
Clock ==
    /\ \A n \in up : timer[n] < IF n \in busy THEN Delay ELSE Interval
    /\ heartbeat' = [n \in Node |->
                        [heartbeat[n] EXCEPT !.age = IF @ < Gone THEN @ + 1 ELSE Gone]]
    /\ timer' = [n \in Node |-> IF timer[n] < Interval THEN timer[n] + 1 ELSE timer[n]]
    /\ made' = [n \in Node |-> IF elected[n] # 0 THEN made[n] + 1 ELSE 0]
    /\ decided' = [n \in Node |-> IF decided[n] < Gone THEN decided[n] + 1 ELSE Gone]
    /\ UNCHANGED <<up, healthy, busy, report, elected, status, faults>>

Next ==
    \/ \E n \in Node :
        \/ Tick(n) \/ Commit(n) \/ Show(n) \/ ReconcileFails(n)
        \/ Crash(n) \/ Restart(n) \/ ChangeHealth(n)
    \/ Clock

\* The ticker of a running node fires, transactions end, what they decided is
\* shown, and time goes on.
Spec ==
    /\ Init /\ [][Next]_vars
    /\ WF_vars(Clock)
    /\ \A n \in Node : /\ WF_vars(timer[n] = Interval /\ Tick(n))
                        /\ WF_vars(Commit(n)) /\ WF_vars(Show(n))

(***************************************************************************)
(* Properties.                                                             *)
(***************************************************************************)
Status == [role : {"leader", "follower", "observer"}, leader : 0 .. N, ok : BOOLEAN,
           from : {"config", "state"}]

\* n shows a status that came from the shared state.
FromState(n) == n \in up /\ status[n].from = "state"

\* The shared state, the ticks and the statuses.
TypeOK ==
    /\ up \subseteq Node /\ healthy \subseteq Node /\ busy \subseteq up /\ report \subseteq busy
    /\ heartbeat \in [Node -> [age : 0 .. Gone, ok : BOOLEAN]]
    /\ timer \in [Node -> 0 .. Interval]
    /\ elected \in [Node -> 0 .. N] /\ made \in [Node -> 0 .. Delay]
    /\ \A n \in busy : timer[n] <= Delay
    /\ \A n \in Node : IF elected[n] # 0 THEN n \in busy /\ made[n] <= timer[n] ELSE made[n] = 0
    /\ status \in [Node -> Status]
    /\ decided \in [Node -> 0 .. Gone]
    /\ faults \in Nat

\* n claims the lead and shows itself healthy, by a tick that reached the
\* shared state.
Claims(n) == FromState(n) /\ status[n].role = "leader" /\ status[n].ok

\* n would be elected rather than m if both were candidates.
Preferred(n, m) == n # m /\ Elected(n, {n, m})

\* n committed that it is not healthy, not after the commit behind the status
\* of m, and is about to show it.
Resigns(n, m) == elected[n] # 0 /\ n \notin report /\ made[n] >= decided[m]

\* Two healthy nodes claim the lead at the same time only when the less
\* preferred one committed first, or when the other is about to show that it
\* is not healthy any more; and no longer than an interval and a tick: the
\* next tick gives up.  No node takes the lead from a preferred one that still
\* ticks, in whichever order the two commit and show what they committed.
StaleClaimsOnly ==
    \A n, m \in Node :
        Claims(n) /\ Claims(m) /\ Preferred(n, m)
        => /\ decided[n] <= decided[m] \/ Resigns(n, m)
           /\ decided[m] <= Interval + Delay

\* A node that runs and reaches the shared state is never taken for dead: the
\* heartbeat behind its status, or behind the status it is about to show,
\* counts whenever another node elects, however long the two ticks take.
FreshHeartbeat ==
    \A n, m \in Node : FromState(n) \/ elected[n] # 0 => n \in Active(m, heartbeat)

Leaders == {n \in up : status[n].role = "leader"}

\* When the faults are over and some running node is healthy, failover comes
\* to an end: exactly one running node shows itself as the leader, it is the
\* preferred healthy one, and the others name it.
OneLeaderInTheEnd ==
    <>[](healthy \cap up # {}
            => \E n \in Node : /\ Elected(n, healthy \cap up)
                               /\ Leaders = {n}
                               /\ \A m \in up : status[m].leader = n)
=============================================================================
