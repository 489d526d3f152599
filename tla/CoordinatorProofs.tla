-------------------------- MODULE CoordinatorProofs --------------------------
(***************************************************************************)
(* Proofs about Coordinator, for every number of nodes and for all times   *)
(* with an election timeout of at least an interval and a tick.            *)
(*                                                                         *)
(* The argument needs the heartbeats: that of a node which shows, or is    *)
(* about to show, a status from the shared state is never older than the   *)
(* election timeout, so that every other tick counts it.  A node is not    *)
(* elected, therefore, while a preferred one leads.  Because a commit and  *)
(* the status that comes of it are two steps, the order of the commits is  *)
(* kept for both: for the claims that nodes show and for the ones they are *)
(* about to show.                                                          *)
(***************************************************************************)
EXTENDS Coordinator, TLAPS

USE DEF Node

\* n committed that it leads and is about to show it.
Pending(n) == elected[n] = n /\ n \in report

\* m leads, or is about to, by a tick that committed b units ago.
Leads(m, b) ==
    \/ Claims(m) /\ b = decided[m]
    \/ Pending(m) /\ b = made[m]

\* n leads by ticks that committed no more than b units ago, or it committed
\* since, before that, that it is not healthy.
NewerThan(n, b) ==
    /\ Pending(n) => made[n] <= b
    /\ Claims(n) => \/ decided[n] <= b
                    \/ elected[n] # 0 /\ n \notin report /\ b <= made[n]

\* Of two that lead, the preferred one committed last.
ClaimsInOrder ==
    \A n, m \in Node : Preferred(n, m) => \A b \in Nat : Leads(m, b) => NewerThan(n, b)

\* The heartbeat of n is as old as the tick behind it and as healthy as the
\* status that came of it.
InTime(n) ==
    /\ elected[n] # 0 => heartbeat[n].age = timer[n] /\ (n \in report => heartbeat[n].ok)
    /\ FromState(n) => decided[n] <= IF n \in busy THEN Interval + timer[n] ELSE timer[n]
    /\ FromState(n) /\ elected[n] = 0 =>
        /\ status[n].ok => heartbeat[n].ok
        /\ IF n \in busy THEN heartbeat[n].age <= Interval + timer[n]
           ELSE heartbeat[n].age = timer[n]

HeartbeatsInTime == \A n \in Node : InTime(n)

\* The inductive invariant.
Inv == TypeOK /\ HeartbeatsInTime /\ ClaimsInOrder

Heartbeat == [age : 0 .. Gone, ok : BOOLEAN]

\* The parts of TypeOK.
SetTypes == up \subseteq Node /\ healthy \subseteq Node /\ busy \subseteq up /\ report \subseteq busy

TimeTypes ==
    /\ timer \in [Node -> 0 .. Interval]
    /\ decided \in [Node -> 0 .. Gone]
    /\ faults \in Nat

CommitTypes == elected \in [Node -> 0 .. N] /\ made \in [Node -> 0 .. Delay]

BusyInTime ==
    /\ \A n \in busy : timer[n] <= Delay
    /\ \A n \in Node : IF elected[n] # 0 THEN n \in busy /\ made[n] <= timer[n] ELSE made[n] = 0

RecordTypes == heartbeat \in [Node -> Heartbeat] /\ status \in [Node -> Status]

\* The parts of the type invariant, so that a step can treat them one by one.
LEMMA TypeParts ==
    TypeOK <=> SetTypes /\ TimeTypes /\ CommitTypes /\ BusyInTime /\ RecordTypes
  BY DEF TypeOK, SetTypes, TimeTypes, CommitTypes, BusyInTime, RecordTypes, Heartbeat

\* If n is elected from a set that also holds k, then k is not preferred to n.
LEMMA ElectedIsPreferred ==
    ASSUME NEW S \in SUBSET Node, NEW n \in Node, NEW k \in S, Elected(n, S)
    PROVE  ~Preferred(k, n)
  BY DEF Elected, Preferred

\* The statuses a node may show are statuses, and say where they come from.
LEMMA StatusTypes ==
    ASSUME NEW n \in Node, NEW ok \in BOOLEAN
    PROVE  /\ StandaloneStatus(n, ok) \in Status /\ StandaloneStatus(n, ok).from = "config"
           /\ DegradedStatus(n, ok) \in Status /\ DegradedStatus(n, ok).from = "config"
           /\ \A leader \in Node : StateStatus(n, leader) \in Status
  BY CoordinatorAssumption DEF StandaloneStatus, DegradedStatus, StateStatus, Status

\* A status from the shared state is as healthy as the tick behind it.
LEMMA StatusHealth ==
    ASSUME NEW n, NEW leader, StateStatus(n, leader).ok
    PROVE  n \in report
  <1>1. StateStatus(n, leader).ok = (n \in report)
      BY Zenon DEF StateStatus
  <1> QED  BY <1>1, Zenon

\* A heartbeat that is gone is older than any heartbeat of a running node.
LEMMA GoneIsLate == Gone \in Nat /\ Interval + Delay < Gone
  BY CoordinatorAssumption DEF Gone

\* What a committed transaction writes is a heartbeat.
LEMMA BeatTypes ==
    ASSUME TypeOK, NEW n \in busy
    PROVE  /\ n \in Node
           /\ Beat(n) \in [Node -> Heartbeat]
           /\ Beat(n)[n].age = timer[n]
           /\ n \in report => Beat(n)[n].ok
           /\ \A k \in Node \ {n} : Beat(n)[k] = heartbeat[k]
  <1>1. n \in Node
      BY DEF TypeOK
  <1>2. timer[n] \in 0 .. Gone /\ (n \in report) \in BOOLEAN
      BY <1>1, GoneIsLate, CoordinatorAssumption, TypeParts DEF TimeTypes
  <1>3. [age |-> timer[n], ok |-> n \in report] \in Heartbeat
      BY <1>2 DEF Heartbeat
  <1> QED  BY <1>1, <1>3 DEF Beat, TypeOK, Heartbeat

\* The invariant holds before the first tick of any node.
LEMMA CoordinatorInit == Init => Inv
  <1> SUFFICES ASSUME Init PROVE Inv
      OBVIOUS
  <1>1. TypeOK
    <2>1. SetTypes /\ CommitTypes
        BY CoordinatorAssumption DEF Init, SetTypes, CommitTypes
    <2>2. TimeTypes /\ BusyInTime
        BY CoordinatorAssumption, GoneIsLate DEF Init, TimeTypes, BusyInTime
    <2>3. RecordTypes
      <3>1. \A n \in Node : StandaloneStatus(n, TRUE) \in Status
          BY StatusTypes
      <3>2. [age |-> Gone, ok |-> FALSE] \in Heartbeat
          BY GoneIsLate DEF Heartbeat
      <3> QED  BY <3>1, <3>2 DEF Init, RecordTypes
    <2> QED  BY <2>1, <2>2, <2>3, TypeParts
  <1>2. \A n \in Node : ~FromState(n) /\ elected[n] = 0
      BY StatusTypes DEF Init, FromState
  <1>3. HeartbeatsInTime
      BY <1>2 DEF HeartbeatsInTime, InTime
  <1>4. ClaimsInOrder
      BY <1>2 DEF ClaimsInOrder, Leads, Pending, Claims
  <1> QED  BY <1>1, <1>3, <1>4 DEF Inv

\* The times of a node.
LEMMA Times ==
    ASSUME TypeOK, NEW n \in Node
    PROVE  /\ heartbeat[n].age \in 0 .. Gone /\ heartbeat[n].age \in Nat
           /\ decided[n] \in 0 .. Gone /\ decided[n] \in Nat
           /\ timer[n] \in 0 .. Interval /\ timer[n] \in Nat
           /\ made[n] \in Nat /\ elected[n] \in 0 .. N
           /\ n \in busy => timer[n] <= Delay
           /\ elected[n] # 0 => n \in busy /\ made[n] <= timer[n]
           /\ elected[n] = 0 => made[n] = 0
  <1>1. heartbeat[n].age \in 0 .. Gone
      BY TypeParts DEF RecordTypes, Heartbeat
  <1>2. decided[n] \in 0 .. Gone /\ timer[n] \in 0 .. Interval
      BY TypeParts DEF TimeTypes
  <1>3. made[n] \in 0 .. Delay /\ elected[n] \in 0 .. N
      BY TypeParts DEF CommitTypes
  <1>4. /\ n \in busy => timer[n] <= Delay
        /\ elected[n] # 0 => n \in busy /\ made[n] <= timer[n]
        /\ elected[n] = 0 => made[n] = 0
      BY TypeParts DEF BusyInTime
  <1> QED  BY <1>1, <1>2, <1>3, <1>4, GoneIsLate, CoordinatorAssumption

\* The heartbeat of a node that reaches the shared state, and what it shows, is
\* at most an interval and a tick old.
LEMMA HeartbeatIsRecent ==
    ASSUME TypeOK, HeartbeatsInTime, NEW n \in Node, FromState(n) \/ elected[n] # 0
    PROVE  /\ heartbeat[n].age <= Interval + Delay
           /\ FromState(n) => decided[n] <= Interval + Delay
           /\ \A m \in Node : n \in Active(m, heartbeat)
  <1>1. InTime(n)
      BY DEF HeartbeatsInTime
  <1>2. heartbeat[n].age <= Interval + Delay
    <2>1. CASE elected[n] # 0
        BY <1>1, <2>1, Times, CoordinatorAssumption DEF InTime
    <2>2. CASE elected[n] = 0
        BY <1>1, <2>2, Times, CoordinatorAssumption DEF InTime
    <2> QED  BY <2>1, <2>2
  <1>3. FromState(n) => decided[n] <= Interval + Delay
      BY <1>1, Times, CoordinatorAssumption DEF InTime
  <1>4. ASSUME NEW m \in Node PROVE n \in Active(m, heartbeat)
      BY <1>2, Times, CoordinatorAssumption DEF Active
  <1> QED  BY <1>2, <1>3, <1>4

\* The step of another node leaves everything about k alone.
Same(k) ==
    /\ elected'[k] = elected[k] /\ made'[k] = made[k]
    /\ status'[k] = status[k] /\ decided'[k] = decided[k]
    /\ heartbeat'[k] = heartbeat[k] /\ timer'[k] = timer[k]
    /\ k \in up' <=> k \in up
    /\ k \in busy' <=> k \in busy
    /\ k \in report' <=> k \in report

\* Nothing that the invariant says of such a node changes.
LEMMA SameKeeps ==
    ASSUME NEW k \in Node, Same(k), NEW b \in Nat
    PROVE  /\ InTime(k) => InTime(k)'
           /\ Leads(k, b)' => Leads(k, b)
           /\ NewerThan(k, b) => NewerThan(k, b)'
  <1>1. (Claims(k)' <=> Claims(k)) /\ (Pending(k)' <=> Pending(k)) /\ (FromState(k)' <=> FromState(k))
      BY DEF Same, Claims, Pending, FromState
  <1>2. InTime(k) => InTime(k)'
      BY <1>1 DEF Same, InTime
  <1>3. Leads(k, b)' => Leads(k, b)
      BY <1>1 DEF Same, Leads
  <1>4. NewerThan(k, b) => NewerThan(k, b)'
      BY <1>1 DEF Same, NewerThan
  <1> QED  BY <1>2, <1>3, <1>4

\* A step of n keeps the two parts of the invariant if it does for n alone.
LEMMA OneNode ==
    ASSUME HeartbeatsInTime, ClaimsInOrder,
           NEW n \in Node, \A k \in Node \ {n} : Same(k),
           InTime(n)',
           \A m \in Node \ {n} : \A b \in Nat :
               Preferred(n, m) /\ Leads(m, b) => NewerThan(n, b)',
           \A a \in Node \ {n} : \A b \in Nat :
               Preferred(a, n) /\ Leads(n, b)' => NewerThan(a, b)
    PROVE  HeartbeatsInTime' /\ ClaimsInOrder'
  <1>0. 0 \in Nat
      OBVIOUS
  <1>1. HeartbeatsInTime'
      BY <1>0, SameKeeps DEF HeartbeatsInTime
  <1>2. ASSUME NEW a \in Node, NEW m \in Node, Preferred(a, m), NEW b \in Nat, Leads(m, b)'
        PROVE  NewerThan(a, b)'
    <2>1. a # m
        BY <1>2 DEF Preferred
    <2>2. CASE a = n
        BY <1>2, <2>1, <2>2, SameKeeps
    <2>3. CASE m = n
        BY <1>2, <2>1, <2>3, SameKeeps
    <2>4. CASE a # n /\ m # n
        BY <1>2, <2>4, SameKeeps DEF ClaimsInOrder
    <2> QED  BY <2>2, <2>3, <2>4
  <1>3. ClaimsInOrder'
      BY <1>2 DEF ClaimsInOrder, Preferred, Elected
  <1> QED  BY <1>1, <1>3

\* A step of n after which n leads only where it did before.
LEMMA NoNewLead ==
    ASSUME HeartbeatsInTime, ClaimsInOrder,
           NEW n \in Node, \A k \in Node \ {n} : Same(k),
           InTime(n)',
           \A b \in Nat : Leads(n, b)' => Leads(n, b),
           \A b \in Nat : NewerThan(n, b) => NewerThan(n, b)'
    PROVE  HeartbeatsInTime' /\ ClaimsInOrder'
  <1>1. \A m \in Node \ {n} : \A b \in Nat :
            Preferred(n, m) /\ Leads(m, b) => NewerThan(n, b)'
      BY DEF ClaimsInOrder
  <1>2. \A a \in Node \ {n} : \A b \in Nat :
            Preferred(a, n) /\ Leads(n, b)' => NewerThan(a, b)
      BY DEF ClaimsInOrder
  <1> QED  BY <1>1, <1>2, OneNode

\* Tick changes neither what a node shows nor what it is about to show.
LEMMA TickStep == ASSUME Inv, NEW n \in Node, Tick(n) PROVE Inv'
  <1> USE CoordinatorAssumption
  <1>0. TypeOK /\ HeartbeatsInTime /\ ClaimsInOrder
      BY DEF Inv
  <1>1. TypeOK'
    <2>1. SetTypes' /\ CommitTypes' /\ RecordTypes'
        BY <1>0, TypeParts DEF SetTypes, CommitTypes, RecordTypes, Tick
    <2>2. TimeTypes'
        BY <1>0, TypeParts DEF TimeTypes, Tick
    <2>3. elected[n] = 0 /\ made[n] = 0
        BY <1>0, Times DEF Tick
    <2>4. BusyInTime'
        BY <1>0, <2>3, TypeParts DEF SetTypes, TimeTypes, BusyInTime, Tick
    <2> QED  BY <2>1, <2>2, <2>4, TypeParts
             DEF TypeOK, SetTypes, TimeTypes, CommitTypes, BusyInTime, RecordTypes, Heartbeat
  <1>2. \A k \in Node \ {n} : Same(k)
      BY <1>0 DEF Same, Tick, TypeOK
  <1>3. elected[n] = 0 /\ elected'[n] = 0 /\ n \notin busy /\ n \in busy' /\ timer'[n] = 0
      BY <1>0, Times DEF Tick, TypeOK
  <1>4. (Claims(n)' <=> Claims(n)) /\ (FromState(n)' <=> FromState(n)) /\ ~Pending(n) /\ ~Pending(n)'
      BY <1>3 DEF Claims, FromState, Pending, Tick
  <1>5. InTime(n)'
      BY <1>0, <1>3, <1>4, Times DEF HeartbeatsInTime, InTime, Tick
  <1>6. \A b \in Nat : (Leads(n, b)' => Leads(n, b)) /\ (NewerThan(n, b) => NewerThan(n, b)')
      BY <1>3, <1>4 DEF Leads, NewerThan, Tick
  <1> QED  BY <1>0, <1>1, <1>2, <1>5, <1>6, NoNewLead DEF Inv

\* A commit elects n only when no preferred node leads.
LEMMA CommitStep == ASSUME Inv, NEW n \in Node, Commit(n) PROVE Inv'
  <1> USE CoordinatorAssumption
  <1>0. TypeOK /\ HeartbeatsInTime /\ ClaimsInOrder
      BY DEF Inv
  <1>1. PICK leader \in Node :
            /\ IF Candidates(n, Beat(n)) = {} THEN leader = n
               ELSE Elected(leader, Candidates(n, Beat(n)))
            /\ elected' = [elected EXCEPT ![n] = leader]
      BY DEF Commit
  <1>2. /\ n \in busy /\ elected[n] = 0 /\ heartbeat' = Beat(n)
        /\ UNCHANGED <<up, healthy, timer, busy, report, made, status, decided, faults>>
      BY DEF Commit
  <1>3. /\ Beat(n) \in [Node -> Heartbeat]
        /\ Beat(n)[n].age = timer[n]
        /\ n \in report => Beat(n)[n].ok
        /\ \A k \in Node \ {n} : Beat(n)[k] = heartbeat[k]
      BY <1>0, <1>2, BeatTypes
  <1>4. elected'[n] = leader /\ leader # 0 /\ made'[n] = 0 /\ made[n] = 0
      BY <1>0, <1>1, <1>2, Times DEF TypeOK
  <1>5. TypeOK'
    <2>1. SetTypes' /\ TimeTypes' /\ RecordTypes'
        BY <1>0, <1>2, <1>3, TypeParts DEF SetTypes, TimeTypes, RecordTypes
    <2>2. CommitTypes'
        BY <1>0, <1>1, <1>2, TypeParts DEF CommitTypes
    <2>3. BusyInTime'
      <3>1. \A k \in Node : k # n => elected'[k] = elected[k]
          BY <1>0, <1>1 DEF TypeOK
      <3>2. timer[n] \in Nat
          BY <1>0, Times
      <3> QED  BY <1>0, <1>2, <1>4, <3>1, <3>2, TypeParts DEF BusyInTime
    <2> QED  BY <2>1, <2>2, <2>3, TypeParts
             DEF TypeOK, SetTypes, TimeTypes, CommitTypes, BusyInTime, RecordTypes, Heartbeat
  <1>6. \A k \in Node \ {n} : Same(k)
      BY <1>0, <1>1, <1>2, <1>3 DEF Same, TypeOK
  <1>7. (Claims(n)' <=> Claims(n)) /\ (FromState(n)' <=> FromState(n)) /\ ~Pending(n)
      BY <1>2 DEF Claims, FromState, Pending
  <1>8. InTime(n)'
      BY <1>0, <1>2, <1>3, <1>4, <1>7 DEF HeartbeatsInTime, InTime
  <1>9. ASSUME NEW m \in Node \ {n}, NEW b \in Nat, Preferred(n, m), Leads(m, b)
        PROVE  NewerThan(n, b)'
    <2>1. NewerThan(n, b)
        BY <1>0, <1>9 DEF ClaimsInOrder
    <2>2. Claims(n) => decided[n] <= b
        BY <2>1, <1>2 DEF NewerThan
    <2> QED  BY <2>2, <1>2, <1>4, <1>7 DEF NewerThan
  <1>10. ASSUME NEW a \in Node \ {n}, NEW b \in Nat, Preferred(a, n), Leads(n, b)'
         PROVE  NewerThan(a, b)
    <2>1. CASE Claims(n)' /\ b = decided'[n]
      <3>1. Leads(n, b)
          BY <2>1, <1>2, <1>7 DEF Leads
      <3> QED  BY <3>1, <1>0, <1>10 DEF ClaimsInOrder
    <2>2. CASE Pending(n)' /\ b = made'[n]
      <3>1. leader = n /\ b = 0
          BY <2>2, <1>4 DEF Pending
      <3>2. CASE ~heartbeat[a].ok
        <4>1. InTime(a)
            BY <1>0 DEF HeartbeatsInTime
        <4>2. elected[a] # 0 => a \notin report
            BY <4>1, <3>2 DEF InTime
        <4>3. Claims(a) => elected[a] # 0
            BY <4>1, <3>2 DEF InTime, Claims
        <4>4. ~Pending(a)
            BY <4>2, <1>0 DEF Pending
        <4>5. b <= made[a]
            BY <3>1, <1>0, Times
        <4> QED  BY <4>2, <4>3, <4>4, <4>5 DEF NewerThan
      <3>3. CASE heartbeat[a].ok /\ (FromState(a) \/ elected[a] # 0)
        <4>1. a \in Active(n, heartbeat)
            BY <3>3, <1>0, HeartbeatIsRecent
        <4>2. a \in Candidates(n, Beat(n))
            BY <4>1, <3>3, <1>3 DEF Candidates, Active
        <4>3. Candidates(n, Beat(n)) \in SUBSET Node
            BY DEF Candidates, Active
        <4>4. Elected(n, Candidates(n, Beat(n)))
            BY <4>2, <3>1, <1>1
        <4> QED  BY <4>2, <4>3, <4>4, <1>10, ElectedIsPreferred
      <3>4. CASE ~FromState(a) /\ elected[a] = 0
          BY <3>4 DEF NewerThan, Claims, Pending
      <3> QED  BY <3>2, <3>3, <3>4
    <2> QED  BY <1>10, <2>1, <2>2 DEF Leads
  <1>11. HeartbeatsInTime' /\ ClaimsInOrder'
      BY <1>0, <1>6, <1>8, <1>9, <1>10, OneNode
  <1> QED  BY <1>5, <1>11 DEF Inv

\* What a tick, a failure or a crash leaves of the tick that is over.
LEMMA EndsTypes ==
    ASSUME TypeOK, NEW n \in Node, Ends(n)
    PROVE  /\ busy' = busy \ {n} /\ report' = report \ {n}
           /\ elected'[n] = 0 /\ made'[n] = 0
           /\ \A k \in Node \ {n} : elected'[k] = elected[k] /\ made'[k] = made[k]
           /\ CommitTypes'
  <1>1. elected \in [Node -> 0 .. N] /\ made \in [Node -> 0 .. Delay]
      BY TypeParts DEF CommitTypes
  <1>2. 0 \in 0 .. N /\ 0 \in 0 .. Delay
      BY CoordinatorAssumption
  <1> QED  BY <1>1, <1>2 DEF Ends, CommitTypes

\* The ending of a tick keeps the types, with any status and any age.
LEMMA EndTypes ==
    ASSUME TypeOK, NEW n \in Node, Ends(n),
           up' = up \/ up' = up \ {n}, UNCHANGED <<healthy, heartbeat, timer>>,
           status' \in [Node -> Status], decided' \in [Node -> 0 .. Gone], faults' \in Nat
    PROVE  TypeOK'
  <1>1. SetTypes' /\ TimeTypes' /\ RecordTypes'
      BY EndsTypes, TypeParts DEF SetTypes, TimeTypes, RecordTypes
  <1>2. BusyInTime'
      BY EndsTypes, TypeParts DEF BusyInTime
  <1> QED  BY <1>1, <1>2, EndsTypes, TypeParts
           DEF TypeOK, SetTypes, TimeTypes, CommitTypes, BusyInTime, RecordTypes, Heartbeat

\* What a node shows is what it was about to show.
LEMMA ShowStep == ASSUME Inv, NEW n \in Node, Show(n) PROVE Inv'
  <1> USE CoordinatorAssumption
  <1>0. TypeOK /\ HeartbeatsInTime /\ ClaimsInOrder
      BY DEF Inv
  <1>1. /\ elected[n] # 0 /\ Ends(n)
        /\ status' = [status EXCEPT ![n] = StateStatus(n, elected[n])]
        /\ decided' = [decided EXCEPT ![n] = made[n]]
        /\ UNCHANGED <<up, healthy, heartbeat, timer, faults>>
      BY DEF Show, Shows
  <1>2. elected[n] \in Node /\ n \in busy /\ n \in up /\ made[n] \in 0 .. Gone /\ made[n] <= timer[n]
    <2>1. elected[n] \in Node /\ n \in busy /\ made[n] <= timer[n]
        BY <1>0, <1>1, Times
    <2>2. n \in up
        BY <1>0, <2>1, TypeParts DEF SetTypes
    <2>3. made[n] \in 0 .. Delay
        BY <1>0, TypeParts DEF CommitTypes
    <2> QED  BY <2>1, <2>2, <2>3, GoneIsLate
  <1>3. StateStatus(n, elected[n]) \in Status
      BY <1>2, StatusTypes
  <1>4. TypeOK'
      BY <1>0, <1>1, <1>2, <1>3, EndTypes DEF TypeOK
  <1>5. /\ elected'[n] = 0 /\ n \notin busy' /\ status'[n] = StateStatus(n, elected[n])
        /\ decided'[n] = made[n]
      BY <1>0, <1>1, EndsTypes DEF TypeOK
  <1>6. \A k \in Node \ {n} : Same(k)
      BY <1>0, <1>1, EndsTypes DEF Same, TypeOK
  <1>7. ~Pending(n)' /\ (Claims(n)' => Pending(n))
    <2>1. status'[n].ok => n \in report
        BY <1>5, StatusHealth
    <2>2. status'[n].role = "leader" => elected[n] = n
        BY <1>5 DEF StateStatus
    <2> QED  BY <1>2, <1>5, <2>1, <2>2 DEF Pending, Claims
  <1>8. InTime(n)'
    <2>1. heartbeat[n].age = timer[n] /\ (n \in report => heartbeat[n].ok)
        BY <1>0, <1>1 DEF HeartbeatsInTime, InTime
    <2>2. status'[n].ok => n \in report
        BY <1>5, StatusHealth
    <2> QED  BY <1>1, <1>2, <1>5, <2>1, <2>2 DEF InTime
  <1>9. ASSUME NEW m \in Node \ {n}, NEW b \in Nat, Preferred(n, m), Leads(m, b)
        PROVE  NewerThan(n, b)'
    <2>1. NewerThan(n, b)
        BY <1>0, <1>9 DEF ClaimsInOrder
    <2> QED  BY <2>1, <1>5, <1>7 DEF NewerThan
  <1>10. ASSUME NEW a \in Node \ {n}, NEW b \in Nat, Preferred(a, n), Leads(n, b)'
         PROVE  NewerThan(a, b)
    <2>1. Leads(n, b)
        BY <1>5, <1>7, <1>10 DEF Leads
    <2> QED  BY <2>1, <1>0, <1>10 DEF ClaimsInOrder
  <1>11. HeartbeatsInTime' /\ ClaimsInOrder'
      BY <1>0, <1>6, <1>8, <1>9, <1>10, OneNode
  <1> QED  BY <1>4, <1>11 DEF Inv

\* A node that gives up, or dies, does not lead any more.
LEMMA StopStep ==
    ASSUME Inv, NEW n \in Node, ReconcileFails(n) \/ Crash(n)
    PROVE  Inv'
  <1> USE CoordinatorAssumption
  <1>0. TypeOK /\ HeartbeatsInTime /\ ClaimsInOrder
      BY DEF Inv
  <1>1. Ends(n) /\ UNCHANGED <<healthy, heartbeat, timer>> /\ faults' \in Nat
    <2>1. faults \in Nat
        BY <1>0, TypeParts DEF TimeTypes
    <2> QED  BY <2>1 DEF ReconcileFails, Crash, Fault
  <1>2. /\ up' = up \/ up' = up \ {n}
        /\ status' \in [Node -> Status] /\ decided' \in [Node -> 0 .. Gone]
        /\ \A k \in Node \ {n} : status'[k] = status[k] /\ decided'[k] = decided[k]
        /\ ~FromState(n)'
    <2>1. CASE ReconcileFails(n)
      <3>1. /\ status' = [status EXCEPT ![n] = DegradedStatus(n, n \in report)]
            /\ decided' = [decided EXCEPT ![n] = 0] /\ up' = up
          BY <2>1 DEF ReconcileFails, Shows
      <3>2. (n \in report) \in BOOLEAN
          OBVIOUS
      <3>3. /\ DegradedStatus(n, n \in report) \in Status
            /\ DegradedStatus(n, n \in report).from = "config"
          BY <3>2, StatusTypes
      <3>4. /\ status \in [Node -> Status] /\ decided \in [Node -> 0 .. Gone] /\ 0 \in 0 .. Gone
          BY <1>0, GoneIsLate, TypeParts DEF RecordTypes, TimeTypes
      <3>5. status'[n].from = "config"
          BY <3>1, <3>3, <3>4
      <3> QED  BY <3>1, <3>3, <3>4, <3>5 DEF FromState
    <2>2. CASE Crash(n)
        BY <2>2, <1>0 DEF Crash, TypeOK, FromState
    <2> QED  BY <2>1, <2>2
  <1>3. TypeOK'
      BY <1>0, <1>1, <1>2, EndTypes
  <1>4. \A k \in Node \ {n} : Same(k)
      BY <1>0, <1>1, <1>2, EndsTypes DEF Same
  <1>5. elected'[n] = 0
      BY <1>0, <1>1, EndsTypes
  <1>6. ~Claims(n)' /\ ~Pending(n)'
      BY <1>2, <1>5 DEF Claims, Pending
  <1>7. InTime(n)'
      BY <1>2, <1>5 DEF InTime
  <1>8. \A b \in Nat : (Leads(n, b)' => Leads(n, b)) /\ (NewerThan(n, b) => NewerThan(n, b)')
      BY <1>6 DEF Leads, NewerThan
  <1> QED  BY <1>0, <1>3, <1>4, <1>7, <1>8, NoNewLead DEF Inv

\* A node that starts shows what it is configured to be.
LEMMA RestartStep == ASSUME Inv, NEW n \in Node, Restart(n) PROVE Inv'
  <1> USE CoordinatorAssumption
  <1>0. TypeOK /\ HeartbeatsInTime /\ ClaimsInOrder
      BY DEF Inv
  <1>1. /\ n \notin up /\ up' = up \cup {n}
        /\ timer' = [timer EXCEPT ![n] = Interval]
        /\ status' = [status EXCEPT ![n] = StandaloneStatus(n, n \in healthy)]
        /\ decided' = [decided EXCEPT ![n] = 0]
        /\ UNCHANGED <<healthy, heartbeat, busy, report, elected, made, faults>>
      BY DEF Restart, Shows
  <1>2. (n \in healthy) \in BOOLEAN
      OBVIOUS
  <1>3. /\ StandaloneStatus(n, n \in healthy) \in Status
        /\ StandaloneStatus(n, n \in healthy).from = "config"
      BY <1>2, StatusTypes
  <1>4. n \notin busy /\ elected[n] = 0
      BY <1>0, <1>1 DEF TypeOK
  <1>5. TypeOK'
    <2>1. SetTypes' /\ CommitTypes'
        BY <1>0, <1>1, TypeParts DEF SetTypes, CommitTypes
    <2>2. TimeTypes'
        BY <1>0, <1>1, TypeParts, GoneIsLate DEF TimeTypes
    <2>3. RecordTypes'
        BY <1>0, <1>1, <1>3, TypeParts DEF RecordTypes
    <2>4. BusyInTime'
        BY <1>0, <1>1, <1>4, TypeParts DEF SetTypes, TimeTypes, BusyInTime
    <2> QED  BY <2>1, <2>2, <2>3, <2>4, TypeParts
             DEF TypeOK, SetTypes, TimeTypes, CommitTypes, BusyInTime, RecordTypes, Heartbeat
  <1>6. \A k \in Node \ {n} : Same(k)
      BY <1>0, <1>1 DEF Same, TypeOK
  <1>7. ~FromState(n)' /\ elected'[n] = 0
      BY <1>0, <1>1, <1>3, <1>4 DEF FromState, TypeOK
  <1>8. InTime(n)'
      BY <1>7 DEF InTime
  <1>9. \A b \in Nat : (Leads(n, b)' => Leads(n, b)) /\ (NewerThan(n, b) => NewerThan(n, b)')
      BY <1>7 DEF Leads, NewerThan, Claims, Pending
  <1> QED  BY <1>0, <1>5, <1>6, <1>8, <1>9, NoNewLead DEF Inv

\* A change of health shows at the next tick only.
LEMMA HealthStep == ASSUME Inv, NEW n \in Node, ChangeHealth(n) PROVE Inv'
  <1>0. TypeOK /\ HeartbeatsInTime /\ ClaimsInOrder
      BY DEF Inv
  <1>1. /\ healthy' \subseteq Node /\ faults' \in Nat
        /\ UNCHANGED <<up, heartbeat, timer, busy, report, elected, made, status, decided>>
      BY <1>0 DEF ChangeHealth, Fault, TypeOK
  <1>2. TypeOK'
    <2>1. SetTypes' /\ CommitTypes' /\ RecordTypes' /\ TimeTypes'
        BY <1>0, <1>1, TypeParts DEF SetTypes, CommitTypes, RecordTypes, TimeTypes
    <2>2. BusyInTime'
        BY <1>0, <1>1, TypeParts DEF BusyInTime
    <2> QED  BY <2>1, <2>2, TypeParts
             DEF TypeOK, SetTypes, TimeTypes, CommitTypes, BusyInTime, RecordTypes, Heartbeat
  <1>3. \A k \in Node : Same(k)
      BY <1>1 DEF Same
  <1>4. InTime(n)' /\ \A b \in Nat : (Leads(n, b)' => Leads(n, b)) /\ (NewerThan(n, b) => NewerThan(n, b)')
    <2>1. 0 \in Nat
        OBVIOUS
    <2> QED  BY <1>0, <1>3, <2>1, SameKeeps DEF HeartbeatsInTime
  <1> QED  BY <1>0, <1>2, <1>3, <1>4, NoNewLead DEF Inv

\* Time passes for all alike.
LEMMA ClockStep == ASSUME Inv, Clock PROVE Inv'
  <1> USE CoordinatorAssumption
  <1>0. TypeOK /\ HeartbeatsInTime /\ ClaimsInOrder
      BY DEF Inv
  <1>1. /\ UNCHANGED <<up, healthy, busy, report, elected, status, faults>>
        /\ timer' = [n \in Node |-> IF timer[n] < Interval THEN timer[n] + 1 ELSE timer[n]]
        /\ made' = [n \in Node |-> IF elected[n] # 0 THEN made[n] + 1 ELSE 0]
        /\ decided' = [n \in Node |-> IF decided[n] < Gone THEN decided[n] + 1 ELSE Gone]
        /\ \A n \in up : timer[n] < IF n \in busy THEN Delay ELSE Interval
      BY DEF Clock
  <1>2. ASSUME NEW n \in busy
        PROVE  n \in Node /\ timer[n] < Delay /\ timer'[n] = timer[n] + 1
    <2>1. n \in Node /\ n \in up
        BY <1>0 DEF TypeOK
    <2>2. timer[n] < Delay /\ timer[n] \in Nat
        BY <2>1, <1>1, <1>0, Times
    <2>3. timer[n] < Interval
        BY <2>2
    <2> QED  BY <2>1, <2>2, <2>3, <1>1
  <1>3. ASSUME NEW n \in Node, elected[n] # 0
        PROVE  /\ n \in busy /\ made'[n] = made[n] + 1 /\ made[n] + 1 <= timer[n] + 1
               /\ made[n] + 1 \in 0 .. Delay
    <2>1. n \in busy /\ made[n] <= timer[n] /\ made[n] \in Nat /\ timer[n] \in Nat
        BY <1>0, <1>3, Times
    <2>2. timer[n] < Delay
        BY <2>1, <1>2
    <2> QED  BY <2>1, <2>2, <1>1, <1>3
  <1>4. TypeOK'
    <2>1. heartbeat' \in [Node -> Heartbeat]
      <3>1. ASSUME NEW r \in Heartbeat
            PROVE  [r EXCEPT !.age = IF r.age < Gone THEN r.age + 1 ELSE Gone] \in Heartbeat
          BY GoneIsLate DEF Heartbeat
      <3>2. \A k \in Node : heartbeat[k] \in Heartbeat
          BY <1>0 DEF TypeOK, Heartbeat
      <3> QED  BY <3>1, <3>2 DEF Clock
    <2>2. TimeTypes'
      <3>0. TimeTypes
          BY <1>0, TypeParts
      <3>1. timer' \in [Node -> 0 .. Interval]
          BY <3>0, <1>1 DEF TimeTypes
      <3>2. decided' \in [Node -> 0 .. Gone]
          BY <3>0, <1>1, GoneIsLate DEF TimeTypes
      <3> QED  BY <3>0, <3>1, <3>2, <1>1 DEF TimeTypes
    <2>3. made' \in [Node -> 0 .. Delay]
        BY <1>1, <1>3
    <2>4. SetTypes' /\ CommitTypes' /\ RecordTypes'
        BY <1>0, <1>1, <2>1, <2>3, TypeParts DEF SetTypes, CommitTypes, RecordTypes
    <2>5. BusyInTime'
      <3>1. \A n \in busy' : timer'[n] <= Delay
        <4>1. ASSUME NEW n \in busy PROVE timer'[n] <= Delay
          <5>1. timer[n] \in Nat /\ timer[n] < Delay /\ timer'[n] = timer[n] + 1
              BY <1>0, <1>2, Times
          <5> QED  BY <5>1
        <4> QED  BY <4>1, <1>1
      <3>2. ASSUME NEW n \in Node
            PROVE  IF elected'[n] # 0 THEN n \in busy' /\ made'[n] <= timer'[n] ELSE made'[n] = 0
        <4>1. CASE elected[n] # 0
            BY <4>1, <1>1, <1>2, <1>3
        <4>2. CASE elected[n] = 0
            BY <4>2, <1>1
        <4> QED  BY <4>1, <4>2, <1>1
      <3> QED  BY <3>1, <3>2 DEF BusyInTime
    <2> QED  BY <2>2, <2>4, <2>5, TypeParts
             DEF TypeOK, SetTypes, TimeTypes, CommitTypes, BusyInTime, RecordTypes, Heartbeat
  <1>5. ASSUME NEW n \in Node, FromState(n) \/ elected[n] # 0
        PROVE  /\ heartbeat'[n].age = heartbeat[n].age + 1 /\ heartbeat'[n].ok = heartbeat[n].ok
               /\ FromState(n) => decided'[n] = decided[n] + 1
               /\ timer'[n] = timer[n] + 1
    <2>1. n \in up /\ timer[n] \in Nat
        BY <1>0, <1>5, Times DEF FromState, TypeOK
    <2>2. heartbeat[n].age < Gone /\ heartbeat[n] \in Heartbeat
      <3>1. heartbeat[n] \in Heartbeat
          BY <1>0, TypeParts DEF RecordTypes
      <3>2. heartbeat[n].age <= Interval + Delay /\ heartbeat[n].age \in Nat
          BY <1>0, <1>5, HeartbeatIsRecent, Times
      <3> QED  BY <3>1, <3>2, GoneIsLate
    <2>3. FromState(n) => decided[n] < Gone
        BY <1>0, <1>5, HeartbeatIsRecent, Times, GoneIsLate
    <2>4. timer[n] < Interval
        BY <1>1, <2>1
    <2>5. heartbeat'[n] = [heartbeat[n] EXCEPT !.age = heartbeat[n].age + 1]
        BY <2>2 DEF Clock
    <2> QED  BY <1>1, <2>2, <2>3, <2>4, <2>5 DEF Heartbeat
  <1>6. ASSUME NEW n \in Node
        PROVE  /\ FromState(n)' <=> FromState(n)
               /\ Claims(n)' <=> Claims(n)
               /\ Pending(n)' <=> Pending(n)
      BY <1>1 DEF FromState, Claims, Pending
  <1>7. ASSUME NEW n \in Node PROVE InTime(n)'
    <2>1. InTime(n)
        BY <1>0 DEF HeartbeatsInTime
    <2>2. CASE ~FromState(n) /\ elected[n] = 0
        BY <2>2, <1>1, <1>6 DEF InTime
    <2>3. CASE FromState(n) \/ elected[n] # 0
      <3>1. /\ heartbeat'[n].age = heartbeat[n].age + 1 /\ heartbeat'[n].ok = heartbeat[n].ok
            /\ FromState(n) => decided'[n] = decided[n] + 1
            /\ timer'[n] = timer[n] + 1
          BY <1>5, <2>3
      <3>2. heartbeat[n].age \in Nat /\ decided[n] \in Nat /\ timer[n] \in Nat
          BY <1>0, Times
      <3>3. elected' = elected /\ busy' = busy /\ report' = report /\ status' = status
          BY <1>1
      <3> QED  BY <2>1, <3>1, <3>2, <3>3, <1>6 DEF InTime
    <2> QED  BY <2>2, <2>3
  <1>8. ASSUME NEW n \in Node, NEW m \in Node, Preferred(n, m), NEW b \in Nat, Leads(m, b)'
        PROVE  NewerThan(n, b)'
    <2>1. /\ decided[m] \in Nat /\ made[m] \in Nat /\ decided[n] \in Nat /\ made[n] \in Nat
        BY <1>0, Times
    <2>2. PICK c \in Nat : b = c + 1 /\ Leads(m, c)
      <3>1. CASE Claims(m)' /\ b = decided'[m]
        <4>1. Claims(m) /\ FromState(m)
            BY <3>1, <1>6 DEF Claims
        <4>2. b = decided[m] + 1
            BY <3>1, <4>1, <1>5
        <4> QED  BY <2>1, <4>1, <4>2 DEF Leads
      <3>2. CASE Pending(m)' /\ b = made'[m]
        <4>1. Pending(m) /\ elected[m] # 0
            BY <3>2, <1>6 DEF Pending
        <4>2. b = made[m] + 1
            BY <3>2, <4>1, <1>3
        <4> QED  BY <2>1, <4>1, <4>2 DEF Leads
      <3> QED  BY <1>8, <3>1, <3>2 DEF Leads
    <2>3. NewerThan(n, c)
        BY <1>0, <1>8, <2>2 DEF ClaimsInOrder
    <2>4. Pending(n)' => made'[n] <= b
      <3>1. SUFFICES ASSUME Pending(n) PROVE made'[n] <= b
          BY <1>6
      <3>2. elected[n] # 0 /\ made[n] <= c
          BY <3>1, <2>3 DEF Pending, NewerThan
      <3> QED  BY <3>2, <2>1, <2>2, <1>3
    <2>5. Claims(n)' => decided'[n] <= b \/ (elected'[n] # 0 /\ n \notin report' /\ b <= made'[n])
      <3>1. SUFFICES ASSUME Claims(n)
                     PROVE  decided'[n] <= b \/ (elected'[n] # 0 /\ n \notin report' /\ b <= made'[n])
          BY <1>6
      <3>2. decided'[n] = decided[n] + 1
          BY <3>1, <1>5 DEF Claims
      <3>3. decided[n] <= c \/ (elected[n] # 0 /\ n \notin report /\ c <= made[n])
          BY <3>1, <2>3 DEF NewerThan
      <3>4. CASE decided[n] <= c
          BY <3>2, <3>4, <2>1, <2>2
      <3>5. CASE elected[n] # 0 /\ n \notin report /\ c <= made[n]
          BY <3>5, <2>1, <2>2, <1>1, <1>3
      <3> QED  BY <3>3, <3>4, <3>5
    <2> QED  BY <2>4, <2>5 DEF NewerThan
  <1>9. HeartbeatsInTime' /\ ClaimsInOrder'
    <2>1. HeartbeatsInTime'
        BY <1>7 DEF HeartbeatsInTime
    <2>2. ClaimsInOrder'
        BY <1>8 DEF ClaimsInOrder, Preferred, Elected
    <2> QED  BY <2>1, <2>2
  <1> QED  BY <1>4, <1>9 DEF Inv

\* Every step of clock, nodes and transactions keeps the invariant.
LEMMA CoordinatorStep == Inv /\ [Next]_vars => Inv'
  <1> SUFFICES ASSUME Inv, [Next]_vars PROVE Inv'
      OBVIOUS
  <1>1. ASSUME NEW n \in Node,
               \/ Tick(n) \/ Commit(n) \/ Show(n) \/ ReconcileFails(n)
               \/ Crash(n) \/ Restart(n) \/ ChangeHealth(n)
        PROVE  Inv'
      BY <1>1, TickStep, CommitStep, ShowStep, StopStep, RestartStep, HealthStep
  <1>2. CASE Clock
      BY <1>2, ClockStep
  <1>3. CASE UNCHANGED vars
    <2>1. TypeOK'
        BY <1>3 DEF Inv, TypeOK, vars
    <2>2. \A k \in Node : Same(k)
        BY <1>3 DEF Same, vars
    <2>3. 0 \in Nat
        OBVIOUS
    <2>4. HeartbeatsInTime'
        BY <2>2, <2>3, SameKeeps DEF Inv, HeartbeatsInTime
    <2>5. ClaimsInOrder'
      <3>1. ASSUME NEW n \in Node, NEW m \in Node, Preferred(n, m), NEW b \in Nat, Leads(m, b)'
            PROVE  NewerThan(n, b)'
          BY <2>2, <3>1, SameKeeps DEF Inv, ClaimsInOrder
      <3> QED  BY <3>1 DEF ClaimsInOrder, Preferred, Elected
    <2> QED  BY <2>1, <2>4, <2>5 DEF Inv
  <1> QED  BY <1>1, <1>2, <1>3 DEF Next

\* The shared state, the ticks and the statuses keep their types, and no tick
\* is under way for longer than its time limit.
THEOREM ElectionTypeCorrect == Spec => []TypeOK
  <1>1. Inv => TypeOK
      BY DEF Inv
  <1> QED  BY CoordinatorInit, CoordinatorStep, <1>1, PTL DEF Spec

\* activeNodes counts every running node that reaches the shared state, whatever
\* fails and however ticks, commits and statuses interleave.
THEOREM HeartbeatsStayFresh == Spec => []FreshHeartbeat
  <1>1. Inv => FreshHeartbeat
      BY HeartbeatIsRecent DEF Inv, FreshHeartbeat
  <1> QED  BY CoordinatorInit, CoordinatorStep, <1>1, PTL DEF Spec

\* Tick never takes the lead from a preferred healthy node that still ticks:
\* of two nodes that claim the lead, the less preferred one committed first, or
\* the other is about to show that it is not healthy any more; and the former
\* committed at most an interval and a tick ago.
THEOREM ClaimsAreStale == Spec => []StaleClaimsOnly
  <1>1. ASSUME Inv PROVE StaleClaimsOnly
    <2> SUFFICES ASSUME NEW n \in Node, NEW m \in Node, Claims(n), Claims(m), Preferred(n, m)
                 PROVE  /\ decided[n] <= decided[m] \/ Resigns(n, m)
                        /\ decided[m] <= Interval + Delay
        BY DEF StaleClaimsOnly
    <2>1. decided[m] \in Nat /\ made[n] \in Nat
        BY <1>1, Times DEF Inv
    <2>2. NewerThan(n, decided[m])
        BY <1>1, <2>1 DEF Inv, ClaimsInOrder, Leads
    <2>3. decided[n] <= decided[m] \/ Resigns(n, m)
        BY <2>1, <2>2 DEF NewerThan, Resigns
    <2>4. decided[m] <= Interval + Delay
        BY <1>1, HeartbeatIsRecent DEF Inv, Claims
    <2> QED  BY <2>3, <2>4
  <1> QED  BY CoordinatorInit, CoordinatorStep, <1>1, PTL DEF Spec
=============================================================================
