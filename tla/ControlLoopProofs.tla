-------------------------- MODULE ControlLoopProofs --------------------------
(***************************************************************************)
(* Proofs about ControlLoop, and with it about PolicyServer: for any fleet *)
(* of agents, any number of requests served at the same time, of reports   *)
(* and of crashes.  The server holds its state in several places: in       *)
(* memory, in the state file, in the temporary file while a save is under  *)
(* way, and in the snapshots that saveState has taken and not yet written. *)
(* The invariant says the same of all of them: a snapshot may be old, but  *)
(* it agrees with memory on the versions it has, and what it shows as      *)
(* deployed is deployed.  That is what makes it harmless to write it late, *)
(* to rename another request's file and to start from it after a crash.    *)
(***************************************************************************)
EXTENDS ControlLoop, FiniteSetTheorems, TLAPS

Scope == Groups \cup {""}
Fleet ==
    [Agent -> [known : BOOLEAN, group : Scope, enroll : Enrollment, applied : 0 .. MaxVersion]]

\* agent a has applied version v at some time; 0 is no version
Had(a, v) == v = 0 \/ \E e \in enforced[a] : e[1] = v

\* the agents that have applied version v with the rules R, or a version at
\* least as new that was undone
DeployedAs(v, R) ==
    {a \in Agent : \E e \in enforced[a] : e = <<v, R>> \/ (e[1] >= v /\ e[1] \in lost)}

\* what is shown as applied is, and a bundle that was written for its version
\* holds the rules of that version
Sound(v, revision) ==
    /\ revision.status = "applied" => Cardinality(DeployedAs(v, revision.rules)) >= revision.targets
    /\ revision.bundle.of <= v
    /\ revision.bundle.of = v => revision.bundle.rules = revision.rules

\* A state of the control plane, in memory, saved or about to be written.
Consistent(s) ==
    /\ s.fleet \in Fleet /\ s.rules \in Rules
    /\ \A a \in Agent : Had(a, s.fleet[a].applied)
    /\ s.cur \in 1 .. MaxVersion /\ s.cur <= cur /\ s.next = s.cur + 1
    /\ s.hist \in [1 .. s.cur -> Revision]
    /\ \A v \in 1 .. s.cur : s.hist[v].rules = hist[v].rules /\ Sound(v, s.hist[v])
    /\ \A v \in DOMAIN returned : v \in 1 .. s.cur

InMemory == [fleet |-> fleet, rules |-> rules, hist |-> hist, cur |-> cur, next |-> next]

\* The request r in service, at each of its steps.
Saving(r) == r.done \in 0 .. cur /\ r.answer \subseteq Agent

DataRecord(r) ==
    r = [pc |-> "data", done |-> r.done, answer |-> r.answer, state |-> r.state, file |-> r.file,
         older |-> r.older, alone |-> r.alone]
RenameRecord(r) ==
    r = [pc |-> "rename", done |-> r.done, answer |-> r.answer, older |-> r.older, alone |-> r.alone]

ReqOK(r) ==
    /\ r.pc = "commit" => r.scope \in Scope /\ r.targets \in 0 .. Cardinality(Agent)
    /\ r.pc = "update" => r.agent \in Agent /\ r.applied \in 0 .. MaxVersion /\ Had(r.agent, r.applied)
    /\ r.pc = "refreshTarget" => r.agent \in Agent
    /\ r.pc = "refreshAgents" => r.agent \in Agent
    /\ r.pc = "refresh" => /\ r.agent \in Agent
                           /\ DOMAIN r.applied \subseteq Agent
                           /\ \A a \in DOMAIN r.applied : r.applied[a] \in 0 .. MaxVersion /\ Had(a, r.applied[a])
    /\ r.pc = "saveFleet" => Saving(r)
    /\ r.pc = "savePolicy" => /\ Saving(r)
                              /\ r.fleet \in Fleet
                              /\ \A a \in Agent : Had(a, r.fleet[a].applied)
    /\ r.pc \in {"write", "data"} => Saving(r) /\ Consistent(r.state) /\ r.done <= r.state.cur
    /\ r.pc = "data" => DataRecord(r) /\ r.file \in {"tmp", "db", "gone"}
    /\ r.pc = "rename" => Saving(r) /\ RenameRecord(r)
    /\ r.pc \in {"remove", "ack", "ackVersion"} => r.answer \subseteq Agent
    /\ r.pc = "ackTarget" => r.answer \subseteq Agent /\ r.version \in 1 .. MaxVersion

Requests == DOMAIN req = Handler /\ \A h \in Handler : ReqOK(req[h])

\* A publish or rollback under way has not used its number yet.
Committing == {h \in Handler : req[h].pc = "commit"}
Numbering ==
    /\ calls \in 0 .. MaxCalls
    /\ IsFiniteSet(Committing) /\ cur + Cardinality(Committing) <= calls + 1

\* What an agent has applied is the policy of that version, or of one that was undone.
Enforcement ==
    /\ agent \in [Agent -> 0 .. MaxVersion] /\ \A a \in Agent : Had(a, agent[a])
    /\ enforced \in [Agent -> SUBSET ((1 .. MaxVersion) \X Rules)]
    /\ \A a \in Agent : \A e \in enforced[a] :
         e[1] \in lost \/ (e[1] <= cur /\ e[2] = hist[e[1]].rules)

\* The versions that were returned are in memory.
Kept == \A v \in DOMAIN returned : v \in DOMAIN hist /\ hist[v].rules = returned[v]

\* What the files hold, if it can be decoded; nobody looks at the temporary file
\* unless a save is under way.
DbOK == db.kind = "whole" => Consistent(db.state)
TmpOK == Open # {} /\ tmp.kind = "whole" => Consistent(tmp.state)

\* A save that opened the file when no older snapshot was waiting: nothing that
\* it may put in place of the state file lacks its version, and nothing will.
Sure(r) == r.pc \in {"data", "rename"} /\ ~r.older
Ready ==
    \A h \in Handler : Sure(req[h]) =>
        /\ \A g \in Handler : req[g].pc \in {"write", "data"} => req[h].done <= req[g].state.cur
        /\ tmp.kind = "whole" => req[h].done <= tmp.state.cur

\* A save that is alone finds in the temporary file what it put there, unless
\* a save that failed before has removed it.
Single(r) == r.pc \in {"data", "rename"} /\ r.alone
Undisturbed ==
    \A h \in Handler : Single(req[h]) =>
        /\ Open = {h}
        /\ req[h].pc = "data" => \/ req[h].file = "tmp" /\ tmp.kind = "empty"
                                 \/ req[h].file = "gone" /\ tmp.kind = "absent"
        /\ req[h].pc = "rename" => tmp.kind \in {"whole", "absent"}

\* Who still writes to the state file opened it before another renamed it.
Behind == \A h \in Handler : req[h].pc = "data" /\ req[h].file = "db" => mixed

Files == DbOK /\ TmpOK /\ Ready /\ Undisturbed /\ Behind /\ StateFileIsWhole

Inv ==
    /\ Consistent(InMemory) /\ Files /\ Requests
    /\ Numbering /\ Enforcement /\ Kept

-----------------------------------------------------------------------------
\* What stays true while versions, applications and losses only accumulate.
Later ==
    /\ \A a \in Agent : enforced[a] \subseteq enforced'[a]
    /\ lost \subseteq lost'
    /\ cur \in Nat /\ cur' \in Nat /\ cur <= cur'
    /\ \A v \in 1 .. cur : hist'[v].rules = hist[v].rules
    /\ DOMAIN returned' \subseteq DOMAIN returned

\* The fleet is finite, and so are the numbers of versions.
LEMMA Bounds == Cardinality(Agent) \in Nat /\ MaxVersion \in Nat \ {0}
  <1>1. IsFiniteSet(Agent) /\ MaxCalls \in Nat
      BY PolicyServerAssumption
  <1>2. Cardinality(Agent) \in Nat
      BY <1>1, FS_CardinalityType
  <1>3. MaxVersion \in Nat \ {0}
      BY <1>1 DEF MaxVersion
  <1> QED  BY <1>2, <1>3

\* An agent that has applied a version has applied it.
LEMMA HadStays == Later => \A a \in Agent : \A v : Had(a, v) => Had(a, v)'
  BY DEF Later, Had

\* The agents that count as deployed only become more.
LEMMA DeployedGrows ==
    ASSUME NEW v, NEW R,
           \A a \in Agent : enforced[a] \subseteq enforced'[a], lost \subseteq lost'
    PROVE  /\ IsFiniteSet(DeployedAs(v, R)) /\ Cardinality(DeployedAs(v, R)) \in Nat
           /\ Cardinality(DeployedAs(v, R)') \in Nat
           /\ Cardinality(DeployedAs(v, R)) <= Cardinality(DeployedAs(v, R)')
  <1> DEFINE D == DeployedAs(v, R)
             E == DeployedAs(v, R)'
  <1>1. D \subseteq E /\ E \subseteq Agent
      BY DEF DeployedAs
  <1>2. IsFiniteSet(Agent)
      BY PolicyServerAssumption
  <1> HIDE DEF D, E
  <1>3. IsFiniteSet(E)
      BY <1>1, <1>2, FS_Subset
  <1>4. IsFiniteSet(D) /\ Cardinality(D) <= Cardinality(E)
      BY <1>1, <1>3, FS_Subset
  <1>5. Cardinality(D) \in Nat /\ Cardinality(E) \in Nat
      BY <1>3, <1>4, FS_CardinalityType
  <1> QED  BY <1>4, <1>5 DEF D, E

\* A rollout that was applied stays so.
LEMMA SoundStays ==
    ASSUME \A a \in Agent : enforced[a] \subseteq enforced'[a], lost \subseteq lost',
           NEW v, NEW x \in Revision, Sound(v, x)
    PROVE  Sound(v, x)'
  <1>1. x.targets \in Nat
    <2>1. x.targets \in 0 .. Cardinality(Agent)
        BY DEF Revision
    <2> QED  BY <2>1, Bounds
  <1>2. /\ Cardinality(DeployedAs(v, x.rules)) \in Nat
        /\ Cardinality(DeployedAs(v, x.rules)') \in Nat
        /\ Cardinality(DeployedAs(v, x.rules)) <= Cardinality(DeployedAs(v, x.rules)')
      BY DeployedGrows
  <1> DEFINE m == Cardinality(DeployedAs(v, x.rules))
             n == Cardinality(DeployedAs(v, x.rules)')
  <1>3. x.status = "applied" => m >= x.targets
      BY DEF Sound
  <1>4. x.status = "applied" => n >= x.targets
    <2> HIDE DEF m, n
    <2>1. m \in Nat /\ n \in Nat /\ m <= n
        BY <1>2 DEF m, n
    <2> QED  BY <1>1, <1>3, <2>1
  <1> QED  BY <1>4 DEF Sound

\* A snapshot that agrees with memory goes on agreeing with it.
LEMMA ConsistentStays == Later => \A s : Consistent(s) => Consistent(s)'
  <1> SUFFICES ASSUME Later, NEW s, Consistent(s) PROVE Consistent(s)'
      OBVIOUS
  <1>1. \A a \in Agent : Had(a, s.fleet[a].applied)'
      BY HadStays DEF Consistent
  <1>2. s.cur \in 1 .. MaxVersion /\ s.cur <= cur /\ s.next = s.cur + 1 /\ cur \in Nat /\ cur' \in Nat /\ cur <= cur'
      BY DEF Consistent, Later
  <1>3. s.cur \in Nat /\ s.cur <= cur'
      BY <1>2, Bounds
  <1>4. s.hist \in [1 .. s.cur -> Revision]
      BY DEF Consistent
  <1>5. ASSUME NEW v \in 1 .. s.cur
        PROVE  s.hist[v].rules = hist'[v].rules /\ Sound(v, s.hist[v])'
    <2>1. v \in 1 .. cur
        BY <1>2, <1>3
    <2>2. s.hist[v].rules = hist[v].rules /\ Sound(v, s.hist[v]) /\ s.hist[v] \in Revision
        BY <1>4 DEF Consistent
    <2> QED  BY <2>1, <2>2, SoundStays DEF Later
  <1>6. s.fleet \in Fleet /\ s.rules \in Rules /\ \A v \in DOMAIN returned' : v \in 1 .. s.cur
      BY DEF Consistent, Later
  <1> QED  BY <1>1, <1>2, <1>3, <1>4, <1>5, <1>6 DEF Consistent

\* So do the requests in service.
LEMMA ReqStays == Later => \A r : ReqOK(r) => ReqOK(r)'
  <1> SUFFICES ASSUME Later, NEW r, ReqOK(r) PROVE ReqOK(r)'
      OBVIOUS
  <1>1. r.pc \in {"saveFleet", "savePolicy", "write", "data", "rename"} => Saving(r)'
      BY DEF ReqOK, Saving, Later
  <1>2. r.pc \in {"write", "data"} => Consistent(r.state)' /\ r.done <= r.state.cur
      BY ConsistentStays DEF ReqOK
  <1>3. r.pc = "savePolicy" => r.fleet \in Fleet /\ \A a \in Agent : Had(a, r.fleet[a].applied)'
      BY HadStays DEF ReqOK
  <1>4. r.pc = "refresh" => /\ DOMAIN r.applied \subseteq Agent
                            /\ \A a \in DOMAIN r.applied : r.applied[a] \in 0 .. MaxVersion /\ Had(a, r.applied[a])'
      BY HadStays DEF ReqOK
  <1>5. r.pc = "update" => r.agent \in Agent /\ r.applied \in 0 .. MaxVersion /\ Had(r.agent, r.applied)'
      BY HadStays DEF ReqOK
  <1>6. /\ r.pc = "data" => DataRecord(r) /\ r.file \in {"tmp", "db", "gone"}
        /\ r.pc = "rename" => RenameRecord(r)
      BY DEF ReqOK
  <1> QED  BY <1>1, <1>2, <1>3, <1>4, <1>5, <1>6 DEF ReqOK

\* One request moves on, the others stay where they are.
LEMMA RequestsStay ==
    ASSUME Requests, Later, NEW h \in Handler, NEW r, Enters(h, r), ReqOK(r)'
    PROVE  /\ Requests'
           /\ r.pc # "commit" => Committing' = Committing \ {h}
           /\ r.pc = "commit" => Committing' = Committing \cup {h}
  <1>1. req'[h] = r /\ DOMAIN req' = Handler /\ \A g \in Handler : g # h => req'[g] = req[g]
      BY DEF Enters, Requests
  <1>2. \A x : ReqOK(x) => ReqOK(x)'
      BY ReqStays
  <1>3. ASSUME NEW g \in Handler PROVE ReqOK(req[g])'
      BY <1>1, <1>2, <1>3 DEF Requests
  <1>4. /\ r.pc # "commit" => Committing' = Committing \ {h}
        /\ r.pc = "commit" => Committing' = Committing \cup {h}
      BY <1>1 DEF Committing
  <1> QED  BY <1>1, <1>3, <1>4 DEF Requests

\* A step that gives out no version keeps the numbering.
LEMMA NumberingStays ==
    ASSUME Numbering, NEW h, Committing' = Committing \ {h},
           cur \in Nat, cur' = cur, calls' \in {calls, calls + 1}, calls' <= MaxCalls
    PROVE  Numbering'
  <1>1. /\ calls \in 0 .. MaxCalls /\ MaxCalls \in Nat
        /\ IsFiniteSet(Committing) /\ cur + Cardinality(Committing) <= calls + 1
      BY PolicyServerAssumption DEF Numbering
  <1>2. IsFiniteSet(Committing \ {h}) /\ Cardinality(Committing \ {h}) <= Cardinality(Committing)
      BY <1>1, FS_Subset
  <1>3. Cardinality(Committing) \in Nat /\ Cardinality(Committing \ {h}) \in Nat
      BY <1>1, <1>2, FS_CardinalityType
  <1>4. calls' \in 0 .. MaxCalls /\ cur + Cardinality(Committing \ {h}) <= calls' + 1
      BY <1>1, <1>2, <1>3
  <1>5. IsFiniteSet(Committing') /\ cur' + Cardinality(Committing') <= calls' + 1
      BY <1>2, <1>4
  <1> QED  BY <1>4, <1>5 DEF Numbering

\* What memory and the requests share is still there after most steps.
LEMMA Unmoved ==
    ASSUME Inv, UNCHANGED <<hist, cur, returned, lost>>,
           \A a \in Agent : enforced[a] \subseteq enforced'[a]
    PROVE  Later /\ cur \in Nat
  <1>1. cur \in Nat
      BY Bounds DEF Inv, Consistent, InMemory
  <1> QED  BY <1>1 DEF Later

\* The files are as good as before while nobody touches them.
LEMMA ContentsStay ==
    ASSUME Files, Later, UNCHANGED <<db, tmp>>, Open' # {} => Open # {}
    PROVE  DbOK' /\ TmpOK'
  <1>1. \A s : Consistent(s) => Consistent(s)'
      BY ConsistentStays
  <1> QED  BY <1>1 DEF Files, DbOK, TmpOK

LEMMA FilesStay ==
    ASSUME Inv, Later, UNCHANGED fileVars,
           NEW h \in Handler, NEW r, Enters(h, r), r.pc \notin {"data", "rename"},
           r.pc = "write" => r.state.cur = cur
    PROVE  Files'
  <1>1. req'[h] = r /\ DOMAIN req' = Handler /\ \A g \in Handler : g # h => req'[g] = req[g]
      BY DEF Enters, Inv, Requests
  <1>2. Open' = Open \ {h}
      BY <1>1 DEF Open
  <1>3. UNCHANGED <<db, tmp, mixed>>
      BY DEF fileVars
  <1>4. DbOK' /\ TmpOK'
      BY <1>2, <1>3, ContentsStay DEF Inv
  <1>5. Ready'
    <2> SUFFICES ASSUME NEW g \in Handler, Sure(req'[g])
                 PROVE  /\ \A k \in Handler : req'[k].pc \in {"write", "data"} => req'[g].done <= req'[k].state.cur
                        /\ tmp'.kind = "whole" => req'[g].done <= tmp'.state.cur
        BY Zenon DEF Ready
    <2>1. g # h /\ req'[g] = req[g] /\ req[g].pc \in {"data", "rename"}
        BY <1>1 DEF Sure
    <2>2. req[g].done \in 0 .. cur /\ cur \in Nat
        BY <2>1, Bounds DEF Inv, Requests, ReqOK, Saving, Consistent, InMemory
    <2>3. /\ \A k \in Handler : req[k].pc \in {"write", "data"} => req[g].done <= req[k].state.cur
          /\ tmp.kind = "whole" => req[g].done <= tmp.state.cur
        BY <2>1 DEF Inv, Files, Ready
    <2>4. r.pc = "write" => req[g].done <= r.state.cur
        BY <2>2
    <2> QED  BY <1>1, <1>3, <2>1, <2>3, <2>4
  <1>6. Undisturbed'
    <2> SUFFICES ASSUME NEW g \in Handler, Single(req'[g])
                 PROVE  /\ Open' = {g}
                        /\ req'[g].pc = "data" => \/ req'[g].file = "tmp" /\ tmp'.kind = "empty"
                                                  \/ req'[g].file = "gone" /\ tmp'.kind = "absent"
                        /\ req'[g].pc = "rename" => tmp'.kind \in {"whole", "absent"}
        BY Zenon DEF Undisturbed
    <2>1. g # h /\ req'[g] = req[g]
        BY <1>1 DEF Single
    <2>2. /\ Open = {g}
          /\ req[g].pc = "data" => \/ req[g].file = "tmp" /\ tmp.kind = "empty"
                                   \/ req[g].file = "gone" /\ tmp.kind = "absent"
          /\ req[g].pc = "rename" => tmp.kind \in {"whole", "absent"}
        BY <2>1 DEF Inv, Files, Undisturbed
    <2> QED  BY <1>2, <1>3, <2>1, <2>2
  <1>7. Behind' /\ StateFileIsWhole'
      BY <1>1, <1>3 DEF Inv, Files, Behind, StateFileIsWhole
  <1> QED  BY <1>4, <1>5, <1>6, <1>7 DEF Files

\* The same when no request moves on.
LEMMA FilesRest ==
    ASSUME Inv, Later, UNCHANGED <<req, db, tmp, mixed>>
    PROVE  Files'
  <1>1. Open' = Open
      BY DEF Open
  <1>2. DbOK' /\ TmpOK'
      BY <1>1, ContentsStay DEF Inv
  <1>3. Ready' /\ Undisturbed' /\ Behind' /\ StateFileIsWhole'
      BY <1>1 DEF Inv, Files, Ready, Undisturbed, Behind, StateFileIsWhole, Sure, Single
  <1> QED  BY <1>2, <1>3 DEF Files

\* A step that only moves a request on, by looking at memory or by answering.
LEMMA QuietStep ==
    ASSUME Inv, NEW h \in Handler, NEW r, Enters(h, r), ReqOK(r)',
           r.pc \notin {"commit", "data", "rename"}, r.pc = "write" => r.state.cur = cur,
           UNCHANGED <<fleet, policyVars, fileVars, enforced, lost, agent>>,
           calls' \in {calls, calls + 1}, calls' <= MaxCalls
    PROVE  Inv'
  <1>1. Later /\ cur \in Nat
      BY Unmoved DEF policyVars, fileVars
  <1>2. Requests' /\ Committing' = Committing \ {h}
      BY <1>1, RequestsStay DEF Inv
  <1>3. Numbering'
      BY <1>1, <1>2, NumberingStays DEF Inv, policyVars
  <1>4. \A s : Consistent(s) => Consistent(s)'
      BY <1>1, ConsistentStays
  <1>5. Consistent(InMemory)'
      BY <1>4 DEF Inv, InMemory, policyVars
  <1>6. Files'
      BY <1>1, FilesStay
  <1>7. Enforcement' /\ Kept'
      BY DEF Inv, Enforcement, Kept, Had, policyVars, fileVars
  <1> QED  BY <1>2, <1>3, <1>5, <1>6, <1>7 DEF Inv

-----------------------------------------------------------------------------
\* What the invariant says of the state in memory.
LEMMA Memory ==
    ASSUME Inv
    PROVE  /\ fleet \in Fleet /\ rules \in Rules /\ \A a \in Agent : Had(a, fleet[a].applied)
           /\ cur \in 1 .. MaxVersion /\ cur \in Nat /\ next = cur + 1
           /\ hist \in [1 .. cur -> Revision] /\ hist[cur] \in Revision
           /\ \A v \in 1 .. cur : Sound(v, hist[v])
           /\ \A v \in DOMAIN returned : v \in 1 .. cur
           /\ calls \in 0 .. MaxCalls /\ MaxCalls \in Nat
  <1>1. /\ fleet \in Fleet /\ rules \in Rules /\ \A a \in Agent : Had(a, fleet[a].applied)
        /\ cur \in 1 .. MaxVersion /\ next = cur + 1 /\ hist \in [1 .. cur -> Revision]
        /\ \A v \in 1 .. cur : Sound(v, hist[v])
        /\ \A v \in DOMAIN returned : v \in 1 .. cur
      BY DEF Inv, Consistent, InMemory
  <1>2. cur \in Nat /\ cur \in 1 .. cur
      BY <1>1, Bounds
  <1>3. calls \in 0 .. MaxCalls /\ MaxCalls \in Nat
      BY PolicyServerAssumption DEF Inv, Numbering
  <1> QED  BY <1>1, <1>2, <1>3

\* The requests of a step that looks at memory: the selection of agents, the
\* start of a report, the reads of a refresh, the snapshots of saveState, a
\* file that cannot be opened or renamed, and the answers.
LEMMA LookingStep ==
    ASSUME Inv, NEW h \in Handler,
           \/ RollbackUnknown(h) \/ RefreshTarget(h) \/ RefreshAgents(h)
           \/ SaveFleet(h) \/ SavePolicy(h) \/ OpenFails(h) \/ RenameFails(h)
           \/ AckEnrollment(h) \/ AckCurrent(h) \/ AckTarget(h),
           UNCHANGED <<enforced, lost, agent>>
    PROVE  Inv'
  <1>1. /\ UNCHANGED <<fleet, policyVars, fileVars>> /\ calls' = calls
      BY DEF RollbackUnknown, RefreshTarget, RefreshAgents, SaveFleet, SavePolicy, OpenFails, RenameFails,
             AckEnrollment, AckCurrent, AckTarget
  <1>2. calls' \in {calls, calls + 1} /\ calls' <= MaxCalls
      BY <1>1, Memory
  <1>3. Later
      BY <1>1, Unmoved DEF policyVars, fileVars
  <1>4. ReqOK(req[h])
      BY DEF Inv, Requests
  <1> SUFFICES ASSUME NEW r, Enters(h, r)
               PROVE  /\ r.pc \notin {"commit", "data", "rename"} /\ (r.pc = "write" => r.state.cur = cur)
                      /\ ReqOK(r)'
    <2>1. \E r : Enters(h, r)
        BY DEF RollbackUnknown, RefreshTarget, RefreshAgents, SaveFleet, SavePolicy, OpenFails, RenameFails,
               AckEnrollment, AckCurrent, AckTarget, Saved
    <2> QED  BY <1>1, <1>2, <2>1, QuietStep
  <1>5. \A x : ReqOK(x) => ReqOK(x)'
      BY <1>3, ReqStays
  <1>6. req'[h] = r
      BY DEF Enters, Inv, Requests
  <1> SUFFICES /\ r.pc \notin {"commit", "data", "rename"} /\ (r.pc = "write" => r.state.cur = cur)
               /\ ReqOK(r)
      BY <1>5
  <1> USE DEF Inv, Requests, Enters
  <1>7. CASE RollbackUnknown(h) \/ AckTarget(h)
    <2>1. r = Idle
        BY <1>6, <1>7 DEF RollbackUnknown, AckTarget
    <2> QED  BY <2>1 DEF Idle, ReqOK
  <1>8. CASE RefreshTarget(h)
    <2>1. /\ r = [pc |-> "refreshAgents", agent |-> req[h].agent, scope |-> hist[cur].scope, version |-> cur]
          /\ req[h].agent \in Agent
        BY <1>4, <1>6, <1>8 DEF RefreshTarget, ReqOK
    <2> QED  BY <2>1 DEF ReqOK
  <1>9. CASE RefreshAgents(h)
    <2> DEFINE f == [a \in Selected(req[h].scope) |-> fleet[a].applied]
    <2>1. r = [pc |-> "refresh", agent |-> req[h].agent, version |-> req[h].version, applied |-> f]
        BY <1>6, <1>9 DEF RefreshAgents
    <2>2. req[h].agent \in Agent
        BY <1>4, <1>9 DEF RefreshAgents, ReqOK
    <2>3. DOMAIN f \subseteq Agent /\ \A a \in DOMAIN f : f[a] = fleet[a].applied
        BY DEF Selected
    <2>4. \A a \in Agent : fleet[a].applied \in 0 .. MaxVersion /\ Had(a, fleet[a].applied)
        BY Memory DEF Fleet
    <2> HIDE DEF f
    <2>5. \A a \in DOMAIN f : f[a] \in 0 .. MaxVersion /\ Had(a, f[a])
        BY <2>3, <2>4
    <2> QED  BY <2>1, <2>2, <2>3, <2>5 DEF ReqOK
  <1>10. CASE SaveFleet(h)
    <2>1. r = [pc |-> "savePolicy", done |-> req[h].done, answer |-> req[h].answer, fleet |-> fleet]
        BY <1>6, <1>10 DEF SaveFleet
    <2>2. req[h].done \in 0 .. cur /\ req[h].answer \subseteq Agent
        BY <1>4, <1>10 DEF SaveFleet, ReqOK, Saving
    <2> QED  BY <2>1, <2>2, Memory DEF ReqOK, Saving
  <1>11. CASE SavePolicy(h)
    <2> DEFINE s == [fleet |-> req[h].fleet, rules |-> rules, hist |-> hist, cur |-> cur, next |-> next]
    <2>1. r = [pc |-> "write", done |-> req[h].done, answer |-> req[h].answer, state |-> s]
        BY <1>6, <1>11 DEF SavePolicy
    <2>2. /\ req[h].done \in 0 .. cur /\ req[h].answer \subseteq Agent
          /\ req[h].fleet \in Fleet /\ \A a \in Agent : Had(a, req[h].fleet[a].applied)
        BY <1>4, <1>11 DEF SavePolicy, ReqOK, Saving
    <2>3. Consistent(s)
        BY <2>2, Memory DEF Consistent
    <2>4. s.cur = cur /\ cur \in Nat
        BY Memory
    <2> HIDE DEF s
    <2> QED  BY <2>1, <2>2, <2>3, <2>4 DEF ReqOK, Saving
  <1>12. CASE OpenFails(h)
    <2>1. r = IF req[h].answer = {} THEN Idle ELSE [pc |-> "ack", answer |-> req[h].answer]
        BY <1>6, <1>12 DEF OpenFails, Saved
    <2>2. req[h].answer \subseteq Agent
        BY <1>4, <1>12 DEF OpenFails, ReqOK, Saving
    <2> QED  BY <2>1, <2>2 DEF Idle, ReqOK
  <1>15. CASE RenameFails(h)
    <2>1. r = [pc |-> "remove", answer |-> req[h].answer]
        BY <1>6, <1>15 DEF RenameFails
    <2>2. req[h].answer \subseteq Agent
        BY <1>4, <1>15 DEF RenameFails, ReqOK, Saving
    <2> QED  BY <2>1, <2>2 DEF ReqOK
  <1>13. CASE AckEnrollment(h)
    <2>1. r = Idle \/ r = [pc |-> "ackVersion", answer |-> req[h].answer]
        BY <1>6, <1>13 DEF AckEnrollment
    <2>2. req[h].answer \subseteq Agent
        BY <1>4, <1>13 DEF AckEnrollment, ReqOK
    <2> QED  BY <2>1, <2>2 DEF Idle, ReqOK
  <1>14. CASE AckCurrent(h)
    <2>1. r = [pc |-> "ackTarget", answer |-> req[h].answer, version |-> cur, scope |-> hist[cur].scope]
        BY <1>6, <1>14 DEF AckCurrent
    <2>2. req[h].answer \subseteq Agent
        BY <1>4, <1>14 DEF AckCurrent, ReqOK
    <2> QED  BY <2>1, <2>2, Memory DEF ReqOK
  <1> QED
      BY <1>7, <1>8, <1>9, <1>10, <1>11, <1>12, <1>13, <1>14, <1>15

\* A publish or rollback begins: it is given a number that nobody else takes.
LEMMA BeginPolicyStep ==
    ASSUME Inv, NEW h \in Handler, NEW scope \in Scope, NEW from, BeginPolicy(h, scope, from),
           UNCHANGED <<enforced, lost, agent>>
    PROVE  Inv'
  <1>1. PICK r : /\ Enters(h, r)
                 /\ r = [pc |-> "commit", scope |-> scope, from |-> from,
                         targets |-> Cardinality(Selected(scope))]
      BY DEF BeginPolicy
  <1>2. UNCHANGED <<fleet, policyVars, fileVars>> /\ calls < MaxCalls /\ calls' = calls + 1
        /\ req[h].pc = "idle"
      BY DEF BeginPolicy, Call
  <1>3. Later /\ cur \in Nat
      BY <1>2, Unmoved DEF policyVars, fileVars
  <1>4. Cardinality(Selected(scope)) \in 0 .. Cardinality(Agent)
    <2>1. Selected(scope) \subseteq Agent /\ IsFiniteSet(Agent)
        BY PolicyServerAssumption DEF Selected
    <2>2. IsFiniteSet(Selected(scope)) /\ Cardinality(Selected(scope)) <= Cardinality(Agent)
        BY <2>1, FS_Subset
    <2>3. Cardinality(Selected(scope)) \in Nat
        BY <2>2, FS_CardinalityType
    <2> QED  BY <2>2, <2>3, Bounds
  <1>5. ReqOK(r)'
      BY <1>1, <1>4 DEF ReqOK
  <1>6. Requests' /\ Committing' = Committing \cup {h}
      BY <1>1, <1>3, <1>5, RequestsStay DEF Inv
  <1>7. Numbering'
    <2>1. /\ calls \in 0 .. MaxCalls /\ MaxCalls \in Nat /\ cur \in Nat
          /\ IsFiniteSet(Committing) /\ cur + Cardinality(Committing) <= calls + 1
        BY Memory DEF Inv, Numbering
    <2>2. h \notin Committing
        BY <1>2 DEF Committing
    <2>3. IsFiniteSet(Committing \cup {h}) /\ Cardinality(Committing \cup {h}) = Cardinality(Committing) + 1
        BY <2>1, <2>2, FS_AddElement, Zenon
    <2>4. Cardinality(Committing) \in Nat
        BY <2>1, FS_CardinalityType
    <2>5. calls' \in 0 .. MaxCalls /\ cur + Cardinality(Committing \cup {h}) <= calls' + 1
        BY <1>2, <2>1, <2>3, <2>4
    <2>6. IsFiniteSet(Committing') /\ cur' + Cardinality(Committing') <= calls' + 1
        BY <1>2, <1>6, <2>3, <2>5 DEF policyVars
    <2> QED  BY <2>5, <2>6 DEF Numbering
  <1>8. \A s : Consistent(s) => Consistent(s)'
      BY <1>3, ConsistentStays
  <1>9. Consistent(InMemory)'
      BY <1>2, <1>8 DEF Inv, InMemory, policyVars
  <1>10. Files'
    <2>1. r.pc \notin {"data", "rename"} /\ r.pc # "write"
        BY <1>1
    <2> QED  BY <1>1, <1>2, <1>3, <2>1, FilesStay
  <1>11. Enforcement' /\ Kept'
      BY <1>2 DEF Inv, Enforcement, Kept, Had, policyVars, fileVars
  <1> QED  BY <1>6, <1>7, <1>9, <1>10, <1>11 DEF Inv

\* A report begins: it names the version the agent applied last.
LEMMA BeginReportStep ==
    ASSUME Inv, NEW h \in Handler, NEW a \in Agent, BeginReport(h, a, agent[a]),
           UNCHANGED <<enforced, lost, agent>>
    PROVE  Inv'
  <1>1. PICK r : /\ Enters(h, r)
                 /\ r = [pc |-> "update", agent |-> a, applied |-> agent[a], enroll |-> fleet[a].enroll]
      BY DEF BeginReport
  <1>2. UNCHANGED <<fleet, policyVars, fileVars>> /\ calls' = calls
      BY DEF BeginReport
  <1>3. agent[a] \in 0 .. MaxVersion /\ Had(a, agent[a])
      BY DEF Inv, Enforcement
  <1>4. Later
      BY <1>2, Unmoved DEF policyVars, fileVars
  <1>5. ReqOK(r)
      BY <1>1, <1>3 DEF ReqOK
  <1>6. ReqOK(r)' /\ r.pc \notin {"commit", "data", "rename"} /\ r.pc # "write"
      BY <1>1, <1>4, <1>5, ReqStays
  <1>7. calls' \in {calls, calls + 1} /\ calls' <= MaxCalls
      BY <1>2, Memory
  <1> QED  BY <1>1, <1>2, <1>6, <1>7, QuietStep

\* A change of the fleet leaves the policy alone.
LEMMA FleetStep ==
    ASSUME Inv, NEW h \in Handler, NEW r, Enters(h, r), ReqOK(r),
           r.pc \notin {"commit", "write", "data", "rename"},
           NEW a \in Agent, fleet' = [fleet EXCEPT ![a] = fleet'[a]],
           fleet'[a] \in [known : BOOLEAN, group : Scope, enroll : Enrollment, applied : 0 .. MaxVersion],
           Had(a, fleet'[a].applied),
           UNCHANGED <<policyVars, fileVars, enforced, lost, agent>>,
           calls' \in {calls, calls + 1}, calls' <= MaxCalls
    PROVE  Inv'
  <1>1. Later /\ cur \in Nat
      BY Unmoved DEF policyVars, fileVars
  <1>2. ReqOK(r)'
      BY <1>1, ReqStays
  <1>3. Requests' /\ Committing' = Committing \ {h}
      BY <1>1, <1>2, RequestsStay DEF Inv
  <1>4. Numbering'
      BY <1>1, <1>3, NumberingStays DEF Inv, policyVars
  <1>5. Files'
      BY <1>1, FilesStay
  <1>6. \A b \in Agent : b # a => fleet'[b] = fleet[b]
      BY Memory DEF Fleet
  <1>7. fleet' \in Fleet
      BY <1>6, Memory DEF Fleet
  <1>8. \A b \in Agent : Had(b, fleet'[b].applied)
      BY <1>6, Memory
  <1>9. PICK s : s = [fleet |-> fleet', rules |-> rules, hist |-> hist, cur |-> cur, next |-> next]
      OBVIOUS
  <1>10. Consistent(s)
      BY <1>7, <1>8, <1>9, Memory DEF Consistent
  <1>11. Consistent(s)'
      BY <1>1, <1>10, ConsistentStays
  <1>12. s = InMemory'
      BY <1>9 DEF InMemory, policyVars
  <1>13. Consistent(InMemory)'
      BY <1>11, <1>12
  <1>14. Enforcement' /\ Kept'
      BY DEF Inv, Enforcement, Kept, Had, policyVars, fileVars
  <1> QED  BY <1>3, <1>4, <1>5, <1>13, <1>14 DEF Inv

\* SetAgentEnrollment and UpsertAgentMetadata.
LEMMA EditStep ==
    ASSUME Inv, NEW h \in Handler, NEW a \in Agent, NEW status, NEW group,
           \/ SetAgentEnrollment(h, a, status) /\ status \in Statuses
           \/ UpsertAgentMetadata(h, a, group) /\ group \in Groups,
           UNCHANGED <<enforced, lost, agent>>
    PROVE  Inv'
  <1>1. PICK x : /\ \/ x = [fleet[a] EXCEPT !.known = TRUE, !.enroll = status] /\ status \in Statuses
                    \/ x = [fleet[a] EXCEPT !.known = TRUE, !.group = group] /\ group \in Groups
                 /\ Edit(h, a, x)
      BY DEF SetAgentEnrollment, UpsertAgentMetadata
  <1> DEFINE Member == [known : BOOLEAN, group : Scope, enroll : Enrollment, applied : 0 .. MaxVersion]
  <1>2. fleet \in [Agent -> Member]
      BY Memory DEF Fleet
  <1>3. fleet[a] \in Member
      BY <1>2
  <1>4. status \in Statuses => status \in Enrollment
      BY PolicyServerAssumption DEF Enrollment
  <1>5. group \in Groups => group \in Scope
      BY DEF Scope
  <1> HIDE DEF Scope, Enrollment
  <1>6. x \in Member /\ x.applied = fleet[a].applied
      BY <1>1, <1>3, <1>4, <1>5
  <1>7. PICK r : Enters(h, r) /\ r = [pc |-> "saveFleet", done |-> 0, answer |-> {}]
      BY <1>1 DEF Edit
  <1>8. r.pc \notin {"commit", "write", "data", "rename"} /\ ReqOK(r)
      BY <1>7, Memory DEF ReqOK, Saving
  <1>9. /\ fleet' = [fleet EXCEPT ![a] = x] /\ UNCHANGED <<policyVars, fileVars>>
        /\ calls < MaxCalls /\ calls' = calls + 1
      BY <1>1 DEF Edit, Call
  <1>10. calls' \in {calls, calls + 1} /\ calls' <= MaxCalls
      BY <1>9, Memory
  <1>11. fleet'[a] = x
      BY <1>2, <1>9
  <1>12. Had(a, fleet'[a].applied)
      BY <1>6, <1>11, Memory
  <1>13. fleet' = [fleet EXCEPT ![a] = fleet'[a]] /\ fleet'[a] \in Member
      BY <1>6, <1>9, <1>11
  <1> QED  BY <1>7, <1>8, <1>9, <1>10, <1>12, <1>13, FleetStep

\* A report changes what the fleet knows of its agent, and keeps its enrollment.
LEMMA UpdateFleetStep ==
    ASSUME Inv, NEW h \in Handler, UpdateFleet(h), UNCHANGED <<enforced, lost, agent>>
    PROVE  Inv'
  <1> DEFINE Member == [known : BOOLEAN, group : Scope, enroll : Enrollment, applied : 0 .. MaxVersion]
  <1>1. PICK a \in Agent : a = req[h].agent /\ req[h].applied \in 0 .. MaxVersion /\ Had(a, req[h].applied)
      BY DEF Inv, Requests, ReqOK, UpdateFleet
  <1>2. PICK x : /\ x = [known |-> TRUE, group |-> fleet[a].group, enroll |-> fleet[a].enroll,
                         applied |-> req[h].applied]
                 /\ fleet' = [fleet EXCEPT ![a] = x]
      BY <1>1 DEF UpdateFleet, KeepEnrollment
  <1>3. fleet \in [Agent -> Member]
      BY Memory DEF Fleet
  <1>4. fleet[a] \in Member
      BY <1>3
  <1> HIDE DEF Scope, Enrollment
  <1>5. x \in Member /\ x.applied = req[h].applied
      BY <1>1, <1>2, <1>4
  <1>6. PICK r : Enters(h, r) /\ r = [pc |-> "refreshTarget", agent |-> a]
      BY <1>1 DEF UpdateFleet
  <1>7. r.pc \notin {"commit", "write", "data", "rename"} /\ ReqOK(r)
      BY <1>6 DEF ReqOK
  <1>8. UNCHANGED <<policyVars, fileVars>> /\ calls' = calls
      BY DEF UpdateFleet
  <1>9. calls' \in {calls, calls + 1} /\ calls' <= MaxCalls
      BY <1>8, Memory
  <1>10. fleet'[a] = x
      BY <1>2, <1>3
  <1>11. Had(a, fleet'[a].applied)
      BY <1>1, <1>5, <1>10
  <1>12. fleet' = [fleet EXCEPT ![a] = fleet'[a]] /\ fleet'[a] \in Member
      BY <1>2, <1>5, <1>10
  <1> QED  BY <1>6, <1>7, <1>8, <1>9, <1>11, <1>12, FleetStep

\* The working rules are replaced.
LEMMA UpdatePolicyStep ==
    ASSUME Inv, NEW R \in Rules, UpdatePolicy(R), UNCHANGED <<enforced, lost, agent>>
    PROVE  Inv'
  <1>1. /\ UNCHANGED <<fleet, hist, cur, next, db, tmp, mixed, req, calls, returned>> /\ rules' = R
      BY DEF UpdatePolicy, fileVars
  <1>2. Later /\ cur \in Nat
      BY <1>1, Unmoved
  <1>3. Requests'
      BY <1>1, <1>2, ReqStays DEF Inv, Requests
  <1>4. Numbering'
      BY <1>1 DEF Inv, Numbering, Committing
  <1>5. Files'
      BY <1>1, <1>2, FilesRest
  <1>6. PICK s : s = [fleet |-> fleet, rules |-> R, hist |-> hist, cur |-> cur, next |-> next]
      OBVIOUS
  <1>7. Consistent(s)
      BY <1>6, Memory DEF Consistent
  <1>8. Consistent(s)' /\ s = InMemory'
      BY <1>1, <1>2, <1>6, <1>7, ConsistentStays DEF InMemory
  <1>9. Consistent(InMemory)'
      BY <1>8
  <1>10. Enforcement' /\ Kept'
      BY <1>1 DEF Inv, Enforcement, Kept, Had
  <1> QED  BY <1>3, <1>4, <1>5, <1>9, <1>10 DEF Inv

\* A version is appended to the history: the next number, which no snapshot and
\* no agent has seen.
LEMMA AppendStep ==
    ASSUME Inv, NEW h \in Handler, req[h].pc = "commit",
           NEW R \in Rules, NEW queued \in {"queued", "rollback_queued"}, NEW written \in BOOLEAN,
           NEW old \in Revision, old.bundle.of <= cur, rules' \in Rules,
           AppendRevision(h, R, queued, written, old),
           UNCHANGED <<fleet, fileVars, calls, enforced, lost, agent>>
    PROVE  Inv'
  <1>1. /\ fleet \in Fleet /\ \A a \in Agent : Had(a, fleet[a].applied)
        /\ cur \in 1 .. MaxVersion /\ cur \in Nat /\ next = cur + 1
        /\ hist \in [1 .. cur -> Revision] /\ \A v \in 1 .. cur : Sound(v, hist[v])
        /\ \A v \in DOMAIN returned : v \in 1 .. cur
        /\ calls \in 0 .. MaxCalls /\ MaxCalls \in Nat
      BY Memory
  <1>2. PICK new : new = NewRevision(h, R, queued, written, old)
      OBVIOUS
  <1>3. hist' = [v \in DOMAIN hist \cup {next} |-> IF v = next THEN new ELSE hist[v]]
        /\ cur' = next /\ next' = next + 1
      BY <1>2 DEF AppendRevision
  <1>4. /\ DOMAIN hist' = 1 .. cur + 1 /\ hist' = [v \in 1 .. cur + 1 |-> hist'[v]]
        /\ hist'[cur + 1] = new /\ \A v \in 1 .. cur : hist'[v] = hist[v]
      BY <1>1, <1>3
  <1>5. Later
      BY <1>1, <1>3, <1>4 DEF Later, fileVars
  <1>6. h \in Committing /\ ReqOK(req[h])
      BY DEF Inv, Requests, Committing
  <1>7. /\ IsFiniteSet(Committing) /\ cur + Cardinality(Committing) <= calls + 1
        /\ Cardinality(Committing) \in Nat
      BY FS_CardinalityType DEF Inv, Numbering
  <1>8. IsFiniteSet(Committing \ {h}) /\ Cardinality(Committing \ {h}) = Cardinality(Committing) - 1
      BY <1>6, <1>7, FS_RemoveElement, Zenon
  <1>9. Cardinality(Committing \ {h}) \in Nat
      BY <1>8, FS_CardinalityType
  <1>10. cur + 1 \in 1 .. MaxVersion /\ cur + 1 + Cardinality(Committing \ {h}) <= calls + 1
      BY <1>1, <1>7, <1>8, <1>9 DEF MaxVersion
  <1>11. PICK last : last = cur + 1
      OBVIOUS
  <1>12. new \in Revision /\ Sound(last, new)'
    <2>1. req[h].scope \in Scope /\ req[h].targets \in 0 .. Cardinality(Agent)
        BY <1>6 DEF ReqOK
    <2>2. old.bundle \in [rules : Rules, of : 1 .. MaxVersion]
        BY DEF Revision
    <2>3. PICK b : b = IF written THEN [rules |-> R, of |-> next] ELSE old.bundle
        OBVIOUS
    <2>4. b \in [rules : Rules, of : 1 .. MaxVersion] /\ b.of <= last /\ (b.of = last => b.rules = R)
      <3>1. CASE written
          BY <1>1, <1>10, <1>11, <2>3, <3>1
      <3>2. CASE ~written
        <4>1. old.bundle.of \in Nat
            BY <2>2, Bounds
        <4> QED  BY <1>1, <1>11, <2>2, <2>3, <3>2, <4>1
      <3> QED  BY <3>1, <3>2
    <2>5. PICK st : st = IF req[h].targets = 0 THEN "local_applied" ELSE queued
        OBVIOUS
    <2>6. st \in {"local_applied", "queued", "rollback_queued", "applied"} /\ st # "applied"
        BY <2>5
    <2>7. new = [rules |-> R, bundle |-> b, scope |-> req[h].scope, targets |-> req[h].targets,
                 acked |-> 0, status |-> st]
        BY <1>2, <2>3, <2>5 DEF NewRevision
    <2>8. 0 \in 0 .. Cardinality(Agent)
        BY Bounds
    <2>9. new \in Revision
        BY <2>1, <2>4, <2>6, <2>7, <2>8 DEF Revision, Scope
    <2>10. new.status # "applied" /\ new.bundle = b /\ new.rules = R
        BY <2>6, <2>7
    <2>11. Sound(last, new)'
        BY <2>4, <2>10 DEF Sound
    <2> QED  BY <2>9, <2>11
  <1>13. PICK r : Enters(h, r) /\ r = [pc |-> "saveFleet", done |-> next, answer |-> {}]
      BY DEF AppendRevision
  <1>14. ReqOK(r)' /\ r.pc \notin {"commit", "write", "data", "rename"}
    <2>1. Saving(r)'
        BY <1>1, <1>3, <1>13 DEF Saving
    <2> QED  BY <1>13, <2>1 DEF ReqOK
  <1>15. Requests' /\ Committing' = Committing \ {h}
      BY <1>5, <1>13, <1>14, RequestsStay DEF Inv
  <1>16. Numbering'
      BY <1>1, <1>3, <1>8, <1>10, <1>15 DEF Numbering
  <1>17. Files'
      BY <1>5, <1>13, <1>14, FilesStay
  <1>18. PICK H : H = hist'
      OBVIOUS
  <1>19. ASSUME NEW v \in 1 .. cur'
         PROVE  H[v] \in Revision /\ Sound(v, H[v])'
    <2>1. CASE v = last
      <3>1. H[v] = new
          BY <1>4, <1>11, <1>18, <2>1
      <3> QED  BY <1>12, <2>1, <3>1
    <2>2. CASE v # last
      <3>1. v \in 1 .. cur
          BY <1>1, <1>3, <1>11, <2>2
      <3>2. PICK x \in Revision : x = hist[v] /\ Sound(v, x)
          BY <1>1, <3>1
      <3>3. Sound(v, x)'
          BY <3>2, SoundStays
      <3>4. H[v] = x
          BY <1>4, <1>18, <3>1, <3>2
      <3> QED  BY <3>3, <3>4
    <2> QED  BY <2>1, <2>2
  <1>20. PICK s : s = [fleet |-> fleet, rules |-> rules', hist |-> H, cur |-> cur', next |-> next']
      OBVIOUS
  <1>21. Consistent(s)'
    <2>1. s.fleet \in Fleet /\ s.rules \in Rules /\ \A a \in Agent : Had(a, s.fleet[a].applied)'
        BY <1>1, <1>18, <1>20 DEF Had
    <2>2. s.cur \in 1 .. MaxVersion /\ s.cur <= cur' /\ s.next = s.cur + 1
        BY <1>1, <1>3, <1>10, <1>18, <1>20
    <2>3. s.hist \in [1 .. s.cur -> Revision]
        BY <1>1, <1>3, <1>4, <1>18, <1>20, <1>19
    <2>4. \A v \in 1 .. s.cur : s.hist[v].rules = hist'[v].rules /\ Sound(v, s.hist[v])'
        BY <1>18, <1>20, <1>19
    <2>5. \A v \in DOMAIN returned' : v \in 1 .. s.cur
        BY <1>1, <1>3, <1>18, <1>20 DEF fileVars
    <2> QED  BY <2>1, <2>2, <2>3, <2>4, <2>5 DEF Consistent
  <1>22. Consistent(InMemory)'
      BY <1>18, <1>20, <1>21 DEF InMemory
  <1>23. Enforcement'
    <2>1. ASSUME NEW a \in Agent, NEW e \in enforced[a], e[1] \notin lost
          PROVE  e[1] <= cur' /\ e[2] = hist'[e[1]].rules
      <3>1. e[1] <= cur /\ e[2] = hist[e[1]].rules /\ e[1] \in 1 .. MaxVersion
          BY <2>1 DEF Inv, Enforcement
      <3>2. e[1] \in 1 .. cur /\ e[1] <= cur'
          BY <1>1, <1>3, <3>1
      <3> QED  BY <1>4, <3>1, <3>2
    <2> QED  BY <2>1 DEF Inv, Enforcement, Had
  <1>24. Kept'
      BY <1>1, <1>4 DEF Inv, Kept, fileVars
  <1> QED  BY <1>15, <1>16, <1>17, <1>22, <1>23, <1>24 DEF Inv

\* PublishPolicyFor and RollbackPolicyFor under policy.mu.
LEMMA CommitStep ==
    ASSUME Inv, NEW h \in Handler, NEW written \in BOOLEAN, NEW readable \in BOOLEAN,
           CommitPublish(h, written) \/ CommitRollback(h, readable, written),
           UNCHANGED <<enforced, lost, agent>>
    PROVE  Inv'
  <1>1. req[h].pc = "commit" /\ UNCHANGED <<fleet, fileVars, calls>>
      BY DEF CommitPublish, CommitRollback
  <1>2. /\ rules \in Rules /\ cur \in Nat /\ cur \in 1 .. cur /\ hist \in [1 .. cur -> Revision]
        /\ \A v \in 1 .. cur : Sound(v, hist[v])
    <2>1. cur \in 1 .. MaxVersion /\ cur \in Nat
        BY Memory
    <2> QED  BY <2>1, Memory
  <1>3. ASSUME NEW v \in 1 .. cur
        PROVE  hist[v] \in Revision /\ hist[v].bundle.rules \in Rules /\ hist[v].bundle.of <= cur
    <2>1. hist[v] \in Revision /\ hist[v].bundle.of <= v
        BY <1>2 DEF Sound
    <2>2. hist[v].bundle.rules \in Rules /\ hist[v].bundle.of \in 1 .. MaxVersion
        BY <2>1 DEF Revision
    <2>3. hist[v].bundle.of \in Nat
        BY <2>2, Bounds
    <2>4. hist[v].bundle.of <= cur
        BY <1>2, <2>1, <2>3
    <2> QED  BY <2>1, <2>2, <2>4
  <1>4. CASE CommitPublish(h, written)
    <2>1. AppendRevision(h, rules, "queued", written, hist[cur]) /\ rules' = rules
        BY <1>4 DEF CommitPublish
    <2>2. hist[cur] \in Revision /\ hist[cur].bundle.of <= cur
        BY <1>2, <1>3
    <2>3. "queued" \in {"queued", "rollback_queued"}
        OBVIOUS
    <2> QED  BY <1>1, <1>2, <2>1, <2>2, <2>3, AppendStep
  <1>5. CASE CommitRollback(h, readable, written)
    <2>1. PICK old, R : /\ old = hist[req[h].from] /\ R = IF readable THEN old.bundle.rules ELSE rules
                        /\ req[h].from \in DOMAIN hist
                        /\ rules' = R /\ AppendRevision(h, R, "rollback_queued", written, old)
        BY <1>5 DEF CommitRollback
    <2>2. req[h].from \in 1 .. cur
        BY <1>2, <2>1
    <2>3. old \in Revision /\ old.bundle.of <= cur /\ R \in Rules
        BY <1>2, <1>3, <2>1, <2>2
    <2>4. "rollback_queued" \in {"queued", "rollback_queued"}
        OBVIOUS
    <2> QED  BY <1>1, <2>1, <2>3, <2>4, AppendStep
  <1> QED  BY <1>4, <1>5

\* The agents that Refresh counts have applied the current version, or one at
\* least as new that a crash has undone: the versions it read under
\* telemetry.mu may be old, but they were applied.
LEMMA CountedAreDeployed ==
    ASSUME Inv, NEW h \in Handler, req[h].pc = "refresh", hist[cur].targets # 0,
           StatusFor(Acked(h)) = "applied"
    PROVE  Cardinality(DeployedAs(cur, hist[cur].rules)) >= hist[cur].targets
  <1> DEFINE T == {a \in DOMAIN req[h].applied : req[h].applied[a] >= cur}
             D == DeployedAs(cur, hist[cur].rules)
             targets == hist[cur].targets
  <1>1. /\ DOMAIN req[h].applied \subseteq Agent
        /\ \A a \in DOMAIN req[h].applied : req[h].applied[a] \in 0 .. MaxVersion /\ Had(a, req[h].applied[a])
      BY DEF Inv, Requests, ReqOK
  <1>2. cur \in 1 .. MaxVersion /\ cur \in Nat
      BY Memory
  <1>3. ASSUME NEW a \in T PROVE a \in D
    <2>1. a \in Agent /\ req[h].applied[a] \in 0 .. MaxVersion /\ req[h].applied[a] >= cur /\ req[h].applied[a] # 0
        BY <1>1, <1>2
    <2>2. PICK e \in enforced[a] : e[1] = req[h].applied[a]
        BY <1>1, <1>3, <2>1 DEF Had
    <2>3. e \in (1 .. MaxVersion) \X Rules /\ (e[1] \in lost \/ (e[1] <= cur /\ e[2] = hist[e[1]].rules))
        BY <2>1, <2>2 DEF Inv, Enforcement
    <2>4. CASE e[1] \in lost
        BY <2>1, <2>2, <2>4 DEF DeployedAs
    <2>5. CASE e[1] <= cur /\ e[2] = hist[e[1]].rules
      <3>1. e[1] = cur
          BY <1>2, <2>1, <2>2, <2>3, <2>5
      <3>2. e = <<cur, hist[cur].rules>>
          BY <2>3, <2>5, <3>1
      <3> QED  BY <2>1, <2>2, <3>2 DEF DeployedAs
    <2> QED  BY <2>3, <2>4, <2>5
  <1>4. T \subseteq D /\ D \subseteq Agent /\ IsFiniteSet(Agent)
      BY <1>3, PolicyServerAssumption DEF DeployedAs
  <1> HIDE DEF D
  <1>5. IsFiniteSet(D)
      BY <1>4, FS_Subset
  <1>6. PICK U : U = T
      OBVIOUS
  <1>7. IsFiniteSet(U) /\ Cardinality(U) <= Cardinality(D)
      BY <1>4, <1>5, <1>6, FS_Subset
  <1>8. Cardinality(U) \in Nat /\ Cardinality(D) \in Nat
      BY <1>5, <1>7, FS_CardinalityType
  <1>9. targets \in Nat
    <2>1. targets \in 0 .. Cardinality(Agent)
        BY Memory DEF Revision
    <2> QED  BY <2>1, Bounds
  <1>10. Acked(h) = IF Cardinality(U) > targets THEN targets ELSE Cardinality(U)
      BY <1>6 DEF Acked, AckedVersion
  <1>11. Acked(h) = targets
      BY DEF StatusFor
  <1> HIDE DEF targets
  <1>12. Cardinality(U) >= targets
      BY <1>8, <1>9, <1>10, <1>11
  <1>13. Cardinality(D) >= targets
      BY <1>7, <1>8, <1>9, <1>12
  <1> QED  BY <1>13 DEF D, targets

\* refreshPolicyDeploymentFromAgents, under policy.mu.
LEMMA RefreshStep ==
    ASSUME Inv, NEW h \in Handler, Refresh(h), UNCHANGED <<enforced, lost, agent>>
    PROVE  Inv'
  <1>1. /\ fleet \in Fleet /\ rules \in Rules /\ \A a \in Agent : Had(a, fleet[a].applied)
        /\ cur \in 1 .. MaxVersion /\ cur \in Nat /\ next = cur + 1 /\ cur \in 1 .. cur
        /\ hist \in [1 .. cur -> Revision] /\ hist[cur] \in Revision
        /\ \A v \in 1 .. cur : Sound(v, hist[v])
        /\ \A v \in DOMAIN returned : v \in 1 .. cur
        /\ calls \in 0 .. MaxCalls /\ MaxCalls \in Nat
    <2>1. cur \in 1 .. MaxVersion /\ cur \in Nat
        BY Memory
    <2> QED  BY <2>1, Memory
  <1>2. UNCHANGED <<fleet, rules, cur, next, fileVars, calls, returned>> /\ req[h].pc = "refresh"
      BY DEF Refresh, fileVars
  <1>3. PICK n, st : n = Acked(h) /\ st = StatusFor(n)
      OBVIOUS
  <1>4. \/ hist' = hist
        \/ hist[cur].targets # 0 /\ hist' = [hist EXCEPT ![cur].acked = n, ![cur].status = st]
      BY <1>3 DEF Refresh
  <1>5. CASE hist' = hist
    <2>1. PICK r : Enters(h, r) /\ r = [pc |-> "saveFleet", done |-> 0, answer |-> {req[h].agent}]
        BY DEF Refresh
    <2>2. req[h].agent \in Agent
        BY <1>2 DEF Inv, Requests, ReqOK
    <2>3. Later
        BY <1>2, <1>5, Unmoved
    <2>4. ReqOK(r) /\ r.pc \notin {"commit", "write", "data", "rename"}
        BY <1>1, <2>1, <2>2 DEF ReqOK, Saving
    <2>5. ReqOK(r)'
        BY <2>3, <2>4, ReqStays
    <2>6. calls' \in {calls, calls + 1} /\ calls' <= MaxCalls
        BY <1>1, <1>2
    <2>7. UNCHANGED <<fleet, policyVars, fileVars, enforced, lost, agent>>
        BY <1>2, <1>5 DEF policyVars
    <2> QED  BY <2>1, <2>4, <2>5, <2>6, <2>7, QuietStep
  <1>6. CASE hist[cur].targets # 0 /\ hist' = [hist EXCEPT ![cur].acked = n, ![cur].status = st]
    <2>1. PICK new : new = [hist[cur] EXCEPT !.acked = n, !.status = st]
        OBVIOUS
    <2>2. /\ DOMAIN hist' = 1 .. cur /\ hist' = [v \in 1 .. cur |-> hist'[v]] /\ hist'[cur] = new
          /\ \A v \in 1 .. cur : v # cur => hist'[v] = hist[v]
        BY <1>1, <1>6, <2>1
    <2>3. /\ new.rules = hist[cur].rules /\ new.bundle = hist[cur].bundle
          /\ new.targets = hist[cur].targets /\ new.status = st
        BY <1>1, <2>1 DEF Revision
    <2>4. n \in 0 .. Cardinality(Agent)
      <3>1. PICK U : U = {a \in DOMAIN req[h].applied : req[h].applied[a] >= AckedVersion(h)}
          OBVIOUS
      <3>2. U \subseteq Agent /\ IsFiniteSet(Agent)
          BY <1>2, <3>1, PolicyServerAssumption DEF Inv, Requests, ReqOK
      <3>3. Cardinality(U) \in Nat
          BY <3>2, FS_Subset, FS_CardinalityType
      <3>4. hist[cur].targets \in 0 .. Cardinality(Agent)
          BY <1>1 DEF Revision
      <3>5. n = IF Cardinality(U) > hist[cur].targets THEN hist[cur].targets ELSE Cardinality(U)
          BY <1>3, <3>1 DEF Acked
      <3> QED  BY <3>3, <3>4, <3>5, Bounds
    <2>5. st \in {"local_applied", "queued", "rollback_queued", "applied"}
        BY <1>1, <1>3 DEF StatusFor, Revision
    <2>6. new \in Revision
        BY <1>1, <2>1, <2>4, <2>5 DEF Revision
    <2>7. Sound(cur, new)
      <3>1. Sound(cur, hist[cur])
          BY <1>1
      <3>2. st = "applied" => Cardinality(DeployedAs(cur, hist[cur].rules)) >= hist[cur].targets
          BY <1>2, <1>3, <1>6, CountedAreDeployed
      <3> QED  BY <2>3, <3>1, <3>2 DEF Sound
    <2>8. \A v \in 1 .. cur : hist'[v].rules = hist[v].rules
        BY <2>2, <2>3
    <2>9. Later
        BY <1>1, <1>2, <2>8 DEF Later
    <2>10. PICK s : s = [fleet |-> fleet, rules |-> rules, hist |-> hist', cur |-> cur, next |-> next]
        OBVIOUS
    <2>11. Consistent(s)
      <3>1. s.hist \in [1 .. s.cur -> Revision]
          BY <1>1, <2>2, <2>6, <2>10
      <3>2. \A v \in 1 .. s.cur : s.hist[v].rules = hist[v].rules /\ Sound(v, s.hist[v])
          BY <1>1, <2>2, <2>7, <2>8, <2>10
      <3> QED  BY <1>1, <2>10, <3>1, <3>2 DEF Consistent
    <2>12. Consistent(s)' /\ s = InMemory'
        BY <1>2, <2>9, <2>10, <2>11, ConsistentStays DEF InMemory
    <2>13. Consistent(InMemory)'
        BY <2>12
    <2>15. PICK r : Enters(h, r) /\ r = [pc |-> "saveFleet", done |-> 0, answer |-> {req[h].agent}]
        BY DEF Refresh
    <2>16. req[h].agent \in Agent
        BY <1>2 DEF Inv, Requests, ReqOK
    <2>17. ReqOK(r) /\ r.pc \notin {"commit", "write", "data", "rename"}
        BY <1>1, <2>15, <2>16 DEF ReqOK, Saving
    <2>14. Files'
        BY <1>2, <2>9, <2>15, <2>17, FilesStay
    <2>18. ReqOK(r)'
        BY <2>9, <2>17, ReqStays
    <2>19. Requests' /\ Committing' = Committing \ {h}
        BY <2>9, <2>15, <2>17, <2>18, RequestsStay DEF Inv
    <2>20. calls' \in {calls, calls + 1} /\ calls' <= MaxCalls
        BY <1>1, <1>2
    <2>21. Numbering'
        BY <1>1, <1>2, <2>19, <2>20, NumberingStays DEF Inv
    <2>22. Enforcement'
      <3>1. ASSUME NEW a \in Agent, NEW e \in enforced[a], e[1] \notin lost
            PROVE  e[1] <= cur /\ e[2] = hist'[e[1]].rules
        <4>1. e[1] <= cur /\ e[2] = hist[e[1]].rules /\ e[1] \in 1 .. MaxVersion
            BY <3>1 DEF Inv, Enforcement
        <4>2. e[1] \in 1 .. cur
            BY <1>1, <4>1
        <4> QED  BY <2>8, <4>1, <4>2
      <3> QED  BY <1>2, <3>1 DEF Inv, Enforcement, Had
    <2>23. Kept'
        BY <1>1, <1>2, <2>2, <2>8 DEF Inv, Kept
    <2> QED  BY <2>13, <2>14, <2>19, <2>21, <2>22, <2>23 DEF Inv
  <1> QED  BY <1>4, <1>5, <1>6

\* A step of the file system moves requests on and leaves the state in memory.
LEMMA DiskStep ==
    ASSUME Inv, UNCHANGED <<fleet, policyVars, calls, returned, enforced, lost, agent>>,
           NEW h, Committing' = Committing \ {h}, Requests', Files'
    PROVE  Inv'
  <1>1. Later /\ cur \in Nat
      BY Unmoved DEF policyVars
  <1>2. calls' \in {calls, calls + 1} /\ calls' <= MaxCalls
      BY Memory
  <1>3. Numbering'
      BY <1>1, <1>2, NumberingStays DEF Inv, policyVars
  <1>4. Consistent(InMemory)'
      BY <1>1, ConsistentStays DEF Inv, InMemory, policyVars
  <1>5. Enforcement' /\ Kept'
      BY DEF Inv, Enforcement, Kept, Had, policyVars
  <1> QED  BY <1>3, <1>4, <1>5 DEF Inv

\* The record of a save that has opened the file, field by field.
LEMMA DataFields ==
    ASSUME NEW r, NEW d, NEW n, NEW s, NEW f, NEW o, NEW l,
           r = [pc |-> "data", done |-> d, answer |-> n, state |-> s, file |-> f, older |-> o, alone |-> l]
    PROVE  /\ r.pc = "data" /\ r.done = d /\ r.answer = n /\ r.state = s /\ r.file = f /\ r.older = o
           /\ r.alone = l /\ DataRecord(r)
  BY DEF DataRecord

LEMMA RenameFields ==
    ASSUME NEW r, NEW d, NEW n, NEW o, NEW l,
           r = [pc |-> "rename", done |-> d, answer |-> n, older |-> o, alone |-> l]
    PROVE  /\ r.pc = "rename" /\ r.done = d /\ r.answer = n /\ r.older = o /\ r.alone = l /\ RenameRecord(r)
  BY DEF RenameRecord

LEMMA AloneExcept ==
    ASSUME NEW r, NEW m
    PROVE  /\ DataRecord(r) => [r EXCEPT !.alone = m] =
                [pc |-> "data", done |-> r.done, answer |-> r.answer, state |-> r.state, file |-> r.file,
                 older |-> r.older, alone |-> m]
           /\ RenameRecord(r) => [r EXCEPT !.alone = m] =
                [pc |-> "rename", done |-> r.done, answer |-> r.answer, older |-> r.older, alone |-> m]
  BY DEF DataRecord, RenameRecord

\* A save stops being alone, and nothing else of it changes.
LEMMA NotAlone ==
    ASSUME NEW r, ReqOK(r), r.pc \in {"data", "rename"}, NEW s, s = [r EXCEPT !.alone = FALSE]
    PROVE  /\ s.pc = r.pc /\ s.done = r.done /\ (Sure(s) => Sure(r)) /\ ~Single(s) /\ ReqOK(s)
           /\ r.pc = "data" => s.state = r.state /\ s.file = r.file
  <1>1. CASE r.pc = "data"
    <2>1. DataRecord(r)
        BY <1>1 DEF ReqOK
    <2>2. s = [pc |-> "data", done |-> r.done, answer |-> r.answer, state |-> r.state, file |-> r.file,
               older |-> r.older, alone |-> FALSE]
        BY <2>1, AloneExcept, Zenon
    <2>3. /\ s.pc = "data" /\ s.done = r.done /\ s.answer = r.answer /\ s.state = r.state /\ s.file = r.file
          /\ s.older = r.older /\ s.alone = FALSE /\ DataRecord(s)
        BY <2>2, DataFields, Zenon
    <2>4. (Sure(s) => Sure(r)) /\ ~Single(s)
        BY <1>1, <2>3, Zenon DEF Sure, Single
    <2>5. ReqOK(s)
        BY <1>1, <2>3 DEF ReqOK, Saving
    <2> QED  BY <1>1, <2>3, <2>4, <2>5
  <1>2. CASE r.pc = "rename"
    <2>1. RenameRecord(r)
        BY <1>2 DEF ReqOK
    <2>2. s = [pc |-> "rename", done |-> r.done, answer |-> r.answer, older |-> r.older, alone |-> FALSE]
        BY <2>1, AloneExcept, Zenon
    <2>3. /\ s.pc = "rename" /\ s.done = r.done /\ s.answer = r.answer
          /\ s.older = r.older /\ s.alone = FALSE /\ RenameRecord(s)
        BY <2>2, RenameFields, Zenon
    <2>4. (Sure(s) => Sure(r)) /\ ~Single(s)
        BY <1>2, <2>3, Zenon DEF Sure, Single
    <2>5. ReqOK(s)
        BY <1>2, <2>3 DEF ReqOK, Saving
    <2> QED  BY <1>2, <2>3, <2>4, <2>5
  <1> QED  BY <1>1, <1>2

\* The file that a save has opened goes elsewhere, and nothing else changes.
LEMMA Elsewhere ==
    ASSUME NEW r, ReqOK(r), r.pc = "data", NEW f \in {"tmp", "db", "gone"}, NEW s, s = [r EXCEPT !.file = f]
    PROVE  /\ s.pc = "data" /\ s.done = r.done /\ s.state = r.state /\ s.file = f
           /\ (Sure(s) => Sure(r)) /\ (Single(s) => Single(r)) /\ ReqOK(s)
  <1>1. DataRecord(r)
      BY DEF ReqOK
  <1>2. s = [pc |-> "data", done |-> r.done, answer |-> r.answer, state |-> r.state, file |-> f,
             older |-> r.older, alone |-> r.alone]
      BY <1>1 DEF DataRecord
  <1>3. /\ s.pc = "data" /\ s.done = r.done /\ s.answer = r.answer /\ s.state = r.state /\ s.file = f
        /\ s.older = r.older /\ s.alone = r.alone /\ DataRecord(s)
      BY <1>2, DataFields, Zenon
  <1>4. (Sure(s) => Sure(r)) /\ (Single(s) => Single(r))
      BY <1>3, Zenon DEF Sure, Single
  <1>5. ReqOK(s)
      BY <1>3 DEF ReqOK, Saving
  <1> QED  BY <1>3, <1>4, <1>5

\* The temporary file is opened and truncated.
LEMMA WriteOpenStep ==
    ASSUME Inv, NEW h \in Handler, WriteOpen(h), UNCHANGED <<enforced, lost, agent>>
    PROVE  Inv'
  <1>1. /\ UNCHANGED <<fleet, policyVars, calls, returned, db, mixed>> /\ req[h].pc = "write"
        /\ tmp' = Empty /\ req' = Opened(h, "tmp")
      BY DEF WriteOpen
  <1>2. Later
      BY <1>1, Unmoved DEF policyVars
  <1>3. \A r : ReqOK(r) => ReqOK(r)'
      BY <1>2, ReqStays
  <1>4. /\ ReqOK(req[h]) /\ Saving(req[h]) /\ Consistent(req[h].state) /\ req[h].done <= req[h].state.cur
        /\ \A g \in Handler : ReqOK(req[g])
      BY <1>1 DEF Inv, Requests, ReqOK
  <1> DEFINE o == OlderWaits(h, req[h].done)
             l == Open = {}
  <1>5. /\ req'[h] = [pc |-> "data", done |-> req[h].done, answer |-> req[h].answer, state |-> req[h].state,
                      file |-> "tmp", older |-> o, alone |-> l]
        /\ DOMAIN req' = Handler
        /\ \A g \in Handler : g # h /\ g \in Open => req'[g] = [req[g] EXCEPT !.alone = FALSE]
        /\ \A g \in Handler : g # h /\ g \notin Open => req'[g] = req[g]
      BY <1>1, Zenon DEF Opened
  <1>6. /\ req'[h].pc = "data" /\ req'[h].done = req[h].done /\ req'[h].answer = req[h].answer
        /\ req'[h].state = req[h].state /\ req'[h].file = "tmp"
        /\ req'[h].older = o /\ req'[h].alone = l /\ DataRecord(req'[h])
    <2> HIDE DEF o, l
    <2>1. ASSUME NEW x, NEW y,
                 req'[h] = [pc |-> "data", done |-> req[h].done, answer |-> req[h].answer, state |-> req[h].state,
                            file |-> "tmp", older |-> x, alone |-> y]
          PROVE  /\ req'[h].pc = "data" /\ req'[h].done = req[h].done /\ req'[h].answer = req[h].answer
                 /\ req'[h].state = req[h].state /\ req'[h].file = "tmp"
                 /\ req'[h].older = x /\ req'[h].alone = y /\ DataRecord(req'[h])
        BY <2>1, DataFields
    <2> QED  BY <1>5, <2>1, Zenon
  <1>7. (Sure(req'[h]) => ~o) /\ (Single(req'[h]) => l)
      BY <1>6, Zenon DEF Sure, Single
  <1> HIDE DEF o, l
  <1>8. ReqOK(req'[h])
      BY <1>4, <1>6 DEF ReqOK, Saving
  <1>9. ASSUME NEW g \in Handler, g # h
        PROVE  /\ req'[g].pc = req[g].pc /\ ReqOK(req'[g]) /\ ~Single(req'[g])
               /\ Sure(req'[g]) => Sure(req[g]) /\ req'[g].done = req[g].done
               /\ req[g].pc \in {"write", "data"} => req'[g].state = req[g].state
               /\ req[g].pc = "data" => req'[g].file = req[g].file
    <2>1. CASE g \in Open
      <3>1. req[g].pc \in {"data", "rename"} /\ req'[g] = [req[g] EXCEPT !.alone = FALSE]
          BY <1>5, <1>9, <2>1 DEF Open
      <3> QED  BY <1>4, <3>1, NotAlone
    <2>2. CASE g \notin Open
      <3>1. req[g].pc \notin {"data", "rename"} /\ req'[g] = req[g]
          BY <1>5, <1>9, <2>2 DEF Open
      <3> QED  BY <1>4, <3>1 DEF Single
    <2> QED  BY <2>1, <2>2
  <1>10. Requests'
    <2>1. ASSUME NEW g \in Handler PROVE ReqOK(req[g])'
      <3>1. ReqOK(req'[g])
          BY <1>8, <1>9
      <3> QED  BY <1>3, <3>1
    <2> QED  BY <1>5, <2>1 DEF Requests
  <1>11. Committing' = Committing \ {h}
      BY <1>1, <1>6, <1>9 DEF Committing
  <1>12. Open' = Open \cup {h}
      BY <1>6, <1>9 DEF Open
  <1>13. DbOK' /\ TmpOK'
      BY <1>1, <1>2, ConsistentStays DEF Inv, Files, DbOK, TmpOK, Empty
  <1>14. Ready'
    <2> SUFFICES ASSUME NEW g \in Handler, Sure(req'[g]), NEW k \in Handler, req'[k].pc \in {"write", "data"}
                 PROVE  req'[g].done <= req'[k].state.cur
        BY <1>1, Zenon DEF Ready, Empty
    <2>1. CASE k = h
      <3>1. CASE g = h
          BY <1>4, <1>6, <2>1, <3>1
      <3>2. CASE g # h
        <4>1. Sure(req[g]) /\ req'[g].done = req[g].done
            BY <1>9, <3>2
        <4>2. req[g].done <= req[h].state.cur
            BY <1>1, <4>1 DEF Inv, Files, Ready
        <4> QED  BY <1>6, <2>1, <4>1, <4>2
      <3> QED  BY <3>1, <3>2
    <2>2. CASE k # h
      <3>1. req[k].pc \in {"write", "data"} /\ req'[k].state = req[k].state
          BY <1>9, <2>2
      <3>2. CASE g = h
        <4>1. ~OlderWaits(h, req[h].done)
            BY <1>7, <3>2 DEF o
        <4>2. req[h].done \in DOMAIN req[k].state.hist
            BY <2>2, <3>1, <4>1 DEF OlderWaits
        <4>3. Consistent(req[k].state)
            BY <3>1 DEF Inv, Requests, ReqOK
        <4>4. req[h].done \in 1 .. req[k].state.cur /\ req[k].state.cur \in 1 .. MaxVersion
            BY <4>2, <4>3 DEF Consistent
        <4>5. req[h].done <= req[k].state.cur
            BY <4>4, Bounds
        <4> QED  BY <1>6, <3>1, <3>2, <4>5
      <3>3. CASE g # h
        <4>1. Sure(req[g]) /\ req'[g].done = req[g].done
            BY <1>9, <3>3
        <4> QED  BY <3>1, <4>1 DEF Inv, Files, Ready
      <3> QED  BY <3>2, <3>3
    <2> QED  BY <2>1, <2>2
  <1>15. Undisturbed'
    <2> SUFFICES ASSUME NEW g \in Handler, Single(req'[g])
                 PROVE  /\ Open' = {g} /\ req'[g].pc = "data" /\ req'[g].file = "tmp" /\ tmp'.kind = "empty"
      <3>1. "data" # "rename"
          OBVIOUS
      <3> QED  BY <3>1, Zenon DEF Undisturbed
    <2>1. g = h
        BY <1>9
    <2>2. Open = {}
        BY <1>7, <2>1 DEF l
    <2> QED  BY <1>1, <1>6, <1>12, <2>1, <2>2 DEF Empty
  <1>16. Behind'
    <2> SUFFICES ASSUME NEW g \in Handler, req'[g].pc = "data", req'[g].file = "db" PROVE mixed
        BY <1>1, Zenon DEF Behind
    <2>1. g # h
        BY <1>6
    <2>2. req[g].pc = "data" /\ req[g].file = "db"
        BY <1>9, <2>1
    <2> QED  BY <2>2 DEF Inv, Files, Behind
  <1>17. StateFileIsWhole'
      BY <1>1 DEF Inv, Files, StateFileIsWhole
  <1>18. Files'
      BY <1>13, <1>14, <1>15, <1>16, <1>17 DEF Files
  <1> QED  BY <1>1, <1>10, <1>11, <1>18, DiskStep

\* A snapshot is written to whatever the opened file is by now, and the save
\* goes on to rename, or ends.
LEMMA WritesStep ==
    ASSUME Inv, NEW h \in Handler, NEW outcomes, Writes(h, outcomes),
           \A c \in outcomes : c = Whole(req[h].state) \/ c = Torn \/ c = Target(h),
           NEW r, Enters(h, r), ReqOK(r), r.pc \notin {"commit", "write", "data"},
           r.pc = "rename" => r.done = req[h].done,
           Sure(r) => Sure(req[h]),
           Single(r) => /\ Single(req[h]) /\ r.pc = "rename"
                        /\ Target(h).kind = "empty" => outcomes = {Whole(req[h].state)},
           UNCHANGED <<fleet, policyVars, calls, mixed, returned, enforced, lost, agent>>
    PROVE  Inv'
  <1>1. /\ req[h].pc = "data"
        /\ IF req[h].file = "tmp" THEN tmp' \in outcomes ELSE tmp' = tmp
        /\ IF req[h].file = "db" THEN db' \in outcomes ELSE db' = db
      BY DEF Writes
  <1>2. Later
      BY Unmoved DEF policyVars
  <1>3. req'[h] = r /\ DOMAIN req' = Handler /\ \A g \in Handler : g # h => req'[g] = req[g]
      BY DEF Enters, Inv, Requests
  <1>4. ReqOK(r)'
      BY <1>2, ReqStays
  <1>5. Requests' /\ Committing' = Committing \ {h}
      BY <1>2, <1>4, RequestsStay DEF Inv
  <1>6. h \in Open /\ Open' \subseteq Open /\ (r.pc = "rename" => Open' = Open)
      BY <1>1, <1>3 DEF Open
  <1>7. Consistent(req[h].state) /\ Whole(req[h].state).kind = "whole" /\ Whole(req[h].state).state = req[h].state
        /\ Torn.kind = "torn"
      BY <1>1 DEF Inv, Requests, ReqOK, Whole, Torn
  <1>8. /\ tmp' = tmp \/ tmp' = Torn \/ tmp' = Whole(req[h].state)
        /\ db' = db \/ db' = Torn \/ db' = Whole(req[h].state)
      BY <1>1 DEF Target
  <1>9. DbOK' /\ TmpOK'
    <2>1. db'.kind = "whole" => Consistent(db'.state)
        BY <1>7, <1>8 DEF Inv, Files, DbOK
    <2>2. tmp'.kind = "whole" => Consistent(tmp'.state)
        BY <1>6, <1>7, <1>8 DEF Inv, Files, TmpOK
    <2>3. \A s : Consistent(s) => Consistent(s)'
        BY <1>2, ConsistentStays
    <2> QED  BY <2>1, <2>2, <2>3 DEF DbOK, TmpOK
  <1>10. Ready'
    <2> SUFFICES ASSUME NEW g \in Handler, Sure(req'[g])
                 PROVE  /\ \A k \in Handler : req'[k].pc \in {"write", "data"} => req'[g].done <= req'[k].state.cur
                        /\ tmp'.kind = "whole" => req'[g].done <= tmp'.state.cur
        BY Zenon DEF Ready
    <2>1. Sure(req[g]) /\ req'[g].done = req[g].done
      <3>1. CASE g = h
          BY <1>3, <3>1 DEF Sure
      <3>2. CASE g # h
          BY <1>3, <3>2
      <3> QED  BY <3>1, <3>2
    <2>2. /\ \A k \in Handler : req[k].pc \in {"write", "data"} => req[g].done <= req[k].state.cur
          /\ tmp.kind = "whole" => req[g].done <= tmp.state.cur
        BY <2>1 DEF Inv, Files, Ready
    <2>3. \A k \in Handler : req'[k].pc \in {"write", "data"} => req'[g].done <= req'[k].state.cur
        BY <1>3, <2>1, <2>2
    <2>4. tmp'.kind = "whole" => req'[g].done <= tmp'.state.cur
        BY <1>1, <1>7, <1>8, <2>1, <2>2
    <2> QED  BY <2>3, <2>4
  <1>11. Undisturbed'
    <2> SUFFICES ASSUME NEW g \in Handler, Single(req'[g])
                 PROVE  Open' = {g} /\ req'[g].pc = "rename" /\ tmp'.kind \in {"whole", "absent"}
      <3>1. "data" # "rename"
          OBVIOUS
      <3> QED  BY <3>1, Zenon DEF Undisturbed
    <2>1. Single(req[g])
        BY <1>3
    <2>2. Open = {g}
        BY <2>1 DEF Inv, Files, Undisturbed
    <2>3. g = h
        BY <1>6, <2>2
    <2>4. \/ req[h].file = "tmp" /\ tmp.kind = "empty"
          \/ req[h].file = "gone" /\ tmp.kind = "absent"
        BY <1>1, <2>1, <2>3 DEF Inv, Files, Undisturbed
    <2>5. r.pc = "rename" /\ (Target(h).kind = "empty" => outcomes = {Whole(req[h].state)})
        BY <1>3, <2>3
    <2>6. CASE req[h].file = "tmp" /\ tmp.kind = "empty"
      <3>1. tmp' = Whole(req[h].state)
          BY <1>1, <2>5, <2>6 DEF Target
      <3> QED  BY <1>3, <1>6, <1>7, <2>2, <2>3, <2>5, <3>1
    <2>7. CASE req[h].file = "gone" /\ tmp.kind = "absent"
      <3>1. tmp' = tmp
          BY <1>1, <2>7
      <3> QED  BY <1>3, <1>6, <2>2, <2>3, <2>5, <2>7, <3>1
    <2> QED  BY <2>4, <2>6, <2>7
  <1>12. Behind'
    <2> SUFFICES ASSUME NEW g \in Handler, req'[g].pc = "data", req'[g].file = "db" PROVE mixed
        BY Zenon DEF Behind
    <2>1. g # h /\ req'[g] = req[g]
        BY <1>3
    <2> QED  BY <2>1 DEF Inv, Files, Behind
  <1>13. StateFileIsWhole'
    <2>1. CASE req[h].file = "db"
      <3>1. mixed
          BY <1>1, <2>1 DEF Inv, Files, Behind
      <3> QED  BY <3>1 DEF StateFileIsWhole
    <2>2. CASE req[h].file # "db"
      <3>1. db' = db
          BY <1>1, <2>2
      <3> QED  BY <3>1 DEF Inv, Files, StateFileIsWhole
    <2> QED  BY <2>1, <2>2
  <1>14. Files'
      BY <1>9, <1>10, <1>11, <1>12, <1>13 DEF Files
  <1> QED  BY <1>5, <1>14, DiskStep

LEMMA WriteStep ==
    ASSUME Inv, NEW h \in Handler, WriteData(h) \/ WriteFails(h), UNCHANGED <<enforced, lost, agent>>
    PROVE  Inv'
  <1>1. \A c \in Overwritten(Target(h), req[h].state) : c = Whole(req[h].state) \/ c = Torn
      BY DEF Overwritten
  <1>2. UNCHANGED <<fleet, policyVars, calls, mixed, returned>> /\ req[h].pc = "data"
      BY DEF WriteData, WriteFails, Writes
  <1>3. ReqOK(req[h]) /\ Saving(req[h])
      BY <1>2 DEF Inv, Requests, ReqOK
  <1>4. CASE WriteData(h)
    <2>1. PICK r : /\ r = [pc |-> "rename", done |-> req[h].done, answer |-> req[h].answer,
                            older |-> req[h].older, alone |-> req[h].alone]
                   /\ Writes(h, Overwritten(Target(h), req[h].state)) /\ Enters(h, r)
        BY <1>4 DEF WriteData
    <2>2. /\ r.pc = "rename" /\ r.done = req[h].done /\ r.answer = req[h].answer /\ r.older = req[h].older
          /\ r.alone = req[h].alone /\ RenameRecord(r)
        BY <2>1, RenameFields
    <2>3. ReqOK(r)
        BY <1>3, <2>2 DEF ReqOK, Saving
    <2>4. (Sure(r) => Sure(req[h])) /\ (Single(r) => Single(req[h]))
        BY <1>2, <2>2, Zenon DEF Sure, Single
    <2>5. Target(h).kind = "empty" => Overwritten(Target(h), req[h].state) = {Whole(req[h].state)}
        BY DEF Overwritten
    <2>6. r.pc \notin {"commit", "write", "data"}
        BY <2>2
    <2>7. PICK outcomes : outcomes = Overwritten(Target(h), req[h].state)
        OBVIOUS
    <2>8. Single(r) => /\ Single(req[h]) /\ r.pc = "rename"
                       /\ Target(h).kind = "empty" => outcomes = {Whole(req[h].state)}
        BY <2>2, <2>4, <2>5, <2>7
    <2> QED  BY <1>1, <1>2, <2>1, <2>2, <2>3, <2>4, <2>6, <2>7, <2>8, WritesStep
  <1>5. CASE WriteFails(h)
    <2>1. PICK r : r = Saved(h) /\ Enters(h, r)
        BY <1>5 DEF WriteFails
    <2>2. r.pc \in {"idle", "ack"} /\ ReqOK(r)
        BY <1>3, <2>1 DEF Saved, Idle, ReqOK, Saving
    <2>3. PICK outcomes : outcomes = Remains(h)
        OBVIOUS
    <2>4. Writes(h, outcomes)
        BY <1>5, <2>3 DEF WriteFails
    <2>5. \A c \in outcomes : c = Whole(req[h].state) \/ c = Torn \/ c = Target(h)
        BY <1>1, <2>3 DEF Remains
    <2>6. r.pc \notin {"commit", "write", "data", "rename"} /\ ~Sure(r) /\ ~Single(r)
        BY <2>2 DEF Sure, Single
    <2> QED  BY <1>2, <2>1, <2>2, <2>4, <2>5, <2>6, WritesStep
  <1> QED  BY <1>4, <1>5

\* A save ends, and the files that others have opened go elsewhere.
LEMMA MovedRequests ==
    ASSUME Inv, NEW h \in Handler, req[h].pc \in {"rename", "remove"},
           NEW to \in [{"tmp", "db", "gone"} -> {"tmp", "db", "gone"}], req' = Moved(h, to)
    PROVE  /\ DOMAIN req' = Handler /\ ReqOK(req'[h]) /\ req'[h].pc \in {"idle", "ack"}
           /\ \A g \in Handler : g # h =>
                /\ req'[g].pc = req[g].pc /\ ReqOK(req'[g])
                /\ Sure(req'[g]) => Sure(req[g]) /\ req'[g].done = req[g].done
                /\ Single(req'[g]) => Single(req[g])
                /\ req[g].pc \in {"write", "data"} => req'[g].state = req[g].state
                /\ req[g].pc = "data" => req'[g].file = to[req[g].file] /\ req[g].file \in {"tmp", "db", "gone"}
           /\ Committing' = Committing \ {h} /\ Open' = Open \ {h}
  <1>1. /\ DOMAIN req' = Handler /\ req'[h] = Saved(h)
        /\ \A g \in Handler : g # h /\ req[g].pc = "data" => req'[g] = [req[g] EXCEPT !.file = to[req[g].file]]
        /\ \A g \in Handler : g # h /\ req[g].pc # "data" => req'[g] = req[g]
      BY DEF Moved
  <1>2. \A g \in Handler : ReqOK(req[g])
      BY DEF Inv, Requests
  <1>3. req[h].answer \subseteq Agent
      BY <1>2 DEF ReqOK, Saving
  <1>4. ReqOK(req'[h]) /\ req'[h].pc \in {"idle", "ack"}
      BY <1>1, <1>3 DEF Saved, Idle, ReqOK
  <1>5. ASSUME NEW g \in Handler, g # h
        PROVE  /\ req'[g].pc = req[g].pc /\ ReqOK(req'[g])
               /\ Sure(req'[g]) => Sure(req[g]) /\ req'[g].done = req[g].done
               /\ Single(req'[g]) => Single(req[g])
               /\ req[g].pc \in {"write", "data"} => req'[g].state = req[g].state
               /\ req[g].pc = "data" => req'[g].file = to[req[g].file] /\ req[g].file \in {"tmp", "db", "gone"}
    <2>1. CASE req[g].pc = "data"
      <3>1. req[g].file \in {"tmp", "db", "gone"}
          BY <1>2, <2>1 DEF ReqOK
      <3>2. PICK f \in {"tmp", "db", "gone"} : f = to[req[g].file]
          BY <3>1
      <3>3. req'[g] = [req[g] EXCEPT !.file = f]
          BY <1>1, <1>5, <2>1, <3>2
      <3> QED  BY <1>2, <2>1, <3>1, <3>2, <3>3, Elsewhere
    <2>2. CASE req[g].pc # "data"
        BY <1>1, <1>2, <1>5, <2>2
    <2> QED  BY <2>1, <2>2
  <1>6. Committing' = Committing \ {h} /\ Open' = Open \ {h}
    <2>1. h \notin Committing /\ h \notin Committing' /\ h \notin Open'
        BY <1>4 DEF Committing, Open
    <2>2. \A g \in Handler : g # h => (g \in Committing' <=> g \in Committing) /\ (g \in Open' <=> g \in Open)
        BY <1>5 DEF Committing, Open
    <2>3. Committing \subseteq Handler /\ Committing' \subseteq Handler /\ Open \subseteq Handler /\ Open' \subseteq Handler
        BY DEF Committing, Open
    <2> QED  BY <2>1, <2>2, <2>3
  <1> QED  BY <1>1, <1>4, <1>5, <1>6

\* A save whose renaming failed removes the temporary file.
LEMMA RemoveStep ==
    ASSUME Inv, NEW h \in Handler, Remove(h), UNCHANGED <<enforced, lost, agent>>
    PROVE  Inv'
  <1> DEFINE to == [tmp |-> "gone", db |-> "db", gone |-> "gone"]
  <1>1. /\ UNCHANGED <<fleet, policyVars, calls, returned, db, mixed>> /\ req[h].pc = "remove"
        /\ tmp' = Absent /\ req' = Moved(h, to)
      BY DEF Remove
  <1>2. to \in [{"tmp", "db", "gone"} -> {"tmp", "db", "gone"}]
        /\ to["tmp"] = "gone" /\ to["db"] = "db" /\ to["gone"] = "gone"
      OBVIOUS
  <1> HIDE DEF to
  <1>3. /\ DOMAIN req' = Handler /\ ReqOK(req'[h]) /\ req'[h].pc \in {"idle", "ack"}
        /\ \A g \in Handler : g # h =>
             /\ req'[g].pc = req[g].pc /\ ReqOK(req'[g])
             /\ Sure(req'[g]) => Sure(req[g]) /\ req'[g].done = req[g].done
             /\ Single(req'[g]) => Single(req[g])
             /\ req[g].pc \in {"write", "data"} => req'[g].state = req[g].state
             /\ req[g].pc = "data" => req'[g].file = to[req[g].file] /\ req[g].file \in {"tmp", "db", "gone"}
        /\ Committing' = Committing \ {h} /\ Open' = Open \ {h}
      BY <1>1, <1>2, MovedRequests
  <1>4. Later
      BY <1>1, Unmoved DEF policyVars
  <1>5. Requests'
      BY <1>3, <1>4, ReqStays DEF Requests
  <1>6. h \notin Open /\ Open' = Open
      BY <1>1, <1>3 DEF Open
  <1>7. DbOK' /\ TmpOK'
      BY <1>1, <1>4, ConsistentStays DEF Inv, Files, DbOK, TmpOK, Absent
  <1>8. Ready'
    <2> SUFFICES ASSUME NEW g \in Handler, Sure(req'[g]), NEW k \in Handler, req'[k].pc \in {"write", "data"}
                 PROVE  req'[g].done <= req'[k].state.cur
        BY <1>1, Zenon DEF Ready, Absent
    <2>1. g # h /\ k # h
        BY <1>3 DEF Sure
    <2> QED  BY <1>3, <2>1 DEF Inv, Files, Ready
  <1>9. Undisturbed'
    <2> SUFFICES ASSUME NEW g \in Handler, Single(req'[g])
                 PROVE  Open' = {g} /\ (req'[g].pc = "data" => req'[g].file = "gone") /\ tmp'.kind = "absent"
        BY DEF Undisturbed
    <2>1. g # h
        BY <1>3 DEF Single
    <2>2. /\ Open = {g}
          /\ req[g].pc = "data" => req[g].file \in {"tmp", "gone"}
        BY <1>3, <2>1 DEF Inv, Files, Undisturbed
    <2> QED  BY <1>1, <1>2, <1>3, <1>6, <2>1, <2>2 DEF Absent
  <1>10. Behind'
    <2> SUFFICES ASSUME NEW g \in Handler, req'[g].pc = "data", req'[g].file = "db" PROVE mixed
        BY <1>1, Zenon DEF Behind
    <2>1. g # h
        BY <1>3
    <2>2. req[g].pc = "data" /\ req[g].file = "db"
        BY <1>2, <1>3, <2>1
    <2> QED  BY <2>2 DEF Inv, Files, Behind
  <1>11. StateFileIsWhole'
      BY <1>1 DEF Inv, Files, StateFileIsWhole
  <1>12. Files'
      BY <1>7, <1>8, <1>9, <1>10, <1>11 DEF Files
  <1> QED  BY <1>1, <1>3, <1>5, <1>12, DiskStep

\* The temporary file replaces the state file, and the call returns.  No other
\* snapshot that waits, nor the file, lacks the version it returns, or it does
\* not count.
LEMMA RenameStep ==
    ASSUME Inv, NEW h \in Handler, Rename(h), UNCHANGED <<enforced, lost, agent>>
    PROVE  Inv'
  <1> DEFINE to == [tmp |-> "db", db |-> "gone", gone |-> "gone"]
  <1>1. /\ UNCHANGED <<fleet, rules, hist, cur, next, calls>> /\ req[h].pc = "rename"
        /\ tmp.kind # "absent" /\ db' = tmp /\ tmp' = Absent /\ req' = Moved(h, to)
      BY DEF Rename, policyVars
  <1>2. to \in [{"tmp", "db", "gone"} -> {"tmp", "db", "gone"}]
      OBVIOUS
  <1> HIDE DEF to
  <1>3. /\ DOMAIN req' = Handler /\ ReqOK(req'[h]) /\ req'[h].pc \in {"idle", "ack"}
        /\ \A g \in Handler : g # h =>
             /\ req'[g].pc = req[g].pc /\ ReqOK(req'[g])
             /\ Sure(req'[g]) => Sure(req[g]) /\ req'[g].done = req[g].done
             /\ Single(req'[g]) => Single(req[g])
             /\ req[g].pc \in {"write", "data"} => req'[g].state = req[g].state
        /\ Committing' = Committing \ {h} /\ Open' = Open \ {h}
      BY <1>1, <1>2, MovedRequests
  <1>4. req[h].done \in 0 .. cur /\ h \in Open
      BY <1>1 DEF Inv, Requests, ReqOK, Saving, Open
  <1>5. cur \in Nat /\ hist \in [1 .. cur -> Revision] /\ calls \in 0 .. MaxCalls /\ MaxCalls \in Nat
      BY Memory
  <1>6. \A s : Consistent(s) => s.cur \in Nat /\ s.cur <= cur
      BY Bounds DEF Consistent
  <1>7. PICK v : v = req[h].done
      OBVIOUS
  <1>8. \/ returned' = returned
        \/ /\ v # 0 /\ Sure(req[h])
           /\ returned' = [y \in DOMAIN returned \cup {v} |-> IF y = v THEN hist[y].rules ELSE returned[y]]
    <2>1. CASE req[h].done = 0 \/ req[h].older
        BY <2>1, Zenon DEF Rename
    <2>2. CASE ~(req[h].done = 0 \/ req[h].older)
      <3>1. returned' = [y \in DOMAIN returned \cup {v} |-> IF y = v THEN hist[y].rules ELSE returned[y]]
          BY <1>7, <2>2, Zenon DEF Rename
      <3>2. req[h].pc \in {"data", "rename"}
          BY <1>1
      <3> QED  BY <1>7, <2>2, <3>1, <3>2, Zenon DEF Sure
    <2> QED  BY <2>1, <2>2
  <1>9. \A x \in DOMAIN returned' : x \in DOMAIN returned \/ (x = v /\ v \in 1 .. cur /\ Sure(req[h]))
    <2>1. v # 0 => v \in 1 .. cur
        BY <1>4, <1>5, <1>7
    <2> QED  BY <1>8, <2>1
  \* whatever has the versions that returned is as consistent as before
  <1>10. ASSUME NEW s, Consistent(s), Sure(req[h]) => v <= s.cur
         PROVE  Consistent(s)'
    <2>1. \A x \in DOMAIN returned' : x \in 1 .. s.cur
        BY <1>5, <1>6, <1>9, <1>10 DEF Consistent
    <2>2. \A x, y : Sound(x, y) => Sound(x, y)'
      <3>1. \A x, R : DeployedAs(x, R)' = DeployedAs(x, R)
          BY DEF DeployedAs
      <3> QED  BY <3>1 DEF Sound
    <2>3. \A a, x : Had(a, x) => Had(a, x)'
        BY DEF Had
    <2> QED  BY <1>1, <1>10, <2>1, <2>2, <2>3 DEF Consistent
  <1>11. PICK m : m = InMemory
      OBVIOUS
  <1>12. Consistent(m) /\ v <= m.cur
      BY <1>4, <1>5, <1>7, <1>11 DEF Inv, InMemory
  <1>13. Consistent(m)' /\ m = InMemory'
      BY <1>1, <1>10, <1>11, <1>12 DEF InMemory
  <1>14. Consistent(InMemory)'
      BY <1>13
  <1>15. ASSUME NEW g \in Handler PROVE ReqOK(req[g])'
    <2>1. PICK r : r = req'[g]
        OBVIOUS
    <2>2. ReqOK(r)
        BY <1>3, <2>1
    <2>3. ASSUME r.pc \in {"write", "data"} PROVE Consistent(r.state)'
      <3>1. g # h /\ req[g].pc \in {"write", "data"} /\ r.state = req[g].state
          BY <1>3, <2>1, <2>3
      <3>2. Sure(req[h]) => v <= r.state.cur
          BY <1>7, <3>1 DEF Inv, Files, Ready
      <3>3. Consistent(r.state)
          BY <2>2, <2>3 DEF ReqOK
      <3> QED  BY <1>10, <3>2, <3>3
    <2>4. \A a, x : Had(a, x) => Had(a, x)'
        BY DEF Had
    <2>5. Saving(r) => Saving(r)'
        BY <1>1 DEF Saving
    <2>6. ReqOK(r)'
        BY <2>2, <2>3, <2>4, <2>5 DEF ReqOK
    <2> QED  BY <2>1, <2>6
  <1>16. Requests'
      BY <1>3, <1>15 DEF Requests
  <1>17. DbOK' /\ TmpOK'
    <2>1. ASSUME tmp.kind = "whole" PROVE Consistent(db.state)'
      <3>1. PICK s : s = tmp.state
          OBVIOUS
      <3>2. Consistent(s) /\ (Sure(req[h]) => v <= s.cur)
          BY <1>4, <1>7, <2>1, <3>1 DEF Inv, Files, TmpOK, Ready
      <3>3. Consistent(s)' /\ s = db'.state
          BY <1>1, <1>10, <3>1, <3>2
      <3> QED  BY <3>3
    <2> QED  BY <1>1, <2>1 DEF DbOK, TmpOK, Absent
  <1>18. Ready'
    <2> SUFFICES ASSUME NEW g \in Handler, Sure(req'[g]), NEW k \in Handler, req'[k].pc \in {"write", "data"}
                 PROVE  req'[g].done <= req'[k].state.cur
        BY <1>1, Zenon DEF Ready, Absent
    <2>1. g # h /\ k # h
        BY <1>3 DEF Sure
    <2> QED  BY <1>3, <2>1 DEF Inv, Files, Ready
  <1>19. Undisturbed'
    <2> SUFFICES ASSUME NEW g \in Handler, Single(req'[g]) PROVE FALSE
        BY DEF Undisturbed
    <2>1. g # h
        BY <1>3 DEF Single
    <2>2. Open = {g}
        BY <1>3, <2>1 DEF Inv, Files, Undisturbed
    <2> QED  BY <1>4, <2>1, <2>2
  <1>20. mixed' = ~req[h].alone /\ (~mixed' => Single(req[h]))
    <2>1. mixed' = ~req[h].alone
        BY DEF Rename
    <2>2. req[h].pc \in {"data", "rename"}
        BY <1>1
    <2> QED  BY <2>1, <2>2, Zenon DEF Single
  <1>21. Behind'
    <2> SUFFICES ASSUME NEW g \in Handler, req'[g].pc = "data", ~mixed' PROVE FALSE
        BY Zenon DEF Behind
    <2>1. Open = {h}
        BY <1>20 DEF Inv, Files, Undisturbed
    <2>2. g # h /\ g \in Open
        BY <1>3 DEF Open
    <2> QED  BY <2>1, <2>2
  <1>22. StateFileIsWhole'
    <2> SUFFICES ASSUME ~mixed' PROVE db'.kind = "whole"
        BY Zenon DEF StateFileIsWhole
    <2>1. tmp.kind \in {"whole", "absent"}
        BY <1>1, <1>20 DEF Inv, Files, Undisturbed
    <2> QED  BY <1>1, <2>1
  <1>23. Files'
      BY <1>17, <1>18, <1>19, <1>21, <1>22 DEF Files
  <1>24. calls' \in {calls, calls + 1} /\ calls' <= MaxCalls
      BY <1>1, <1>5
  <1>25. Numbering'
      BY <1>1, <1>3, <1>5, <1>24, NumberingStays DEF Inv
  <1>26. Enforcement'
      BY <1>1 DEF Inv, Enforcement, Had
  <1>27. Kept'
    <2>1. ASSUME NEW x \in DOMAIN returned'
          PROVE  x \in DOMAIN hist /\ hist[x].rules = returned'[x]
      <3>1. CASE returned' = returned
          BY <3>1, <2>1 DEF Inv, Kept
      <3>2. CASE returned' # returned
        <4>1. /\ v # 0
              /\ returned' = [y \in DOMAIN returned \cup {v} |-> IF y = v THEN hist[y].rules ELSE returned[y]]
            BY <1>8, <3>2
        <4>2. CASE x = v
          <5>1. x \in 1 .. cur
              BY <1>4, <1>5, <1>7, <4>1, <4>2
          <5> QED  BY <1>5, <2>1, <4>1, <4>2, <5>1
        <4>3. CASE x # v
            BY <2>1, <4>1, <4>3 DEF Inv, Kept
        <4> QED  BY <4>2, <4>3
      <3> QED  BY <3>1, <3>2
    <2> QED  BY <1>1, <2>1 DEF Kept
  <1> QED  BY <1>14, <1>16, <1>23, <1>25, <1>26, <1>27 DEF Inv

\* An agent downloads a bundle and applies it, or fails to.
LEMMA AdoptStep ==
    ASSUME Inv, NEW a \in Agent, NEW v \in 1 .. MaxVersion, Adopt(a, v)
    PROVE  Inv'
  <1>1. UNCHANGED <<fleet, rules, hist, cur, next, db, tmp, mixed, req, calls, returned, lost>>
      BY DEF Adopt, serverVars, policyVars
  <1>2. /\ cur \in Nat /\ hist \in [1 .. cur -> Revision] /\ \A x \in 1 .. cur : Sound(x, hist[x])
      BY Memory
  <1>3. v \in 1 .. cur /\ hist[v].bundle.of = v
      BY <1>2 DEF Adopt, Genuine
  <1>4. hist[v].bundle.rules = hist[v].rules /\ hist[v].rules \in Rules
      BY <1>2, <1>3 DEF Sound, Revision
  <1>5. /\ agent \in [Agent -> 0 .. MaxVersion] /\ enforced \in [Agent -> SUBSET ((1 .. MaxVersion) \X Rules)]
        /\ agent' = [agent EXCEPT ![a] = v]
        /\ enforced' = [enforced EXCEPT ![a] = enforced[a] \cup {<<v, hist[v].rules>>}]
      BY <1>4 DEF Adopt, Inv, Enforcement
  <1>6. /\ enforced'[a] = enforced[a] \cup {<<v, hist[v].rules>>} /\ agent'[a] = v
        /\ \A b \in Agent : b # a => enforced'[b] = enforced[b] /\ agent'[b] = agent[b]
      BY <1>5
  <1>7. \A b \in Agent : enforced[b] \subseteq enforced'[b]
      BY <1>6
  <1>8. Later
      BY <1>1, <1>7, Unmoved
  <1>9. Consistent(InMemory)' /\ Files'
      BY <1>1, <1>8, ConsistentStays, FilesRest DEF Inv, InMemory
  <1>10. Requests'
      BY <1>1, <1>8, ReqStays DEF Inv, Requests
  <1>11. Numbering'
      BY <1>1 DEF Inv, Numbering, Committing
  <1>12. Enforcement'
    <2>1. agent' \in [Agent -> 0 .. MaxVersion]
      <3>1. v \in 0 .. MaxVersion
          BY Bounds
      <3> QED  BY <1>5, <3>1
    <2>2. enforced' \in [Agent -> SUBSET ((1 .. MaxVersion) \X Rules)]
        BY <1>4, <1>5
    <2>3. ASSUME NEW b \in Agent, NEW x, x = agent'[b] PROVE Had(b, x)'
      <3>1. CASE b = a
        <4>1. <<v, hist[v].rules>> \in enforced'[b] /\ <<v, hist[v].rules>>[1] = x
            BY <1>6, <2>3, <3>1
        <4> QED  BY <4>1 DEF Had
      <3>2. CASE b # a
        <4>1. Had(b, x)
            BY <1>6, <2>3, <3>2 DEF Inv, Enforcement
        <4> QED  BY <1>8, <4>1, HadStays
      <3> QED  BY <3>1, <3>2
    <2>4. ASSUME NEW b \in Agent, NEW e \in enforced'[b]
          PROVE  e[1] \in lost \/ (e[1] <= cur /\ e[2] = hist[e[1]].rules)
      <3>1. CASE e \in enforced[b]
          BY <2>4, <3>1 DEF Inv, Enforcement
      <3>2. CASE e \notin enforced[b]
        <4>1. e = <<v, hist[v].rules>>
            BY <1>6, <2>4, <3>2
        <4> QED  BY <1>2, <1>3, <4>1
      <3> QED  BY <3>1, <3>2
    <2>5. \A b \in Agent : Had(b, agent[b])'
        BY <2>3
    <2> QED  BY <1>1, <2>1, <2>2, <2>4, <2>5 DEF Enforcement
  <1>13. Kept'
      BY <1>1 DEF Inv, Kept
  <1> QED  BY <1>9, <1>10, <1>11, <1>12, <1>13 DEF Inv

\* The server starts again from the saved state, which may be old: what it
\* forgets is lost, and on the rest it agrees with what was in memory.
LEMMA RestartStep ==
    ASSUME Inv, ServerRestart
    PROVE  Inv'
  <1>1. PICK d :
          /\ d = db.state
          /\ fleet' = d.fleet /\ rules' = d.rules /\ hist' = d.hist /\ cur' = d.cur /\ next' = d.next
          /\ req' = [h \in Handler |-> Idle] /\ db.kind = "whole"
          /\ UNCHANGED <<db, tmp, mixed, calls, returned, agent, enforced>>
          /\ lost' = lost \cup (DOMAIN hist \ DOMAIN d.hist)
      BY DEF ServerRestart, Restart, agentVars, fileVars
  <1>2. /\ cur \in Nat /\ hist \in [1 .. cur -> Revision] /\ calls \in 0 .. MaxCalls /\ MaxCalls \in Nat
      BY Memory
  <1>3. /\ d.cur \in 1 .. MaxVersion /\ d.cur <= cur /\ d.hist \in [1 .. d.cur -> Revision]
        /\ d.fleet \in Fleet /\ d.rules \in Rules /\ d.next = d.cur + 1
        /\ \A a \in Agent : Had(a, d.fleet[a].applied)
        /\ \A v \in 1 .. d.cur : d.hist[v].rules = hist[v].rules /\ Sound(v, d.hist[v])
        /\ \A v \in DOMAIN returned : v \in 1 .. d.cur
      BY <1>1 DEF Inv, Files, DbOK, Consistent
  <1>4. d.cur \in Nat
      BY <1>3, Bounds
  <1>5. ASSUME NEW s, s.fleet = d.fleet, s.rules = d.rules, s.hist = d.hist, s.cur = d.cur, s.next = d.next
        PROVE  Consistent(s)'
    <2>1. \A a \in Agent : Had(a, s.fleet[a].applied)'
        BY <1>1, <1>3, <1>5 DEF Had
    <2>2. ASSUME NEW v \in 1 .. s.cur
          PROVE  s.hist[v].rules = hist'[v].rules /\ Sound(v, s.hist[v])'
      <3>1. s.hist[v] \in Revision /\ Sound(v, s.hist[v])
          BY <1>3, <1>5
      <3>2. Sound(v, s.hist[v])'
          BY <1>1, <3>1, SoundStays
      <3> QED  BY <1>1, <1>5, <3>2
    <2>3. s.cur <= cur'
        BY <1>1, <1>4, <1>5
    <2> QED  BY <1>1, <1>3, <1>5, <2>1, <2>2, <2>3 DEF Consistent
  <1>6. Files'
    <2>1. Open' = {} /\ \A h \in Handler : req'[h].pc = "idle"
        BY <1>1 DEF Open, Idle
    <2>2. Consistent(d)'
        BY <1>5
    <2>3. DbOK' /\ TmpOK'
        BY <1>1, <2>1, <2>2 DEF DbOK, TmpOK
    <2>4. Ready' /\ Undisturbed' /\ Behind'
        BY <2>1 DEF Ready, Undisturbed, Behind, Sure, Single
    <2>5. StateFileIsWhole'
        BY <1>1 DEF Inv, Files, StateFileIsWhole
    <2> QED  BY <2>3, <2>4, <2>5 DEF Files
  <1>7. PICK m : m = InMemory'
      OBVIOUS
  <1>8. m.fleet = d.fleet /\ m.rules = d.rules /\ m.hist = d.hist /\ m.cur = d.cur /\ m.next = d.next
      BY <1>1, <1>7 DEF InMemory
  <1>9. Consistent(m)'
      BY <1>5, <1>8
  <1>10. Consistent(InMemory)'
      BY <1>7, <1>9
  <1>11. Requests'
      BY <1>1 DEF Requests, ReqOK, Idle
  <1>12. Numbering'
    <2>1. Committing' = {}
        BY <1>1 DEF Committing, Idle
    <2>2. IsFiniteSet({}) /\ Cardinality({}) = 0
        BY FS_EmptySet
    <2>3. cur + Cardinality(Committing) <= calls + 1 /\ Cardinality(Committing) \in Nat
        BY FS_CardinalityType DEF Inv, Numbering
    <2>4. d.cur + 0 <= calls + 1
        BY <1>2, <1>3, <1>4, <2>3
    <2>5. IsFiniteSet(Committing') /\ cur' + Cardinality(Committing') <= calls' + 1
        BY <1>1, <2>1, <2>2, <2>4
    <2> QED  BY <1>1, <1>2, <2>5 DEF Numbering
  <1>13. Enforcement'
    <2>1. ASSUME NEW a \in Agent, NEW e \in enforced[a]
          PROVE  e[1] \in lost' \/ (e[1] <= d.cur /\ e[2] = d.hist[e[1]].rules)
      <3>1. /\ e[1] \in 1 .. MaxVersion
            /\ e[1] \in lost \/ (e[1] <= cur /\ e[2] = hist[e[1]].rules)
          BY <2>1 DEF Inv, Enforcement
      <3>2. CASE e[1] \in lost
          BY <1>1, <3>2
      <3>3. CASE e[1] <= cur /\ e[2] = hist[e[1]].rules
        <4>1. e[1] \in Nat /\ e[1] \in 1 .. cur
            BY <1>2, <3>1, <3>3, Bounds
        <4>2. CASE e[1] <= d.cur
          <5>1. e[1] \in 1 .. d.cur
              BY <1>4, <4>1, <4>2
          <5> QED  BY <1>3, <3>3, <4>2, <5>1
        <4>3. CASE ~(e[1] <= d.cur)
          <5>1. e[1] \in DOMAIN hist /\ e[1] \notin DOMAIN d.hist
              BY <1>2, <1>3, <1>4, <4>1, <4>3
          <5> QED  BY <1>1, <5>1
        <4> QED  BY <4>2, <4>3
      <3> QED  BY <3>1, <3>2, <3>3
    <2> QED  BY <1>1, <2>1 DEF Inv, Enforcement, Had
  <1>14. Kept'
      BY <1>1, <1>3 DEF Inv, Kept
  <1> QED  BY <1>6, <1>10, <1>11, <1>12, <1>13, <1>14 DEF Inv

\* The server cannot start again: nothing is served any more.
LEMMA StayDownStep ==
    ASSUME Inv, StayDown, UNCHANGED <<agentVars, lost>>
    PROVE  Inv'
  <1>1. /\ UNCHANGED <<fleet, policyVars, db, tmp, mixed, calls, returned, enforced, lost, agent>>
        /\ req' = [h \in Handler |-> [pc |-> "down"]]
      BY DEF StayDown, agentVars, fileVars
  <1>2. Later /\ cur \in Nat
      BY <1>1, Unmoved DEF policyVars
  <1>3. DOMAIN req' = Handler /\ \A h \in Handler : req'[h].pc = "down"
      BY <1>1
  <1>4. Requests' /\ Committing' = {} /\ Open' = {}
      BY <1>3 DEF Requests, ReqOK, Committing, Open
  <1>5. Files'
    <2>1. DbOK' /\ TmpOK'
        BY <1>1, <1>2, <1>4, ContentsStay DEF Inv
    <2>2. Ready' /\ Undisturbed' /\ Behind'
        BY <1>3 DEF Ready, Undisturbed, Behind, Sure, Single
    <2>3. StateFileIsWhole'
        BY <1>1 DEF Inv, Files, StateFileIsWhole
    <2> QED  BY <2>1, <2>2, <2>3 DEF Files
  <1>6. Numbering'
    <2>1. IsFiniteSet({}) /\ Cardinality({}) = 0
        BY FS_EmptySet
    <2>2. cur + Cardinality(Committing) <= calls + 1 /\ Cardinality(Committing) \in Nat
        BY FS_CardinalityType DEF Inv, Numbering
    <2>3. cur + 0 <= calls + 1 /\ calls \in 0 .. MaxCalls
        BY <1>2, <2>2, Memory
    <2> QED  BY <1>1, <1>4, <2>1, <2>3 DEF Numbering, policyVars
  <1>7. Consistent(InMemory)'
      BY <1>1, <1>2, ConsistentStays DEF Inv, InMemory, policyVars
  <1>8. Enforcement' /\ Kept'
      BY <1>1 DEF Inv, Enforcement, Kept, Had, policyVars
  <1> QED  BY <1>4, <1>5, <1>6, <1>7, <1>8 DEF Inv

\* NewServer on an empty backend, and agents that have applied nothing.
LEMMA LoopInit == Init => Inv
  <1> SUFFICES ASSUME Init PROVE Inv
      OBVIOUS
  <1>1. /\ fleet = InitialFleet /\ rules = EmptyRules /\ hist = [v \in {1} |-> InitialRevision]
        /\ cur = 1 /\ next = 2 /\ req = [h \in Handler |-> Idle] /\ calls = 0 /\ returned = <<>>
        /\ db = Whole([fleet |-> InitialFleet, rules |-> EmptyRules, hist |-> hist, cur |-> 1, next |-> 2])
        /\ agent = [a \in Agent |-> 0] /\ enforced = [a \in Agent |-> {}] /\ lost = {}
      BY DEF Init, ServerInit
  <1>2. 1 \in 1 .. MaxVersion /\ 0 \in 0 .. MaxVersion /\ 0 \in 0 .. Cardinality(Agent)
        /\ 1 .. 1 = {1} /\ DOMAIN returned = {} /\ EmptyRules \in Rules /\ MaxCalls \in Nat
    <2>1. EmptyRules \in Rules /\ MaxCalls \in Nat
        BY PolicyServerAssumption
    <2> QED  BY <1>1, <2>1, Bounds
  <1>3. InitialFleet \in Fleet /\ \A a \in Agent : InitialFleet[a].applied = 0
      BY <1>2 DEF InitialFleet, Fleet, Scope, Enrollment
  <1>4. InitialRevision \in Revision
      BY <1>2 DEF InitialRevision, Revision
  <1>5. Sound(1, InitialRevision)
      BY DEF InitialRevision, Sound
  <1>6. ASSUME NEW s, s.fleet = InitialFleet, s.rules = EmptyRules, s.hist = hist, s.cur = 1, s.next = 2
        PROVE  Consistent(s)
    <2>1. \A a \in Agent : Had(a, s.fleet[a].applied)
        BY <1>3, <1>6 DEF Had
    <2>2. s.hist \in [1 .. s.cur -> Revision] /\ \A v \in 1 .. s.cur : s.hist[v] = InitialRevision /\ v = 1
        BY <1>1, <1>2, <1>4, <1>6
    <2>3. \A v \in 1 .. s.cur : s.hist[v].rules = hist[v].rules /\ Sound(v, s.hist[v])
        BY <1>5, <1>6, <2>2
    <2> QED  BY <1>1, <1>2, <1>3, <1>6, <2>1, <2>2, <2>3 DEF Consistent
  <1>7. Consistent(InMemory)
      BY <1>1, <1>6 DEF InMemory
  <1>8. Requests
      BY <1>1 DEF Requests, ReqOK, Idle
  <1>12. Files
    <2>1. Open = {} /\ \A h \in Handler : req[h].pc = "idle"
        BY <1>1 DEF Open, Idle
    <2>2. db.kind = "whole" /\ Consistent(db.state)
        BY <1>1, <1>6 DEF Whole
    <2> QED  BY <2>1, <2>2 DEF Files, DbOK, TmpOK, Ready, Undisturbed, Behind, StateFileIsWhole, Sure, Single
  <1>9. Numbering
    <2>1. Committing = {}
        BY <1>1 DEF Committing, Idle
    <2>2. IsFiniteSet({}) /\ Cardinality({}) = 0
        BY FS_EmptySet
    <2> QED  BY <1>1, <1>2, <2>1, <2>2 DEF Numbering
  <1>10. Enforcement
      BY <1>1, <1>2 DEF Enforcement, Had
  <1>11. Kept
      BY <1>2 DEF Kept
  <1> QED  BY <1>7, <1>8, <1>9, <1>10, <1>11, <1>12 DEF Inv

\* Every step keeps the invariant: those of operators, of requests in service,
\* of agents, and a crash.
LEMMA LoopStep == Inv /\ [Next]_vars => Inv'
  <1> SUFFICES ASSUME Inv, [Next]_vars PROVE Inv'
      OBVIOUS
  <1>1. ASSUME NEW R \in Rules, UpdatePolicy(R), UNCHANGED <<agentVars, lost>>
        PROVE  Inv'
      BY <1>1, UpdatePolicyStep DEF agentVars
  <1>2. ASSUME NEW h \in Handler, Operate(h), UNCHANGED <<agentVars, lost>>
        PROVE  Inv'
    <2>1. UNCHANGED <<enforced, lost, agent>>
        BY <1>2 DEF agentVars
    <2>2. ASSUME NEW scope \in Groups \cup {""}, NEW from \in 0 .. MaxVersion, BeginPolicy(h, scope, from)
          PROVE  Inv'
      <3>1. scope \in Scope
          BY DEF Scope
      <3> QED  BY <2>1, <2>2, <3>1, BeginPolicyStep
    <2>3. ASSUME NEW a \in Agent, NEW status \in Statuses, SetAgentEnrollment(h, a, status)
          PROVE  Inv'
        BY <2>1, <2>3, EditStep
    <2>4. ASSUME NEW a \in Agent, NEW group \in Groups, UpsertAgentMetadata(h, a, group)
          PROVE  Inv'
        BY <2>1, <2>4, EditStep
    <2> QED  BY <1>2, <2>2, <2>3, <2>4 DEF Operate
  <1>3. ASSUME NEW h \in Handler, Serve(h), UNCHANGED <<agentVars, lost>>
        PROVE  Inv'
    <2>1. UNCHANGED <<enforced, lost, agent>>
        BY <1>3 DEF agentVars
    <2>2. ASSUME NEW written \in BOOLEAN,
                 CommitPublish(h, written) \/ \E readable \in BOOLEAN : CommitRollback(h, readable, written)
          PROVE  Inv'
      <3>1. CASE CommitPublish(h, written)
          BY <2>1, <3>1, CommitStep
      <3>2. ASSUME NEW readable \in BOOLEAN, CommitRollback(h, readable, written)
            PROVE  Inv'
          BY <2>1, <3>2, CommitStep
      <3> QED  BY <2>2, <3>1, <3>2
    <2>3. CASE \/ RollbackUnknown(h) \/ RefreshTarget(h) \/ RefreshAgents(h) \/ SaveFleet(h) \/ SavePolicy(h)
               \/ OpenFails(h) \/ RenameFails(h) \/ AckEnrollment(h) \/ AckCurrent(h)
        BY <2>1, <2>3, LookingStep
    <2>4. CASE UpdateFleet(h)
        BY <2>1, <2>4, UpdateFleetStep
    <2>5. CASE Refresh(h)
        BY <2>1, <2>5, RefreshStep
    <2>6. CASE WriteOpen(h)
        BY <2>1, <2>6, WriteOpenStep
    <2>7. CASE WriteData(h) \/ WriteFails(h)
        BY <2>1, <2>7, WriteStep
    <2>8. CASE Rename(h)
        BY <2>1, <2>8, RenameStep
    <2>9. CASE Remove(h)
        BY <2>1, <2>9, RemoveStep
    <2> QED  BY <1>3, <2>2, <2>3, <2>4, <2>5, <2>6, <2>7, <2>8, <2>9 DEF Serve
  <1>4. ASSUME NEW h \in Handler, NEW a \in Agent, ReportNow(h, a)
        PROVE  Inv'
      BY <1>4, BeginReportStep DEF ReportNow
  <1>5. ASSUME NEW h \in Handler, NEW arrives \in BOOLEAN, Answer(h, arrives)
        PROVE  Inv'
      BY <1>5, LookingStep DEF Answer
  <1>6. ASSUME NEW a \in Agent, NEW v \in 1 .. MaxVersion, Adopt(a, v)
        PROVE  Inv'
      BY <1>6, AdoptStep
  <1>7. CASE ServerRestart
      BY <1>7, RestartStep
  <1>8. CASE (\E a \in Agent, v \in 1 .. MaxVersion : AdoptFails(a, v)) \/ UNCHANGED vars
    <2>1. UNCHANGED <<fleet, rules, hist, cur, next, db, tmp, mixed, req, calls, returned, lost, agent, enforced>>
        BY <1>8 DEF AdoptFails, vars, serverVars, policyVars
    <2>2. Later
        BY <2>1, Unmoved
    <2>3. Consistent(InMemory)' /\ Files'
        BY <2>1, <2>2, ConsistentStays, FilesRest DEF Inv, InMemory
    <2>4. Requests'
        BY <2>1, <2>2, ReqStays DEF Inv, Requests
    <2>5. Numbering' /\ Enforcement' /\ Kept'
        BY <2>1 DEF Inv, Numbering, Committing, Enforcement, Had, Kept
    <2> QED  BY <2>3, <2>4, <2>5 DEF Inv
  <1>9. CASE StayDown /\ UNCHANGED <<agentVars, lost>>
      BY <1>9, StayDownStep
  <1> QED  BY <1>1, <1>2, <1>3, <1>4, <1>5, <1>6, <1>7, <1>8, <1>9 DEF Next

-----------------------------------------------------------------------------

\* Every reachable state satisfies the inductive invariant.
THEOREM LoopInvariant == Spec => []Inv
  BY LoopInit, LoopStep, PTL DEF Spec

\* The fleet and the history stay well formed, the versions of the history are
\* numbered without gaps, and the current one is the last.
THEOREM LoopTypes == Spec => []TypeOK
  <1>1. Inv => TypeOK
    <2> SUFFICES ASSUME Inv PROVE TypeOK
        OBVIOUS
    <2>1. /\ fleet \in Fleet /\ rules \in Rules /\ hist \in [1 .. cur -> Revision]
          /\ next = cur + 1 /\ cur \in 1 .. MaxVersion
        BY Memory
    <2>2. fleet \in [Agent -> [known : BOOLEAN, group : Groups \cup {""}, enroll : Enrollment,
                               applied : 0 .. MaxVersion]]
        BY <2>1, Zenon DEF Fleet, Scope
    <2> QED  BY <2>1, <2>2, Zenon DEF TypeOK
  <1> QED  BY <1>1, LoopInvariant, PTL

\* A rollout that the server shows as applied was applied by as many agents as
\* it targets, although refreshPolicyDeploymentFromAgents reads the target, the
\* fleet and the policy under separate locks; the one exception is a version
\* that a crash of the server has undone.
THEOREM AppliedIsEnforcedHolds == Spec => []AppliedIsEnforced
  <1>1. Inv => AppliedIsEnforced
    <2> SUFFICES ASSUME Inv, hist[cur].status = "applied"
                 PROVE  Cardinality(Deployed) >= hist[cur].targets
        BY DEF AppliedIsEnforced
    <2>1. cur \in 1 .. MaxVersion /\ cur \in Nat /\ \A v \in 1 .. cur : Sound(v, hist[v])
        BY Memory
    <2>2. Sound(cur, hist[cur])
        BY <2>1
    <2>3. Deployed = DeployedAs(cur, hist[cur].rules)
        BY DEF Deployed, DeployedAs
    <2> QED  BY <2>2, <2>3 DEF Sound
  <1> QED  BY <1>1, LoopInvariant, PTL

\* A version whose publish or rollback call saved its state and returned is in
\* the history for good, and in every state file that can be loaded, across
\* crashes, late and failing writes of saveState and saves that get into each
\* other's temporary file, unless an older snapshot was waiting to be written
\* when the call opened the file.
THEOREM ReturnedVersionsSurviveHolds == Spec => []ReturnedVersionsSurvive
  <1>1. Inv => ReturnedVersionsSurvive
      BY DEF Inv, Kept, Files, DbOK, Consistent, ReturnedVersionsSurvive
  <1> QED  BY <1>1, LoopInvariant, PTL

\* The state file can be loaded at any time, also in the middle of a save and
\* after one that failed, unless the save that renamed it into place
\* overlapped another.
THEOREM StateFileIsWholeHolds == Spec => []StateFileIsWhole
  <1>1. Inv => StateFileIsWhole
      BY DEF Inv, Files
  <1> QED  BY <1>1, LoopInvariant, PTL

\* A telemetry report changes nobody's enrollment, also when the enrollment was
\* changed after the report's first look at it.
THEOREM ReportsKeepEnrollmentHolds == Spec => ReportsKeepEnrollment
  <1> DEFINE A == \A h \in Handler : req[h].pc = "update" /\ req'[h].pc = "refreshTarget"
                    => \A a \in Agent : fleet'[a].enroll = fleet[a].enroll
  <1>1. Inv /\ [Next]_vars => [A]_serverVars
    <2> SUFFICES ASSUME Inv, [Next]_vars, NEW h \in Handler, NEW a \in Agent,
                        req[h].pc = "update", req'[h].pc = "refreshTarget"
                 PROVE  fleet'[a].enroll = fleet[a].enroll
        OBVIOUS
    <2>1. DOMAIN req = Handler /\ fleet \in Fleet
        BY Memory DEF Inv, Requests
    <2>2. ASSUME NEW g \in Handler, UpdateFleet(g)
          PROVE  fleet'[a].enroll = fleet[a].enroll
      <3> DEFINE b == req[g].agent
                 x == [known |-> TRUE, group |-> fleet[b].group, enroll |-> fleet[b].enroll,
                       applied |-> req[g].applied]
      <3>1. fleet' = [fleet EXCEPT ![b] = x]
          BY <2>2 DEF UpdateFleet, KeepEnrollment
      <3>2. x.enroll = fleet[b].enroll
          OBVIOUS
      <3> HIDE DEF b, x
      <3> QED  BY <2>1, <3>1, <3>2 DEF Fleet
    <2>3. ASSUME NEW g \in Handler, NEW b, NEW x, Edit(g, b, x)
          PROVE  FALSE
      <3>1. req' = [req EXCEPT ![g] = [pc |-> "saveFleet", done |-> 0, answer |-> {}]]
          BY <2>3 DEF Edit, Enters
      <3> QED  BY <2>1, <3>1
    <2>4. CASE ServerRestart
      <3>1. req' = [g \in Handler |-> Idle]
          BY <2>4 DEF ServerRestart, Restart
      <3> QED  BY <3>1 DEF Idle
    <2>5. CASE fleet' = fleet
        BY <2>5
    <2>6. \/ \E g \in Handler : UpdateFleet(g)
          \/ \E g \in Handler : \E b, x : Edit(g, b, x)
          \/ ServerRestart
          \/ fleet' = fleet
      <3>1. ASSUME NEW g \in Handler, Operate(g)
            PROVE  (\E b, x : Edit(g, b, x)) \/ fleet' = fleet
          BY <3>1 DEF Operate, BeginPolicy, SetAgentEnrollment, UpsertAgentMetadata
      <3>2. ASSUME NEW g \in Handler, Serve(g)
            PROVE  UpdateFleet(g) \/ fleet' = fleet
          BY <3>2 DEF Serve, CommitPublish, CommitRollback, RollbackUnknown, RefreshTarget, RefreshAgents, Refresh,
                      SaveFleet, SavePolicy, WriteOpen, OpenFails, WriteData, WriteFails, Rename, RenameFails,
                      Remove, AckEnrollment, AckCurrent
      <3>3. ASSUME NEW g \in Handler, (\E b \in Agent : ReportNow(g, b)) \/ \E arrives \in BOOLEAN : Answer(g, arrives)
            PROVE  fleet' = fleet
          BY <3>3 DEF ReportNow, BeginReport, Answer, AckTarget
      <3>4. ASSUME \/ \E R \in Rules : UpdatePolicy(R)
                   \/ \E b \in Agent, v \in 1 .. MaxVersion : Adopt(b, v) \/ AdoptFails(b, v)
                   \/ StayDown
                   \/ UNCHANGED vars
            PROVE  fleet' = fleet
          BY <3>4 DEF UpdatePolicy, Adopt, AdoptFails, StayDown, serverVars, vars
      <3> QED  BY <3>1, <3>2, <3>3, <3>4 DEF Next
    <2> QED  BY <2>2, <2>3, <2>4, <2>5, <2>6
  <1> QED  BY <1>1, LoopInvariant, PTL DEF Spec, ReportsKeepEnrollment
=============================================================================
