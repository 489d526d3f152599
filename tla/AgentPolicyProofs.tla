-------------------------- MODULE AgentPolicyProofs --------------------------
(***************************************************************************)
(* Proofs about AgentPolicy, for any sets of rules and of goroutines and   *)
(* any number of versions and restarts.  LoneApplicationIsExact speaks of  *)
(* the end of an application; the invariant follows the application from   *)
(* the download on: nobody else is applying, and what was done so far has  *)
(* brought the rules of the analyzer nearer to those of the bundle.        *)
(***************************************************************************)
EXTENDS AgentPolicy, TLAPS

Bundle == [rules : SUBSET Rule, of : 1 .. MaxVersion]

\* A goroutine that runs has the number of a published version.
VersionIsPublished == \A t \in Task : pc[t] # "idle" => ver[t] \in 1 .. cur

\* As long as sole names a goroutine, no other one is applying.
SoleIsAlone == \A t \in sole : \A u \in Task : Applying(u) => u = t

\* How far the lone application of t has come.
Progress(t) ==
    /\ pc[t] = "remove" => bundle[ver[t]].rules \subseteq rules
    /\ pc[t] = "store" => rules = bundle[ver[t]].rules
    /\ Applying(t) => bundle[ver[t]].of = ver[t]
    /\ ~Applying(t) => applied \in 1 .. cur /\ bundle[applied] = [rules |-> rules, of |-> applied]

SoleProgress == restarts = 0 => \A t \in sole : Progress(t)

Inv ==
    /\ TypeOK
    /\ VersionIsPublished
    /\ SoleIsAlone
    /\ SoleProgress

\* The invariant holds when the agent starts.
LEMMA AgentInit == Init => Inv
  <1> SUFFICES ASSUME Init PROVE Inv
      OBVIOUS
  <1>1. bundle \in [1 .. cur -> Bundle]
      BY AgentPolicyAssumption DEF Init, Bundle
  <1> QED
      BY <1>1, AgentPolicyAssumption
         DEF Init, Inv, TypeOK, VersionIsPublished, SoleIsAlone, SoleProgress, Bundle

\* A publish leaves the earlier bundles as they were.
LEMMA PublishKeepsBundles ==
    ASSUME TypeOK, NEW b \in NewBundles, NEW target \in BOOLEAN, Publish(b, target)
    PROVE  /\ cur' = cur + 1 /\ cur' \in 1 .. MaxVersion
           /\ bundle' \in [1 .. cur' -> Bundle]
           /\ \A v \in 1 .. cur : bundle'[v] = bundle[v]
  <1>1. cur \in Nat \ {0} /\ cur' = cur + 1 /\ cur' \in 1 .. MaxVersion
      BY AgentPolicyAssumption DEF Publish, TypeOK
  <1>2. bundle \in Seq(Bundle) /\ Len(bundle) = cur
    <2>1. bundle \in [1 .. cur -> Bundle]
        BY DEF TypeOK, Bundle
    <2> QED  BY <1>1, <2>1
  <1>3. bundle' = Append(bundle, b)
      BY DEF Publish
  <1>b. b \in Bundle
    <2>1. CASE b \in [rules : SUBSET Rule, of : {cur + 1}]
        BY <1>1, <2>1 DEF Bundle
    <2>2. CASE b \in {bundle[v] : v \in 1 .. cur}
        BY <2>2 DEF TypeOK, Bundle
    <2> QED  BY <2>1, <2>2 DEF NewBundles
  <1>4. bundle' \in Seq(Bundle) /\ Len(bundle') = cur'
      BY <1>1, <1>2, <1>3, <1>b
  <1>5. bundle' \in [1 .. cur' -> Bundle]
      BY <1>4
  <1>6. \A v \in 1 .. cur : bundle'[v] = bundle[v]
      BY <1>1, <1>2, <1>3
  <1> QED  BY <1>1, <1>5, <1>6

\* The steps of a goroutine that change neither the analyzer nor who applies.
LEMMA QuietStep ==
    ASSUME Inv, NEW t \in Task,
           \/ Report(t) \/ Check(t) \/ FetchFails(t) \/ SaveVersion(t) \/ SaveFails(t)
    PROVE  Inv'
  <1>1. /\ ~Applying(t)
        /\ \E p \in {"idle", "check", "fetch"} : pc' = [pc EXCEPT ![t] = p]
        /\ \A u \in Task : Applying(u)' <=> Applying(u)
        /\ \A u \in Task : Applying(u) => u # t /\ pc'[u] = pc[u]
        /\ \A u \in Task : u # t => pc'[u] = pc[u]
      BY DEF Report, Check, FetchFails, SaveVersion, SaveFails, Inv, TypeOK, Applying
  <1>2. UNCHANGED <<cur, bundle, told, applied, rules, restarts, sole>>
      BY DEF Report, Check, FetchFails, SaveVersion, SaveFails
  <1>3. saved' \in 0 .. cur
      BY DEF Report, Check, FetchFails, SaveVersion, SaveFails, Inv, TypeOK
  <1>4. \/ UNCHANGED ver /\ pc[t] # "idle"
        \/ ver' = [ver EXCEPT ![t] = cur]
      BY DEF Report, Check, FetchFails, SaveVersion, SaveFails, Inv, TypeOK
  <1>5. TypeOK'
      BY <1>1, <1>2, <1>3, <1>4 DEF Inv, TypeOK
  <1>6. VersionIsPublished'
      BY <1>1, <1>2, <1>4, <1>5 DEF Inv, TypeOK, VersionIsPublished
  <1>7. SoleIsAlone'
      BY <1>1, <1>2 DEF Inv, SoleIsAlone, TypeOK
  <1>8. SoleProgress'
    <2> SUFFICES ASSUME restarts = 0, NEW u \in sole, Progress(u) PROVE Progress(u)'
        BY <1>2 DEF Inv, SoleProgress
    <2>1. u \in Task
        BY DEF Inv, TypeOK
    <2>2. CASE Applying(u)
      <3>1. pc'[u] = pc[u] /\ ver'[u] = ver[u] /\ Applying(u)'
          BY <1>1, <1>4, <2>1, <2>2 DEF Inv, TypeOK
      <3> QED  BY <3>1, <1>2, <2>2 DEF Progress
    <2>3. CASE ~Applying(u)
      <3>1. ~Applying(u)'
          BY <1>1, <2>1, <2>3
      <3>2. applied \in 1 .. cur /\ bundle[applied] = [rules |-> rules, of |-> applied]
          BY <2>3 DEF Progress
      <3>3. (applied \in 1 .. cur /\ bundle[applied] = [rules |-> rules, of |-> applied])'
          BY <1>2, <3>2
      <3> QED  BY <3>1, <3>3 DEF Progress, Applying
    <2> QED  BY <2>2, <2>3
  <1> QED  BY <1>5, <1>6, <1>7, <1>8 DEF Inv

\* A step of t that leaves t applying or just done; a lone application is t's.
LEMMA ApplyStep ==
    ASSUME Inv, NEW t \in Task, AddRules(t) \/ RemoveOthers(t) \/ StoreVersion(t)
    PROVE  Inv'
  <1>1. /\ Applying(t) /\ pc[t] # "idle"
        /\ ver[t] \in 1 .. cur /\ bundle[ver[t]] \in Bundle
      BY DEF Bundle, AddRules, RemoveOthers, StoreVersion, Applying, Inv, TypeOK, VersionIsPublished
  <1>2. UNCHANGED <<cur, bundle, told, saved, ver, restarts, sole>>
      BY DEF AddRules, RemoveOthers, StoreVersion
  <1>3. /\ \E p \in {"remove", "store", "save"} : pc' = [pc EXCEPT ![t] = p]
        /\ \A u \in Task : u # t => pc'[u] = pc[u]
      BY DEF AddRules, RemoveOthers, StoreVersion, Inv, TypeOK
  <1>4. rules' \subseteq Rule /\ applied' \in 0 .. cur
      BY <1>1 DEF Bundle, AddRules, RemoveOthers, StoreVersion, Inv, TypeOK
  <1>5. TypeOK'
      BY <1>2, <1>3, <1>4 DEF Inv, TypeOK
  <1>6. VersionIsPublished'
      BY <1>1, <1>2, <1>3 DEF Inv, TypeOK, VersionIsPublished
  <1>7. \A u \in sole : u = t
      BY <1>1 DEF Inv, SoleIsAlone
  <1>8. SoleIsAlone'
    <2> SUFFICES ASSUME NEW s \in sole, NEW u \in Task, Applying(u)' PROVE u = s
        BY <1>2 DEF SoleIsAlone
    <2>1. CASE u = t
        BY <1>7, <2>1
    <2>2. CASE u # t
      <3>1. Applying(u)
          BY <1>3, <2>2 DEF Applying
      <3> QED  BY <3>1 DEF Inv, SoleIsAlone
    <2> QED  BY <2>1, <2>2
  <1>9. SoleProgress'
    <2> SUFFICES ASSUME restarts = 0, t \in sole, Progress(t) PROVE Progress(t)'
        BY <1>2, <1>7 DEF Inv, SoleProgress
    <2>1. CASE AddRules(t)
        BY <1>2, <2>1 DEF AddRules, Progress, Applying, Inv, TypeOK
    <2>2. CASE RemoveOthers(t)
      <3>1. /\ bundle[ver[t]].rules \subseteq rules /\ rules' = rules \cap bundle[ver[t]].rules
            /\ pc'[t] = "store" /\ bundle[ver[t]].of = ver[t]
          BY <2>2 DEF RemoveOthers, Progress, Applying, Inv, TypeOK
      <3>2. rules' = bundle[ver[t]].rules
          BY <3>1
      <3> QED  BY <1>2, <3>1, <3>2 DEF Progress, Applying
    <2>3. CASE StoreVersion(t)
      <3>1. /\ rules = bundle[ver[t]].rules /\ bundle[ver[t]].of = ver[t]
            /\ applied' = ver[t] /\ rules' = rules /\ pc'[t] = "save"
          BY <2>3 DEF StoreVersion, Progress, Applying, Inv, TypeOK
      <3>2. bundle[ver[t]] = [rules |-> rules, of |-> ver[t]]
          BY <1>1, <3>1 DEF Bundle
      <3> QED  BY <1>1, <1>2, <3>1, <3>2 DEF Progress, Applying
    <2> QED  BY <2>1, <2>2, <2>3
  <1> QED  BY <1>5, <1>6, <1>8, <1>9 DEF Inv

\* Every step of the server and of the agent keeps the invariant.
LEMMA AgentStep == Inv /\ [Next]_vars => Inv'
  <1> SUFFICES ASSUME Inv, [Next]_vars PROVE Inv'
      OBVIOUS
  <1>1. ASSUME NEW b \in NewBundles, NEW target \in BOOLEAN, Publish(b, target) PROVE Inv'
    <2>1. /\ cur \in Nat \ {0} /\ cur' = cur + 1 /\ cur' \in 1 .. MaxVersion
          /\ bundle' \in [1 .. cur' -> Bundle]
          /\ \A v \in 1 .. cur : bundle'[v] = bundle[v]
        BY <1>1, PublishKeepsBundles DEF Inv, TypeOK
    <2>2. UNCHANGED <<applied, saved, rules, pc, ver, restarts, sole>> /\ told' \in BOOLEAN
        BY <1>1 DEF Publish
    <2>3. TypeOK'
        BY <2>1, <2>2 DEF Inv, TypeOK, Bundle
    <2>4. VersionIsPublished' /\ SoleIsAlone'
        BY <2>1, <2>2 DEF Inv, TypeOK, VersionIsPublished, SoleIsAlone, Applying
    <2>5. SoleProgress'
      <3> SUFFICES ASSUME restarts = 0, NEW t \in sole, Progress(t) PROVE Progress(t)'
          BY <2>2 DEF Inv, SoleProgress
      <3>1. t \in Task
          BY DEF Inv, TypeOK
      <3>2. Applying(t) => bundle'[ver[t]] = bundle[ver[t]]
          BY <2>1, <3>1 DEF Inv, VersionIsPublished, Applying
      <3> QED  BY <2>1, <2>2, <3>2 DEF Progress, Applying
    <2> QED  BY <2>3, <2>4, <2>5 DEF Inv
  <1>2. ASSUME NEW t \in Task, Fetch(t) PROVE Inv'
    <2>1. /\ pc[t] = "fetch" /\ pc' = [pc EXCEPT ![t] = "add"]
          /\ sole' = IF \E u \in Task : Applying(u) THEN {} ELSE {t}
          /\ bundle[ver[t]].of = ver[t]
          /\ UNCHANGED <<cur, bundle, told, applied, saved, rules, ver, restarts>>
        BY <1>2 DEF Fetch
    <2>2. TypeOK'
        BY <2>1 DEF Inv, TypeOK
    <2>3. VersionIsPublished'
        BY <2>1 DEF Inv, TypeOK, VersionIsPublished
    <2>4. SoleIsAlone'
        BY <2>1 DEF Inv, TypeOK, SoleIsAlone, Applying
    <2>5. SoleProgress'
        BY <2>1 DEF Inv, TypeOK, SoleProgress, Progress, Applying
    <2> QED  BY <2>2, <2>3, <2>4, <2>5 DEF Inv
  <1>3. ASSUME NEW t \in Task, ApplyFails(t) PROVE Inv'
    <2>1. /\ pc' = [pc EXCEPT ![t] = "idle"] /\ sole' = {}
          /\ UNCHANGED <<cur, bundle, told, applied, saved, ver, restarts>>
        BY <1>3 DEF ApplyFails
    <2>2. rules' \subseteq Rule
      <3>1. CASE pc[t] = "add"
        <4>1. bundle[ver[t]].rules \in SUBSET Rule
            BY <3>1 DEF Inv, TypeOK, VersionIsPublished
        <4> QED  BY <1>3, <3>1, <4>1 DEF ApplyFails, Inv, TypeOK
      <3>2. CASE pc[t] # "add"
          BY <1>3, <3>2 DEF ApplyFails, Inv, TypeOK
      <3> QED  BY <3>1, <3>2
    <2>3. TypeOK'
        BY <2>1, <2>2 DEF Inv, TypeOK
    <2>4. VersionIsPublished'
        BY <2>1 DEF Inv, TypeOK, VersionIsPublished
    <2> QED  BY <2>1, <2>3, <2>4 DEF Inv, SoleIsAlone, SoleProgress
  <1>4. CASE Restart
    <2>1. /\ restarts \in Nat /\ restarts' = restarts + 1 /\ restarts' \in 0 .. MaxRestarts
          /\ applied' = saved /\ rules' = BuiltinRules
          /\ pc' = [t \in Task |-> "idle"]
          /\ sole' \subseteq sole
          /\ UNCHANGED <<cur, bundle, told, saved, ver>>
        BY <1>4, AgentPolicyAssumption DEF Restart, Inv, TypeOK
    <2>2. TypeOK'
        BY <2>1, AgentPolicyAssumption DEF Inv, TypeOK
    <2>3. VersionIsPublished' /\ SoleIsAlone'
        BY <2>1 DEF Inv, TypeOK, VersionIsPublished, SoleIsAlone, Applying
    <2>4. SoleProgress'
        BY <2>1 DEF SoleProgress
    <2> QED  BY <2>2, <2>3, <2>4 DEF Inv
  <1>5. CASE UNCHANGED vars
      BY <1>5 DEF vars, Inv, TypeOK, VersionIsPublished, SoleIsAlone, SoleProgress, Progress, Applying
  <1>6. CASE ChangeTarget
    <2>1. UNCHANGED <<cur, bundle, applied, saved, rules, pc, ver, restarts, sole>> /\ told' \in BOOLEAN
        BY <1>6 DEF ChangeTarget
    <2> QED
        BY <2>1 DEF Inv, TypeOK, VersionIsPublished, SoleIsAlone, SoleProgress, Progress, Applying
  <1> QED
      BY <1>1, <1>2, <1>3, <1>4, <1>5, <1>6, QuietStep, ApplyStep DEF Next, OnAck

\* The invariant holds in every state of the agent.
THEOREM AgentInvariant == Spec => []Inv
  BY AgentInit, AgentStep, PTL DEF Spec

\* Versions, rules and goroutines keep their types: among others, the agent only
\* ever reports and saves versions that the server has published.
THEOREM AgentTypes == Spec => []TypeOK
  <1>1. Inv => TypeOK
      BY DEF Inv
  <1> QED  BY <1>1, AgentInvariant, PTL

\* An application of a bundle that met no other one and no error leaves exactly
\* the rules of the version that the agent reports.
THEOREM LoneApplicationIsExactHolds == Spec => []LoneApplicationIsExact
  <1>1. Inv => LoneApplicationIsExact
      BY DEF Inv, SoleProgress, Progress, LoneApplicationIsExact
  <1> QED  BY <1>1, AgentInvariant, PTL
=============================================================================
