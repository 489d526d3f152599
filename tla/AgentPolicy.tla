----------------------------- MODULE AgentPolicy -----------------------------
(***************************************************************************)
(* How an agent follows the policy of the control plane.  Each telemetry   *)
(* report is answered with the current policy version; the reporter        *)
(* (pkg/telemetry/reporter.go) starts a goroutine per answer, which runs   *)
(* the OnAck handler of cmd/agent/daemon/main.go: compare with the applied *)
(* version, download the bundle, apply it to the analyzer, store the       *)
(* applied version and save it for the next start.  Several such           *)
(* goroutines may run at once, and the agent may restart at any point.     *)
(* The server is reduced to its current version, its bundles and whether   *)
(* it tells this agent the version; module PolicyServer is about the rest  *)
(* of it.                                                                  *)
(***************************************************************************)
EXTENDS Naturals, Sequences

CONSTANTS
    Rule,           \* Sigma rule ids
    BuiltinRules,   \* sigma.DefaultRules(), loaded when the analyzer is created
    MaxVersion,     \* bound: versions published
    Task,           \* the OnAck goroutines that can run at the same time
    MaxRestarts     \* bound: restarts of the agent

ASSUME AgentPolicyAssumption ==
    /\ BuiltinRules \subseteq Rule
    /\ MaxVersion \in Nat \ {0}
    /\ MaxRestarts \in Nat

VARIABLES
    cur,        \* server: current.Version
    bundle,     \* server: the bundle of each version: its rules, and the version it was
                \* written for
    told,       \* server: the agent is neither quarantined nor revoked, and the current
                \* version is targeted at it
    applied,    \* agent: appliedPolicyVersion, reported with every summary
    saved,      \* agent: the version in applied-policy-state.json
    rules,      \* agent: the Sigma rules of the analyzer
    pc, ver,    \* agent: per OnAck goroutine, its place and its version
    restarts,
    sole        \* history: the goroutine that made the latest application, if no other
                \* was applying a bundle when it began or since, and it did not fail

vars == <<cur, bundle, told, applied, saved, rules, pc, ver, restarts, sole>>

Init ==
    /\ cur = 1
    /\ bundle = <<[rules |-> {}, of |-> 1]>>    \* the initial policy of NewServer
    /\ told = TRUE
    /\ applied = 0
    /\ saved = 0
    /\ rules = BuiltinRules
    /\ pc = [t \in Task |-> "idle"]
    /\ ver = [t \in Task |-> 0]
    /\ restarts = 0
    /\ sole = {}

\* PublishPolicyFor and RollbackPolicyFor, seen from an agent: a new version,
\* for a group of agents or for all.  The failing write of a bundle is only
\* logged: the version keeps the bundle of the revision it was copied from.
Publish(b, target) ==
    /\ cur < MaxVersion
    /\ cur' = cur + 1
    /\ bundle' = Append(bundle, b)
    /\ told' = target
    /\ UNCHANGED <<applied, saved, rules, pc, ver, restarts, sole>>

NewBundles == [rules : SUBSET Rule, of : {cur + 1}] \cup {bundle[v] : v \in 1 .. cur}

\* SetAgentEnrollment and UpsertAgentMetadata, seen from an agent
ChangeTarget ==
    /\ told' = ~told
    /\ UNCHANGED <<cur, bundle, applied, saved, rules, pc, ver, restarts, sole>>

\* ReportNow and recordSuccess: the ack carries the version, go onAck(status);
\* without a version OnAck returns at once
Report(t) ==
    /\ pc[t] = "idle"
    /\ told
    /\ pc' = [pc EXCEPT ![t] = "check"]
    /\ ver' = [ver EXCEPT ![t] = cur]
    /\ UNCHANGED <<cur, bundle, told, applied, saved, rules, restarts, sole>>

\* OnAck: the version is applied already, or fetch it
UpToDateOnce(t) == applied > 0              \* mutant: only the first policy is ever fetched

UpToDate(t) == applied = ver[t]

Check(t) ==
    /\ pc[t] = "check"
    /\ pc' = [pc EXCEPT ![t] = IF UpToDate(t) THEN "idle" ELSE "fetch"]
    /\ UNCHANGED <<cur, bundle, told, applied, saved, rules, ver, restarts, sole>>

\* fetchAndApplyPolicyBundle: the download fails and OnAck returns
FetchFails(t) ==
    /\ pc[t] = "fetch"
    /\ pc' = [pc EXCEPT ![t] = "idle"]
    /\ UNCHANGED <<cur, bundle, told, applied, saved, rules, ver, restarts, sole>>

\* the analyzer or the applied version is being changed by t
Applying(t) == pc[t] \in {"add", "remove", "store"}

\* fetchAndApplyPolicyBundle: a complete bundle, which must name the version
\* asked for
Fetch(t) ==
    /\ pc[t] = "fetch"
    /\ bundle[ver[t]].of = ver[t]
    /\ pc' = [pc EXCEPT ![t] = "add"]
    /\ sole' = IF \E u \in Task : Applying(u) THEN {} ELSE {t}
    /\ UNCHANGED <<cur, bundle, told, applied, saved, rules, ver, restarts>>

\* applyPolicyBundle: AddSigmaRule for each rule of the bundle, then
\* RemoveSigmaRule for each other rule
AddRules(t) ==
    /\ pc[t] = "add"
    /\ rules' = rules \cup bundle[ver[t]].rules
    /\ pc' = [pc EXCEPT ![t] = "remove"]
    /\ UNCHANGED <<cur, bundle, told, applied, saved, ver, restarts, sole>>

RemoveNothing(t) ==                         \* mutant: rules that left the policy stay
    /\ pc[t] = "remove"
    /\ pc' = [pc EXCEPT ![t] = "store"]
    /\ UNCHANGED <<cur, bundle, told, applied, saved, rules, ver, restarts, sole>>

RemoveOthers(t) ==
    /\ pc[t] = "remove"
    /\ rules' = rules \cap bundle[ver[t]].rules
    /\ pc' = [pc EXCEPT ![t] = "store"]
    /\ UNCHANGED <<cur, bundle, told, applied, saved, ver, restarts, sole>>

\* applyPolicyBundle or the copy of the bundle to disk fails and OnAck
\* returns: a rule does not parse after some were added, the whitelist cannot
\* be applied after all were, or the file cannot be written
ApplyFails(t) ==
    /\ \/ pc[t] = "add" /\ \E R \in SUBSET bundle[ver[t]].rules : rules' = rules \cup R
       \/ pc[t] = "store" /\ UNCHANGED rules
    /\ pc' = [pc EXCEPT ![t] = "idle"]
    /\ sole' = {}
    /\ UNCHANGED <<cur, bundle, told, applied, saved, ver, restarts>>

\* appliedPolicyVersion.Store(version)
StoreVersion(t) ==
    /\ pc[t] = "store"
    /\ applied' = ver[t]
    /\ pc' = [pc EXCEPT ![t] = "save"]
    /\ UNCHANGED <<cur, bundle, told, saved, rules, ver, restarts, sole>>

\* saveAppliedPolicyVersion: written to a temporary file and renamed
SaveVersion(t) ==
    /\ pc[t] = "save"
    /\ saved' = ver[t]
    /\ pc' = [pc EXCEPT ![t] = "idle"]
    /\ UNCHANGED <<cur, bundle, told, applied, rules, ver, restarts, sole>>

\* saving fails, which is logged
SaveFails(t) ==
    /\ pc[t] = "save"
    /\ pc' = [pc EXCEPT ![t] = "idle"]
    /\ UNCHANGED <<cur, bundle, told, applied, saved, rules, ver, restarts, sole>>

\* The agent stops and starts: loadAppliedPolicyVersion restores the version,
\* analyzer.New the built-in rules; nothing applies the bundle again
Restart ==
    /\ restarts < MaxRestarts
    /\ restarts' = restarts + 1
    /\ applied' = saved
    /\ rules' = BuiltinRules
    /\ pc' = [t \in Task |-> "idle"]
    /\ sole' = IF applied = saved /\ ~\E t \in Task : Applying(t) THEN sole ELSE {}
    /\ UNCHANGED <<cur, bundle, told, saved, ver>>

OnAck(t) == Check(t) \/ Fetch(t) \/ AddRules(t) \/ RemoveOthers(t) \/ StoreVersion(t) \/ SaveVersion(t)

Next ==
    \/ \E b \in NewBundles, target \in BOOLEAN : Publish(b, target)
    \/ ChangeTarget
    \/ \E t \in Task : Report(t) \/ OnAck(t) \/ FetchFails(t) \/ ApplyFails(t) \/ SaveFails(t)
    \/ Restart

\* The reporter's ticker keeps reporting, goroutines run, and an application
\* that is retried for ever does not fail for ever: the server publishes only
\* rules that its parser, which is the agent's, accepts.  Nothing is assumed of
\* a bundle that does not name its version.
Fairness ==
    /\ WF_vars(\E t \in Task : Report(t))
    /\ \A t \in Task : WF_vars(OnAck(t)) /\ SF_vars(Fetch(t)) /\ SF_vars(AddRules(t)) /\ SF_vars(StoreVersion(t))

Spec == Init /\ [][Next]_vars /\ Fairness

(***************************************************************************)
(* Properties.                                                             *)
(***************************************************************************)

\* The versions, the rules and the goroutines.
TypeOK ==
    /\ cur \in 1 .. MaxVersion
    /\ bundle \in [1 .. cur -> [rules : SUBSET Rule, of : 1 .. MaxVersion]]
    /\ told \in BOOLEAN
    /\ applied \in 0 .. cur /\ saved \in 0 .. cur
    /\ rules \subseteq Rule
    /\ pc \in [Task -> {"idle", "check", "fetch", "add", "remove", "store", "save"}]
    /\ ver \in [Task -> 0 .. cur]
    /\ restarts \in 0 .. MaxRestarts
    /\ sole \subseteq Task

\* What an operator is told to confirm after a publish is that the agent
\* reports the desired version, taken to mean that it enforces that policy.  As
\* long as the agent does not restart (a restart restores the version and not
\* the rules), an application that met no other and no error leaves exactly the
\* rules of the version reported, whatever mixture earlier applications that
\* overlapped or failed half way had left behind.
LoneApplicationIsExact ==
    restarts = 0 => \A t \in sole : ~Applying(t) => bundle[applied] = [rules |-> rules, of |-> applied]

\* Once the server stops publishing, an agent that the current version is
\* targeted at and that is not quarantined ends up reporting that version and
\* stays with it, whatever order its OnAck goroutines ran in, how often applying
\* failed and when it restarted.  Its bundle must have been written: an agent
\* refuses the bundle of another version each time it is told to fetch it.
ConvergesToCurrent == <>[](told /\ bundle[cur].of = cur) => <>[](applied = cur)
=============================================================================
