---------------------------- MODULE PolicyServer ----------------------------
(***************************************************************************)
(* The control plane's fleet and policy state, internal/policy/mgmt        *)
(* (server.go, state_store.go): publishing and rolling back policies, the  *)
(* telemetry reports of agents with their policy acknowledgements, changes *)
(* of enrollment, and saveState.  Requests are served concurrently.  Fleet *)
(* and policy are guarded by two different locks, telemetry.mu and         *)
(* policy.mu; a handler takes them one after the other, several times, and *)
(* writes its snapshot of both to the state file holding neither: it opens *)
(* a temporary file that all handlers share, writes it and renames it over *)
(* the state file.  A step of a handler is what it does under one lock, or *)
(* one call of the file system.  Module ControlLoop joins the server with  *)
(* the agents that follow it.                                              *)
(***************************************************************************)
EXTENDS Naturals, FiniteSets, TLC

CONSTANTS
    Agent,
    Groups,         \* the groups a FleetFilter may name
    Statuses,       \* the enrollment statuses the operator sets
    Rules,          \* policy contents
    EmptyRules,     \* the content before any UpdatePolicy
    Handler,        \* requests in service at the same time
    MaxCalls,       \* bound: requests of operators that save their state
    MaxCrashes      \* bound: crashes of the server

ASSUME PolicyServerAssumption ==
    /\ IsFiniteSet(Agent)
    /\ "" \notin Groups
    /\ Statuses \subseteq {"pending", "approved", "quarantined", "revoked"}
    /\ EmptyRules \in Rules
    /\ MaxCalls \in Nat /\ MaxCrashes \in Nat

VARIABLES
    fleet,      \* telemetry.Agents: [known, group, enroll, applied] of each agent
    rules,      \* policy.sigmaRules, whitelistKeys, taintSourceKeys
    hist,       \* policy.history by version; the entry of cur is policy.current
    cur,        \* policy.current.Version
    next,       \* policy.nextVersion
    db,         \* the state file
    tmp,        \* the temporary file next to it
    req,        \* per handler: the request it serves
    calls, crashes,
    mixed,      \* history: the save that renamed the state file into place overlapped another
    returned    \* history: the versions whose publish or rollback call saved its state and
                \* returned, with no older snapshot waiting when it opened the file

policyVars == <<rules, hist, cur, next>>
fileVars == <<db, tmp, mixed, returned>>
serverVars == <<fleet, policyVars, db, tmp, req, calls, crashes, mixed, returned>>

MaxVersion == MaxCalls + 1

Enrollment == {"pending", "approved", "quarantined", "revoked"}

InitialFleet == [a \in Agent |-> [known |-> FALSE, group |-> "", enroll |-> "pending", applied |-> 0]]

\* the initial policy of NewServer, and the bundle ensureCurrentPolicyBundle
\* writes for it; the bundle of a revision stands for what its BundlePath holds:
\* the rules, and the version it was written for
InitialRevision ==
    [rules |-> EmptyRules, bundle |-> [rules |-> EmptyRules, of |-> 1], scope |-> "", targets |-> 0, acked |-> 0,
     status |-> "local_applied"]

Idle == [pc |-> "idle"]

\* What a file may hold: json.Unmarshal decodes only a whole state.
Absent == [kind |-> "absent"]
Empty == [kind |-> "empty"]
Torn == [kind |-> "torn"]
Whole(s) == [kind |-> "whole", state |-> s]

\* NewServer on an empty backend: loadState finds nothing and
\* ensureCurrentPolicyBundle saves the initial policy
ServerInit ==
    /\ fleet = InitialFleet
    /\ rules = EmptyRules
    /\ hist = [v \in {1} |-> InitialRevision]
    /\ cur = 1
    /\ next = 2
    /\ db = Whole([fleet |-> InitialFleet, rules |-> EmptyRules, hist |-> hist,
                   cur |-> 1, next |-> 2])
    /\ tmp = Absent
    /\ req = [h \in Handler |-> Idle]
    /\ calls = 0
    /\ crashes = 0
    /\ mixed = FALSE
    /\ returned = <<>>

Enters(h, r) == req' = [req EXCEPT ![h] = r]

\* the control plane is up; the daemon gives up when loadState fails
Running == \A h \in Handler : req[h].pc # "down"

\* a request arrives
Call(h) ==
    /\ req[h].pc = "idle"
    /\ calls < MaxCalls
    /\ calls' = calls + 1

(***************************************************************************)
(* UpdatePolicy: Sigma rules, whitelist and taint sources; refreshes the   *)
(* draft and saves nothing.                                                *)
(***************************************************************************)
UpdatePolicy(R) ==
    /\ Running
    /\ rules' = R
    /\ UNCHANGED <<fleet, hist, cur, next, req, calls, crashes, fileVars>>

(***************************************************************************)
(* PublishPolicyFor and RollbackPolicyFor.                                 *)
(***************************************************************************)

\* the agents a filter selects: no group means all of them, revoked ones excepted
Selected(scope) ==
    {a \in Agent : /\ fleet[a].known
                   /\ fleet[a].enroll # "revoked"
                   /\ scope # "" => fleet[a].group = scope}

\* from: the version to roll back to, or 0 to publish the working rules
BeginPolicy(h, scope, from) ==
    /\ Call(h)
    /\ Enters(h, [pc |-> "commit", scope |-> scope, from |-> from, 
                  targets |-> Cardinality(Selected(scope))])
    /\ UNCHANGED <<fleet, policyVars, crashes, fileVars>>

\* old: the revision whose copy the new one starts from
NewRevision(h, R, queued, written, old) ==
    [rules |-> R, bundle |-> IF written THEN [rules |-> R, of |-> next] ELSE old.bundle, scope |-> req[h].scope,
     targets |-> req[h].targets, acked |-> 0,
     status |-> IF req[h].targets = 0 THEN "local_applied" ELSE queued]

AppendRevision(h, R, queued, written, old) ==
    /\ hist' = [v \in DOMAIN hist \cup {next} |->
                  IF v = next THEN NewRevision(h, R, queued, written, old) ELSE hist[v]]
    /\ cur' = next
    /\ next' = next + 1
    /\ Enters(h, [pc |-> "saveFleet", done |-> next, answer |-> {}])

\* under policy.mu; a failing writePolicyBundle is logged, and the revision
\* keeps the bundle of the current one, of which it is a copy
CommitPublish(h, written) ==
    /\ req[h].pc = "commit" /\ req[h].from = 0
    /\ AppendRevision(h, rules, "queued", written, hist[cur])
    /\ UNCHANGED <<fleet, rules, calls, crashes, fileVars>>

\* under policy.mu: the version is not in the history
RollbackUnknown(h) ==
    /\ req[h].pc = "commit" /\ req[h].from # 0 /\ req[h].from \notin DOMAIN hist
    /\ Enters(h, Idle)
    /\ UNCHANGED <<fleet, policyVars, calls, crashes, fileVars>>

\* readPolicyBundleLocked and applyPolicyBundleLocked bring the bundle's rules
\* back; when it is not readable the working rules are published instead
CommitRollback(h, readable, written) ==
    LET old == hist[req[h].from]
        R == IF readable THEN old.bundle.rules ELSE rules
    IN
    /\ req[h].pc = "commit" /\ req[h].from \in DOMAIN hist
    /\ rules' = R
    /\ AppendRevision(h, R, "rollback_queued", written, old)
    /\ UNCHANGED <<fleet, calls, crashes, fileVars>>

(***************************************************************************)
(* SetAgentEnrollment and UpsertAgentMetadata.                             *)
(***************************************************************************)
Edit(h, a, snapshot) ==
    /\ Call(h)
    /\ fleet' = [fleet EXCEPT ![a] = snapshot]
    /\ Enters(h, [pc |-> "saveFleet", done |-> 0, answer |-> {}])
    /\ UNCHANGED <<policyVars, crashes, fileVars>>

SetAgentEnrollment(h, a, status) == Edit(h, a, [fleet[a] EXCEPT !.known = TRUE, !.enroll = status])

UpsertAgentMetadata(h, a, group) == Edit(h, a, [fleet[a] EXCEPT !.known = TRUE, !.group = group])

(***************************************************************************)
(* ReportEvents at the end of an agent's stream.                           *)
(***************************************************************************)

\* agentEnrollment: a revoked agent is answered and nothing else happens;
\* v is the version that the summary names as applied
BeginReport(h, a, v) ==
    /\ req[h].pc = "idle"
    /\ fleet[a].enroll # "revoked"
    /\ Enters(h, [pc |-> "update", agent |-> a, applied |-> v, enroll |-> fleet[a].enroll])
    /\ UNCHANGED <<fleet, policyVars, calls, crashes, fileVars>>

\* the new snapshot of the agent, under telemetry.mu; the enrollment is kept
KeepEnrollmentChecked(h, a) == req[h].enroll    \* mutant: the status read before the lock

KeepEnrollment(h, a) == fleet[a].enroll

UpdateFleet(h) ==
    LET a == req[h].agent IN
    /\ req[h].pc = "update"
    /\ fleet' = [fleet EXCEPT ![a] = [known |-> TRUE, group |-> fleet[a].group,
                                      enroll |-> KeepEnrollment(h, a),
                                      applied |-> req[h].applied]]
    /\ Enters(h, [pc |-> "refreshTarget", agent |-> a])
    /\ UNCHANGED <<policyVars, calls, crashes, fileVars>>

\* refreshPolicyDeploymentFromAgents reads the target under policy.mu ...
RefreshTarget(h) ==
    /\ req[h].pc = "refreshTarget"
    /\ Enters(h, [pc |-> "refreshAgents", agent |-> req[h].agent, scope |-> hist[cur].scope, version |-> cur])
    /\ UNCHANGED <<fleet, policyVars, calls, crashes, fileVars>>

\* ... collects the applied versions under telemetry.mu ...
RefreshAgents(h) ==
    /\ req[h].pc = "refreshAgents"
    /\ Enters(h, [pc |-> "refresh", agent |-> req[h].agent, version |-> req[h].version,
                  applied |-> [a \in Selected(req[h].scope) |-> fleet[a].applied]])
    /\ UNCHANGED <<fleet, policyVars, calls, crashes, fileVars>>

\* ... and counts the acknowledgements of the policy that is current by then
AckedVersion(h) == cur

Acked(h) ==
    LET n == Cardinality({a \in DOMAIN req[h].applied : req[h].applied[a] >= AckedVersion(h)}) IN
    IF n > hist[cur].targets THEN hist[cur].targets ELSE n

\* the status of the current revision once n agents have acknowledged it
StatusFor(n) ==
    IF n = hist[cur].targets THEN "applied"
    ELSE IF hist[cur].status = "applied" THEN "queued"
    ELSE hist[cur].status

Refresh(h) ==
    /\ req[h].pc = "refresh"
    /\ hist' = IF hist[cur].targets = 0 THEN hist
               ELSE [hist EXCEPT ![cur].acked = Acked(h), ![cur].status = StatusFor(Acked(h))]
    /\ Enters(h, [pc |-> "saveFleet", done |-> 0, answer |-> {req[h].agent}])
    /\ UNCHANGED <<fleet, rules, cur, next, calls, crashes, fileVars>>

(***************************************************************************)
(* saveState.                                                              *)
(***************************************************************************)

\* the snapshot of the fleet, under telemetry.mu
SaveFleet(h) ==
    /\ req[h].pc = "saveFleet"
    /\ Enters(h, [pc |-> "savePolicy", done |-> req[h].done, answer |-> req[h].answer,
                  fleet |-> fleet])
    /\ UNCHANGED <<fleet, policyVars, calls, crashes, fileVars>>

\* the snapshot of the policy, under policy.mu
SavePolicyFirst(h) ==                       \* mutant: of the history only the first revision is saved
    /\ req[h].pc = "savePolicy"
    /\ Enters(h, [pc |-> "write", done |-> req[h].done, answer |-> req[h].answer,
                  state |-> [fleet |-> req[h].fleet, rules |-> rules, hist |-> [v \in {1} |-> hist[v]],
                             cur |-> 1, next |-> 2]])
    /\ UNCHANGED <<fleet, policyVars, calls, crashes, fileVars>>

SavePolicy(h) ==
    /\ req[h].pc = "savePolicy"
    /\ Enters(h, [pc |-> "write", done |-> req[h].done, answer |-> req[h].answer,
                  state |-> [fleet |-> req[h].fleet, rules |-> rules, hist |-> hist, cur |-> cur,
                             next |-> next]])
    /\ UNCHANGED <<fleet, policyVars, calls, crashes, fileVars>>

(***************************************************************************)
(* savePersistedControlPlaneState on a file.  All requests use the same    *)
(* temporary file, so that one truncates, overwrites, renames or removes   *)
(* what another has opened; an error is logged by the caller.              *)
(***************************************************************************)

\* another request holds a snapshot in which version v is missing
OlderWaits(h, v) ==
    \E g \in Handler \ {h} : req[g].pc \in {"write", "data"} /\ v \notin DOMAIN req[g].state.hist

\* the requests between the opening of the temporary file and its renaming
Open == {g \in Handler : req[g].pc \in {"data", "rename"}}

\* a report is answered, any other call returns
Saved(h) == IF req[h].answer = {} THEN Idle ELSE [pc |-> "ack", answer |-> req[h].answer]

\* The temporary file is created, or truncated.  The descriptor follows its
\* file; alone is history: no other save is under way.
Opened(h, file) ==
    [g \in Handler |->
        IF g = h
          THEN [pc |-> "data", done |-> req[h].done, answer |-> req[h].answer, state |-> req[h].state,
                file |-> file, older |-> OlderWaits(h, req[h].done), alone |-> Open = {}]
          ELSE IF g \in Open THEN [req[g] EXCEPT !.alone = FALSE] ELSE req[g]]

WriteOpenInPlace(h) ==                      \* mutant: the state file itself is opened
    /\ req[h].pc = "write"
    /\ db' = Empty
    /\ req' = Opened(h, "db")
    /\ UNCHANGED <<fleet, policyVars, calls, crashes, tmp, mixed, returned>>

WriteOpen(h) ==
    /\ req[h].pc = "write"
    /\ tmp' = Empty
    /\ req' = Opened(h, "tmp")
    /\ UNCHANGED <<fleet, policyVars, calls, crashes, db, mixed, returned>>

OpenFails(h) ==
    /\ req[h].pc = "write"
    /\ Enters(h, Saved(h))
    /\ UNCHANGED <<fleet, policyVars, calls, crashes, fileVars>>

\* The file c once s has been written from its start: the end of a longer
\* state may remain behind it.
Overwritten(c, s) == IF c.kind = "empty" THEN {Whole(s)} ELSE {Whole(s), Torn}

\* The snapshot is written to the file that was opened, wherever that is now
Writes(h, outcomes) ==
    /\ req[h].pc = "data"
    /\ IF req[h].file = "tmp" THEN tmp' \in outcomes ELSE tmp' = tmp
    /\ IF req[h].file = "db" THEN db' \in outcomes ELSE db' = db

Target(h) == IF req[h].file = "tmp" THEN tmp ELSE db

WriteData(h) ==
    /\ Writes(h, Overwritten(Target(h), req[h].state))
    /\ Enters(h, [pc |-> "rename", done |-> req[h].done, answer |-> req[h].answer,
                  older |-> req[h].older, alone |-> req[h].alone])
    /\ UNCHANGED <<fleet, policyVars, calls, crashes, mixed, returned>>

\* WriteFile fails after nothing, some or all of it was written.  What is left
\* in the temporary file when no other request has opened it is one case: the
\* next save truncates it.
Remains(h) ==
    IF Open = {h} /\ req[h].file = "tmp" THEN {Torn}
    ELSE Overwritten(Target(h), req[h].state) \cup {Target(h), Torn}

WriteFails(h) ==
    /\ Writes(h, Remains(h))
    /\ Enters(h, Saved(h))
    /\ UNCHANGED <<fleet, policyVars, calls, crashes, mixed, returned>>

\* the save of h ends, and the files that others have opened go elsewhere
Moved(h, to) ==
    [g \in Handler |->
        IF g = h THEN Saved(h)
        ELSE IF req[g].pc = "data" THEN [req[g] EXCEPT !.file = to[@]] ELSE req[g]]

\* Whatever is the temporary file by now replaces the state file
Rename(h) ==
    /\ req[h].pc = "rename"
    /\ tmp.kind # "absent"
    /\ db' = tmp
    /\ tmp' = Absent
    /\ mixed' = ~req[h].alone
    /\ returned' = IF req[h].done = 0 \/ req[h].older THEN returned
                   ELSE [v \in DOMAIN returned \cup {req[h].done} |->
                           IF v = req[h].done THEN hist[v].rules ELSE returned[v]]
    /\ req' = Moved(h, [tmp |-> "db", db |-> "gone", gone |-> "gone"])
    /\ UNCHANGED <<fleet, policyVars, calls, crashes>>

\* as it does when the temporary file is not there any more
RenameFails(h) ==
    /\ req[h].pc = "rename"
    /\ Enters(h, [pc |-> "remove", answer |-> req[h].answer])
    /\ UNCHANGED <<fleet, policyVars, calls, crashes, fileVars>>

Remove(h) ==
    /\ req[h].pc = "remove"
    /\ tmp' = Absent
    /\ req' = Moved(h, [tmp |-> "gone", db |-> "db", gone |-> "gone"])
    /\ UNCHANGED <<fleet, policyVars, calls, crashes, db, mixed, returned>>

(***************************************************************************)
(* policyAckMessageForAgent: what the agent is told in the end.            *)
(***************************************************************************)

\* a quarantined agent is not told the version
AckEnrollment(h) ==
    /\ req[h].pc = "ack"
    /\ Enters(h, IF \E a \in req[h].answer : fleet[a].enroll = "quarantined"
                   THEN Idle
                   ELSE [pc |-> "ackVersion", answer |-> req[h].answer])
    /\ UNCHANGED <<fleet, policyVars, calls, crashes, fileVars>>

\* the current revision, under policy.mu
AckCurrent(h) ==
    /\ req[h].pc = "ackVersion"
    /\ Enters(h, [pc |-> "ackTarget", answer |-> req[h].answer, version |-> cur,
                  scope |-> hist[cur].scope])
    /\ UNCHANGED <<fleet, policyVars, calls, crashes, fileVars>>

\* agentMatchesPolicyTarget
Told(h, a) == a \in req[h].answer /\ (req[h].scope # "" => fleet[a].group = req[h].scope)

AckTarget(h) ==
    /\ req[h].pc = "ackTarget"
    /\ Enters(h, Idle)
    /\ UNCHANGED <<fleet, policyVars, calls, crashes, fileVars>>

\* The server dies and starts again: loadState
Restart ==
    /\ Running /\ crashes < MaxCrashes
    /\ db.kind = "whole"
    /\ crashes' = crashes + 1
    /\ fleet' = db.state.fleet
    /\ rules' = db.state.rules
    /\ hist' = db.state.hist
    /\ cur' = db.state.cur
    /\ next' = db.state.next
    /\ req' = [h \in Handler |-> Idle]
    /\ UNCHANGED <<calls, fileVars>>

\* The server dies, and the daemon does not start again: the state file cannot
\* be decoded
StayDown ==
    /\ Running /\ crashes < MaxCrashes
    /\ db.kind # "whole"
    /\ crashes' = crashes + 1
    /\ req' = [h \in Handler |-> [pc |-> "down"]]
    /\ UNCHANGED <<fleet, policyVars, calls, fileVars>>

\* a step of a request in service, other than the answer to a report
Serve(h) ==
    \/ \E written \in BOOLEAN :
        \/ CommitPublish(h, written)
        \/ \E readable \in BOOLEAN : CommitRollback(h, readable, written)
    \/ RollbackUnknown(h)
    \/ UpdateFleet(h) \/ RefreshTarget(h) \/ RefreshAgents(h) \/ Refresh(h)
    \/ SaveFleet(h) \/ SavePolicy(h) \/ WriteOpen(h) \/ OpenFails(h) \/ WriteData(h) \/ WriteFails(h)
    \/ Rename(h) \/ RenameFails(h) \/ Remove(h)
    \/ AckEnrollment(h) \/ AckCurrent(h)

\* the requests of operators
Operate(h) ==
    \/ \E scope \in Groups \cup {""}, from \in 0 .. MaxVersion : BeginPolicy(h, scope, from)
    \/ \E a \in Agent :
        \/ \E status \in Statuses : SetAgentEnrollment(h, a, status)
        \/ \E g \in Groups : UpsertAgentMetadata(h, a, g)

\* requests in service are interchangeable
Symmetry == Permutations(Handler)

(***************************************************************************)
(* Properties.                                                             *)
(***************************************************************************)
Revision ==
    [rules : Rules, bundle : [rules : Rules, of : 1 .. MaxVersion], scope : Groups \cup {""}, targets : 0 .. Cardinality(Agent),
     acked : 0 .. Cardinality(Agent),
     status : {"local_applied", "queued", "rollback_queued", "applied"}]

\* The shape of the fleet and of the policy history, and its numbering: the
\* current version is the last of the history.
TypeOK ==
    /\ fleet \in [Agent -> [known : BOOLEAN, group : Groups \cup {""}, enroll : Enrollment,
                         applied : 0 .. MaxVersion]]
    /\ rules \in Rules
    /\ hist \in [1 .. cur -> Revision]
    /\ next = cur + 1
    /\ cur \in 1 .. MaxVersion

\* A telemetry report never undoes a change of enrollment that was made while
\* the report was being served: only SetAgentEnrollment (or a restart) changes
\* the status of an agent.
ReportsKeepEnrollment ==
    [][\A h \in Handler : req[h].pc = "update" /\ req'[h].pc = "refreshTarget"
          => \A a \in Agent : fleet'[a].enroll = fleet[a].enroll]_serverVars

\* Policy history survives restarts: a version whose publish or rollback call
\* saved its state and returned is in the history with its rules and in every
\* state file that can be loaded, also after a crash and whatever is saved
\* later or at the same time.  The one exception is a request that held an older
\* snapshot when the call opened the file: saveState writes without a lock, so
\* that snapshot may replace the newer one.
ReturnedVersionsSurvive ==
    \A v \in DOMAIN returned :
        /\ v \in DOMAIN hist /\ hist[v].rules = returned[v]
        /\ db.kind = "whole" => v \in DOMAIN db.state.hist

\* The state file can be loaded, whatever fails and whenever the server dies,
\* unless the save that put it in place overlapped another: then it may be
\* empty, or one state with the end of another, and the daemon does not start
\* from it.  The next save that is alone repairs it.
StateFileIsWhole == ~mixed => db.kind = "whole"
=============================================================================
