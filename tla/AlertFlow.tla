------------------------------ MODULE AlertFlow ------------------------------
(***************************************************************************)
(* The alert workflow manager (pkg/alertflow/manager.go): it folds the     *)
(* findings of the analyzer into records, decides whether a finding is     *)
(* notified, and applies the actions of operators.  A record is filed      *)
(* under the id of its finding, which the daemon sets to the node id, and  *)
(* is looked up by a deduplication key, which names the pattern and the    *)
(* headline and not the node.  Every operation runs under m.mu, so each is *)
(* one action.  AlertPath joins them with the analyzer and the streams.    *)
(***************************************************************************)
EXTENDS Integers, Sequences

CONSTANTS
    Finding,        \* what the analyzer reports: [node, pattern, headline]
    DedupWindow,    \* dedupWindow, in ticks of the clock
    MaxAlerts,      \* maxAlerts
    SilenceTime     \* the durations operators silence an alert for

\* m.maxAlerts is an int; time.ParseDuration accepts negative durations too
ASSUME FlowAssumption == MaxAlerts \in Nat /\ DedupWindow \in Int /\ SilenceTime \subseteq Int

VARIABLES
    alerts,         \* m.alerts: record by id, for the ids that are filed
    byDedupKey,     \* m.byDedupKey: id by key
    order,          \* m.order: ids, oldest first
    silenced,       \* history: until when operators silenced the record of a key
    displaced       \* history: keys whose record was replaced or trimmed

flowVars == <<alerts, byDedupKey, order, silenced, displaced>>

Node == {f.node : f \in Finding}
DedupKey(f) == [pattern |-> f.pattern, headline |-> f.headline]
Key == {DedupKey(f) : f \in Finding}
Status == {"open", "assigned", "suppressed", "closed"}

FlowInit ==
    /\ alerts = [i \in {} |-> {}]
    /\ byDedupKey = [k \in {} |-> {}]
    /\ order = <<>>
    /\ silenced = [k \in Key |-> 0]
    /\ displaced = {}

\* statusFor: a running silence, then the assignee, decide
StatusFor(item, t) ==
    IF item.silenceUntil > t THEN "suppressed"
    ELSE IF item.assigned THEN "assigned" ELSE "open"

(***************************************************************************)
(* Ingest of a finding that was detected at time t.                        *)
(***************************************************************************)

\* the key is indexed and the record it names is still filed
IsKnown(f) == DedupKey(f) \in DOMAIN byDedupKey /\ byDedupKey[DedupKey(f)] \in DOMAIN alerts

\* shouldNotify, for a known key; a new record is always notified
DeliversUnlessStatus(f, t) ==               \* mutant: the silence counts only while the status shows it
    IsKnown(f) =>
        LET item == alerts[byDedupKey[DedupKey(f)]]
        IN  item.status # "suppressed" /\ t - item.lastNotifiedAt >= DedupWindow

Delivers(f, t) ==
    IsKnown(f) =>
        LET item == alerts[byDedupKey[DedupKey(f)]]
        IN  StatusFor(item, t) # "suppressed" /\ t - item.lastNotifiedAt >= DedupWindow

\* the key of the record that Ingest returns, which is what is notified
Reported(f) == IF IsKnown(f) THEN alerts[byDedupKey[DedupKey(f)]].key ELSE DedupKey(f)

\* A record of the key exists: a closed one is opened again and shouldNotify
\* refreshes the others, so the status is the one StatusFor gives.
IngestKnown(f, t) ==
    /\ IsKnown(f)
    /\ LET id == byDedupKey[DedupKey(f)]
       IN  alerts' = [alerts EXCEPT ![id].status = StatusFor(alerts[id], t),
                                    ![id].lastNotifiedAt = IF Delivers(f, t) THEN t ELSE @]
    /\ UNCHANGED <<byDedupKey, order, silenced, displaced>>

\* the record of a finding whose key has none
NewRecordInPlace(f, t) ==                   \* mutant: the record of the same id is updated
    IF f.node \in DOMAIN alerts THEN [alerts[f.node] EXCEPT !.status = "open", !.lastNotifiedAt = t]
    ELSE [key |-> DedupKey(f), status |-> "open", assigned |-> FALSE, silenceUntil |-> 0,
          lastNotifiedAt |-> t]

NewRecord(f, t) ==
    [key |-> DedupKey(f), status |-> "open", assigned |-> FALSE, silenceUntil |-> 0,
     lastNotifiedAt |-> t]

\* the index once the record is filed
IndexedOnce(f) ==                           \* mutant: an id that is filed is not indexed again
    IF f.node \in DOMAIN alerts THEN byDedupKey
    ELSE [k \in DOMAIN byDedupKey \cup {DedupKey(f)} |->
            IF k = DedupKey(f) THEN f.node ELSE byDedupKey[k]]

Indexed(f) ==
    [k \in DOMAIN byDedupKey \cup {DedupKey(f)} |->
       IF k = DedupKey(f) THEN f.node ELSE byDedupKey[k]]

\* The record is filed under the id of the finding (stableID), over whatever
\* is filed there, and trimLocked drops the oldest ids that are too many.
IngestNew(f, t) ==
    LET id == f.node
        filed == [i \in DOMAIN alerts \cup {id} |-> IF i = id THEN NewRecord(f, t) ELSE alerts[i]]
        listed == Append(order, id)
        excess == IF Len(listed) > MaxAlerts THEN Len(listed) - MaxAlerts ELSE 0
        trimmed == {listed[i] : i \in 1 .. excess}
        unlisted == {filed[i].key : i \in trimmed \cap DOMAIN filed}
    IN  /\ ~IsKnown(f)
        /\ alerts' = [i \in DOMAIN filed \ trimmed |-> filed[i]]
        /\ byDedupKey' = [k \in DOMAIN Indexed(f) \ unlisted |-> Indexed(f)[k]]
        /\ order' = SubSeq(listed, 1 + excess, Len(listed))
        /\ displaced' = displaced \cup unlisted \cup {alerts[i].key : i \in {id} \cap DOMAIN alerts}
        /\ UNCHANGED silenced

Ingest(f, t) == IngestKnown(f, t) \/ IngestNew(f, t)

(***************************************************************************)
(* Update, at time t by the clock of the daemon.                           *)
(***************************************************************************)
Assign(id, to, t) ==
    /\ LET item == [alerts[id] EXCEPT !.assigned = to]
       IN  alerts' = [alerts EXCEPT ![id] = [item EXCEPT !.status = StatusFor(item, t)]]
    /\ UNCHANGED <<byDedupKey, order, silenced, displaced>>

Silence(id, duration, t) ==
    /\ alerts' = [alerts EXCEPT ![id].silenceUntil = t + duration, ![id].status = "suppressed"]
    /\ silenced' = [silenced EXCEPT ![alerts[id].key] = t + duration]
    /\ displaced' = displaced \ {alerts[id].key}
    /\ UNCHANGED <<byDedupKey, order>>

Unsilence(id, t) ==
    /\ LET item == [alerts[id] EXCEPT !.silenceUntil = 0]
       IN  alerts' = [alerts EXCEPT ![id] = [item EXCEPT !.status = StatusFor(item, t)]]
    /\ silenced' = [silenced EXCEPT ![alerts[id].key] = 0]
    /\ UNCHANGED <<byDedupKey, order, displaced>>

Close(id) ==
    /\ alerts' = [alerts EXCEPT ![id].status = "closed"]
    /\ UNCHANGED <<byDedupKey, order, silenced, displaced>>

Reopen(id, t) ==
    /\ alerts' = [alerts EXCEPT ![id].status = StatusFor(alerts[id], t)]
    /\ UNCHANGED <<byDedupKey, order, silenced, displaced>>

Update(id, t) ==
    \/ \E to \in BOOLEAN : Assign(id, to, t)
    \/ \E duration \in SilenceTime : Silence(id, duration, t)
    \/ Unsilence(id, t)
    \/ Close(id)
    \/ Reopen(id, t)

\* Snapshot refreshes the status of every record that is not closed
Snapshot(t) ==
    /\ alerts' = [i \in DOMAIN alerts |->
                    IF alerts[i].status = "closed" THEN alerts[i]
                    ELSE [alerts[i] EXCEPT !.status = StatusFor(alerts[i], t)]]
    /\ UNCHANGED <<byDedupKey, order, silenced, displaced>>
=============================================================================
