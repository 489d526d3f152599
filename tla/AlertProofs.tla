------------------------------ MODULE AlertProofs -----------------------------
(***************************************************************************)
(* Proofs about AlertPath, for any findings, limits and durations, and     *)
(* about NotifyDelivery, for any notifiers, attempts and operators.        *)
(*                                                                         *)
(* What the workflow manager promises rests on one fact about its two      *)
(* maps: the record of a key is found under that key as long as the        *)
(* manager has not displaced it, and everything else in the index belongs  *)
(* to a key whose record was displaced.  Neither half is preserved by      *)
(* itself when an id is filed again: that the new key is not that of a     *)
(* record filed under another id follows from the first half, and that a   *)
(* key left behind by a trimmed record was displaced is the second.        *)
(*                                                                         *)
(* That a notification arrives at most once, unless something excuses a    *)
(* second copy, rests on following one delivery through Send, its dead     *)
(* letter and the replays: it has one letter and one replay at a time, of  *)
(* that letter; it is not tried after it has arrived; a letter that was    *)
(* delivered is about to be cleared; and what Send has still to do was     *)
(* never sent, filed or replayed.                                          *)
(***************************************************************************)
EXTENDS AlertPath, NotifyDelivery, FiniteSetTheorems, SequenceTheorems, WellFoundedInduction, TLAPS

\* The types that TypeOK leaves open.  A finding waits in AlertCh with the time
\* of its detection, which is not later than the clock.
MoreTypes ==
    /\ now \in Nat
    /\ alertCh \in Seq([n : Nat, finding : Finding, at : Nat])
    /\ \A i \in DOMAIN alertCh : alertCh[i].at <= now
    /\ emitted \in Nat
    /\ silenced \in [Key -> Int]
    /\ IsFiniteSet(subs)

\* the index leads from k to the record of k
HasOwnRecord(k) ==
    k \in DOMAIN byDedupKey /\ byDedupKey[k] \in DOMAIN alerts /\ alerts[byDedupKey[k]].key = k

\* An index entry that does not lead to the record of its key, because there is
\* another record or none, is the entry of a displaced key.
IndexOwnOrDisplaced == \A k \in DOMAIN byDedupKey : HasOwnRecord(k) \/ k \in displaced

\* A silence that an operator set is in the record of the key.
SilenceIsRecorded == \A k \in Key : silenced[k] > 0 /\ k \notin displaced =>
    HasOwnRecord(k) /\ alerts[byDedupKey[k]].silenceUntil = silenced[k]

Inv ==
    /\ TypeOK /\ MoreTypes
    /\ RecordsStayFindable /\ IndexOwnOrDisplaced /\ SilenceIsRecorded

\* The part of TypeOK that the operations of the manager can disturb.
Record(t) ==
    [key : Key, status : Status, assigned : BOOLEAN, silenceUntil : Int, lastNotifiedAt : 0 .. t]

Filed ==
    /\ DOMAIN alerts \subseteq Node
    /\ \A i \in DOMAIN alerts : alerts[i] \in Record(now)
    /\ DOMAIN byDedupKey \subseteq Key
    /\ \A k \in DOMAIN byDedupKey : byDedupKey[k] \in Node
    /\ order \in Seq(Node) /\ Len(order) <= MaxAlerts
    /\ \A i \in DOMAIN alerts : \E j \in DOMAIN order : order[j] = i
    /\ silenced \in [Key -> Int]

FlowInv == Filed /\ RecordsStayFindable /\ IndexOwnOrDisplaced /\ SilenceIsRecorded

PathInv ==
    /\ now \in Nat /\ emitted \in Nat
    /\ alertCh \in Seq([n : Nat, finding : Finding, at : Nat])
    /\ \A i \in DOMAIN alertCh : alertCh[i].at <= now
    /\ subs \subseteq watching /\ Cardinality(subs) <= MaxSubs /\ IsFiniteSet(subs)

-----------------------------------------------------------------------------

\* The invariant is about the manager and about what surrounds it.
LEMMA InvSplits == Inv <=> FlowInv /\ PathInv
  BY DEF Inv, FlowInv, PathInv, Filed, Record, TypeOK, MoreTypes

\* The manager starts empty, and so does the channel.
LEMMA AlertInit == Init => Inv
  <1> SUFFICES ASSUME Init PROVE FlowInv /\ PathInv
      BY InvSplits
  <1> USE DEF Init, FlowInit
  <1>1. DOMAIN alerts = {} /\ DOMAIN byDedupKey = {} /\ order = <<>>
      OBVIOUS
  <1>2. silenced \in [Key -> Int]
      OBVIOUS
  <1>3. Filed
      BY <1>1, <1>2, FlowAssumption DEF Filed
  <1>4. RecordsStayFindable /\ IndexOwnOrDisplaced
      BY <1>1 DEF RecordsStayFindable, IndexOwnOrDisplaced
  <1>5. SilenceIsRecorded
    <2>1. \A k \in Key : ~(silenced[k] > 0)
        OBVIOUS
    <2> QED  BY <2>1 DEF SilenceIsRecorded
  <1>6. PathInv
      BY FS_EmptySet, SubsAssumption DEF PathInv
  <1> QED  BY <1>3, <1>4, <1>5, <1>6 DEF FlowInv

\* A step that leaves the manager alone keeps its invariant while time goes on.
LEMMA FlowUnchanged ==
    ASSUME FlowInv, now \in Nat, now' \in Nat, now <= now', UNCHANGED flowVars
    PROVE  FlowInv'
  <1>1. \A i \in DOMAIN alerts : alerts[i] \in Record(now')
      BY DEF FlowInv, Filed, Record
  <1>2. Filed'
      BY <1>1 DEF FlowInv, Filed, flowVars, Record
  <1> QED
      BY <1>2 DEF FlowInv, flowVars, RecordsStayFindable, IndexOwnOrDisplaced, SilenceIsRecorded,
                  HasOwnRecord

\* The updates that change neither a key nor a silence of a record keep the
\* invariant: assigning, closing and reopening, a repeated finding, a snapshot.
LEMMA FlowRefreshed ==
    ASSUME FlowInv, UNCHANGED <<byDedupKey, order, silenced, displaced, now>>,
           DOMAIN alerts' = DOMAIN alerts,
           \A i \in DOMAIN alerts : /\ alerts'[i] \in Record(now)
                                    /\ alerts'[i].key = alerts[i].key
                                    /\ alerts'[i].silenceUntil = alerts[i].silenceUntil
    PROVE  FlowInv'
  <1>1. Filed'
      BY DEF FlowInv, Filed, Record
  <1>2. RecordsStayFindable'
      BY DEF FlowInv, RecordsStayFindable
  <1>3. \A k : HasOwnRecord(k) => HasOwnRecord(k)'
      BY DEF HasOwnRecord
  <1>4. IndexOwnOrDisplaced'
      BY <1>3 DEF FlowInv, IndexOwnOrDisplaced
  <1>5. SilenceIsRecorded'
      BY <1>3 DEF FlowInv, SilenceIsRecorded, HasOwnRecord
  <1> QED  BY <1>1, <1>2, <1>4, <1>5 DEF FlowInv

\* statusFor gives a status.
LEMMA StatusForType == \A item, t : StatusFor(item, t) \in Status
  BY DEF StatusFor, Status

\* A repeated finding updates the record of its key.
LEMMA IngestKnownStep ==
    ASSUME FlowInv, now \in Nat, NEW f \in Finding, NEW t \in 0 .. now,
           IngestKnown(f, t), UNCHANGED now
    PROVE  FlowInv'
  <1> DEFINE id == byDedupKey[DedupKey(f)]
             last == IF Delivers(f, t) THEN t ELSE alerts[id].lastNotifiedAt
  <1>1. id \in DOMAIN alerts
      BY DEF IngestKnown, IsKnown
  <1>2. alerts' = [alerts EXCEPT ![id].status = StatusFor(alerts[id], t),
                                 ![id].lastNotifiedAt = last]
      BY DEF IngestKnown
  <1>3. \A i \in DOMAIN alerts : alerts[i] \in Record(now)
      BY DEF FlowInv, Filed
  <1>4. StatusFor(alerts[id], t) \in Status
      BY StatusForType
  <1>5. last \in 0 .. now
      BY <1>1, <1>3 DEF Record
  <1> HIDE DEF id, last
  <1>6. DOMAIN alerts' = DOMAIN alerts
      BY <1>2
  <1>7. ASSUME NEW i \in DOMAIN alerts
        PROVE  /\ alerts'[i] \in Record(now)
               /\ alerts'[i].key = alerts[i].key
               /\ alerts'[i].silenceUntil = alerts[i].silenceUntil
      BY <1>2, <1>3, <1>4, <1>5 DEF Record
  <1> QED  BY <1>6, <1>7, FlowRefreshed DEF IngestKnown

\* An assignment, a closing or a reopening changes one record.
LEMMA OneRefreshed ==
    ASSUME FlowInv, NEW id \in DOMAIN alerts, NEW to \in BOOLEAN, NEW status \in Status,
           alerts' = [alerts EXCEPT ![id] = [alerts[id] EXCEPT !.assigned = to, !.status = status]],
           UNCHANGED <<byDedupKey, order, silenced, displaced, now>>
    PROVE  FlowInv'
  <1>1. \A i \in DOMAIN alerts : alerts[i] \in Record(now)
      BY DEF FlowInv, Filed
  <1>2. DOMAIN alerts' = DOMAIN alerts
      OBVIOUS
  <1>3. ASSUME NEW i \in DOMAIN alerts
        PROVE  /\ alerts'[i] \in Record(now)
               /\ alerts'[i].key = alerts[i].key
               /\ alerts'[i].silenceUntil = alerts[i].silenceUntil
      BY <1>1 DEF Record
  <1> QED  BY <1>2, <1>3, FlowRefreshed

\* Silence and unsilence change the silence of one record, and with it what is
\* known of the key of that record and of no other.
LEMMA SilenceChanged ==
    ASSUME FlowInv, NEW id \in DOMAIN alerts, NEW until \in Int, NEW status \in Status,
           alerts' = [alerts EXCEPT ![id] = [alerts[id] EXCEPT !.silenceUntil = until, !.status = status]],
           silenced' = [silenced EXCEPT ![alerts[id].key] = until],
           displaced' \in {displaced, displaced \ {alerts[id].key}},
           UNCHANGED <<byDedupKey, order, now>>
    PROVE  FlowInv'
  <1> DEFINE key == alerts[id].key
  <1>1. \A i \in DOMAIN alerts : alerts[i] \in Record(now)
      BY DEF FlowInv, Filed
  <1>2. key \in Key /\ key \in DOMAIN byDedupKey /\ byDedupKey[key] = id
      BY <1>1 DEF FlowInv, RecordsStayFindable, Record
  <1>3. DOMAIN alerts' = DOMAIN alerts
      OBVIOUS
  <1>4. ASSUME NEW i \in DOMAIN alerts
        PROVE  /\ alerts'[i] \in Record(now)
               /\ alerts'[i].key = alerts[i].key
               /\ i # id => alerts'[i].silenceUntil = alerts[i].silenceUntil
               /\ i = id => alerts'[i].silenceUntil = until
      BY <1>1 DEF Record
  <1>5. silenced \in [Key -> Int]
      BY DEF FlowInv, Filed
  <1>6. /\ silenced' \in [Key -> Int]
        /\ silenced'[key] = until
        /\ \A k \in Key : k # key => silenced'[k] = silenced[k]
      BY <1>2, <1>5
  <1>7. displaced' \subseteq displaced /\ \A k \in displaced : k # key => k \in displaced'
      OBVIOUS
  <1> HIDE DEF key
  <1>8. Filed'
      BY <1>3, <1>4, <1>6 DEF FlowInv, Filed, Record
  <1>9. RecordsStayFindable'
      BY <1>3, <1>4 DEF FlowInv, RecordsStayFindable
  <1>10. \A k : HasOwnRecord(k) => HasOwnRecord(k)'
      BY <1>3, <1>4 DEF HasOwnRecord
  <1>11. HasOwnRecord(key)
      BY <1>2 DEF HasOwnRecord, key
  <1>12. IndexOwnOrDisplaced'
      BY <1>7, <1>10, <1>11 DEF FlowInv, IndexOwnOrDisplaced
  <1>13. ASSUME NEW k \in Key, silenced'[k] > 0, k \notin displaced'
         PROVE  HasOwnRecord(k)' /\ alerts'[byDedupKey'[k]].silenceUntil = silenced'[k]
    <2>1. CASE k = key
        BY <1>2, <1>4, <1>6, <1>10, <1>11, <2>1
    <2>2. CASE k # key
      <3>1. silenced[k] > 0 /\ k \notin displaced
          BY <1>6, <1>7, <1>13, <2>2
      <3>2. HasOwnRecord(k) /\ alerts[byDedupKey[k]].silenceUntil = silenced[k]
          BY <3>1 DEF FlowInv, SilenceIsRecorded
      <3>3. byDedupKey[k] \in DOMAIN alerts /\ byDedupKey[k] # id
          BY <3>2, <2>2 DEF HasOwnRecord, key
      <3> QED  BY <1>4, <1>6, <1>10, <2>2, <3>2, <3>3
    <2> QED  BY <2>1, <2>2
  <1>14. SilenceIsRecorded'
      BY <1>13 DEF SilenceIsRecorded
  <1> QED  BY <1>8, <1>9, <1>12, <1>14 DEF FlowInv

\* Every action of an operator keeps the invariant.
LEMMA UpdateStep ==
    ASSUME FlowInv, now \in Nat, NEW id \in DOMAIN alerts, Update(id, now), UNCHANGED now
    PROVE  FlowInv'
  <1>1. alerts[id] \in Record(now)
      BY DEF FlowInv, Filed
  <1>2. ASSUME NEW to \in BOOLEAN, Assign(id, to, now)
        PROVE  FlowInv'
    <2> DEFINE status == StatusFor([alerts[id] EXCEPT !.assigned = to], now)
    <2>1. status \in Status
        BY StatusForType
    <2>2. alerts' = [alerts EXCEPT ![id] = [alerts[id] EXCEPT !.assigned = to, !.status = status]]
        BY <1>1, <1>2 DEF Assign, Record
    <2>3. UNCHANGED <<byDedupKey, order, silenced, displaced>>
        BY <1>2 DEF Assign
    <2> HIDE DEF status
    <2> QED  BY <2>1, <2>2, <2>3, OneRefreshed
  <1>3. ASSUME NEW duration \in SilenceTime, Silence(id, duration, now)
        PROVE  FlowInv'
    <2> DEFINE until == now + duration
    <2>1. until \in Int /\ "suppressed" \in Status
        BY FlowAssumption DEF Status
    <2>2. alerts' = [alerts EXCEPT ![id] = [alerts[id] EXCEPT !.silenceUntil = until,
                                                             !.status = "suppressed"]]
        BY <1>1, <1>3 DEF Silence, Record
    <2>3. silenced' = [silenced EXCEPT ![alerts[id].key] = until]
        BY <1>3 DEF Silence
    <2> HIDE DEF until
    <2> QED  BY <1>3, <2>1, <2>2, <2>3, SilenceChanged DEF Silence
  <1>4. ASSUME Unsilence(id, now)
        PROVE  FlowInv'
    <2> DEFINE status == StatusFor([alerts[id] EXCEPT !.silenceUntil = 0], now)
    <2>1. status \in Status
        BY StatusForType
    <2>2. alerts' = [alerts EXCEPT ![id] = [alerts[id] EXCEPT !.silenceUntil = 0, !.status = status]]
        BY <1>1, <1>4 DEF Unsilence, Record
    <2>3. /\ silenced' = [silenced EXCEPT ![alerts[id].key] = 0]
          /\ UNCHANGED <<byDedupKey, order>>
          /\ displaced' \in {displaced, displaced \ {alerts[id].key}}
        BY <1>4 DEF Unsilence
    <2>4. 0 \in Int
        OBVIOUS
    <2> HIDE DEF status
    <2> QED  BY <2>1, <2>2, <2>3, <2>4, SilenceChanged
  <1>5. ASSUME Close(id) \/ Reopen(id, now)
        PROVE  FlowInv'
    <2> DEFINE status == IF Close(id) THEN "closed" ELSE StatusFor(alerts[id], now)
               to == alerts[id].assigned
    <2>1. status \in Status /\ to \in BOOLEAN
        BY <1>1, StatusForType DEF Status, Record
    <2>2. alerts' = [alerts EXCEPT ![id].status = status]
        BY <1>5 DEF Close, Reopen
    <2>3. alerts' = [alerts EXCEPT ![id] = [alerts[id] EXCEPT !.assigned = to, !.status = status]]
        BY <1>1, <2>2 DEF Record
    <2>4. UNCHANGED <<byDedupKey, order, silenced, displaced>>
        BY <1>5 DEF Close, Reopen
    <2> HIDE DEF status, to
    <2> QED  BY <2>1, <2>3, <2>4, OneRefreshed
  <1> QED  BY <1>2, <1>3, <1>4, <1>5 DEF Update

\* A snapshot refreshes statuses.
LEMMA SnapshotStep ==
    ASSUME FlowInv, Snapshot(now), UNCHANGED now
    PROVE  FlowInv'
  <1>1. \A i \in DOMAIN alerts : alerts[i] \in Record(now)
      BY DEF FlowInv, Filed
  <1>2. DOMAIN alerts' = DOMAIN alerts
      BY DEF Snapshot
  <1>3. ASSUME NEW i \in DOMAIN alerts
        PROVE  /\ alerts'[i] \in Record(now)
               /\ alerts'[i].key = alerts[i].key
               /\ alerts'[i].silenceUntil = alerts[i].silenceUntil
    <2>1. StatusFor(alerts[i], now) \in Status
        BY StatusForType
    <2> QED  BY <1>1, <2>1 DEF Snapshot, Record
  <1> QED  BY <1>2, <1>3, FlowRefreshed DEF Snapshot

\* A finding whose key has no record is filed under its id: over the record of
\* another key, if there is one, and perhaps to be trimmed at once, when the id
\* stands at the head of a full list.
LEMMA IngestNewStep ==
    ASSUME FlowInv, now \in Nat, NEW f \in Finding, NEW t \in 0 .. now,
           IngestNew(f, t), UNCHANGED now
    PROVE  FlowInv'
  <1> DEFINE id == f.node
             key == DedupKey(f)
             filed == [i \in DOMAIN alerts \cup {id} |->
                         IF i = id THEN NewRecord(f, t) ELSE alerts[i]]
             listed == Append(order, id)
             excess == IF Len(listed) > MaxAlerts THEN Len(listed) - MaxAlerts ELSE 0
             trimmed == {listed[i] : i \in 1 .. excess}
             unlisted == {filed[i].key : i \in trimmed \cap DOMAIN filed}
             replaced == {alerts[i].key : i \in {id} \cap DOMAIN alerts}
             index == Indexed(f)
  <1>1. /\ ~IsKnown(f)
        /\ alerts' = [i \in DOMAIN filed \ trimmed |-> filed[i]]
        /\ byDedupKey' = [k \in DOMAIN index \ unlisted |-> index[k]]
        /\ order' = SubSeq(listed, 1 + excess, Len(listed))
        /\ displaced' = displaced \cup unlisted \cup replaced
        /\ UNCHANGED silenced
      BY DEF IngestNew
  <1>2. id \in Node /\ key \in Key
      BY DEF Node, Key
  <1>3. \A i \in DOMAIN alerts : alerts[i] \in Record(now)
      BY DEF FlowInv, Filed
  <1>4. /\ DOMAIN filed = DOMAIN alerts \cup {id}
        /\ filed[id] = NewRecord(f, t)
        /\ \A i \in DOMAIN alerts : i # id => filed[i] = alerts[i]
      OBVIOUS
  <1>5. NewRecord(f, t) \in Record(now) /\ NewRecord(f, t).key = key
      BY <1>2 DEF NewRecord, Record, Status
  <1>6. /\ DOMAIN index = DOMAIN byDedupKey \cup {key}
        /\ index[key] = id
        /\ \A k \in DOMAIN byDedupKey : k # key => index[k] = byDedupKey[k]
      BY DEF Indexed
  <1>7. order \in Seq(Node) /\ Len(order) <= MaxAlerts /\ MaxAlerts \in Nat
      BY FlowAssumption DEF FlowInv, Filed
  <1>8. /\ listed \in Seq(Node) /\ Len(listed) = Len(order) + 1
        /\ listed[Len(order) + 1] = id
        /\ \A j \in 1 .. Len(order) : listed[j] = order[j]
      BY <1>2, <1>7
  <1>9. excess \in 0 .. Len(listed) /\ Len(listed) - excess <= MaxAlerts
      BY <1>7, <1>8
  <1>10. \A j \in 1 .. excess : listed[j] \in trimmed
      OBVIOUS
  <1>11. \A i \in DOMAIN filed : i \in trimmed => filed[i].key \in unlisted
      OBVIOUS
  <1>12. \A k \in unlisted : \E i \in DOMAIN filed : i \in trimmed /\ filed[i].key = k
      OBVIOUS
  <1>13. id \in DOMAIN alerts => alerts[id].key \in replaced
      OBVIOUS
  <1> HIDE DEF filed, listed, excess, trimmed, unlisted, replaced, index
  <1>14. /\ DOMAIN alerts' = DOMAIN filed \ trimmed
         /\ \A i \in DOMAIN alerts' : alerts'[i] = filed[i]
         /\ DOMAIN byDedupKey' = DOMAIN index \ unlisted
         /\ \A k \in DOMAIN byDedupKey' : byDedupKey'[k] = index[k]
      BY <1>1
  \* the other records have other keys: with this one the key would be known
  <1>15. \A i \in DOMAIN alerts : alerts[i].key # key
      BY <1>1 DEF IsKnown, FlowInv, RecordsStayFindable
  <1> HIDE DEF id, key
  <1>16. \A i, j \in DOMAIN filed : filed[i].key = filed[j].key => i = j
      BY <1>4, <1>5, <1>15 DEF FlowInv, RecordsStayFindable
  <1>17. \A i \in DOMAIN filed : i \notin trimmed => filed[i].key \notin unlisted
      BY <1>12, <1>16
  <1>18. RecordsStayFindable'
    <2> SUFFICES ASSUME NEW i \in DOMAIN alerts'
                 PROVE  alerts'[i].key \in DOMAIN byDedupKey' /\ byDedupKey'[alerts'[i].key] = i
        BY DEF RecordsStayFindable
    <2>1. i \in DOMAIN filed /\ i \notin trimmed /\ alerts'[i] = filed[i]
        BY <1>14
    <2>2. filed[i].key \in DOMAIN index /\ index[filed[i].key] = i
        BY <1>4, <1>5, <1>6, <1>15, <2>1 DEF FlowInv, RecordsStayFindable
    <2> QED  BY <1>14, <1>17, <2>1, <2>2
  \* a record that keeps its place keeps its entry
  <1>19. ASSUME NEW k, HasOwnRecord(k), k \notin displaced'
         PROVE  /\ HasOwnRecord(k)'
                /\ byDedupKey'[k] = byDedupKey[k]
                /\ alerts'[byDedupKey[k]] = alerts[byDedupKey[k]]
    <2> DEFINE i == byDedupKey[k]
    <2>1. i \in DOMAIN alerts /\ alerts[i].key = k /\ k \in DOMAIN byDedupKey
        BY <1>19 DEF HasOwnRecord
    <2>2. k \notin unlisted /\ k \notin replaced
        BY <1>1, <1>19
    <2>3. i # id
        BY <1>13, <2>1, <2>2
    <2>4. filed[i] = alerts[i] /\ i \in DOMAIN filed
        BY <1>4, <2>1, <2>3
    <2>5. i \notin trimmed
        BY <1>11, <2>1, <2>2, <2>4
    <2>6. i \in DOMAIN alerts' /\ alerts'[i] = alerts[i]
        BY <1>14, <2>4, <2>5
    <2>7. k # key
        BY <1>15, <2>1
    <2>8. k \in DOMAIN byDedupKey' /\ byDedupKey'[k] = i
        BY <1>6, <1>14, <2>1, <2>2, <2>7
    <2> QED  BY <2>1, <2>6, <2>8 DEF HasOwnRecord
  <1>20. IndexOwnOrDisplaced'
    <2> SUFFICES ASSUME NEW k \in DOMAIN byDedupKey', k \notin displaced'
                 PROVE  HasOwnRecord(k)'
        BY DEF IndexOwnOrDisplaced
    <2>1. CASE k = key
      <3>1. byDedupKey'[k] = id /\ k \notin unlisted
          BY <1>6, <1>14, <2>1
      <3>2. id \notin trimmed
          BY <1>4, <1>5, <1>11, <2>1, <3>1
      <3> QED  BY <1>4, <1>5, <1>14, <2>1, <3>1, <3>2 DEF HasOwnRecord
    <2>2. CASE k # key
      <3>1. k \in DOMAIN byDedupKey /\ k \notin displaced
          BY <1>1, <1>6, <1>14, <2>2
      <3>2. HasOwnRecord(k)
          BY <3>1 DEF FlowInv, IndexOwnOrDisplaced
      <3> QED  BY <1>19, <3>2
    <2> QED  BY <2>1, <2>2
  <1>21. SilenceIsRecorded'
    <2> SUFFICES ASSUME NEW k \in Key, silenced'[k] > 0, k \notin displaced'
                 PROVE  HasOwnRecord(k)' /\ alerts'[byDedupKey'[k]].silenceUntil = silenced'[k]
        BY DEF SilenceIsRecorded
    <2>1. silenced'[k] = silenced[k] /\ k \notin displaced
        BY <1>1
    <2>2. HasOwnRecord(k) /\ alerts[byDedupKey[k]].silenceUntil = silenced[k]
        BY <2>1 DEF FlowInv, SilenceIsRecorded
    <2> QED  BY <1>19, <2>1, <2>2
  <1>22. Filed'
    <2>1. DOMAIN alerts' \subseteq Node
        BY <1>2, <1>4, <1>14 DEF FlowInv, Filed, id
    <2>2. \A i \in DOMAIN alerts' : alerts'[i] \in Record(now')
        BY <1>3, <1>4, <1>5, <1>14
    <2>3. DOMAIN byDedupKey' \subseteq Key
        BY <1>2, <1>6, <1>14 DEF FlowInv, Filed
    <2>4. \A k \in DOMAIN byDedupKey' : byDedupKey'[k] \in Node
        BY <1>2, <1>6, <1>14 DEF FlowInv, Filed
    <2>5. /\ order' \in Seq(Node) /\ Len(order') = Len(listed) - excess
          /\ \A j \in 1 .. Len(listed) - excess : order'[j] = listed[excess + j]
        BY <1>1, <1>8, <1>9
    <2>6. Len(order') <= MaxAlerts
        BY <1>9, <2>5
    <2>7. ASSUME NEW i \in DOMAIN alerts'
          PROVE  \E j \in DOMAIN order' : order'[j] = i
      <3>1. i \in DOMAIN alerts \cup {id} /\ i \notin trimmed
          BY <1>4, <1>14
      <3>2. PICK j \in 1 .. Len(listed) : listed[j] = i
        <4>1. CASE i = id
            BY <1>7, <1>8, <4>1
        <4>2. CASE i \in DOMAIN alerts
          <5>1. PICK j \in DOMAIN order : order[j] = i
              BY <4>2 DEF FlowInv, Filed
          <5>2. j \in 1 .. Len(order)
              BY <5>1, <1>7
          <5> QED  BY <1>7, <1>8, <5>1, <5>2
        <4> QED  BY <3>1, <4>1, <4>2
      <3>3. ~(j <= excess)
          BY <1>9, <1>10, <3>1, <3>2
      <3>4. j - excess \in 1 .. Len(listed) - excess /\ excess + (j - excess) = j
          BY <1>8, <1>9, <1>7, <3>2, <3>3
      <3>5. order'[j - excess] = i /\ j - excess \in DOMAIN order'
          BY <2>5, <3>2, <3>4
      <3> QED  BY <3>5
    <2>8. silenced' \in [Key -> Int]
        BY <1>1 DEF FlowInv, Filed
    <2> QED  BY <2>1, <2>2, <2>3, <2>4, <2>5, <2>6, <2>7, <2>8 DEF Filed
  <1> QED  BY <1>18, <1>20, <1>21, <1>22 DEF FlowInv

-----------------------------------------------------------------------------
\* What surrounds the manager.

\* A channel that loses its head still holds findings of the past.
LEMMA TailKeepsTimes ==
    ASSUME PathInv, alertCh # <<>>
    PROVE  /\ Head(alertCh).finding \in Finding /\ Head(alertCh).at \in 0 .. now
           /\ Tail(alertCh) \in Seq([n : Nat, finding : Finding, at : Nat])
           /\ \A i \in DOMAIN Tail(alertCh) : Tail(alertCh)[i].at <= now
  <1> DEFINE T == [n : Nat, finding : Finding, at : Nat]
  <1>1. alertCh \in Seq(T) /\ \A i \in DOMAIN alertCh : alertCh[i].at <= now
      BY DEF PathInv
  <1> HIDE DEF T
  <1>2. Head(alertCh) \in T /\ Head(alertCh) = alertCh[1] /\ 1 \in DOMAIN alertCh
      BY <1>1
  <1>3. Tail(alertCh) \in Seq(T)
      BY <1>1
  <1>4. ASSUME NEW i \in DOMAIN Tail(alertCh)
        PROVE  Tail(alertCh)[i].at <= now
    <2>1. Tail(alertCh)[i] = alertCh[i + 1] /\ i + 1 \in DOMAIN alertCh
        BY <1>1, <1>3
    <2> QED  BY <1>1, <2>1
  <1>5. now \in Nat
      BY DEF PathInv
  <1> QED  BY <1>1, <1>2, <1>3, <1>4, <1>5 DEF T

\* The clock, the scans, the channel and the streams keep what is known of them.
LEMMA PathStep == PathInv /\ [Next]_vars => PathInv'
  <1> SUFFICES ASSUME PathInv, [Next]_vars PROVE PathInv'
      OBVIOUS
  <1> DEFINE T == [n : Nat, finding : Finding, at : Nat]
  <1>1. /\ now \in Nat /\ emitted \in Nat /\ alertCh \in Seq(T)
        /\ \A i \in DOMAIN alertCh : alertCh[i].at <= now
        /\ subs \subseteq watching /\ Cardinality(subs) <= MaxSubs /\ IsFiniteSet(subs)
      BY DEF PathInv
  <1>2. CASE Tick
    <2>1. now' = now + 1 /\ UNCHANGED <<emitted, alertCh, subs, watching>>
        BY <1>2 DEF Tick
    <2> HIDE DEF T
    <2>2. \A i \in DOMAIN alertCh : alertCh[i] \in T
        BY <1>1
    <2>3. \A i \in DOMAIN alertCh : alertCh[i].at \in Nat
        BY <2>2 DEF T
    <2>4. \A i \in DOMAIN alertCh : alertCh[i].at <= now + 1
        BY <1>1, <2>3
    <2> QED  BY <1>1, <2>1, <2>4 DEF PathInv, T
  <1>3. ASSUME NEW f \in Finding, ScanReports(f)
        PROVE  PathInv'
    <2> DEFINE new == [n |-> emitted', finding |-> f, at |-> now]
    <2>1. emitted' \in Nat /\ UNCHANGED <<now, subs, watching>>
        BY <1>1, <1>3 DEF ScanReports
    <2>2. new \in T /\ new.at = now
        BY <1>1, <2>1
    <2>3. alertCh' = Append(alertCh, new) \/ alertCh' = alertCh
        BY <1>3 DEF ScanReports
    <2> HIDE DEF new, T
    <2>4. alertCh' \in Seq(T) /\ \A i \in DOMAIN alertCh' : alertCh'[i] = new \/ alertCh'[i].at <= now
      <3>1. CASE alertCh' = alertCh
          BY <1>1, <3>1
      <3>2. CASE alertCh' = Append(alertCh, new)
        <4>1. /\ alertCh' \in Seq(T) /\ DOMAIN alertCh' = 1 .. Len(alertCh) + 1
              /\ alertCh'[Len(alertCh) + 1] = new
              /\ \A i \in 1 .. Len(alertCh) : alertCh'[i] = alertCh[i]
            BY <1>1, <2>2, <3>2
        <4>2. \A i \in 1 .. Len(alertCh) + 1 : i \in 1 .. Len(alertCh) \/ i = Len(alertCh) + 1
            BY <1>1
        <4>3. DOMAIN alertCh = 1 .. Len(alertCh)
            BY <1>1
        <4> QED  BY <1>1, <4>1, <4>2, <4>3
      <3> QED  BY <2>3, <3>1, <3>2
    <2>5. \A i \in DOMAIN alertCh' : alertCh'[i].at <= now
        BY <1>1, <2>2, <2>4
    <2> QED  BY <1>1, <2>1, <2>4, <2>5 DEF PathInv, T
  <1>4. CASE MainTakes \/ ForwarderTakes
    <2>1. alertCh # <<>> /\ alertCh' = Tail(alertCh) /\ UNCHANGED <<now, emitted, subs, watching>>
        BY <1>4 DEF MainTakes, ForwarderTakes
    <2> QED  BY <2>1, TailKeepsTimes DEF PathInv
  <1>5. ASSUME NEW w \in Watcher, Watch(w)
        PROVE  PathInv'
    <2>1. CASE Cardinality(subs) < MaxSubs /\ subs' = subs \cup {w}
      <3>1. Cardinality(subs) \in Nat
          BY <1>1, FS_CardinalityType
      <3>2. /\ IsFiniteSet(subs \cup {w})
            /\ Cardinality(subs \cup {w}) = IF w \in subs THEN Cardinality(subs) ELSE Cardinality(subs) + 1
          BY <1>1, FS_AddElement, Zenon
      <3>3. Cardinality(subs') <= MaxSubs
          BY <2>1, <3>1, <3>2, SubsAssumption
      <3> QED  BY <1>1, <1>5, <2>1, <3>2, <3>3 DEF Watch, PathInv
    <2>2. CASE subs' = subs
        BY <1>1, <1>5, <2>2 DEF Watch, PathInv
    <2> QED  BY <1>5, <2>1, <2>2 DEF Watch
  <1>6. ASSUME NEW w \in Watcher, StreamEnds(w)
        PROVE  PathInv'
    <2>1. subs' = subs \ {w}
        BY <1>6 DEF StreamEnds
    <2>2. /\ IsFiniteSet(subs \ {w})
          /\ Cardinality(subs \ {w}) = IF w \in subs THEN Cardinality(subs) - 1 ELSE Cardinality(subs)
        BY <1>1, FS_RemoveElement, Zenon
    <2>3. Cardinality(subs') <= MaxSubs
      <3>1. Cardinality(subs) \in Nat
          BY <1>1, FS_CardinalityType
      <3> QED  BY <1>1, <2>1, <2>2, <3>1, SubsAssumption
    <2> QED  BY <1>1, <1>6, <2>1, <2>2, <2>3 DEF StreamEnds, PathInv
  <1>7. CASE \/ SendReturns \/ Broadcast \/ Triage \/ (\E w \in Watcher : StreamSends(w))
             \/ UNCHANGED vars
    <2>1. UNCHANGED <<now, emitted, alertCh, watching, subs>>
        BY <1>7 DEF SendReturns, Broadcast, Triage, StreamSends, vars, pathVars
    <2> QED  BY <2>1 DEF PathInv
  <1> QED  BY <1>2, <1>3, <1>4, <1>5, <1>6, <1>7 DEF Next

\* A step is a step of the manager or leaves it alone.
LEMMA FlowStep == FlowInv /\ PathInv /\ [Next]_vars => FlowInv'
  <1> SUFFICES ASSUME FlowInv, PathInv, [Next]_vars PROVE FlowInv'
      OBVIOUS
  <1>1. now \in Nat
      BY DEF PathInv
  <1>2. CASE MainTakes
    <2> DEFINE f == Head(alertCh).finding
               t == Head(alertCh).at
    <2>1. f \in Finding /\ t \in 0 .. now
        BY <1>2, TailKeepsTimes DEF MainTakes
    <2>2. (IngestKnown(f, t) \/ IngestNew(f, t)) /\ UNCHANGED now
        BY <1>2 DEF MainTakes, Ingest
    <2> HIDE DEF f, t
    <2> QED  BY <1>1, <2>1, <2>2, IngestKnownStep, IngestNewStep
  <1>3. CASE Triage
    <2>1. UNCHANGED now
        BY <1>3 DEF Triage, pathVars
    <2>2. (\E id \in DOMAIN alerts : Update(id, now)) \/ Snapshot(now)
        BY <1>3 DEF Triage
    <2> QED  BY <1>1, <2>1, <2>2, UpdateStep, SnapshotStep
  <1>4. CASE UNCHANGED flowVars
    <2>1. now' \in Nat /\ now <= now'
      <3>1. now' = now \/ now' = now + 1
          BY DEF Next, Tick, ScanReports, MainTakes, SendReturns, ForwarderTakes, Broadcast, Watch,
                 StreamSends, StreamEnds, Triage, pathVars, vars
      <3> QED  BY <1>1, <3>1
    <2> QED  BY <1>1, <1>4, <2>1, FlowUnchanged
  <1>5. MainTakes \/ Triage \/ UNCHANGED flowVars
      BY DEF Next, Tick, ScanReports, SendReturns, ForwarderTakes, Broadcast, Watch,
             StreamSends, StreamEnds, vars
  <1> QED  BY <1>2, <1>3, <1>4, <1>5

-----------------------------------------------------------------------------

\* Every reachable state satisfies the inductive invariant.
THEOREM AlertInvariant == Spec => []Inv
  <1>1. Init => Inv
      BY AlertInit
  <1>2. Inv /\ [Next]_vars => Inv'
    <2>1. Inv' <=> FlowInv' /\ PathInv'
        BY InvSplits, PTL
    <2> QED  BY <2>1, InvSplits, FlowStep, PathStep
  <1> QED  BY <1>1, <1>2, PTL DEF Spec

\* The records, the index and the list of the manager stay well formed, the
\* list within maxAlerts and the subscribers within maxSubs.
THEOREM AlertTypes == Spec => []TypeOK
  BY AlertInvariant, PTL DEF Inv

\* Every record is found by its own key, whatever Ingest replaced and
\* trimLocked dropped.
THEOREM RecordsStayFindableHolds == Spec => []RecordsStayFindable
  BY AlertInvariant, PTL DEF Inv

\* A key leads to the record of another key only when Ingest replaced its own
\* record or trimLocked dropped it.
THEOREM MisfiledOnlyWhenDisplacedHolds == Spec => []MisfiledOnlyWhenDisplaced
  <1>1. Inv => MisfiledOnlyWhenDisplaced
      BY DEF Inv, IndexOwnOrDisplaced, HasOwnRecord, MisfiledOnlyWhenDisplaced
  <1> QED  BY <1>1, AlertInvariant, PTL

\* While an operator's silence runs, shouldNotify lets nothing through for the
\* key that was silenced or in its name, unless its record was displaced.
THEOREM SilenceHoldsAlways == Spec => SilenceHolds
  <1> DEFINE f == Head(alertCh).finding
             t == Head(alertCh).at
             A == MainTakes /\ notifying' =>
                    LET g == Head(alertCh).finding
                    IN  \A k \in {DedupKey(g), Reported(g)} : silenced[k] > now => k \in displaced
  <1>1. Inv /\ [Next]_vars => [A]_vars
    <2> SUFFICES ASSUME Inv, MainTakes, notifying',
                        NEW k \in {DedupKey(f), Reported(f)}, silenced[k] > now, k \notin displaced
                 PROVE  FALSE
        OBVIOUS
    <2>1. FlowInv /\ PathInv
        BY InvSplits
    <2>2. f \in Finding /\ t \in 0 .. now /\ now \in Nat
        BY <2>1, TailKeepsTimes DEF MainTakes, PathInv
    <2>3. Delivers(f, t)
        BY DEF MainTakes
    <2> HIDE DEF f, t
    <2>4. DedupKey(f) \in Key
        BY <2>2 DEF Key
    <2>5. IsKnown(f) => Reported(f) = alerts[byDedupKey[DedupKey(f)]].key
        BY DEF Reported
    <2>6. ~IsKnown(f) => Reported(f) = DedupKey(f)
        BY DEF Reported
    <2>7. k \in Key
        BY <2>1, <2>4, <2>5, <2>6 DEF IsKnown, FlowInv, Filed, Record
    <2>8. HasOwnRecord(k) /\ alerts[byDedupKey[k]].silenceUntil = silenced[k]
      <3>1. silenced[k] \in Int
          BY <2>1, <2>7 DEF FlowInv, Filed
      <3>2. silenced[k] > 0
          BY <2>2, <3>1
      <3> QED  BY <2>1, <2>7, <3>2 DEF FlowInv, SilenceIsRecorded
    <2>9. IsKnown(f) /\ byDedupKey[DedupKey(f)] = byDedupKey[k]
      <3>1. CASE k = DedupKey(f)
          BY <2>8, <3>1 DEF HasOwnRecord, IsKnown
      <3>2. CASE k # DedupKey(f)
        <4>1. IsKnown(f) /\ k = alerts[byDedupKey[DedupKey(f)]].key
            BY <2>5, <2>6, <3>2
        <4> QED  BY <2>1, <4>1 DEF FlowInv, RecordsStayFindable, IsKnown
      <3> QED  BY <3>1, <3>2
    <2> DEFINE item == alerts[byDedupKey[k]]
    <2>10. StatusFor(item, t) # "suppressed"
        BY <2>3, <2>9 DEF Delivers
    <2>11. item.silenceUntil > t
      <3>1. silenced[k] \in Int
          BY <2>1, <2>7 DEF FlowInv, Filed
      <3> QED  BY <2>2, <2>8, <3>1
    <2> QED  BY <2>10, <2>11 DEF StatusFor
  <1> QED  BY <1>1, AlertInvariant, PTL DEF Spec, SilenceHolds

-----------------------------------------------------------------------------
\* NotifyDelivery.

Replay == [step : {"try", "clear"}, id : 1 .. letters, item : Delivery, attempt : Nat]

\* The shape of the manager's state.
NotifyTypes ==
    /\ notes \in 0 .. MaxNotes
    /\ sending \in [to : Seq(ToSet(Notifier)), attempt : Nat] /\ IsInjective(sending.to)
    /\ sending.to # <<>> => notes > 0
    /\ letters \in Nat
    /\ deadLetters \in Seq(Nat) /\ Len(deadLetters) <= MaxHistory
    /\ DOMAIN letterItems \subseteq 1 .. letters
    /\ \A i \in DOMAIN letterItems : letterItems[i] \in Delivery
    /\ replay \in [Operator -> {Idle} \cup Replay]
    /\ copies \in [Delivery -> 0 .. 2]
    /\ overflowed \in BOOLEAN

\* the letter i is about the delivery d
HasLetter(i, d) == i \in DOMAIN letterItems /\ letterItems[i] = d

\* Send has not come to the delivery d yet, or is about to try it again
Pending(d) == d[1] > notes \/ (d[1] = notes /\ d[2] \in ToSet(sending.to))

\* What a replay read is what its letter still says, and a replay that clears
\* its letter has delivered it.
ReplayKnowsItem == \A o \in Operator : replay[o].step # "idle" =>
    /\ replay[o].id \in DOMAIN letterItems => letterItems[replay[o].id] = replay[o].item
    /\ replay[o].step = "clear" => copies[replay[o].item] > 0

\* A delivery that nothing excuses has one letter, one replay at a time, of that
\* letter, and it is not replayed once it has arrived.
OneLetter(d) == \A i, j \in DOMAIN letterItems : HasLetter(i, d) /\ HasLetter(j, d) => i = j

OneReplay(d) == \A o, p \in Operator : Replaying(o, d) /\ Replaying(p, d) => o = p

ReplayOfItsLetter(d) == \A o \in Operator, i \in DOMAIN letterItems :
    Replaying(o, d) /\ HasLetter(i, d) => i = replay[o].id

TriedIsUndelivered(d) == \A o \in Operator :
    Replaying(o, d) /\ replay[o].step = "try" => copies[d] = 0

DeliveredIsCleared(d) == \A i \in DOMAIN letterItems : HasLetter(i, d) /\ copies[d] > 0 =>
    \E o \in Operator : Replaying(o, d) /\ replay[o].step = "clear"

PendingIsUntouched(d) == Pending(d) =>
    /\ copies[d] = 0
    /\ \A i \in DOMAIN letterItems : ~HasLetter(i, d)
    /\ \A o \in Operator : ~Replaying(o, d)

SingleCopy(d) ==
    /\ OneLetter(d) /\ OneReplay(d) /\ ReplayOfItsLetter(d) /\ TriedIsUndelivered(d)
    /\ DeliveredIsCleared(d) /\ PendingIsUntouched(d)
    /\ copies[d] <= 1

SingleCopies == \A d \in Delivery \ excused : SingleCopy(d)

NotifyInv ==
    /\ NotifyTypes
    /\ NothingForgotten
    /\ ReplayKnowsItem
    /\ SingleCopies

\* A set of positions has a first one.
LEMMA FirstPosition ==
    ASSUME NEW S \in SUBSET Nat, S # {}
    PROVE  Min(S) \in S
  <1> DEFINE R == OpToRel(<, Nat)
  <1>1. IsWellFoundedOn(R, Nat)
      BY NatLessThanWellFounded
  <1>2. \A p, q \in Nat : p < q => <<p, q>> \in R
      BY DEF OpToRel
  <1> HIDE DEF R
  <1>3. PICK x \in S : \A y \in S : ~ (<<y, x>> \in R)
      BY <1>1, WFMin
  <1>4. ASSUME NEW y \in S PROVE x <= y
    <2>1. x \in Nat /\ y \in Nat
        OBVIOUS
    <2>2. ~(y < x)
        BY <1>2, <1>3, <2>1
    <2> QED  BY <2>1, <2>2
  <1> QED  BY <1>4 DEF Min

\* clearDeadLetter takes no letter off the list but the one it is given.
LEMMA RemoveKeepsOthers ==
    ASSUME NEW s \in Seq(Nat), NEW e
    PROVE  /\ RemoveFirst(s, e) \in Seq(Nat) /\ Len(RemoveFirst(s, e)) <= Len(s)
           /\ \A x \in ToSet(s) : x # e => x \in ToSet(RemoveFirst(s, e))
  <1>1. CASE ~ \E i \in 1 .. Len(s) : s[i] = e
      BY <1>1 DEF RemoveFirst
  <1>2. CASE \E i \in 1 .. Len(s) : s[i] = e
    <2> DEFINE I == {i \in 1 .. Len(s) : s[i] = e}
               k == Min(I)
    <2>1. I \in SUBSET Nat /\ I # {}
        BY <1>2
    <2>2. k \in I
        BY <2>1, FirstPosition
    <2>3. SelectInSeq(s, LAMBDA v : v = e) = k
        BY <2>1 DEF SelectInSeq
    <2>4. RemoveFirst(s, e) = SubSeq(s, 1, k - 1) \o SubSeq(s, k + 1, Len(s))
        BY <1>2, <2>3 DEF RemoveFirst, RemoveAt
    <2>5. k \in 1 .. Len(s) /\ s[k] = e
        BY <2>2
    <2> HIDE DEF I, k
    <2> DEFINE a == SubSeq(s, 1, k - 1)
               b == SubSeq(s, k + 1, Len(s))
    <2>6. /\ a \in Seq(Nat) /\ Len(a) = k - 1 /\ \A i \in 1 .. k - 1 : a[i] = s[i]
          /\ b \in Seq(Nat) /\ Len(b) = Len(s) - k /\ \A i \in 1 .. Len(s) - k : b[i] = s[k + i]
        BY <2>5
    <2>7. RemoveFirst(s, e) = a \o b
        BY <2>4
    <2> HIDE DEF a, b
    <2>8. /\ a \o b \in Seq(Nat) /\ Len(a \o b) = Len(s) - 1 /\ Len(s) \in Nat
          /\ \A i \in 1 .. k - 1 : (a \o b)[i] = a[i]
          /\ \A i \in 1 .. Len(s) - k : (a \o b)[k - 1 + i] = b[i]
      <3>1. a \in Seq(Nat) /\ b \in Seq(Nat) /\ Len(a) = k - 1 /\ Len(b) = Len(s) - k
          BY <2>6
      <3>2. Len(s) \in Nat /\ k \in Nat
          BY <2>5
      <3>3. /\ a \o b \in Seq(Nat) /\ Len(a \o b) = Len(a) + Len(b)
            /\ \A i \in 1 .. Len(a) + Len(b) :
                   (a \o b)[i] = IF i <= Len(a) THEN a[i] ELSE b[i - Len(a)]
          BY <3>1, ConcatProperties
      <3>4. Len(a) \in Nat /\ Len(b) \in Nat
          BY <3>1, <3>2, <2>5
      <3>5. \A i \in 1 .. k - 1 : (a \o b)[i] = a[i]
          BY <3>1, <3>2, <3>3, <3>4, <2>5
      <3>6. ASSUME NEW i \in 1 .. Len(s) - k PROVE (a \o b)[k - 1 + i] = b[i]
        <4> DEFINE j == k - 1 + i
        <4>1. j \in 1 .. Len(a) + Len(b) /\ ~(j <= Len(a)) /\ j - Len(a) = i
            BY <3>1, <3>2, <2>5
        <4> HIDE DEF j
        <4>2. (a \o b)[j] = b[j - Len(a)]
            BY <4>1, <3>3
        <4>3. (a \o b)[j] = b[i]
            BY <4>1, <4>2
        <4> QED  BY <4>3 DEF j
      <3>7. Len(a \o b) = Len(s) - 1
          BY <3>1, <3>2, <3>3
      <3> QED  BY <3>2, <3>3, <3>5, <3>6, <3>7
    <2>9. ASSUME NEW x \in ToSet(s), x # e PROVE x \in ToSet(a \o b)
      <3>1. PICK i \in 1 .. Len(s) : s[i] = x
          BY DEF ToSet
      <3>2. CASE i < k
        <4>1. (a \o b)[i] = x /\ i \in DOMAIN (a \o b)
            BY <3>1, <3>2, <2>5, <2>6, <2>8
        <4> QED  BY <4>1 DEF ToSet
      <3>3. CASE i > k
        <4> DEFINE m == i - k
                   n == i - 1
        <4>1. m \in 1 .. Len(s) - k /\ k - 1 + m = n /\ k + m = i /\ n \in 1 .. Len(s) - 1
            BY <3>3, <2>5, <2>8
        <4> HIDE DEF m, n
        <4>2. (a \o b)[k - 1 + m] = b[m] /\ b[m] = s[k + m]
            BY <4>1, <2>6, <2>8
        <4>3. (a \o b)[n] = x
            BY <4>1, <4>2, <3>1
        <4>4. n \in DOMAIN (a \o b)
            BY <4>1, <2>8
        <4> QED  BY <4>3, <4>4 DEF ToSet
      <3>4. i # k
          BY <3>1, <2>5, <2>9
      <3>5. i \in Nat /\ k \in Nat
          BY <2>5, <2>8
      <3>6. i < k \/ i > k
          BY <3>4, <3>5
      <3> QED  BY <3>2, <3>3, <3>6
    <2> QED  BY <2>7, <2>8, <2>9
  <1> QED  BY <1>1, <1>2

\* recordDelivery adds a letter with a new id, and the list loses an older one
\* only when it was full.
LEMMA AddLetterAdds ==
    ASSUME NotifyTypes, NEW x \in Delivery, AddLetter(x)
    PROVE  /\ letters' = letters + 1 /\ letters' \notin DOMAIN letterItems
           /\ DOMAIN letterItems' = DOMAIN letterItems \cup {letters'}
           /\ letterItems'[letters'] = x
           /\ \A i \in DOMAIN letterItems : letterItems'[i] = letterItems[i]
           /\ deadLetters' \in Seq(Nat) /\ Len(deadLetters') <= MaxHistory
           /\ letters' \in ToSet(deadLetters')
           /\ overflowed' \in BOOLEAN
           /\ overflowed => overflowed'
           /\ ~overflowed' => ToSet(deadLetters) \subseteq ToSet(deadLetters')
  <1>1. letters' = letters + 1 /\ letters \in Nat /\ letters' \notin DOMAIN letterItems
      BY DEF AddLetter, NotifyTypes
  <1>2. letterItems' = [i \in DOMAIN letterItems \cup {letters'} |->
                          IF i = letters' THEN x ELSE letterItems[i]]
      BY DEF AddLetter
  <1>3. deadLetters \in Seq(Nat) /\ Len(deadLetters) <= MaxHistory /\ MaxHistory \in Nat \ {0}
      BY NotifyAssumption DEF NotifyTypes
  <1>4. /\ overflowed' = (overflowed \/ Len(deadLetters) = MaxHistory)
        /\ deadLetters' = <<letters'>> \o (IF Len(deadLetters) = MaxHistory THEN Front(deadLetters)
                                           ELSE deadLetters)
      BY DEF AddLetter
  <1>5. CASE Len(deadLetters) = MaxHistory
    <2> DEFINE f == Front(deadLetters)
    <2>1. f \in Seq(Nat) /\ Len(f) = MaxHistory - 1
        BY <1>3, <1>5 DEF Front
    <2>2. deadLetters' = <<letters'>> \o f /\ overflowed'
        BY <1>4, <1>5
    <2> HIDE DEF f
    <2>3. deadLetters' \in Seq(Nat) /\ Len(deadLetters') = MaxHistory /\ deadLetters'[1] = letters'
        BY <2>1, <2>2, <1>1, <1>3
    <2>4. letters' \in ToSet(deadLetters')
        BY <2>3, <1>3 DEF ToSet
    <2> QED  BY <2>2, <2>3, <2>4, <1>1, <1>2, <1>3, <1>4
  <1>6. CASE Len(deadLetters) # MaxHistory
    <2>1. deadLetters' = <<letters'>> \o deadLetters /\ overflowed' = overflowed
        BY <1>4, <1>6 DEF NotifyTypes
    <2>2. /\ deadLetters' \in Seq(Nat) /\ Len(deadLetters') = 1 + Len(deadLetters)
          /\ deadLetters'[1] = letters'
          /\ \A i \in 1 .. Len(deadLetters) : deadLetters'[i + 1] = deadLetters[i]
        BY <2>1, <1>1, <1>3
    <2>3. letters' \in ToSet(deadLetters')
        BY <2>2, <1>3 DEF ToSet
    <2>4. ASSUME NEW y \in ToSet(deadLetters) PROVE y \in ToSet(deadLetters')
      <3>1. PICK i \in 1 .. Len(deadLetters) : deadLetters[i] = y
          BY <1>3 DEF ToSet
      <3>2. i + 1 \in DOMAIN deadLetters' /\ deadLetters'[i + 1] = y
          BY <3>1, <2>2, <1>3
      <3> QED  BY <3>2 DEF ToSet
    <2>5. Len(deadLetters') <= MaxHistory
        BY <2>2, <1>3, <1>6
    <2>6. overflowed' \in BOOLEAN
        BY <2>1 DEF NotifyTypes
    <2> QED  BY <2>1, <2>2, <2>3, <2>4, <2>5, <2>6, <1>1, <1>2
  <1> QED  BY <1>5, <1>6

\* What a notifier received is never taken back, and counts up to two.
LEMMA CallCounts ==
    ASSUME NotifyTypes, NEW x \in Delivery, NEW outcome \in Outcome, NEW again, Call(x, outcome, again)
    PROVE  /\ copies' \in [Delivery -> 0 .. 2]
           /\ \A d \in Delivery : d # x => copies'[d] = copies[d]
           /\ copies'[x] = IF outcome = "failed" \/ copies[x] = 2 THEN copies[x] ELSE copies[x] + 1
           /\ outcome # "failed" => copies'[x] > 0
           /\ \A d \in Delivery : copies[d] > 0 => copies'[d] > 0
           /\ excused \subseteq excused'
           /\ outcome = "unanswered" \/ again => x \in excused'
  <1>1. copies' = [copies EXCEPT ![x] = IF outcome = "failed" \/ @ = 2 THEN @ ELSE @ + 1]
      BY DEF Call
  <1>2. copies[x] \in 0 .. 2 /\ copies \in [Delivery -> 0 .. 2]
      BY DEF NotifyTypes
  <1>3. copies'[x] = IF outcome = "failed" \/ copies[x] = 2 THEN copies[x] ELSE copies[x] + 1
      BY <1>1, <1>2
  <1>4. copies'[x] \in 0 .. 2 /\ (outcome # "failed" => copies'[x] > 0) /\ (copies[x] > 0 => copies'[x] > 0)
      BY <1>2, <1>3
  <1>5. \A d \in Delivery : d # x => copies'[d] = copies[d]
      BY <1>1, <1>2
  <1>6. copies' \in [Delivery -> 0 .. 2]
      BY <1>1, <1>2, <1>4
  <1> QED  BY <1>3, <1>4, <1>5, <1>6 DEF Call

\* Nothing was sent when the manager is made.
LEMMA NotifyInitInv == NotifyInit => NotifyInv
  <1> SUFFICES ASSUME NotifyInit PROVE NotifyInv
      OBVIOUS
  <1>1. NotifyTypes
    <2>1. copies \in [Delivery -> 0 .. 2] /\ replay \in [Operator -> {Idle} \cup Replay]
        BY DEF NotifyInit
    <2>2. sending.to = <<>> /\ sending \in [to : Seq(ToSet(Notifier)), attempt : Nat] /\ IsInjective(sending.to)
        BY DEF NotifyInit, IsInjective
    <2>3. DOMAIN letterItems = {} /\ deadLetters \in Seq(Nat) /\ Len(deadLetters) = 0
        BY DEF NotifyInit
    <2>4. notes = 0 /\ letters = 0 /\ overflowed = FALSE /\ MaxNotes \in Nat /\ MaxHistory \in Nat
        BY NotifyAssumption DEF NotifyInit
    <2>5. notes \in 0 .. MaxNotes
        BY <2>4
    <2>6. Len(deadLetters) <= MaxHistory /\ letters \in Nat
        BY <2>3, <2>4
    <2>7. overflowed \in BOOLEAN
        BY <2>4
    <2> QED  BY <2>1, <2>2, <2>3, <2>5, <2>6, <2>7 DEF NotifyTypes
  <1>2. DOMAIN letterItems = {} /\ \A o \in Operator : replay[o].step = "idle"
      BY DEF NotifyInit, Idle
  <1>3. NothingForgotten
    <2>1. notes = 0 /\ 1 .. 0 = {}
        BY DEF NotifyInit
    <2> QED  BY <2>1 DEF NothingForgotten
  <1>4. ReplayKnowsItem
      BY <1>2 DEF ReplayKnowsItem
  <1>5. SingleCopies
    <2> SUFFICES ASSUME NEW d \in Delivery PROVE SingleCopy(d)
        BY DEF SingleCopies
    <2>1. copies[d] = 0
        BY DEF NotifyInit
    <2> QED  BY <2>1, <1>2 DEF SingleCopy, OneLetter, OneReplay, ReplayOfItsLetter,
                 TriedIsUndelivered, DeliveredIsCleared, PendingIsUntouched, Replaying, HasLetter
  <1> QED  BY <1>1, <1>3, <1>4, <1>5 DEF NotifyInv

\* A step that leaves the manager's state alone keeps the invariant.
LEMMA NothingChanges ==
    ASSUME NotifyInv,
           UNCHANGED <<notes, sending, deadLetters, letterItems, letters, replay, copies, excused, overflowed>>
    PROVE  NotifyInv'
  <1>1. NotifyTypes'
      BY DEF NotifyInv, NotifyTypes, Replay
  <1>2. NothingForgotten'
      BY DEF NotifyInv, NothingForgotten
  <1>3. ReplayKnowsItem'
      BY DEF NotifyInv, ReplayKnowsItem
  <1>4. ASSUME NEW d \in Delivery, SingleCopy(d) PROVE SingleCopy(d)'
      BY <1>4 DEF SingleCopy, OneLetter, OneReplay, ReplayOfItsLetter, TriedIsUndelivered,
                  DeliveredIsCleared, PendingIsUntouched, Pending, HasLetter, Replaying
  <1>5. SingleCopies'
      BY <1>4 DEF NotifyInv, SingleCopies
  <1> QED  BY <1>1, <1>2, <1>3, <1>5 DEF NotifyInv

\* SendBegin keeps the invariant: a new notification is pending for everyone.
LEMMA SendBeginStep ==
    ASSUME NotifyInv, NEW pattern \in Pattern, SendBegin(pattern)
    PROVE  NotifyInv'
  <1>1. /\ sending.to = <<>>
        /\ UNCHANGED <<deadLetters, letterItems, letters, queue, replay, copies, excused, overflowed>>
      BY DEF SendBegin, IsSending
  <1>2. CASE UNCHANGED <<notes, sending>>
      BY <1>1, <1>2, NothingChanges
  <1>3. CASE ~UNCHANGED <<notes, sending>>
    <2>1. notes < MaxNotes /\ notes' = notes + 1 /\ sending' = [to |-> Notifier, attempt |-> 1]
        BY <1>3 DEF SendBegin
    <2>2. notes \in Nat /\ MaxNotes \in Nat /\ notes \in 0 .. MaxNotes /\ sending'.to = Notifier
        BY <2>1, NotifyAssumption DEF NotifyInv, NotifyTypes
    <2>3. NotifyTypes'
      <3>1. /\ sending' \in [to : Seq(ToSet(Notifier)), attempt : Nat]
            /\ IsInjective(sending'.to)
          BY <2>1, NotifyAssumption
      <3>2. notes' \in 0 .. MaxNotes /\ notes' > 0
          BY <2>1, <2>2
      <3> QED  BY <3>1, <3>2, <1>1 DEF NotifyInv, NotifyTypes, Replay
    <2>4. NothingForgotten'
      <3> SUFFICES ASSUME NEW n \in 1 .. notes', NEW c \in ToSet(Notifier)
                   PROVE  \/ copies[n, c] > 0
                          \/ n = notes' /\ c \in ToSet(sending'.to)
                          \/ \E i \in DOMAIN letterItems :
                                letterItems[i] = <<n, c>> /\ (i \in ToSet(deadLetters) \/ overflowed)
          BY <1>1 DEF NothingForgotten
      <3>1. CASE n = notes'
          BY <3>1, <2>2
      <3>2. CASE n # notes'
        <4>1. n \in 1 .. notes
            BY <3>2, <2>1, <2>2
        <4>2. c \notin ToSet(sending.to)
            BY <1>1 DEF ToSet
        <4> QED  BY <4>1, <4>2 DEF NotifyInv, NothingForgotten
      <3> QED  BY <3>1, <3>2
    <2>5. ReplayKnowsItem'
        BY <1>1 DEF NotifyInv, ReplayKnowsItem
    <2>6. SingleCopies'
      <3> SUFFICES ASSUME NEW d \in Delivery, d \notin excused PROVE SingleCopy(d)'
          BY <1>1 DEF SingleCopies
      <3>1. SingleCopy(d)
          BY DEF NotifyInv, SingleCopies
      <3>2. d[1] \in Nat
          BY <2>2 DEF Delivery
      <3>3. Pending(d)' => Pending(d)
          BY <3>2, <2>1, <2>2 DEF Pending
      <3>4. PendingIsUntouched(d)'
          BY <3>1, <3>3, <1>1 DEF SingleCopy, PendingIsUntouched, HasLetter, Replaying
      <3> QED  BY <3>1, <3>4, <1>1 DEF SingleCopy, OneLetter, OneReplay, ReplayOfItsLetter,
                   TriedIsUndelivered, DeliveredIsCleared, HasLetter, Replaying
    <2> QED  BY <2>3, <2>4, <2>5, <2>6 DEF NotifyInv
  <1> QED  BY <1>2, <1>3

\* Letters stay, and stay listed unless the list overflows, in every step that
\* clears none.
LettersStay ==
    /\ DOMAIN letterItems \subseteq DOMAIN letterItems'
    /\ \A i \in DOMAIN letterItems : letterItems'[i] = letterItems[i]
    /\ overflowed => overflowed'
    /\ ~overflowed' => ToSet(deadLetters) \subseteq ToSet(deadLetters')

\* What Send was given for a notifier is a delivery.
LEMMA SentIsDelivery ==
    ASSUME NotifyTypes, NEW n \in 1 .. notes, NEW c \in ToSet(Notifier)
    PROVE  <<n, c>> \in Delivery
  <1>1. notes \in 0 .. MaxNotes /\ MaxNotes \in Nat
      BY NotifyAssumption DEF NotifyTypes
  <1>2. n \in 1 .. MaxNotes
      BY <1>1
  <1> QED  BY <1>2 DEF Delivery

\* So an attempt forgets nothing, if Send leaves no notifier without a copy or a letter.
LEMMA AttemptForgetsNothing ==
    ASSUME NotifyInv, LettersStay, notes' = notes,
           \A d \in Delivery : copies[d] > 0 => copies'[d] > 0,
           \A c \in ToSet(sending.to) :
             \/ c \in ToSet(sending'.to)
             \/ copies'[notes, c] > 0
             \/ \E i \in DOMAIN letterItems' :
                   letterItems'[i] = <<notes, c>> /\ (i \in ToSet(deadLetters') \/ overflowed')
    PROVE  NothingForgotten'
  <1> SUFFICES ASSUME NEW n \in 1 .. notes, NEW c \in ToSet(Notifier)
               PROVE  \/ copies'[n, c] > 0
                      \/ n = notes /\ c \in ToSet(sending'.to)
                      \/ \E i \in DOMAIN letterItems' :
                            letterItems'[i] = <<n, c>> /\ (i \in ToSet(deadLetters') \/ overflowed')
      BY DEF NothingForgotten
  <1>1. <<n, c>> \in Delivery
    <2>1. NotifyTypes
        BY DEF NotifyInv
    <2> QED  BY <2>1, SentIsDelivery
  <1>2. \/ copies[n, c] > 0
        \/ n = notes /\ c \in ToSet(sending.to)
        \/ \E i \in DOMAIN letterItems : letterItems[i] = <<n, c>> /\ (i \in ToSet(deadLetters) \/ overflowed)
      BY DEF NotifyInv, NothingForgotten
  <1>3. CASE copies[n, c] > 0
      BY <1>1, <1>3
  <1>4. CASE \E i \in DOMAIN letterItems : letterItems[i] = <<n, c>> /\ (i \in ToSet(deadLetters) \/ overflowed)
      BY <1>4 DEF LettersStay
  <1>5. CASE n = notes /\ c \in ToSet(sending.to)
      BY <1>5
  <1> QED  BY <1>2, <1>3, <1>4, <1>5

\* The head of what Send has still to serve is not in the rest.
LEMMA TailIsRest ==
    ASSUME NEW S, NEW q \in Seq(S), q # <<>>, IsInjective(q)
    PROVE  /\ Head(q) \in ToSet(q) /\ ToSet(q) \subseteq S
           /\ Tail(q) \in Seq(S) /\ IsInjective(Tail(q))
           /\ ToSet(q) = {Head(q)} \cup ToSet(Tail(q))
           /\ Head(q) \notin ToSet(Tail(q))
  <1>1. /\ Len(q) \in Nat \ {0} /\ DOMAIN q = 1 .. Len(q) /\ Head(q) = q[1]
        /\ \A i \in 1 .. Len(q) : q[i] \in S
      OBVIOUS
  <1>2. /\ Tail(q) \in Seq(S) /\ Len(Tail(q)) = Len(q) - 1 /\ DOMAIN Tail(q) = 1 .. Len(q) - 1
        /\ \A i \in 1 .. Len(q) - 1 : Tail(q)[i] = q[i + 1]
      BY <1>1
  <1>3. IsInjective(Tail(q))
    <2> SUFFICES ASSUME NEW i \in 1 .. Len(q) - 1, NEW j \in 1 .. Len(q) - 1, Tail(q)[i] = Tail(q)[j]
                 PROVE  i = j
        BY <1>2 DEF IsInjective
    <2>1. q[i + 1] = q[j + 1] /\ i + 1 \in DOMAIN q /\ j + 1 \in DOMAIN q
        BY <1>1, <1>2
    <2>2. i + 1 = j + 1
        BY <2>1 DEF IsInjective
    <2> QED  BY <2>2, <1>1
  <1>4. \A x \in ToSet(q) : x = Head(q) \/ x \in ToSet(Tail(q))
    <2> SUFFICES ASSUME NEW i \in 1 .. Len(q), i # 1 PROVE q[i] \in ToSet(Tail(q))
        BY <1>1 DEF ToSet
    <2>1. i - 1 \in DOMAIN Tail(q) /\ (i - 1) + 1 = i
        BY <1>1, <1>2
    <2>2. Tail(q)[i - 1] = q[i]
        BY <2>1, <1>2
    <2> QED  BY <2>1, <2>2 DEF ToSet
  <1>5. ASSUME NEW x \in ToSet(Tail(q)) PROVE x \in ToSet(q) /\ x # Head(q)
    <2>1. PICK i \in 1 .. Len(q) - 1 : x = Tail(q)[i]
        BY <1>2 DEF ToSet
    <2>2. x = q[i + 1] /\ i + 1 \in DOMAIN q /\ i + 1 # 1 /\ 1 \in DOMAIN q
        BY <2>1, <1>1, <1>2
    <2>3. q[i + 1] # q[1]
        BY <2>2 DEF IsInjective
    <2> QED  BY <2>2, <2>3, <1>1 DEF ToSet
  <1>6. Head(q) \in ToSet(q) /\ ToSet(q) \subseteq S
      BY <1>1 DEF ToSet
  <1>7. ToSet(q) = {Head(q)} \cup ToSet(Tail(q)) /\ Head(q) \notin ToSet(Tail(q))
      BY <1>4, <1>5, <1>6
  <1> QED  BY <1>2, <1>3, <1>6, <1>7

\* What a step does to other deliveries does not matter to this one.
LEMMA OtherDelivery ==
    ASSUME NEW d, SingleCopy(d), copies'[d] = copies[d],
           \A i \in DOMAIN letterItems' : HasLetter(i, d)' => HasLetter(i, d),
           \A o \in Operator : Replaying(o, d)' <=> Replaying(o, d),
           \A o \in Operator : Replaying(o, d) =>
                               replay'[o].step = replay[o].step /\ replay'[o].id = replay[o].id,
           Pending(d)' => Pending(d)
    PROVE  SingleCopy(d)'
  <1>0. \A i \in DOMAIN letterItems' : HasLetter(i, d)' => i \in DOMAIN letterItems
      BY DEF HasLetter
  <1>1. OneLetter(d)'
      BY <1>0 DEF SingleCopy, OneLetter
  <1>2. OneReplay(d)'
      BY DEF SingleCopy, OneReplay
  <1>3. ReplayOfItsLetter(d)'
      BY <1>0 DEF SingleCopy, ReplayOfItsLetter
  <1>4. TriedIsUndelivered(d)'
      BY DEF SingleCopy, TriedIsUndelivered
  <1>5. DeliveredIsCleared(d)'
      BY <1>0 DEF SingleCopy, DeliveredIsCleared
  <1>6. PendingIsUntouched(d)'
      BY <1>0 DEF SingleCopy, PendingIsUntouched
  <1> QED  BY <1>1, <1>2, <1>3, <1>4, <1>5, <1>6 DEF SingleCopy

\* An attempt of Send keeps the invariant: what it tries has no letter and no
\* replay, unless a lost answer excuses it already.
LEMMA SendAttemptStep ==
    ASSUME NotifyInv, NEW outcome \in Outcome, SendAttempt(outcome)
    PROVE  NotifyInv'
  <1> DEFINE x == <<notes, Head(sending.to)>>
             last == sending.attempt = MaxAttempts
  <1>1. /\ sending.to # <<>> /\ Call(x, outcome, FALSE) /\ UNCHANGED <<notes, queue, replay>>
      BY DEF SendAttempt, IsSending
  <1>2. sending' = IF outcome = "accepted" \/ last THEN [to |-> Tail(sending.to), attempt |-> 1]
                   ELSE [sending EXCEPT !.attempt = @ + 1]
      BY DEF SendAttempt
  <1>3. IF outcome # "accepted" /\ last THEN AddLetter(x) ELSE NoLetter
      BY DEF SendAttempt
  <1>4. /\ sending \in [to : Seq(ToSet(Notifier)), attempt : Nat] /\ sending.to \in Seq(ToSet(Notifier))
        /\ IsInjective(sending.to) /\ notes \in 0 .. MaxNotes /\ notes > 0 /\ MaxNotes \in Nat
      BY <1>1, NotifyAssumption DEF NotifyInv, NotifyTypes
  <1>5. /\ Head(sending.to) \in ToSet(sending.to) /\ ToSet(sending.to) \subseteq ToSet(Notifier)
        /\ Tail(sending.to) \in Seq(ToSet(Notifier)) /\ IsInjective(Tail(sending.to))
        /\ ToSet(sending.to) = {Head(sending.to)} \cup ToSet(Tail(sending.to))
        /\ Head(sending.to) \notin ToSet(Tail(sending.to))
      BY <1>1, <1>4, TailIsRest
  <1>6. x \in Delivery
    <2>1. notes \in 1 .. MaxNotes
        BY <1>4
    <2> QED  BY <2>1, <1>5 DEF Delivery
  <1>7. /\ copies' \in [Delivery -> 0 .. 2]
        /\ \A d \in Delivery : d # x => copies'[d] = copies[d]
        /\ copies'[x] = IF outcome = "failed" \/ copies[x] = 2 THEN copies[x] ELSE copies[x] + 1
        /\ outcome # "failed" => copies'[x] > 0
        /\ \A d \in Delivery : copies[d] > 0 => copies'[d] > 0
        /\ excused \subseteq excused'
        /\ outcome = "unanswered" => x \in excused'
    <2>1. NotifyTypes
        BY DEF NotifyInv
    <2> QED  BY <1>1, <1>6, <2>1, CallCounts
  <1>8. /\ outcome = "accepted" \/ last => sending'.to = Tail(sending.to)
        /\ ~(outcome = "accepted" \/ last) => sending'.to = sending.to
      BY <1>2, <1>4
  <1>9. sending' \in [to : Seq(ToSet(Notifier)), attempt : Nat] /\ IsInjective(sending'.to)
    <2>1. CASE outcome = "accepted" \/ last
        BY <2>1, <1>2, <1>5
    <2>2. CASE ~(outcome = "accepted" \/ last)
      <3>1. sending' = [sending EXCEPT !.attempt = @ + 1]
          BY <2>2, <1>2
      <3> QED  BY <3>1, <1>4
    <2> QED  BY <2>1, <2>2
  <1> HIDE DEF x, last
  <1>10. CASE outcome # "accepted" /\ last
    <2>1. AddLetter(x) /\ NotifyTypes
        BY <1>3, <1>10 DEF NotifyInv
    <2>2. /\ letters' = letters + 1 /\ letters' \notin DOMAIN letterItems
          /\ DOMAIN letterItems' = DOMAIN letterItems \cup {letters'}
          /\ letterItems'[letters'] = x
          /\ \A i \in DOMAIN letterItems : letterItems'[i] = letterItems[i]
          /\ deadLetters' \in Seq(Nat) /\ Len(deadLetters') <= MaxHistory
          /\ letters' \in ToSet(deadLetters')
          /\ overflowed' \in BOOLEAN
          /\ overflowed => overflowed'
          /\ ~overflowed' => ToSet(deadLetters) \subseteq ToSet(deadLetters')
        BY <2>1, <1>6, AddLetterAdds
    <2>3. LettersStay
        BY <2>2 DEF LettersStay
    <2>4. sending'.to = Tail(sending.to)
        BY <1>8, <1>10
    <2>5. NotifyTypes'
      <3>1. letters \in Nat /\ letters' \in Nat /\ 1 .. letters \subseteq 1 .. letters'
          BY <2>1, <2>2 DEF NotifyTypes
      <3>2. DOMAIN letterItems' \subseteq 1 .. letters'
          BY <3>1, <2>1, <2>2 DEF NotifyTypes
      <3>3. \A i \in DOMAIN letterItems' : letterItems'[i] \in Delivery
          BY <2>1, <2>2, <1>6 DEF NotifyTypes
      <3>4. replay' \in [Operator -> {Idle} \cup Replay']
          BY <3>1, <2>1, <1>1 DEF NotifyTypes, Replay
      <3> QED  BY <3>1, <3>2, <3>3, <3>4, <2>1, <2>2, <1>1, <1>4, <1>7, <1>9 DEF NotifyTypes
    <2>6. NothingForgotten'
      <3>1. \A c \in ToSet(sending.to) : c \in ToSet(sending'.to) \/ x = <<notes, c>>
          BY <2>4, <1>5 DEF x
      <3>2. \A c \in ToSet(sending.to) :
              \/ c \in ToSet(sending'.to)
              \/ copies'[notes, c] > 0
              \/ \E i \in DOMAIN letterItems' :
                    letterItems'[i] = <<notes, c>> /\ (i \in ToSet(deadLetters') \/ overflowed')
          BY <3>1, <2>2
      <3> QED  BY <3>2, <2>3, <1>1, <1>7, AttemptForgetsNothing
    <2>7. ReplayKnowsItem'
      <3>1. \A o \in Operator : replay[o].step # "idle" => replay[o].id # letters' /\ replay[o].item \in Delivery
        <4> SUFFICES ASSUME NEW o \in Operator, replay[o].step # "idle"
                     PROVE  replay[o].id # letters' /\ replay[o].item \in Delivery
            OBVIOUS
        <4>1. replay[o] \in Replay
            BY <2>1 DEF NotifyTypes, Idle
        <4>2. replay[o].id \in 1 .. letters /\ letters \in Nat /\ replay[o].item \in Delivery
            BY <4>1, <2>1 DEF Replay, NotifyTypes
        <4> QED  BY <4>2, <2>2
      <3> QED  BY <3>1, <2>2, <1>1, <1>7 DEF NotifyInv, ReplayKnowsItem
    <2>8. SingleCopies'
      <3> SUFFICES ASSUME NEW d \in Delivery, d \notin excused' PROVE SingleCopy(d)'
          BY DEF SingleCopies
      <3>1. SingleCopy(d)
          BY <1>7 DEF NotifyInv, SingleCopies
      <3>2. \A o \in Operator : Replaying(o, d)' <=> Replaying(o, d)
          BY <1>1 DEF Replaying
      <3>3. CASE d # x
        <4>1. \A i \in DOMAIN letterItems' : HasLetter(i, d)' => HasLetter(i, d)
            BY <3>3, <2>2 DEF HasLetter
        <4>2. Pending(d)' => Pending(d)
            BY <1>1, <1>5, <2>4 DEF Pending
        <4>3. copies'[d] = copies[d]
            BY <3>3, <1>7
        <4> QED  BY <3>1, <3>2, <4>1, <4>2, <4>3, <1>1, OtherDelivery
      <3>4. CASE d = x
        <4>1. Pending(x)
            BY <1>5 DEF Pending, x
        <4>2. /\ copies[x] = 0 /\ \A i \in DOMAIN letterItems : ~HasLetter(i, x)
              /\ \A o \in Operator : ~Replaying(o, x)
            BY <3>1, <3>4, <4>1 DEF SingleCopy, PendingIsUntouched
        <4>3. outcome = "failed" /\ copies'[x] = 0
            BY <3>4, <4>2, <1>7, <1>10 DEF Outcome
        <4>4. \A o \in Operator : ~Replaying(o, d)'
            BY <3>2, <3>4, <4>2
        <4>5. \A i \in DOMAIN letterItems' : HasLetter(i, d)' => i = letters'
            BY <3>4, <4>2, <2>2 DEF HasLetter
        <4>6. ~Pending(d)'
            BY <3>4, <1>1, <1>4, <1>5, <2>4 DEF Pending, x
        <4> QED  BY <3>4, <4>3, <4>4, <4>5, <4>6 DEF SingleCopy, OneLetter, OneReplay,
                     ReplayOfItsLetter, TriedIsUndelivered, DeliveredIsCleared, PendingIsUntouched
      <3> QED  BY <3>3, <3>4
    <2> QED  BY <2>5, <2>6, <2>7, <2>8 DEF NotifyInv
  <1>11. CASE ~(outcome # "accepted" /\ last)
    <2>1. UNCHANGED <<deadLetters, letterItems, letters, overflowed>>
        BY <1>3, <1>11 DEF NoLetter
    <2>2. LettersStay
        BY <2>1 DEF LettersStay
    <2>3. NotifyTypes'
        BY <2>1, <1>1, <1>4, <1>7, <1>9 DEF NotifyInv, NotifyTypes, Replay
    <2>4. ToSet(sending'.to) \subseteq ToSet(sending.to)
        BY <1>5, <1>8
    <2>5. outcome # "accepted" => sending'.to = sending.to
        BY <1>8, <1>11
    <2>6. NothingForgotten'
      <3>1. \A c \in ToSet(sending.to) : c \in ToSet(sending'.to) \/ (x = <<notes, c>> /\ outcome = "accepted")
          BY <2>5, <1>5, <1>8 DEF x
      <3>2. \A c \in ToSet(sending.to) : c \in ToSet(sending'.to) \/ copies'[notes, c] > 0
          BY <3>1, <1>7
      <3> QED  BY <3>2, <2>2, <1>1, <1>7, AttemptForgetsNothing
    <2>7. ReplayKnowsItem'
      <3>1. \A o \in Operator : replay[o].step # "idle" => replay[o].item \in Delivery
        <4> SUFFICES ASSUME NEW o \in Operator, replay[o].step # "idle" PROVE replay[o].item \in Delivery
            OBVIOUS
        <4>1. replay[o] \in Replay
            BY DEF NotifyInv, NotifyTypes, Idle
        <4> QED  BY <4>1 DEF Replay
      <3> QED  BY <3>1, <2>1, <1>1, <1>7 DEF NotifyInv, ReplayKnowsItem
    <2>8. SingleCopies'
      <3> SUFFICES ASSUME NEW d \in Delivery, d \notin excused' PROVE SingleCopy(d)'
          BY DEF SingleCopies
      <3>1. SingleCopy(d)
          BY <1>7 DEF NotifyInv, SingleCopies
      <3>2. \A o \in Operator : Replaying(o, d)' <=> Replaying(o, d)
          BY <1>1 DEF Replaying
      <3>3. \A i \in DOMAIN letterItems' : HasLetter(i, d)' => HasLetter(i, d)
          BY <2>1 DEF HasLetter
      <3>4. Pending(d)' => Pending(d)
          BY <1>1, <2>4 DEF Pending
      <3>5. CASE d # x
        <4>1. copies'[d] = copies[d]
            BY <3>5, <1>7
        <4> QED  BY <3>1, <3>2, <3>3, <3>4, <4>1, <1>1, OtherDelivery
      <3>6. CASE d = x
        <4>1. Pending(x)
            BY <1>5 DEF Pending, x
        <4>2. /\ copies[x] = 0 /\ \A i \in DOMAIN letterItems : ~HasLetter(i, x)
              /\ \A o \in Operator : ~Replaying(o, x)
            BY <3>1, <3>6, <4>1 DEF SingleCopy, PendingIsUntouched
        <4>3. copies'[x] <= 1 /\ (outcome # "accepted" => copies'[x] = 0)
            BY <3>6, <4>2, <1>7 DEF Outcome
        <4>4. \A o \in Operator : ~Replaying(o, d)'
            BY <3>2, <3>6, <4>2
        <4>5. \A i \in DOMAIN letterItems' : ~HasLetter(i, d)'
            BY <3>3, <3>6, <4>2, <2>1
        <4>6. outcome = "accepted" => ~Pending(d)'
          <5>1. d[1] = notes /\ d[2] = Head(sending.to) /\ notes \in Nat
              BY <3>6, <1>4 DEF x
          <5> QED  BY <5>1, <1>1, <1>5, <1>8 DEF Pending
        <4> QED  BY <3>6, <4>3, <4>4, <4>5, <4>6 DEF SingleCopy, OneLetter, OneReplay,
                     ReplayOfItsLetter, TriedIsUndelivered, DeliveredIsCleared, PendingIsUntouched
      <3> QED  BY <3>5, <3>6
    <2> QED  BY <2>3, <2>6, <2>7, <2>8 DEF NotifyInv
  <1> QED  BY <1>10, <1>11

\* Looking up a letter keeps the invariant: it was not delivered, unless another
\* operator is about to clear it.
LEMMA ReplayReadStep ==
    ASSUME NotifyInv, NEW o \in Operator, ReplayRead(o)
    PROVE  NotifyInv'
  <1> DEFINE id == Head(queue[o])
             x == letterItems[id]
             r == [step |-> "try", id |-> id, item |-> x, attempt |-> 1]
  <1>1. /\ replay[o].step = "idle"
        /\ UNCHANGED <<notes, sending, deadLetters, letterItems, letters, copies, overflowed>>
      BY DEF ReplayRead
  <1>2. CASE id \notin DOMAIN letterItems
    <2>1. UNCHANGED <<replay, excused>>
        BY <1>2 DEF ReplayRead
    <2> QED  BY <1>1, <2>1, NothingChanges
  <1>3. CASE id \in DOMAIN letterItems
    <2>1. /\ replay' = [replay EXCEPT ![o] = r]
          /\ excused' = excused \cup {d \in {x} : \E p \in Operator \ {o} : Replaying(p, d)}
        BY <1>3 DEF ReplayRead
    <2>2. id \in 1 .. letters /\ x \in Delivery
        BY <1>3 DEF NotifyInv, NotifyTypes
    <2>3. r \in Replay /\ r.step = "try" /\ r.id = id /\ r.item = x
        BY <2>2 DEF Replay
    <2>4. HasLetter(id, x)
        BY <1>3 DEF HasLetter
    <2> HIDE DEF id, x, r
    <2>5. replay'[o] = r /\ \A p \in Operator : p # o => replay'[p] = replay[p]
        BY <2>1 DEF NotifyInv, NotifyTypes
    <2>6. NotifyTypes'
      <3>1. replay' \in [Operator -> {Idle} \cup Replay]
          BY <2>1, <2>3 DEF NotifyInv, NotifyTypes
      <3> QED  BY <3>1, <1>1 DEF NotifyInv, NotifyTypes, Replay
    <2>7. NothingForgotten'
        BY <1>1 DEF NotifyInv, NothingForgotten
    <2>8. ReplayKnowsItem'
      <3> SUFFICES ASSUME NEW p \in Operator, replay'[p].step # "idle"
                   PROVE  /\ replay'[p].id \in DOMAIN letterItems => letterItems[replay'[p].id] = replay'[p].item
                          /\ replay'[p].step = "clear" => copies[replay'[p].item] > 0
          BY <1>1 DEF ReplayKnowsItem
      <3>1. CASE p = o
          BY <3>1, <2>3, <2>5 DEF x
      <3>2. CASE p # o
          BY <3>2, <2>5 DEF NotifyInv, ReplayKnowsItem
      <3> QED  BY <3>1, <3>2
    <2>9. SingleCopies'
      <3> SUFFICES ASSUME NEW d \in Delivery, d \notin excused' PROVE SingleCopy(d)'
          BY DEF SingleCopies
      <3>1. SingleCopy(d)
          BY <2>1 DEF NotifyInv, SingleCopies
      <3>2. \A i \in DOMAIN letterItems' : HasLetter(i, d)' => HasLetter(i, d)
          BY <1>1 DEF HasLetter
      <3>3. Pending(d)' => Pending(d)
          BY <1>1 DEF Pending
      <3>4. ~Replaying(o, d)
          BY <1>1 DEF Replaying
      <3>5. CASE d # x
        <4>1. \A p \in Operator : Replaying(p, d)' <=> Replaying(p, d)
            BY <3>4, <3>5, <2>3, <2>5 DEF Replaying
        <4>2. \A p \in Operator : Replaying(p, d) =>
                  replay'[p].step = replay[p].step /\ replay'[p].id = replay[p].id
            BY <3>4, <2>5
        <4> QED  BY <3>1, <3>2, <3>3, <4>1, <4>2, <1>1, OtherDelivery
      <3>6. CASE d = x
        <4>1. \A p \in Operator : ~Replaying(p, d)
            BY <3>4, <3>6, <2>1
        <4>2. copies[d] = 0
          <5>1. ~(copies[d] > 0)
              BY <3>1, <3>6, <4>1, <2>4 DEF SingleCopy, DeliveredIsCleared, HasLetter
          <5>2. copies[d] \in 0 .. 2
              BY DEF NotifyInv, NotifyTypes
          <5> QED  BY <5>1, <5>2
        <4>3. \A p \in Operator : Replaying(p, d)' => p = o
            BY <4>1, <2>5 DEF Replaying
        <4>4. \A i \in DOMAIN letterItems' : HasLetter(i, d)' => i = id /\ i \in DOMAIN letterItems
            BY <3>1, <3>2, <3>6, <2>4 DEF SingleCopy, OneLetter, HasLetter
        <4>5. ~Pending(d)'
            BY <3>1, <3>3, <3>6, <2>4 DEF SingleCopy, PendingIsUntouched, HasLetter
        <4>6. replay'[o].id = id
            BY <2>3, <2>5
        <4>7. copies'[d] = 0
            BY <4>2, <1>1
        <4>8. OneLetter(d)' /\ OneReplay(d)'
            BY <4>3, <4>4 DEF OneLetter, OneReplay
        <4>9. ReplayOfItsLetter(d)'
            BY <4>3, <4>4, <4>6 DEF ReplayOfItsLetter
        <4>10. TriedIsUndelivered(d)' /\ DeliveredIsCleared(d)' /\ PendingIsUntouched(d)'
            BY <4>5, <4>7 DEF TriedIsUndelivered, DeliveredIsCleared, PendingIsUntouched
        <4> QED  BY <4>7, <4>8, <4>9, <4>10 DEF SingleCopy
      <3> QED  BY <3>5, <3>6
    <2> QED  BY <2>6, <2>7, <2>8, <2>9 DEF NotifyInv
  <1> QED  BY <1>2, <1>3

\* An attempt of a replay keeps the invariant: a delivery that nothing excuses
\* has not arrived before, and a replay that fails for good excuses it.
LEMMA ReplayAttemptStep ==
    ASSUME NotifyInv, NEW o \in Operator, NEW outcome \in Outcome, ReplayAttempt(o, outcome)
    PROVE  NotifyInv'
  <1> DEFINE r == replay[o]
             x == r.item
             last == r.attempt = MaxAttempts
             dead == outcome # "accepted" /\ last
             r2 == IF outcome = "accepted" THEN [r EXCEPT !.step = "clear"]
                   ELSE IF last THEN Idle ELSE [r EXCEPT !.attempt = @ + 1]
  <1>1. /\ r.step = "try" /\ Call(x, outcome, dead) /\ replay' = [replay EXCEPT ![o] = r2]
        /\ IF dead THEN AddLetter(x) ELSE NoLetter
        /\ UNCHANGED <<notes, sending>>
      BY DEF ReplayAttempt
  <1>2. NotifyTypes
      BY DEF NotifyInv
  <1>3. r \in Replay /\ x \in Delivery /\ r.id \in 1 .. letters /\ r.attempt \in Nat
    <2>1. r \in {Idle} \cup Replay /\ r # Idle
        BY <1>1, <1>2 DEF NotifyTypes, Idle
    <2> QED  BY <2>1 DEF Replay
  <1>4. /\ outcome = "accepted" => r2 \in Replay /\ r2.step = "clear" /\ r2.id = r.id /\ r2.item = x
        /\ dead => r2 = Idle /\ r2.step = "idle"
        /\ outcome # "accepted" /\ ~dead => r2 \in Replay /\ r2.step = "try" /\ r2.id = r.id /\ r2.item = x
    <2>1. CASE outcome = "accepted"
        BY <2>1, <1>3 DEF Replay
    <2>2. CASE dead
        BY <2>2 DEF Idle
    <2>3. CASE outcome # "accepted" /\ ~dead
      <3>1. r2 = [r EXCEPT !.attempt = @ + 1]
          BY <2>3
      <3> QED  BY <3>1, <2>3, <1>1, <1>3 DEF Replay
    <2> QED  BY <2>1, <2>2, <2>3
  <1> HIDE DEF r2
  <1>5. replay'[o] = r2 /\ \A p \in Operator : p # o => replay'[p] = replay[p]
      BY <1>1, <1>2 DEF NotifyTypes
  <1>6. /\ copies' \in [Delivery -> 0 .. 2]
        /\ \A d \in Delivery : d # x => copies'[d] = copies[d]
        /\ copies'[x] = IF outcome = "failed" \/ copies[x] = 2 THEN copies[x] ELSE copies[x] + 1
        /\ outcome # "failed" => copies'[x] > 0
        /\ \A d \in Delivery : copies[d] > 0 => copies'[d] > 0
        /\ excused \subseteq excused'
        /\ outcome = "unanswered" \/ dead => x \in excused'
      BY <1>1, <1>2, <1>3, CallCounts
  <1>7. /\ letters' \in Nat /\ letters <= letters' /\ LettersStay
        /\ \A i \in DOMAIN letterItems' : i \in DOMAIN letterItems \/ (dead /\ i = letters + 1 /\ letterItems'[i] = x)
        /\ DOMAIN letterItems' \subseteq 1 .. letters'
        /\ deadLetters' \in Seq(Nat) /\ Len(deadLetters') <= MaxHistory
    <2>0. letters \in Nat /\ DOMAIN letterItems \subseteq 1 .. letters
        BY <1>2 DEF NotifyTypes
    <2>1. CASE dead
      <3>1. /\ letters' = letters + 1
            /\ DOMAIN letterItems' = DOMAIN letterItems \cup {letters'}
            /\ letterItems'[letters'] = x
            /\ \A i \in DOMAIN letterItems : letterItems'[i] = letterItems[i]
            /\ deadLetters' \in Seq(Nat) /\ Len(deadLetters') <= MaxHistory
            /\ overflowed => overflowed'
            /\ ~overflowed' => ToSet(deadLetters) \subseteq ToSet(deadLetters')
          BY <2>1, <1>1, <1>2, <1>3, AddLetterAdds
      <3>2. LettersStay
          BY <3>1 DEF LettersStay
      <3>3. letters' \in Nat /\ letters <= letters' /\ DOMAIN letterItems' \subseteq 1 .. letters'
          BY <3>1, <2>0
      <3> QED  BY <3>1, <3>2, <3>3, <2>1
    <2>2. CASE ~dead
      <3>1. UNCHANGED <<deadLetters, letterItems, letters, overflowed>>
          BY <2>2, <1>1 DEF NoLetter
      <3>2. LettersStay
          BY <3>1 DEF LettersStay
      <3> QED  BY <3>1, <3>2, <2>0, <1>2 DEF NotifyTypes
    <2> QED  BY <2>1, <2>2
  <1>8. overflowed' \in BOOLEAN
    <2>1. CASE dead
        BY <2>1, <1>1, <1>2, <1>3, AddLetterAdds
    <2>2. CASE ~dead
        BY <2>2, <1>1, <1>2 DEF NoLetter, NotifyTypes
    <2> QED  BY <2>1, <2>2
  <1> HIDE DEF x, last, dead, r
  <1>9. NotifyTypes'
    <2>1. letters \in Nat /\ 1 .. letters \subseteq 1 .. letters'
        BY <1>2, <1>7 DEF NotifyTypes
    <2>2. Replay \subseteq Replay'
        BY <2>1 DEF Replay
    <2>3. r2 \in {Idle} \cup Replay
        BY <1>4
    <2>4. replay' \in [Operator -> {Idle} \cup Replay']
        BY <2>2, <2>3, <1>1, <1>2 DEF NotifyTypes
    <2>5. \A i \in DOMAIN letterItems' : letterItems'[i] \in Delivery
        BY <1>2, <1>3, <1>7 DEF NotifyTypes, LettersStay
    <2> QED  BY <2>4, <2>5, <1>1, <1>2, <1>6, <1>7, <1>8 DEF NotifyTypes
  <1>10. NothingForgotten'
    <2>1. \A c \in ToSet(sending.to) : c \in ToSet(sending'.to)
        BY <1>1
    <2> QED  BY <2>1, <1>1, <1>6, <1>7, AttemptForgetsNothing
  <1>11. \A p \in Operator : replay[p].step # "idle" => replay[p].id \in 1 .. letters /\ replay[p].item \in Delivery
    <2> SUFFICES ASSUME NEW p \in Operator, replay[p].step # "idle"
                 PROVE  replay[p].id \in 1 .. letters /\ replay[p].item \in Delivery
        OBVIOUS
    <2>1. replay[p] \in Replay
        BY <1>2 DEF NotifyTypes, Idle
    <2> QED  BY <2>1 DEF Replay
  <1>12. ReplayKnowsItem'
    <2> SUFFICES ASSUME NEW p \in Operator, replay'[p].step # "idle"
                 PROVE  /\ replay'[p].id \in DOMAIN letterItems' => letterItems'[replay'[p].id] = replay'[p].item
                        /\ replay'[p].step = "clear" => copies'[replay'[p].item] > 0
        BY DEF ReplayKnowsItem
    <2>1. /\ replay[p].step # "idle" /\ replay'[p].id = replay[p].id /\ replay'[p].item = replay[p].item
          /\ replay'[p].step = "clear" => replay[p].step = "clear" \/ (p = o /\ outcome = "accepted")
      <3>1. CASE p = o
          BY <3>1, <1>1, <1>4, <1>5 DEF r, x, dead
      <3>2. CASE p # o
          BY <3>2, <1>5
      <3> QED  BY <3>1, <3>2
    <2>2. replay[p].id \in 1 .. letters /\ replay[p].item \in Delivery /\ letters \in Nat
        BY <2>1, <1>2, <1>11 DEF NotifyTypes
    <2>3. replay[p].id # letters + 1
        BY <2>2
    <2>4. replay'[p].id \in DOMAIN letterItems' => letterItems'[replay'[p].id] = replay'[p].item
        BY <2>1, <2>3, <1>7 DEF LettersStay, NotifyInv, ReplayKnowsItem
    <2>5. replay'[p].step = "clear" => copies'[replay'[p].item] > 0
      <3>1. CASE replay[p].step = "clear"
          BY <3>1, <2>1, <2>2, <1>6 DEF NotifyInv, ReplayKnowsItem
      <3>2. CASE p = o /\ outcome = "accepted"
          BY <3>2, <2>1, <1>6 DEF x, r
      <3> QED  BY <3>1, <3>2, <2>1
    <2> QED  BY <2>4, <2>5
  <1>13. SingleCopies'
    <2> SUFFICES ASSUME NEW d \in Delivery, d \notin excused' PROVE SingleCopy(d)'
        BY DEF SingleCopies
    <2>1. SingleCopy(d)
        BY <1>6 DEF NotifyInv, SingleCopies
    <2>2. \A i \in DOMAIN letterItems' : HasLetter(i, d)' => HasLetter(i, d)
        BY <1>6, <1>7 DEF HasLetter, LettersStay
    <2>3. Pending(d)' => Pending(d)
        BY <1>1 DEF Pending
    <2>4. CASE d # x
      <3>1. ~Replaying(o, d) /\ ~Replaying(o, d)'
          BY <2>4, <1>4, <1>5 DEF Replaying, x, r, dead
      <3>2. \A p \in Operator : Replaying(p, d)' <=> Replaying(p, d)
          BY <3>1, <1>5 DEF Replaying
      <3>3. \A p \in Operator : Replaying(p, d) =>
                replay'[p].step = replay[p].step /\ replay'[p].id = replay[p].id
          BY <3>1, <1>5
      <3>4. copies'[d] = copies[d]
          BY <2>4, <1>6
      <3> QED  BY <2>1, <2>2, <2>3, <3>2, <3>3, <3>4, OtherDelivery
    <2>5. CASE d = x
      <3>1. Replaying(o, d) /\ replay[o].step = "try"
          BY <2>5, <1>1 DEF Replaying, x, r
      <3>2. copies[d] = 0
          BY <2>1, <3>1 DEF SingleCopy, TriedIsUndelivered
      <3>3. ~dead /\ outcome # "unanswered"
          BY <2>5, <1>6
      <3>4. \A p \in Operator : Replaying(p, d)' <=> Replaying(p, d)
        <4>1. Replaying(o, d)'
            BY <2>5, <3>3, <1>4, <1>5 DEF Replaying
        <4> QED  BY <3>1, <4>1, <1>5 DEF Replaying
      <3>5. CASE outcome = "failed"
        <4>1. copies'[d] = copies[d]
            BY <2>5, <3>5, <1>6
        <4>2. \A p \in Operator : replay'[p].step = replay[p].step /\ replay'[p].id = replay[p].id
            BY <3>1, <3>3, <3>5, <1>4, <1>5 DEF r
        <4> QED  BY <2>1, <2>2, <2>3, <3>4, <4>1, <4>2, OtherDelivery
      <3>6. CASE outcome = "accepted"
        <4>1. copies'[d] = 1
            BY <2>5, <3>2, <3>6, <1>6
        <4>2. replay'[o].step = "clear" /\ replay'[o].id = replay[o].id
            BY <3>6, <1>4, <1>5 DEF r
        <4>3. \A p \in Operator : Replaying(p, d)' => p = o
            BY <2>1, <3>1, <3>4 DEF SingleCopy, OneReplay
        <4>4. \A i \in DOMAIN letterItems' : HasLetter(i, d)' => i = replay[o].id
            BY <2>1, <2>2, <3>1 DEF SingleCopy, ReplayOfItsLetter, HasLetter
        <4>5. ~Pending(d)'
            BY <2>1, <2>3, <3>1 DEF SingleCopy, PendingIsUntouched
        <4>6. OneLetter(d)' /\ OneReplay(d)'
            BY <4>3, <4>4 DEF OneLetter, OneReplay
        <4>7. ReplayOfItsLetter(d)'
            BY <4>2, <4>3, <4>4 DEF ReplayOfItsLetter
        <4>8. TriedIsUndelivered(d)'
            BY <4>2, <4>3 DEF TriedIsUndelivered
        <4>9. DeliveredIsCleared(d)'
            BY <3>1, <3>4, <4>2 DEF DeliveredIsCleared
        <4>10. PendingIsUntouched(d)' /\ copies'[d] <= 1
            BY <4>1, <4>5 DEF PendingIsUntouched
        <4> QED  BY <4>6, <4>7, <4>8, <4>9, <4>10 DEF SingleCopy
      <3> QED  BY <3>3, <3>5, <3>6 DEF Outcome
    <2> QED  BY <2>4, <2>5
  <1> QED  BY <1>9, <1>10, <1>12, <1>13 DEF NotifyInv

\* Clearing a letter keeps the invariant: it was delivered.
LEMMA ReplayClearStep ==
    ASSUME NotifyInv, NEW o \in Operator, ReplayClear(o)
    PROVE  NotifyInv'
  <1> DEFINE id == replay[o].id
             x == replay[o].item
  <1>1. /\ replay[o].step = "clear"
        /\ letterItems' = [i \in DOMAIN letterItems \ {id} |-> letterItems[i]]
        /\ deadLetters' = RemoveFirst(deadLetters, id)
        /\ replay' = [replay EXCEPT ![o] = Idle]
        /\ UNCHANGED <<notes, sending, letters, copies, excused, overflowed>>
      BY DEF ReplayClear
  <1>2. NotifyTypes
      BY DEF NotifyInv
  <1>3. /\ copies[x] > 0 /\ (id \in DOMAIN letterItems => letterItems[id] = x)
      BY <1>1 DEF NotifyInv, ReplayKnowsItem
  <1>4. replay'[o] = Idle /\ replay'[o].step = "idle" /\ \A p \in Operator : p # o => replay'[p] = replay[p]
      BY <1>1, <1>2 DEF NotifyTypes, Idle
  <1>5. /\ deadLetters' \in Seq(Nat) /\ Len(deadLetters') <= Len(deadLetters)
        /\ \A i \in ToSet(deadLetters) : i # id => i \in ToSet(deadLetters')
      BY <1>1, <1>2, RemoveKeepsOthers DEF NotifyTypes
  <1> HIDE DEF id, x
  <1>6. NotifyTypes'
    <2>1. replay' \in [Operator -> {Idle} \cup Replay]
        BY <1>1, <1>2 DEF NotifyTypes
    <2>2. Len(deadLetters') <= MaxHistory
      <3>1. Len(deadLetters) \in Nat /\ Len(deadLetters') \in Nat /\ Len(deadLetters) <= MaxHistory
          BY <1>2, <1>5 DEF NotifyTypes
      <3>2. MaxHistory \in Nat
          BY NotifyAssumption
      <3> QED  BY <3>1, <3>2, <1>5
    <2>3. /\ DOMAIN letterItems' \subseteq 1 .. letters
          /\ \A i \in DOMAIN letterItems' : letterItems'[i] \in Delivery
        BY <1>1, <1>2 DEF NotifyTypes
    <2> QED  BY <2>1, <2>2, <2>3, <1>1, <1>2, <1>5 DEF NotifyTypes, Replay
  <1>7. NothingForgotten'
    <2> SUFFICES ASSUME NEW n \in 1 .. notes, NEW c \in ToSet(Notifier)
                 PROVE  \/ copies[n, c] > 0
                        \/ n = notes /\ c \in ToSet(sending.to)
                        \/ \E i \in DOMAIN letterItems' :
                              letterItems'[i] = <<n, c>> /\ (i \in ToSet(deadLetters') \/ overflowed)
        BY <1>1 DEF NothingForgotten
    <2>1. CASE \E i \in DOMAIN letterItems : letterItems[i] = <<n, c>> /\ (i \in ToSet(deadLetters) \/ overflowed)
      <3>1. PICK i \in DOMAIN letterItems : letterItems[i] = <<n, c>> /\ (i \in ToSet(deadLetters) \/ overflowed)
          BY <2>1
      <3>2. CASE i = id
          BY <3>1, <3>2, <1>3
      <3>3. CASE i # id
          BY <3>1, <3>3, <1>1, <1>5
      <3> QED  BY <3>2, <3>3
    <2> QED  BY <2>1 DEF NotifyInv, NothingForgotten
  <1>8. ReplayKnowsItem'
    <2> SUFFICES ASSUME NEW p \in Operator, replay'[p].step # "idle"
                 PROVE  /\ replay'[p].id \in DOMAIN letterItems' => letterItems'[replay'[p].id] = replay'[p].item
                        /\ replay'[p].step = "clear" => copies[replay'[p].item] > 0
        BY <1>1 DEF ReplayKnowsItem
    <2>1. p # o /\ replay'[p] = replay[p]
        BY <1>4
    <2> QED  BY <2>1, <1>1 DEF NotifyInv, ReplayKnowsItem
  <1>9. SingleCopies'
    <2> SUFFICES ASSUME NEW d \in Delivery, d \notin excused PROVE SingleCopy(d)'
        BY <1>1 DEF SingleCopies
    <2>1. SingleCopy(d) /\ copies'[d] = copies[d]
        BY <1>1 DEF NotifyInv, SingleCopies
    <2>2. \A i \in DOMAIN letterItems' : i \in DOMAIN letterItems /\ i # id /\ (HasLetter(i, d)' => HasLetter(i, d))
        BY <1>1 DEF HasLetter
    <2>3. \A p \in Operator : Replaying(p, d)' => Replaying(p, d) /\ p # o /\ replay'[p] = replay[p]
        BY <1>4 DEF Replaying
    <2>4. Pending(d)' => Pending(d)
        BY <1>1 DEF Pending
    <2>5. OneLetter(d)' /\ OneReplay(d)' /\ ReplayOfItsLetter(d)'
        BY <2>1, <2>2, <2>3 DEF SingleCopy, OneLetter, OneReplay, ReplayOfItsLetter
    <2>6. TriedIsUndelivered(d)' /\ PendingIsUntouched(d)'
        BY <2>1, <2>2, <2>3, <2>4 DEF SingleCopy, TriedIsUndelivered, PendingIsUntouched
    <2>7. DeliveredIsCleared(d)'
      <3> SUFFICES ASSUME NEW i \in DOMAIN letterItems', HasLetter(i, d)', copies[d] > 0
                   PROVE  \E p \in Operator : Replaying(p, d)' /\ replay'[p].step = "clear"
          BY <2>1 DEF DeliveredIsCleared
      <3>1. PICK p \in Operator : Replaying(p, d) /\ replay[p].step = "clear"
          BY <2>1, <2>2 DEF SingleCopy, DeliveredIsCleared
      <3>2. i = replay[p].id
          BY <2>1, <2>2, <3>1 DEF SingleCopy, ReplayOfItsLetter
      <3>3. p # o
          BY <3>2, <2>2 DEF id
      <3> QED  BY <3>1, <3>3, <1>4 DEF Replaying
    <2> QED  BY <2>1, <2>5, <2>6, <2>7 DEF SingleCopy
  <1> QED  BY <1>6, <1>7, <1>8, <1>9 DEF NotifyInv

\* Every step keeps the invariant.
LEMMA NotifyStep == NotifyInv /\ [NotifyNext]_notifyVars => NotifyInv'
  <1> SUFFICES ASSUME NotifyInv, [NotifyNext]_notifyVars PROVE NotifyInv'
      OBVIOUS
  <1>1. CASE ClockTick
      BY <1>1, NothingChanges DEF ClockTick
  <1>2. CASE \E pattern \in Pattern : SendBegin(pattern)
      BY <1>2, SendBeginStep
  <1>3. CASE SendStep
      BY <1>3, SendAttemptStep DEF SendStep
  <1>4. ASSUME NEW o \in Operator, NEW ids, RequestReplay(o, ids) PROVE NotifyInv'
      BY <1>4, NothingChanges DEF RequestReplay
  <1>5. ASSUME NEW o \in Operator, ReplayStep(o) PROVE NotifyInv'
      BY <1>5, ReplayReadStep, ReplayAttemptStep, ReplayClearStep DEF ReplayStep
  <1>6. CASE UNCHANGED notifyVars
      BY <1>6, NothingChanges DEF notifyVars
  <1> QED  BY <1>1, <1>2, <1>3, <1>4, <1>5, <1>6 DEF NotifyNext

\* The inductive invariant of Send and of overlapping replays.
THEOREM NotifyInductive == NotifySpec => []NotifyInv
  <1>1. NotifyInit => NotifyInv
      BY NotifyInitInv
  <1>2. NotifyInv /\ [NotifyNext]_notifyVars => NotifyInv'
      BY NotifyStep
  <1> QED  BY <1>1, <1>2, PTL DEF NotifySpec

\* A notification that passed the throttle is delivered, pending or a dead letter
\* that operators can find, for any notifiers, attempts, operators and limit of
\* the list.
THEOREM NothingIsForgotten == NotifySpec => []NothingForgotten
  BY NotifyInductive, PTL DEF NotifyInv

\* A second copy has one of the three causes, for any notifiers, attempts and
\* number of operators.
THEOREM DuplicatesAreExcused == NotifySpec => []DuplicatesExcused
  <1>1. NotifyInv => DuplicatesExcused
    <2> SUFFICES ASSUME NotifyInv, NEW d \in Delivery, copies[d] > 1, d \notin excused PROVE FALSE
        BY DEF DuplicatesExcused
    <2>1. copies[d] <= 1 /\ copies[d] \in 0 .. 2
        BY DEF NotifyInv, NotifyTypes, SingleCopies, SingleCopy
    <2> QED  BY <2>1
  <1> QED  BY <1>1, NotifyInductive, PTL
=============================================================================
