---------------------------- MODULE PipelineProofs ----------------------------
(***************************************************************************)
(* Proofs about IngestLoop and EdgePersistence, the two halves of the      *)
(* pipeline: its backpressure handshake and its way to the disk.           *)
(*                                                                         *)
(* IngestLoop.  TokenMeansPaused is not inductive as it stands: while the  *)
(* main goroutine flushes or is about to drain pauseCh, p.paused is clear  *)
(* and the token may still be there, and in the second case the monitor    *)
(* may even request again and block on the full channel with p.mu held.    *)
(* Inv says that this is the only case in which it blocks, and that the    *)
(* main goroutine then receives from the channel next, without p.mu.       *)
(*                                                                         *)
(* EdgePersistence.  The three properties say where each event is counted. *)
(* They need to know that an edge in the store is never replaced by        *)
(* another one, which holds because the last time of an edge identifies    *)
(* it; that of two edges that count an event one was stored by itself,     *)
(* because every merged edge is in one place at a time; and how far Stop   *)
(* and a backup have come.                                                 *)
(***************************************************************************)
EXTENDS IngestLoop, EdgePersistence, FiniteSetTheorems, TLAPS

(***************************************************************************)
(* IngestLoop.                                                             *)
(***************************************************************************)

\* A token outlives p.paused only from checkPause's flush to the drain.
TokenOutlivesFlag == pauseCh /\ ~paused => main \in {"flush", "drain"}

\* The monitor sends with p.paused set, because it holds p.mu.
SenderHasPaused == mon = "send" => paused

\* checkPause's flush and onHighPressure's send exclude each other: TypeOK says
\* who holds p.mu, not that the other one does not run on without it.
LockIsExclusive == ~(main = "flush" /\ mon = "send")

\* onHighPressure finds pauseCh full only when the main goroutine receives
\* from it in its next step.
SendWaitsForDrainOnly == mon = "send" /\ pauseCh => main = "drain"

\* Only checkPause clears p.paused, and then it flushes.
RequestIsRecorded == ~flushed => paused \/ main = "flush"

Inv ==
    /\ TypeOK
    /\ TokenOutlivesFlag
    /\ SenderHasPaused
    /\ LockIsExclusive
    /\ SendWaitsForDrainOnly
    /\ RequestIsRecorded

\* The invariant holds when the daemon enters its main loop.
LEMMA IngestInit == Init => Inv
  BY DEF Init, Inv, TypeOK, Signals, TokenOutlivesFlag, SenderHasPaused, LockIsExclusive,
         SendWaitsForDrainOnly, RequestIsRecorded

\* Every step of the main goroutine keeps the invariant.
LEMMA IngestMainStep == Inv /\ MainNext => Inv'
  <1> SUFFICES ASSUME Inv, MainNext PROVE Inv'
      OBVIOUS
  <1> USE DEF Inv, TypeOK, TokenOutlivesFlag, SenderHasPaused, LockIsExclusive,
              SendWaitsForDrainOnly, RequestIsRecorded
  <1>1. CASE TakeEvent
      BY <1>1 DEF TakeEvent
  <1>2. CASE CheckPause
    <2>1. main = "add" /\ mu = "none" /\ mon # "send"
        BY <1>2 DEF CheckPause
    <2>2. CASE paused
        BY <1>2, <2>1, <2>2 DEF CheckPause
    <2>3. CASE ~paused
        BY <1>2, <2>1, <2>3 DEF CheckPause
    <2> QED  BY <2>2, <2>3
  <1>3. CASE CheckPauseResume
      BY <1>3 DEF CheckPauseResume
  <1>4. CASE DrainPause
      BY <1>4 DEF DrainPause
  <1>5. CASE TakeAlert \/ NotifyReturns
      BY <1>5 DEF TakeAlert, NotifyReturns
  <1>6. CASE TakePause
      BY <1>6 DEF TakePause
  <1>7. CASE Resume
      BY <1>7 DEF Resume
  <1>8. CASE ForcedResume
      BY <1>8 DEF ForcedResume
  <1>9. CASE PausedSignal
      BY <1>9 DEF PausedSignal
  <1>10. CASE TakeSignal
    <2>1. CASE sigCh \in {"HUP", "QUIT"}
        BY <1>10, <2>1 DEF TakeSignal
    <2>2. CASE sigCh \notin {"HUP", "QUIT"}
        BY <1>10, <2>2 DEF TakeSignal
    <2> QED  BY <2>1, <2>2
  <1>11. CASE Report
      BY <1>11 DEF Report
  <1>12. CASE Stop
      BY <1>12 DEF Stop
  <1>13. CASE GracefulStop
      BY <1>13 DEF GracefulStop
  <1> QED
      BY <1>1, <1>2, <1>3, <1>4, <1>5, <1>6, <1>7, <1>8, <1>9, <1>10, <1>11, <1>12, <1>13 DEF MainNext

\* Every step of the pressure monitor keeps the invariant.
LEMMA IngestMonStep == Inv /\ MonNext => Inv'
  <1> SUFFICES ASSUME Inv, MonNext PROVE Inv'
      OBVIOUS
  <1> USE DEF Inv, TypeOK, TokenOutlivesFlag, SenderHasPaused, LockIsExclusive,
              SendWaitsForDrainOnly, RequestIsRecorded
  <1>1. CASE \E level \in {"nominal", "mid", "high"} : MonTick(level)
    <2>1. mon = "idle" /\ mon' \in {"idle", "mid", "high"}
        BY <1>1 DEF MonTick
    <2> QED  BY <1>1, <2>1 DEF MonTick
  <1>2. CASE MonRequest
    <2>1. mon = "high" /\ mu = "none" /\ main # "flush"
        BY <1>2 DEF MonRequest
    <2>2. CASE paused
        BY <1>2, <2>1, <2>2 DEF MonRequest
    <2>3. CASE ~paused
        BY <1>2, <2>1, <2>3 DEF MonRequest
    <2> QED  BY <2>2, <2>3
  <1>3. CASE MonSend
      BY <1>3 DEF MonSend
  <1>4. CASE MonMid
      BY <1>4 DEF MonMid
  <1>5. CASE MonExit
      BY <1>5 DEF MonExit
  <1> QED
      BY <1>1, <1>2, <1>3, <1>4, <1>5 DEF MonNext

\* Every step of the daemon keeps the invariant.
LEMMA IngestStep == Inv /\ [Next]_vars => Inv'
  <1> SUFFICES ASSUME Inv, [Next]_vars PROVE Inv'
      OBVIOUS
  <1>1. CASE \E s \in Signals : Deliver(s)
      BY <1>1 DEF Deliver, Inv, TypeOK, TokenOutlivesFlag, SenderHasPaused, LockIsExclusive,
                  SendWaitsForDrainOnly, RequestIsRecorded
  <1>2. CASE Watch
      BY <1>2 DEF Watch, Inv, TypeOK, TokenOutlivesFlag, SenderHasPaused, LockIsExclusive,
                  SendWaitsForDrainOnly, RequestIsRecorded
  <1>3. CASE UNCHANGED vars
      BY <1>3 DEF vars, Inv, TypeOK, TokenOutlivesFlag, SenderHasPaused, LockIsExclusive,
                  SendWaitsForDrainOnly, RequestIsRecorded
  <1>4. CASE Unwatch
      BY <1>4 DEF Unwatch, Inv, TypeOK, TokenOutlivesFlag, SenderHasPaused, LockIsExclusive,
                  SendWaitsForDrainOnly, RequestIsRecorded
  <1> QED
      BY <1>1, <1>2, <1>3, <1>4, IngestMainStep, IngestMonStep DEF Next

\* The invariant holds in every state of the daemon.
THEOREM IngestInvariant == Spec => []Inv
  BY IngestInit, IngestStep, PTL DEF Spec

\* The program counters and the channels keep their types, and p.mu is held
\* exactly by a flush in checkPause or by a send in onHighPressure.
THEOREM IngestTypes == Spec => []TypeOK
  <1>1. Inv => TypeOK
      BY DEF Inv
  <1> QED  BY <1>1, IngestInvariant, PTL

\* A token that the main select, a notification, a pause or the shutdown finds
\* in pauseCh belongs to a request that p.paused still records.
THEOREM TokenMeansPausedHolds == Spec => []TokenMeansPaused
  <1>1. Inv => TokenMeansPaused
      BY DEF Inv, TokenOutlivesFlag, TokenMeansPaused
  <1> QED  BY <1>1, IngestInvariant, PTL

\* A pause request of the monitor lasts until a flush answers it, whether its
\* token is drained, obeyed, or forced to end by the ten second timeout.
THEOREM RequestNotForgottenHolds == Spec => []RequestNotForgotten
  <1>1. Inv => RequestNotForgotten
      BY DEF Inv, RequestIsRecorded, RequestNotForgotten
  <1> QED  BY <1>1, IngestInvariant, PTL

\* The critical sections of p.mu exclude each other: checkPause never flushes
\* while the monitor is in onHighPressure's.
THEOREM PipelineLockExcludes == Spec => []~(main = "flush" /\ mon = "send")
  <1>1. Inv => ~(main = "flush" /\ mon = "send")
      BY DEF Inv, LockIsExclusive
  <1> QED  BY <1>1, IngestInvariant, PTL

\* There is no circular wait: whenever the monitor blocks on a full pauseCh with
\* p.mu held, the main goroutine is at the receive that empties it, not in
\* checkPause or Stats waiting for p.mu.
THEOREM NoCircularWait == Spec => [](mon = "send" /\ pauseCh => main = "drain")
  <1>1. Inv => (mon = "send" /\ pauseCh => main = "drain")
      BY DEF Inv, SendWaitsForDrainOnly
  <1> QED  BY <1>1, IngestInvariant, PTL

(***************************************************************************)
(* EdgePersistence.                                                        *)
(***************************************************************************)

\* Every edge that is anywhere: stored, tracked, about to be written or lost.
AllEdges == batch \cup disk \cup lost \cup first \cup window \cup UNION {taken[f] : f \in Flushers}

\* An edge is identified by its last time, so nothing replaces another edge in the store.
TimesIdentify == \A r, s \in AllEdges : r.ts = s.ts => r = s

\* An edge counts the event that gave it its last time, and only events ingested.
LastIsCounted == \A r \in AllEdges : r.ts \in r.of /\ r.of \subseteq 1 .. now

\* The edge that mergeEdges writes by itself counts one event.
FirstIsAlone == \A r \in first : r.of = {r.ts}

\* Every event is counted somewhere.
EveryEventHeld == \A e \in 1 .. now : \E p \in Places : e \in EventsOf(At(p))

\* Of two edges that count the same event one was stored by itself.
Alone(p, r, e) == p = "stored" /\ r.of = {e}

OneMergedCopy ==
    \A p, q \in Places : \A r \in At(p), s \in At(q) : \A e \in r.of \cap s.of :
        (p = q /\ r = s) \/ Alone(p, r, e) \/ Alone(q, s, e)

\* A flusher holds edges only while it writes them.
TakenOnlyInPut == \A f \in Flushers : pc[f] # "put" => taken[f] = {}

\* How far Stop has come, and what is then finished.
StopProgress ==
    /\ mainAt \in {"final", "close", "closed"} => pc["ticker"] = "exited"
    /\ mainAt \in {"close", "closed"} => window = {}
    /\ closed => mainAt = "closed" /\ batch = {} /\ pc["main"] = "idle"
    /\ ~closed => lost = {}

\* How far a backup has come, and where the events it must archive then are.
BackupProgress ==
    /\ pc["backup"] = "put" /\ ~closed => before \subseteq EventsOf(disk \cup batch \cup taken["backup"])
    /\ pc["backup"] = "commit" /\ ~closed => before \subseteq EventsOf(disk \cup batch)
    /\ pc["backup"] = "checkpoint" /\ ~closed => before \subseteq EventsOf(disk)
    /\ pc["backup"] = "idle" => before \subseteq EventsOf(archive)

EdgeInv ==
    /\ EdgeTypeOK
    /\ TimesIdentify
    /\ LastIsCounted
    /\ FirstIsAlone
    /\ EveryEventHeld
    /\ OneMergedCopy
    /\ TakenOnlyInPut
    /\ StopProgress
    /\ BackupProgress

\* Where times identify edges, replacing in the store is adding to it.
LEMMA OverlayIsUnion ==
    ASSUME NEW old, NEW new, \A r, s \in old \cup new : r.ts = s.ts => r = s
    PROVE  Overlay(old, new) = old \cup new
  BY DEF Overlay

\* So what is stored is what is on disk or in the batch.
LEMMA StoredIsUnion ==
    ASSUME EdgeInv
    PROVE  At("stored") = disk \cup batch
  <1>1. \A r, s \in disk \cup batch : r.ts = s.ts => r = s
      BY DEF EdgeInv, TimesIdentify, AllEdges
  <1>2. Overlay(disk, batch) = disk \cup batch
      BY <1>1, OverlayIsUnion
  <1> QED  BY <1>2 DEF At

\* The same of the next state, once times identify edges there.
LEMMA StoredIsUnionLater ==
    ASSUME TimesIdentify'
    PROVE  At("stored")' = disk' \cup batch'
  <1>1. \A r, s \in disk' \cup batch' : r.ts = s.ts => r = s
      BY DEF TimesIdentify, AllEdges
  <1>2. Overlay(disk', batch') = disk' \cup batch'
      BY <1>1, OverlayIsUnion
  <1> QED  BY <1>2 DEF At, Overlay

\* PutEdge adds its edge to the store, and takes nothing off the disk.
LEMMA PutEdgeAdds ==
    ASSUME EdgeInv, NEW r \in AllEdges, PutEdge(r)
    PROVE  /\ disk' \cup batch' = disk \cup batch \cup {r}
           /\ disk \subseteq disk'
           /\ IsFiniteSet(batch') /\ Cardinality(batch') < BatchCap
  <1> DEFINE b == Overlay(batch, {r})
  <1>1. \A s, t \in batch \cup {r} : s.ts = t.ts => s = t
      BY DEF EdgeInv, TimesIdentify, AllEdges
  <1>2. b = batch \cup {r}
      BY <1>1, OverlayIsUnion
  <1>3. \A s, t \in disk \cup (batch \cup {r}) : s.ts = t.ts => s = t
      BY DEF EdgeInv, TimesIdentify, AllEdges
  <1>4. Overlay(disk, b) = disk \cup (batch \cup {r})
      BY <1>2, <1>3, OverlayIsUnion
  <1>5. IsFiniteSet(b) /\ Cardinality(b) \in Nat
    <2>1. IsFiniteSet(batch)
        BY DEF EdgeInv, EdgeTypeOK
    <2>2. IsFiniteSet(batch \cup {r})
        BY <2>1, FS_AddElement
    <2> QED  BY <2>2, <1>2, FS_CardinalityType
  <1>6. IsFiniteSet({}) /\ Cardinality({}) = 0
      BY FS_EmptySet
  <1>7. CASE Cardinality(b) >= BatchCap
    <2>1. disk' = Overlay(disk, b) /\ batch' = {}
        BY <1>7 DEF PutEdge
    <2> QED  BY <2>1, <1>4, <1>6, PersistenceAssumption
  <1>8. CASE ~(Cardinality(b) >= BatchCap)
    <2>1. batch' = b /\ disk' = disk
        BY <1>8 DEF PutEdge
    <2> HIDE DEF b
    <2> QED  BY <2>1, <1>2, <1>5, <1>8, PersistenceAssumption
  <1> QED  BY <1>7, <1>8

\* flushLocked moves the batch to the disk.
LEMMA CommitMoves ==
    ASSUME EdgeInv, Commit
    PROVE  /\ disk' = disk \cup batch /\ batch' = {}
           /\ IsFiniteSet(batch') /\ Cardinality(batch') < BatchCap
  <1>1. \A r, s \in disk \cup batch : r.ts = s.ts => r = s
      BY DEF EdgeInv, TimesIdentify, AllEdges
  <1>2. Overlay(disk, batch) = disk \cup batch
      BY <1>1, OverlayIsUnion
  <1> QED  BY <1>2, FS_EmptySet, PersistenceAssumption DEF Commit

\* An edge stays identified by its time, and the invariant's facts about single
\* edges stay true, when no new edge is made.
LEMMA NoNewEdge ==
    ASSUME EdgeInv, AllEdges' \subseteq AllEdges, first' \subseteq first, now' = now
    PROVE  TimesIdentify' /\ LastIsCounted' /\ FirstIsAlone'
  BY DEF EdgeInv, TimesIdentify, LastIsCounted, FirstIsAlone

\* Every place but the store, with and without its definition by cases.
LEMMA PlacesAt ==
    /\ At("window") = window /\ At("lost") = lost
    /\ \A f \in Flushers : At(f) = taken[f] /\ f # "stored" /\ f # "window" /\ f # "lost"
    /\ Flushers \subseteq Places /\ "stored" \in Places /\ "window" \in Places /\ "lost" \in Places
    /\ \A p \in Places : p \in Flushers \/ p = "stored" \/ p = "window" \/ p = "lost"
  BY DEF At, Places, Flushers

\* Nothing is ingested when the pipeline is created.
LEMMA EdgeInitInv == EdgeInit => EdgeInv
  <1> SUFFICES ASSUME EdgeInit PROVE EdgeInv
      OBVIOUS
  <1>1. EdgeTypeOK
    <2>1. IsFiniteSet(batch) /\ Cardinality(batch) < BatchCap
        BY FS_EmptySet, PersistenceAssumption DEF EdgeInit
    <2>2. /\ taken \in [Flushers -> SUBSET Record]
          /\ pc \in [Flushers -> {"idle", "put", "commit", "checkpoint", "exited"}]
        BY DEF EdgeInit
    <2>3. now \in 0 .. MaxEvents /\ flushes \in 0 .. MaxFlushes
        BY PersistenceAssumption DEF EdgeInit
    <2> QED  BY <2>1, <2>2, <2>3 DEF EdgeInit, EdgeTypeOK
  <1>2. AllEdges = {} /\ first = {} /\ now = 0
      BY DEF EdgeInit, AllEdges
  <1>3. TimesIdentify /\ LastIsCounted /\ FirstIsAlone
      BY <1>2 DEF TimesIdentify, LastIsCounted, FirstIsAlone
  <1>4. EveryEventHeld
      BY <1>2 DEF EveryEventHeld
  <1>5. \A p \in Places : At(p) = {}
    <2>1. Overlay(disk, batch) = {}
        BY DEF EdgeInit, Overlay
    <2> QED  BY <2>1 DEF EdgeInit, At, Places, Flushers
  <1>6. OneMergedCopy
      BY <1>5 DEF OneMergedCopy
  <1>7. TakenOnlyInPut /\ StopProgress /\ BackupProgress
      BY DEF EdgeInit, TakenOnlyInPut, StopProgress, BackupProgress, EventsOf, Flushers
  <1> QED  BY <1>1, <1>3, <1>4, <1>6, <1>7 DEF EdgeInv

\* mergeEdges keeps the invariant: the event joins the edge its key tracks.
LEMMA AddEventStep ==
    ASSUME EdgeInv, NEW k \in Key, AddEvent(k)
    PROVE  EdgeInv'
  <1> DEFINE n == [key |-> k, ts |-> now + 1, of |-> EventsOf(Tracked(k)) \cup {now + 1}]
             o == [key |-> k, ts |-> now + 1, of |-> {now + 1}]
  <1>1. /\ now' = now + 1 /\ now + 1 \in 1 .. MaxEvents /\ now \in Nat
        /\ window' = (window \ Tracked(k)) \cup {n}
        /\ UNCHANGED <<batch, disk, closed, taken, pc, flushes, lost, before, archive>>
        /\ mainAt = "run" /\ mainAt' \in {"run", "putFirst"}
    <2>1. now' = now + 1 /\ now + 1 \in 1 .. MaxEvents /\ now \in Nat
        BY PersistenceAssumption DEF AddEvent, EdgeInv, EdgeTypeOK
    <2> QED  BY <2>1 DEF AddEvent, TryMerge
  <1>2. (Tracked(k) = {} /\ first' = {o}) \/ first' = first
      BY DEF AddEvent, TryMerge
  <1>3. Tracked(k) \subseteq window /\ (Tracked(k) = {} => n = o)
      BY DEF Tracked, EventsOf
  <1>4. \A r \in AllEdges : r.ts \in 1 .. now /\ r.of \subseteq 1 .. now
      BY DEF EdgeInv, EdgeTypeOK, LastIsCounted
  <1>5. /\ n.key = k /\ n.ts = now + 1 /\ n.of = EventsOf(Tracked(k)) \cup {now + 1}
        /\ o.of = {now + 1} /\ o.ts = now + 1
      OBVIOUS
  <1>6. EventsOf(Tracked(k)) \subseteq 1 .. now
      BY <1>3, <1>4 DEF EventsOf, AllEdges
  <1>7. n \in Record /\ o \in Record
    <2>1. EventsOf(Tracked(k)) \cup {now + 1} \in SUBSET (1 .. MaxEvents)
        BY <1>1, <1>6, PersistenceAssumption
    <2>2. {now + 1} \in SUBSET (1 .. MaxEvents)
        BY <1>1
    <2> QED  BY <2>1, <2>2, <1>1 DEF Record
  <1> HIDE DEF n, o
  <1>8. \A r \in AllEdges' : r \in AllEdges \/ r = n
      BY <1>1, <1>2, <1>3 DEF AllEdges
  <1>9. EdgeTypeOK'
    <2>1. window' \subseteq Record /\ first' \subseteq Record
        BY <1>1, <1>2, <1>7 DEF EdgeInv, EdgeTypeOK
    <2> QED  BY <2>1, <1>1 DEF EdgeInv, EdgeTypeOK
  <1>10. TimesIdentify'
    <2> SUFFICES ASSUME NEW r \in AllEdges', NEW s \in AllEdges', r.ts = s.ts PROVE r = s
        BY DEF TimesIdentify
    <2>1. CASE r \in AllEdges /\ s \in AllEdges
        BY <2>1 DEF EdgeInv, TimesIdentify
    <2>2. CASE r = n \/ s = n
        BY <2>2, <1>1, <1>4, <1>5, <1>8
    <2> QED  BY <2>1, <2>2, <1>8
  <1>11. LastIsCounted'
    <2> SUFFICES ASSUME NEW r \in AllEdges' PROVE r.ts \in r.of /\ r.of \subseteq 1 .. (now + 1)
        BY <1>1 DEF LastIsCounted
    <2>1. CASE r \in AllEdges
        BY <2>1, <1>1 DEF EdgeInv, LastIsCounted
    <2>2. CASE r = n
        BY <2>2, <1>1, <1>5, <1>6
    <2> QED  BY <2>1, <2>2, <1>8
  <1>12. FirstIsAlone'
      BY <1>2, <1>5 DEF FirstIsAlone, EdgeInv
  <1>13. \A p \in Places : p # "window" => At(p)' = At(p)
    <2>1. Overlay(disk, batch)' = Overlay(disk, batch)
        BY <1>1 DEF Overlay
    <2> QED  BY <2>1, <1>1 DEF At
  <1>14. At("window")' = window' /\ At("window") = window /\ "window" \in Places
      BY PlacesAt DEF At
  <1>15. EveryEventHeld'
    <2> SUFFICES ASSUME NEW e \in 1 .. (now + 1) PROVE \E p \in Places : e \in EventsOf(At(p)')
        BY <1>1 DEF EveryEventHeld, EventsOf
    <2>1. CASE e = now + 1
        BY <2>1, <1>1, <1>5, <1>14 DEF EventsOf
    <2>2. CASE e # now + 1
      <3>1. PICK p \in Places : e \in EventsOf(At(p))
          BY <2>2, <1>1 DEF EdgeInv, EveryEventHeld
      <3>2. CASE p # "window"
          BY <3>1, <3>2, <1>13
      <3>3. CASE p = "window"
        <4>1. PICK r \in window : e \in r.of
            BY <3>1, <3>3, <1>14 DEF EventsOf
        <4>2. CASE r \in Tracked(k)
            BY <4>1, <4>2, <1>1, <1>5, <1>14 DEF EventsOf
        <4>3. CASE r \notin Tracked(k)
            BY <4>1, <4>3, <1>1, <1>14 DEF EventsOf
        <4> QED  BY <4>2, <4>3
      <3> QED  BY <3>2, <3>3
    <2> QED  BY <2>1, <2>2
  <1>16. OneMergedCopy'
    <2> SUFFICES ASSUME NEW p \in Places, NEW q \in Places, NEW r \in At(p)', NEW s \in At(q)',
                        NEW e \in r.of \cap s.of
                 PROVE  (p = q /\ r = s) \/ Alone(p, r, e) \/ Alone(q, s, e)
        BY DEF OneMergedCopy, Alone
    <2>1. \A p1 \in Places : \A r1 \in At(p1)' : r1 \in At(p1) \/ (p1 = "window" /\ r1 = n)
        BY <1>13, <1>14, <1>1
    <2>2. \A p1 \in Places : \A r1 \in At(p1) : r1.of \subseteq 1 .. now
      <3>1. \A p1 \in Places : At(p1) \subseteq AllEdges
          BY StoredIsUnion, PlacesAt DEF AllEdges
      <3> QED  BY <3>1, <1>4
    <2>3. ASSUME NEW p1 \in Places, NEW r1 \in At(p1)', e \in r1.of, e \in n.of
          PROVE  (p1 = "window" /\ r1 = n) \/ Alone(p1, r1, e)
      <3>1. CASE e = now + 1
          BY <3>1, <2>1, <2>2, <2>3, <1>1
      <3>2. CASE e # now + 1
        <4>1. PICK t \in Tracked(k) : e \in t.of
            BY <3>2, <1>5, <2>3 DEF EventsOf
        <4>2. t \in At("window") /\ ~Alone("window", t, e)
            BY <1>3, <1>14 DEF Alone
        <4>3. CASE r1 \in At(p1)
          <5>1. (p1 = "window" /\ r1 = t) \/ Alone(p1, r1, e)
              BY <4>1, <4>2, <4>3, <2>3, <1>14 DEF EdgeInv, OneMergedCopy
          <5>2. p1 = "window" => r1 \notin Tracked(k) \/ r1 = n
              BY <1>1, <1>14
          <5> QED  BY <5>1, <5>2, <4>1
        <4> QED  BY <4>3, <2>1
      <3> QED  BY <3>1, <3>2
    <2>4. CASE r \in At(p) /\ s \in At(q)
        BY <2>4 DEF EdgeInv, OneMergedCopy
    <2>5. CASE p = "window" /\ r = n
        BY <2>5, <2>3
    <2>6. CASE q = "window" /\ s = n
        BY <2>6, <2>3
    <2> QED  BY <2>1, <2>4, <2>5, <2>6
  <1>17. TakenOnlyInPut' /\ StopProgress' /\ BackupProgress'
      BY <1>1 DEF EdgeInv, TakenOnlyInPut, StopProgress, BackupProgress, EventsOf
  <1> QED  BY <1>9, <1>10, <1>11, <1>12, <1>15, <1>16, <1>17 DEF EdgeInv

\* What moving edges from one place to another does to the copies of an event:
\* nothing is missing, and no event gains a merged copy.
LEMMA MoveKeepsCopies ==
    ASSUME EdgeInv, now' = now,
           NEW from \in Places, NEW to \in Places, from # "stored",
           NEW moved, moved \subseteq At(from),
           to # from,
           At(from)' = At(from) \ moved,
           At(to)' = At(to) \cup moved,
           \A p \in Places : p # from /\ p # to => At(p)' = At(p)
    PROVE  EveryEventHeld' /\ OneMergedCopy'
  <1>1. EveryEventHeld'
    <2> SUFFICES ASSUME NEW e \in 1 .. now PROVE \E p \in Places : e \in EventsOf(At(p)')
        BY DEF EveryEventHeld, EventsOf
    <2>1. PICK p \in Places : \E r \in At(p) : e \in r.of
        BY DEF EdgeInv, EveryEventHeld, EventsOf
    <2> PICK r \in At(p) : e \in r.of
        BY <2>1
    <2>2. \E q \in Places : r \in At(q)'
        BY <2>1
    <2> QED  BY <2>1, <2>2 DEF EventsOf
  <1>2. OneMergedCopy'
    <2> SUFFICES ASSUME NEW p \in Places, NEW q \in Places, NEW r \in At(p)', NEW s \in At(q)',
                        NEW e \in r.of \cap s.of
                 PROVE  (p = q /\ r = s) \/ Alone(p, r, e) \/ Alone(q, s, e)
        BY DEF OneMergedCopy, Alone
    <2>1. ASSUME NEW p1 \in Places, NEW r1 \in At(p1)'
          PROVE  r1 \in At(p1) \/ (p1 = to /\ r1 \in moved)
        BY <2>1
    <2>2. \A p1, q1 \in Places : \A r1 \in At(p1), s1 \in At(q1) :
              e \in r1.of /\ e \in s1.of => (p1 = q1 /\ r1 = s1) \/ Alone(p1, r1, e) \/ Alone(q1, s1, e)
        BY DEF EdgeInv, OneMergedCopy
    <2>3. CASE r \in At(p) /\ s \in At(q)
        BY <2>3, <2>2
    <2>4. CASE p = to /\ r \in moved
      <3>1. r \in At(from) /\ ~Alone(from, r, e)
          BY <2>4 DEF Alone
      <3>2. CASE s \in At(q)
          BY <3>1, <3>2, <2>2, <2>4
      <3>3. CASE q = to /\ s \in moved
          BY <3>1, <3>3, <2>2, <2>4 DEF Alone
      <3> QED  BY <3>2, <3>3, <2>1
    <2>5. CASE q = to /\ s \in moved
      <3>1. s \in At(from) /\ ~Alone(from, s, e)
          BY <2>5 DEF Alone
      <3>2. CASE r \in At(p)
          BY <3>1, <3>2, <2>2, <2>5
      <3>3. CASE p = to /\ r \in moved
          BY <3>1, <3>3, <2>4
      <3> QED  BY <3>2, <3>3, <2>1
    <2> QED  BY <2>1, <2>3, <2>4, <2>5
  <1> QED  BY <1>1, <1>2

\* Writing the first occurrence keeps the invariant.
LEMMA PutFirstStep ==
    ASSUME EdgeInv, PutFirst
    PROVE  EdgeInv'
  <1>1. PICK r \in first : PutEdge(r)
      BY DEF PutFirst
  <1>2. /\ mainAt = "putFirst" /\ first' = {} /\ mainAt' = "run"
        /\ UNCHANGED <<now, window, closed, taken, pc, flushes, lost, before, archive>>
      BY DEF PutFirst
  <1>3. r \in AllEdges /\ r.of = {r.ts} /\ r \in Record
      BY DEF AllEdges, EdgeInv, FirstIsAlone, EdgeTypeOK
  <1>4. /\ disk' \cup batch' = disk \cup batch \cup {r} /\ disk \subseteq disk'
        /\ IsFiniteSet(batch') /\ Cardinality(batch') < BatchCap
      BY <1>1, <1>3, PutEdgeAdds
  <1>5. AllEdges' \subseteq AllEdges
      BY <1>2, <1>3, <1>4 DEF AllEdges
  <1>6. TimesIdentify' /\ LastIsCounted' /\ FirstIsAlone'
      BY <1>2, <1>5, NoNewEdge
  <1>7. EdgeTypeOK'
    <2>1. batch' \subseteq Record /\ disk' \subseteq Record
        BY <1>3, <1>4 DEF EdgeInv, EdgeTypeOK
    <2> QED  BY <2>1, <1>2, <1>4 DEF EdgeInv, EdgeTypeOK
  <1>8. At("stored") = disk \cup batch
      BY StoredIsUnion
  <1>9. At("stored")' = disk' \cup batch'
      BY <1>6, StoredIsUnionLater
  <1>10. \A p \in Places : p # "stored" => At(p)' = At(p)
      BY <1>2 DEF At
  <1>11. EveryEventHeld'
    <2>1. \A p \in Places : At(p) \subseteq At(p)'
        BY <1>4, <1>8, <1>9, <1>10
    <2> QED  BY <2>1, <1>2 DEF EdgeInv, EveryEventHeld, EventsOf
  <1>12. OneMergedCopy'
    <2> SUFFICES ASSUME NEW p \in Places, NEW q \in Places, NEW s \in At(p)', NEW t \in At(q)',
                        NEW e \in s.of \cap t.of
                 PROVE  (p = q /\ s = t) \/ Alone(p, s, e) \/ Alone(q, t, e)
        BY DEF OneMergedCopy, Alone
    <2>1. \A p1 \in Places : \A s1 \in At(p1)' : s1 \in At(p1) \/ (p1 = "stored" /\ s1 = r)
        BY <1>4, <1>8, <1>9, <1>10
    <2>2. e \in r.of => Alone("stored", r, e)
        BY <1>3 DEF Alone
    <2>3. CASE s \in At(p) /\ t \in At(q)
        BY <2>3 DEF EdgeInv, OneMergedCopy
    <2> QED  BY <2>1, <2>2, <2>3
  <1>13. TakenOnlyInPut' /\ StopProgress'
      BY <1>2 DEF EdgeInv, TakenOnlyInPut, StopProgress
  <1>14. BackupProgress'
      BY <1>2, <1>4 DEF EdgeInv, BackupProgress, EventsOf
  <1> QED  BY <1>6, <1>7, <1>11, <1>12, <1>13, <1>14 DEF EdgeInv

\* Swapping the window keeps the invariant: the flusher held nothing before.
LEMMA StartFlushStep ==
    ASSUME EdgeInv, NEW f \in Flushers, StartFlush(f)
    PROVE  EdgeInv'
  <1>1. /\ pc[f] = "idle" /\ taken' = [taken EXCEPT ![f] = window] /\ window' = {}
        /\ pc' = [pc EXCEPT ![f] = "put"]
        /\ UNCHANGED <<now, batch, disk, closed, first, lost, archive>>
      BY DEF StartFlush, MayFlush, Take
  <1>2. /\ f = "main" => mainAt \in {"run", "final"}
        /\ f # "main" => flushes < MaxFlushes
        /\ f = "backup" => ~closed
      BY DEF StartFlush, MayFlush
  <1>3. /\ flushes' = IF f = "main" THEN flushes ELSE flushes + 1
        /\ before' = IF f = "backup" THEN Settled ELSE before
        /\ mainAt' = IF f = "main" /\ mainAt = "final" THEN "close" ELSE mainAt
      BY DEF StartFlush
  <1>4. taken[f] = {} /\ taken'[f] = window /\ (\A g \in Flushers : g # f => taken'[g] = taken[g])
      BY <1>1 DEF EdgeInv, TakenOnlyInPut, EdgeTypeOK
  <1>5. pc'[f] = "put" /\ (\A g \in Flushers : g # f => pc'[g] = pc[g])
      BY <1>1 DEF EdgeInv, EdgeTypeOK
  <1>6. AllEdges' \subseteq AllEdges
      BY <1>1, <1>4 DEF AllEdges
  <1>7. TimesIdentify' /\ LastIsCounted' /\ FirstIsAlone'
      BY <1>1, <1>6, NoNewEdge
  <1>8. EdgeTypeOK'
    <2>1. taken' \in [Flushers -> SUBSET Record]
        BY <1>1 DEF EdgeInv, EdgeTypeOK
    <2>2. pc' \in [Flushers -> {"idle", "put", "commit", "checkpoint", "exited"}]
        BY <1>1 DEF EdgeInv, EdgeTypeOK
    <2>3. flushes' \in 0 .. MaxFlushes
        BY <1>2, <1>3, PersistenceAssumption DEF EdgeInv, EdgeTypeOK
    <2>4. before' \subseteq 1 .. now'
        BY <1>1, <1>3 DEF EdgeInv, EdgeTypeOK, Settled
    <2>5. mainAt' \in {"run", "putFirst", "wait", "final", "close", "closed"}
        BY <1>3 DEF EdgeInv, EdgeTypeOK
    <2> QED  BY <2>1, <2>2, <2>3, <2>4, <2>5, <1>1 DEF EdgeInv, EdgeTypeOK
  <1>9. EveryEventHeld' /\ OneMergedCopy'
    <2>1. f \in Places /\ "window" \in Places /\ f # "window"
        BY PlacesAt
    <2>2. window \subseteq At("window")
        BY PlacesAt
    <2>3. At("window")' = At("window") \ window
        BY <1>1 DEF At
    <2>4. At(f)' = At(f) \cup window
        BY <1>4 DEF At, Flushers
    <2>5. \A p \in Places : p # "window" /\ p # f => At(p)' = At(p)
      <3>1. Overlay(disk, batch)' = Overlay(disk, batch)
          BY <1>1 DEF Overlay
      <3> QED  BY <3>1, <1>1, <1>4 DEF At, Places
    <2> QED  BY <2>1, <2>2, <2>3, <2>4, <2>5, <1>1, MoveKeepsCopies
  <1>10. TakenOnlyInPut'
      BY <1>4, <1>5 DEF EdgeInv, TakenOnlyInPut
  <1>11. StopProgress'
    <2>1. pc["ticker"] = "exited" => pc'["ticker"] = "exited"
        BY <1>1, <1>5 DEF Flushers
    <2>2. mainAt = "closed" => f # "main"
        BY <1>2
    <2>3. "main" \in Flushers
        BY DEF Flushers
    <2> QED  BY <2>1, <2>2, <2>3, <1>1, <1>3, <1>5 DEF EdgeInv, StopProgress
  <1>12. BackupProgress'
    <2>1. CASE f # "backup"
      <3>1. pc'["backup"] = pc["backup"] /\ taken'["backup"] = taken["backup"]
          BY <2>1, <1>4, <1>5 DEF Flushers
      <3> QED  BY <2>1, <3>1, <1>1, <1>3 DEF EdgeInv, BackupProgress
    <2>2. CASE f = "backup"
      <3>1. pc'["backup"] = "put" /\ taken'["backup"] = window /\ taken["backup"] = {} /\ lost = {}
          BY <2>2, <1>2, <1>4, <1>5 DEF EdgeInv, StopProgress
      <3>2. Settled \subseteq EventsOf(disk \cup batch \cup window)
        <4> SUFFICES ASSUME NEW e \in Settled PROVE \E r \in disk \cup batch \cup window : e \in r.of
            BY DEF EventsOf
        <4>1. e \in 1 .. now /\ \A g \in {"main", "ticker", "monitor"} : e \notin EventsOf(taken[g])
            BY DEF Settled, EventsOf
        <4>2. PICK p \in Places : e \in EventsOf(At(p))
            BY <4>1 DEF EdgeInv, EveryEventHeld
        <4>3. p \notin Flushers /\ p # "lost"
            BY <4>1, <4>2, <3>1, PlacesAt DEF Flushers, EventsOf
        <4>4. At(p) = disk \cup batch \/ At(p) = window
            BY <4>3, StoredIsUnion, PlacesAt
        <4> QED  BY <4>2, <4>4 DEF EventsOf
      <3> QED  BY <2>2, <3>1, <3>2, <1>1, <1>3 DEF BackupProgress
    <2> QED  BY <2>1, <2>2
  <1> QED  BY <1>7, <1>8, <1>9, <1>10, <1>11, <1>12 DEF EdgeInv

\* Writing one edge, or giving up on a closed store, keeps the invariant.
LEMMA FlushOneStep ==
    ASSUME EdgeInv, NEW f \in Flushers, FlushOne(f)
    PROVE  EdgeInv'
  <1>1. /\ pc[f] = "put"
        /\ UNCHANGED <<now, window, closed, mainAt, first, pc, flushes, before, archive>>
      BY DEF FlushOne
  <1>2. /\ f \in Places /\ f # "stored" /\ f # "window" /\ f # "lost" /\ At(f) = taken[f]
        /\ "stored" \in Places /\ "lost" \in Places
      BY PlacesAt
  <1>3. CASE closed
    <2>1. /\ lost' = lost \cup taken[f] /\ taken' = [taken EXCEPT ![f] = {}]
          /\ UNCHANGED <<batch, disk>>
        BY <1>3 DEF FlushOne
    <2>2. taken'[f] = {} /\ \A g \in Flushers : g # f => taken'[g] = taken[g]
        BY <2>1 DEF EdgeInv, EdgeTypeOK
    <2>3. AllEdges' \subseteq AllEdges
        BY <1>1, <2>1, <2>2 DEF AllEdges
    <2>4. TimesIdentify' /\ LastIsCounted' /\ FirstIsAlone'
        BY <1>1, <2>3, NoNewEdge
    <2>5. EdgeTypeOK'
      <3>1. taken' \in [Flushers -> SUBSET Record] /\ lost' \subseteq Record
          BY <2>1 DEF EdgeInv, EdgeTypeOK
      <3> QED  BY <3>1, <2>1, <1>1 DEF EdgeInv, EdgeTypeOK
    <2>6. EveryEventHeld' /\ OneMergedCopy'
      <3>1. At(f)' = At(f) \ taken[f]
          BY <1>2, <2>2 DEF At
      <3>2. At("lost")' = At("lost") \cup taken[f]
          BY <2>1 DEF At
      <3>3. \A p \in Places : p # f /\ p # "lost" => At(p)' = At(p)
        <4>1. Overlay(disk, batch)' = Overlay(disk, batch)
            BY <2>1 DEF Overlay
        <4> QED  BY <4>1, <1>1, <2>2 DEF At, Places
      <3> QED  BY <3>1, <3>2, <3>3, <1>1, <1>2, MoveKeepsCopies
    <2>7. TakenOnlyInPut'
        BY <1>1, <2>2 DEF EdgeInv, TakenOnlyInPut
    <2>8. StopProgress' /\ BackupProgress'
        BY <1>1, <1>3, <2>1 DEF EdgeInv, StopProgress, BackupProgress
    <2> QED  BY <2>4, <2>5, <2>6, <2>7, <2>8 DEF EdgeInv
  <1>4. CASE ~closed
    <2>1. PICK r \in taken[f] : PutEdge(r) /\ taken' = [taken EXCEPT ![f] = @ \ {r}]
        BY <1>4 DEF FlushOne
    <2>2. lost' = lost
        BY <1>4 DEF FlushOne
    <2>3. taken'[f] = taken[f] \ {r} /\ \A g \in Flushers : g # f => taken'[g] = taken[g]
        BY <2>1 DEF EdgeInv, EdgeTypeOK
    <2>4. r \in AllEdges /\ r \in Record
        BY DEF AllEdges, EdgeInv, EdgeTypeOK
    <2>5. /\ disk' \cup batch' = disk \cup batch \cup {r} /\ disk \subseteq disk'
          /\ IsFiniteSet(batch') /\ Cardinality(batch') < BatchCap
        BY <2>1, <2>4, PutEdgeAdds
    <2>6. AllEdges' \subseteq AllEdges
      <3>1. \A g \in Flushers : taken'[g] \subseteq taken[g]
          BY <2>3
      <3> QED  BY <3>1, <1>1, <2>2, <2>4, <2>5 DEF AllEdges
    <2>7. TimesIdentify' /\ LastIsCounted' /\ FirstIsAlone'
        BY <1>1, <2>6, NoNewEdge
    <2>8. EdgeTypeOK'
      <3>1. taken' \in [Flushers -> SUBSET Record]
          BY <2>1 DEF EdgeInv, EdgeTypeOK
      <3>2. batch' \subseteq Record /\ disk' \subseteq Record
          BY <2>4, <2>5 DEF EdgeInv, EdgeTypeOK
      <3> QED  BY <3>1, <3>2, <2>2, <2>5, <1>1 DEF EdgeInv, EdgeTypeOK
    <2>9. EveryEventHeld' /\ OneMergedCopy'
      <3>1. At(f)' = At(f) \ {r} /\ {r} \subseteq At(f)
          BY <1>2, <2>3 DEF At
      <3>2. At("stored")' = At("stored") \cup {r}
          BY <2>5, <2>7, StoredIsUnion, StoredIsUnionLater
      <3>3. \A p \in Places : p # f /\ p # "stored" => At(p)' = At(p)
          BY <1>1, <2>2, <2>3 DEF At, Places
      <3> QED  BY <3>1, <3>2, <3>3, <1>1, <1>2, MoveKeepsCopies
    <2>10. TakenOnlyInPut'
        BY <1>1, <2>3 DEF EdgeInv, TakenOnlyInPut
    <2>11. StopProgress'
        BY <1>1, <1>4, <2>2 DEF EdgeInv, StopProgress
    <2>12. BackupProgress'
      <3>1. disk' \cup batch' \cup taken'["backup"] = disk \cup batch \cup taken["backup"]
            \/ disk' \cup batch' \cup taken'["backup"] = (disk \cup batch \cup taken["backup"]) \cup {r}
          BY <2>3, <2>5 DEF Flushers
      <3>2. /\ EventsOf(disk) \subseteq EventsOf(disk')
            /\ EventsOf(disk \cup batch) \subseteq EventsOf(disk' \cup batch')
            /\ EventsOf(disk \cup batch \cup taken["backup"])
                   \subseteq EventsOf(disk' \cup batch' \cup taken'["backup"])
          BY <3>1, <2>5 DEF EventsOf
      <3> QED  BY <3>2, <1>1 DEF EdgeInv, BackupProgress
    <2> QED  BY <2>7, <2>8, <2>9, <2>10, <2>11, <2>12 DEF EdgeInv
  <1> QED  BY <1>3, <1>4

\* Committing the batch keeps every fact about where edges are.
LEMMA CommitKeeps ==
    ASSUME EdgeInv, Commit, UNCHANGED <<now, window, first, taken, lost>>
    PROVE  TimesIdentify' /\ LastIsCounted' /\ FirstIsAlone' /\ EveryEventHeld' /\ OneMergedCopy'
  <1>1. disk' = disk \cup batch /\ batch' = {}
      BY CommitMoves
  <1>2. AllEdges' \subseteq AllEdges
      BY <1>1 DEF AllEdges
  <1>3. TimesIdentify' /\ LastIsCounted' /\ FirstIsAlone'
      BY <1>2, NoNewEdge
  <1>4. \A p \in Places : At(p)' = At(p)
    <2>1. At("stored")' = At("stored")
        BY <1>1, <1>3, StoredIsUnion, StoredIsUnionLater
    <2> QED  BY <2>1 DEF At
  <1>5. EveryEventHeld'
      BY <1>4 DEF EdgeInv, EveryEventHeld, EventsOf
  <1>6. OneMergedCopy'
      BY <1>4 DEF EdgeInv, OneMergedCopy, Alone
  <1> QED  BY <1>3, <1>5, <1>6

\* Nothing moves when no edge does.
LEMMA NothingMoves ==
    ASSUME EdgeInv, UNCHANGED <<now, window, batch, disk, first, taken, lost>>
    PROVE  TimesIdentify' /\ LastIsCounted' /\ FirstIsAlone' /\ EveryEventHeld' /\ OneMergedCopy'
  <1>1. AllEdges' \subseteq AllEdges
      BY DEF AllEdges
  <1>2. \A p \in Places : At(p)' = At(p)
    <2>1. Overlay(disk, batch)' = Overlay(disk, batch)
        BY DEF Overlay
    <2> QED  BY <2>1 DEF At
  <1>3. EveryEventHeld'
      BY <1>2 DEF EdgeInv, EveryEventHeld, EventsOf
  <1>4. OneMergedCopy'
      BY <1>2 DEF EdgeInv, OneMergedCopy, Alone
  <1> QED  BY <1>1, <1>3, <1>4, NoNewEdge

\* The steps that move no edge keep the invariant.
LEMMA EdgeControlStep ==
    ASSUME EdgeInv,
           BeginStop \/ FinalFlush \/ Checkpoint \/ TickerExit \/ \E f \in Flushers : EndFlush(f)
    PROVE  EdgeInv'
  <1>0. UNCHANGED <<now, window, batch, disk, closed, first, taken, flushes, lost>>
      BY DEF BeginStop, FinalFlush, Checkpoint, TickerExit, EndFlush
  <1>1. TimesIdentify' /\ LastIsCounted' /\ FirstIsAlone' /\ EveryEventHeld' /\ OneMergedCopy'
      BY <1>0, NothingMoves
  <1>2. {"main", "ticker", "monitor", "backup"} = Flushers
      BY DEF Flushers
  <1>3. CASE BeginStop \/ FinalFlush
    <2>1. UNCHANGED <<pc, before, archive>> /\ mainAt \in {"run", "wait"} /\ mainAt' \in {"wait", "final"}
          /\ (mainAt' = "final" => pc["ticker"] = "exited")
        BY <1>3 DEF BeginStop, FinalFlush
    <2>2. EdgeTypeOK'
        BY <1>0, <2>1 DEF EdgeInv, EdgeTypeOK
    <2>3. TakenOnlyInPut' /\ StopProgress' /\ BackupProgress'
        BY <1>0, <2>1 DEF EdgeInv, TakenOnlyInPut, StopProgress, BackupProgress
    <2> QED  BY <1>1, <2>2, <2>3 DEF EdgeInv
  <1>4. CASE Checkpoint
    <2>1. /\ pc["backup"] = "checkpoint" /\ mainAt' = mainAt
          /\ archive' = IF closed THEN archive ELSE disk
          /\ before' = IF closed THEN {} ELSE before
          /\ pc' = [pc EXCEPT !["backup"] = "idle"]
        BY <1>4 DEF Checkpoint
    <2>2. pc'["backup"] = "idle" /\ (\A f \in Flushers : f # "backup" => pc'[f] = pc[f])
        BY <1>2, <2>1 DEF EdgeInv, EdgeTypeOK
    <2>3. EdgeTypeOK'
      <3>1. pc' \in [Flushers -> {"idle", "put", "commit", "checkpoint", "exited"}]
          BY <2>1 DEF EdgeInv, EdgeTypeOK
      <3>2. archive' \subseteq Record /\ before' \subseteq 1 .. now
          BY <2>1 DEF EdgeInv, EdgeTypeOK
      <3> QED  BY <3>1, <3>2, <1>0, <2>1 DEF EdgeInv, EdgeTypeOK
    <2>4. TakenOnlyInPut'
        BY <1>0, <2>1, <2>2 DEF EdgeInv, TakenOnlyInPut
    <2>5. StopProgress'
        BY <1>0, <1>2, <2>1, <2>2 DEF EdgeInv, StopProgress
    <2>6. BackupProgress'
        BY <1>0, <2>1, <2>2 DEF EdgeInv, BackupProgress
    <2> QED  BY <1>1, <2>3, <2>4, <2>5, <2>6 DEF EdgeInv
  <1>5. CASE TickerExit
    <2>1. /\ pc["ticker"] = "idle" /\ mainAt = "wait" /\ UNCHANGED <<mainAt, before, archive>>
          /\ pc' = [pc EXCEPT !["ticker"] = "exited"]
        BY <1>5 DEF TickerExit
    <2>2. pc'["ticker"] = "exited" /\ (\A f \in Flushers : f # "ticker" => pc'[f] = pc[f])
        BY <1>2, <2>1 DEF EdgeInv, EdgeTypeOK
    <2>3. EdgeTypeOK'
      <3>1. pc' \in [Flushers -> {"idle", "put", "commit", "checkpoint", "exited"}]
          BY <2>1 DEF EdgeInv, EdgeTypeOK
      <3> QED  BY <3>1, <1>0, <2>1 DEF EdgeInv, EdgeTypeOK
    <2>4. TakenOnlyInPut'
        BY <1>0, <2>1, <2>2 DEF EdgeInv, TakenOnlyInPut
    <2>5. StopProgress'
        BY <1>0, <1>2, <2>1, <2>2 DEF EdgeInv, StopProgress
    <2>6. BackupProgress'
        BY <1>0, <1>2, <2>1, <2>2 DEF EdgeInv, BackupProgress
    <2> QED  BY <1>1, <2>3, <2>4, <2>5, <2>6 DEF EdgeInv
  <1>6. ASSUME NEW f \in Flushers, EndFlush(f) PROVE EdgeInv'
    <2>1. /\ pc[f] = "put" /\ taken[f] = {} /\ UNCHANGED <<mainAt, before, archive>>
          /\ pc' = [pc EXCEPT ![f] = IF f = "ticker" THEN "idle" ELSE "commit"]
        BY <1>6 DEF EndFlush
    <2>2. /\ pc'[f] = IF f = "ticker" THEN "idle" ELSE "commit"
          /\ \A g \in Flushers : g # f => pc'[g] = pc[g]
        BY <2>1 DEF EdgeInv, EdgeTypeOK
    <2>3. EdgeTypeOK'
      <3>1. pc' \in [Flushers -> {"idle", "put", "commit", "checkpoint", "exited"}]
          BY <2>1 DEF EdgeInv, EdgeTypeOK
      <3> QED  BY <3>1, <1>0, <2>1 DEF EdgeInv, EdgeTypeOK
    <2>4. TakenOnlyInPut'
        BY <1>0, <2>1, <2>2 DEF EdgeInv, TakenOnlyInPut
    <2>5. StopProgress'
        BY <1>0, <1>2, <2>1, <2>2 DEF EdgeInv, StopProgress
    <2>6. BackupProgress'
      <3>1. CASE f = "backup"
          BY <3>1, <1>0, <2>1, <2>2 DEF EdgeInv, BackupProgress, EventsOf
      <3>2. CASE f # "backup"
          BY <3>2, <1>0, <1>2, <2>1, <2>2 DEF EdgeInv, BackupProgress
      <3> QED  BY <3>1, <3>2
    <2> QED  BY <1>1, <2>3, <2>4, <2>5, <2>6 DEF EdgeInv
  <1> QED  BY <1>3, <1>4, <1>5, <1>6

\* store.Flush and store.Close keep the invariant.
LEMMA EdgeCommitStep ==
    ASSUME EdgeInv, CloseStore \/ \E f \in Flushers : StoreFlush(f)
    PROVE  EdgeInv'
  <1>0. Commit /\ UNCHANGED <<now, window, first, taken, flushes, lost, before, archive>>
      BY DEF CloseStore, StoreFlush
  <1>1. TimesIdentify' /\ LastIsCounted' /\ FirstIsAlone' /\ EveryEventHeld' /\ OneMergedCopy'
      BY <1>0, CommitKeeps
  <1>2. /\ disk' = disk \cup batch /\ batch' = {}
        /\ IsFiniteSet(batch') /\ Cardinality(batch') < BatchCap
      BY <1>0, CommitMoves
  <1>3. {"main", "ticker", "monitor", "backup"} = Flushers
      BY DEF Flushers
  <1>4. CASE CloseStore
    <2>1. mainAt = "close" /\ pc["main"] = "idle" /\ closed' = TRUE /\ mainAt' = "closed" /\ pc' = pc
        BY <1>4 DEF CloseStore
    <2>2. EdgeTypeOK'
        BY <1>0, <1>2, <2>1 DEF EdgeInv, EdgeTypeOK
    <2>3. TakenOnlyInPut' /\ StopProgress' /\ BackupProgress'
        BY <1>0, <1>2, <2>1 DEF EdgeInv, TakenOnlyInPut, StopProgress, BackupProgress
    <2> QED  BY <1>1, <2>2, <2>3 DEF EdgeInv
  <1>5. ASSUME NEW f \in Flushers, StoreFlush(f) PROVE EdgeInv'
    <2>1. /\ pc[f] = "commit" /\ UNCHANGED <<closed, mainAt>>
          /\ pc' = [pc EXCEPT ![f] = IF f = "backup" THEN "checkpoint" ELSE "idle"]
        BY <1>5 DEF StoreFlush
    <2>2. /\ pc'[f] = IF f = "backup" THEN "checkpoint" ELSE "idle"
          /\ \A g \in Flushers : g # f => pc'[g] = pc[g]
        BY <2>1 DEF EdgeInv, EdgeTypeOK
    <2>3. EdgeTypeOK'
      <3>1. pc' \in [Flushers -> {"idle", "put", "commit", "checkpoint", "exited"}]
          BY <2>1 DEF EdgeInv, EdgeTypeOK
      <3> QED  BY <3>1, <1>0, <1>2, <2>1 DEF EdgeInv, EdgeTypeOK
    <2>4. TakenOnlyInPut'
        BY <1>0, <2>1, <2>2 DEF EdgeInv, TakenOnlyInPut
    <2>5. StopProgress'
        BY <1>0, <1>2, <1>3, <2>1, <2>2 DEF EdgeInv, StopProgress
    <2>6. BackupProgress'
      <3>1. /\ EventsOf(disk) \subseteq EventsOf(disk')
            /\ EventsOf(disk \cup batch) \subseteq EventsOf(disk')
            /\ EventsOf(disk \cup batch) = EventsOf(disk' \cup batch')
            /\ disk' \cup batch' \cup taken'["backup"] = disk \cup batch \cup taken["backup"]
          BY <1>0, <1>2 DEF EventsOf
      <3>2. CASE f = "backup"
        <4>1. ~closed => before \subseteq EventsOf(disk \cup batch)
            BY <3>2, <2>1 DEF EdgeInv, BackupProgress
        <4>2. pc'["backup"] = "checkpoint" /\ before' = before /\ closed' = closed
            BY <3>2, <1>0, <2>1, <2>2
        <4> QED  BY <3>1, <4>1, <4>2 DEF BackupProgress
      <3>3. CASE f # "backup"
          BY <3>1, <3>3, <1>0, <1>3, <2>1, <2>2 DEF EdgeInv, BackupProgress
      <3> QED  BY <3>2, <3>3
    <2> QED  BY <1>1, <2>3, <2>4, <2>5, <2>6 DEF EdgeInv
  <1> QED  BY <1>4, <1>5

\* Every step keeps the invariant.
LEMMA EdgeStep == EdgeInv /\ [EdgeNext]_edgeVars => EdgeInv'
  <1> SUFFICES ASSUME EdgeInv, [EdgeNext]_edgeVars PROVE EdgeInv'
      OBVIOUS
  <1>1. CASE \E k \in Key : AddEvent(k)
      BY <1>1, AddEventStep
  <1>2. CASE PutFirst
      BY <1>2, PutFirstStep
  <1>3. CASE BeginStop \/ FinalFlush \/ Checkpoint \/ TickerExit \/ \E f \in Flushers : EndFlush(f)
      BY <1>3, EdgeControlStep
  <1>4. CASE CloseStore \/ \E f \in Flushers : StoreFlush(f)
      BY <1>4, EdgeCommitStep
  <1>5. CASE \E f \in Flushers : StartFlush(f)
      BY <1>5, StartFlushStep
  <1>6. CASE \E f \in Flushers : FlushOne(f)
      BY <1>6, FlushOneStep
  <1>7. CASE UNCHANGED edgeVars
    <2>1. UNCHANGED <<now, window, batch, disk, closed, mainAt, first, taken, pc, flushes, lost,
                      before, archive>>
        BY <1>7 DEF edgeVars
    <2>2. TimesIdentify' /\ LastIsCounted' /\ FirstIsAlone' /\ EveryEventHeld' /\ OneMergedCopy'
        BY <2>1, NothingMoves
    <2>3. EdgeTypeOK'
        BY <2>1 DEF EdgeInv, EdgeTypeOK
    <2>4. TakenOnlyInPut' /\ StopProgress' /\ BackupProgress'
        BY <2>1 DEF EdgeInv, TakenOnlyInPut, StopProgress, BackupProgress
    <2> QED  BY <2>2, <2>3, <2>4 DEF EdgeInv
  <1> QED  BY <1>1, <1>2, <1>3, <1>4, <1>5, <1>6, <1>7 DEF EdgeNext

\* The inductive invariant of the merge window, its flushers and the store.
THEOREM EdgeInductive == EdgeSpec => []EdgeInv
  <1>1. EdgeInit => EdgeInv
      BY EdgeInitInv
  <1>2. EdgeInv /\ [EdgeNext]_edgeVars => EdgeInv'
      BY EdgeStep
  <1> QED  BY <1>1, <1>2, PTL DEF EdgeSpec

\* The copies of an event are one or two.
LEMMA CopiesBounded ==
    ASSUME EdgeInv, NEW e \in 1 .. now
    PROVE  Cardinality(Copies(e)) \in 1 .. 2
  <1>1. \A c \in Copies(e) : /\ c = <<c[1], c[2]>> /\ c[1] \in Places /\ c[2] \in At(c[1])
                             /\ e \in c[2].of
      BY DEF Copies
  <1>2. PICK p \in Places : \E r \in At(p) : e \in r.of
      BY DEF EdgeInv, EveryEventHeld, EventsOf
  <1>3. PICK r \in At(p) : e \in r.of
      BY <1>2
  <1>4. <<p, r>> \in Copies(e)
      BY <1>3 DEF Copies
  <1>5. ASSUME NEW c \in Copies(e), NEW d \in Copies(e)
        PROVE  c = d \/ Alone(c[1], c[2], e) \/ Alone(d[1], d[2], e)
      BY <1>1 DEF EdgeInv, OneMergedCopy
  <1>6. ASSUME NEW c \in Copies(e), NEW d \in Copies(e), Alone(c[1], c[2], e), Alone(d[1], d[2], e)
        PROVE  c = d
    <2>1. c[2] \in disk \cup batch /\ d[2] \in disk \cup batch
        BY <1>1, <1>6, StoredIsUnion DEF Alone
    <2>2. c[2].ts = e /\ d[2].ts = e
        BY <2>1, <1>6 DEF Alone, EdgeInv, LastIsCounted, AllEdges
    <2>3. c[2] = d[2]
        BY <2>1, <2>2 DEF EdgeInv, TimesIdentify, AllEdges
    <2> QED  BY <1>1, <1>6, <2>3 DEF Alone
  <1>7. \E a, b \in Copies(e) : Copies(e) = {a, b}
    <2>1. CASE \A c \in Copies(e) : Alone(c[1], c[2], e)
      <3>1. Copies(e) = {<<p, r>>, <<p, r>>}
          BY <2>1, <1>4, <1>6
      <3> QED  BY <3>1, <1>4
    <2>2. CASE \E c \in Copies(e) : ~Alone(c[1], c[2], e)
      <3>1. PICK a \in Copies(e) : ~Alone(a[1], a[2], e)
          BY <2>2
      <3>2. \A c \in Copies(e) : c = a \/ Alone(c[1], c[2], e)
          BY <3>1, <1>5
      <3>3. CASE \A c \in Copies(e) : c = a
        <4>1. Copies(e) = {a, a}
            BY <3>3
        <4> QED  BY <4>1
      <3>4. CASE \E c \in Copies(e) : c # a
        <4>1. PICK b \in Copies(e) : b # a
            BY <3>4
        <4>2. Copies(e) = {a, b}
            BY <4>1, <3>2, <1>6
        <4> QED  BY <4>2
      <3> QED  BY <3>3, <3>4
    <2> QED  BY <2>1, <2>2
  <1>8. PICK a \in Copies(e), b \in Copies(e) : Copies(e) = {a, b}
      BY <1>7
  <1>9. IsFiniteSet({a}) /\ Cardinality({a}) = 1
      BY FS_Singleton
  <1>10. {a, b} = {a} \cup {b}
      OBVIOUS
  <1>11. Cardinality({a} \cup {b}) = IF b \in {a} THEN Cardinality({a}) ELSE Cardinality({a}) + 1
      BY <1>9, FS_AddElement
  <1> QED  BY <1>8, <1>9, <1>10, <1>11

\* The merge window, its flushers and the store keep their shape.
THEOREM EdgeTypesHold == EdgeSpec => []EdgeTypeOK
  BY EdgeInductive, PTL DEF EdgeInv

\* No event goes uncounted or is counted more than twice, however AddEvent, the
\* four flushers, Stop and the store interleave, for every number of keys,
\* events and flushes and every capacity of the batch.
THEOREM CountsAreBounded == EdgeSpec => []CountsBounded
  <1>1. EdgeInv => CountsBounded
      BY CopiesBounded DEF CountsBounded
  <1> QED  BY <1>1, EdgeInductive, PTL

\* When Stop has closed the store it has lost only what the pressure monitor or
\* a backup held: the periodic flusher and the final flush wrote the rest.
THEOREM StopLosesLittle == EdgeSpec => []StopLosesOnlyInFlight
  <1>1. EdgeInv => StopLosesOnlyInFlight
    <2> SUFFICES ASSUME EdgeInv, closed, NEW e \in 1 .. now
                 PROVE  \E r \in disk \cup lost \cup taken["monitor"] \cup taken["backup"] : e \in r.of
        BY DEF StopLosesOnlyInFlight, EventsOf
    <2>1. /\ batch = {} /\ window = {} /\ pc["main"] = "idle" /\ pc["ticker"] = "exited"
        BY DEF EdgeInv, StopProgress
    <2>2. taken["main"] = {} /\ taken["ticker"] = {}
        BY <2>1 DEF EdgeInv, TakenOnlyInPut, Flushers
    <2>3. PICK p \in Places : \E r \in At(p) : e \in r.of
        BY DEF EdgeInv, EveryEventHeld, EventsOf
    <2>4. p = "stored" \/ p = "lost" \/ p = "monitor" \/ p = "backup"
        BY <2>1, <2>2, <2>3, PlacesAt DEF Flushers
    <2>5. At(p) \subseteq disk \cup lost \cup taken["monitor"] \cup taken["backup"]
        BY <2>1, <2>4, StoredIsUnion, PlacesAt DEF Flushers
    <2> QED  BY <2>3, <2>5
  <1> QED  BY <1>1, EdgeInductive, PTL

\* A checkpoint backup archives every event ingested when it began that no
\* other flusher held.
THEOREM ArchiveIsComplete == EdgeSpec => []ArchiveHasPendingWrites
  BY EdgeInductive, PTL DEF EdgeInv, BackupProgress, ArchiveHasPendingWrites
=============================================================================
