--------------------------- MODULE EdgePersistence ---------------------------
(***************************************************************************)
(* How provenance edges reach the disk: Pipeline.mergeEdges feeds the      *)
(* merge window (internal/engine/pipeline/merger.go), which four parties   *)
(* flush into the batching store (internal/storage/store/store.go): the    *)
(* main goroutine (checkPause, and the final flush of Stop), the periodic  *)
(* flusher started by Pipeline.Start, the pressure monitor and a           *)
(* checkpoint backup.  MergeWindow.Flush swaps the window under its lock   *)
(* and writes the entries afterwards, without it, one PutEdge at a time,   *)
(* so flushes overlap with each other, with AddEvent and with Stop.        *)
(* A time is the number of the event that read the clock, and the count of *)
(* an edge is kept as the set of the events that it counts.                *)
(***************************************************************************)
EXTENDS Naturals, FiniteSets

CONSTANTS
    Key,        \* merge keys: source, target and relation of an edge
    MaxEvents,  \* bound: events ingested
    MaxFlushes, \* bound: flushes by the goroutines other than main
    BatchCap    \* wbCap, in edges: a batch this large is committed

ASSUME PersistenceAssumption ==
    /\ MaxEvents \in Nat /\ MaxFlushes \in Nat
    /\ BatchCap \in Nat \ {0}

\* Who runs onMidPressure or the periodic flush.
Flushers == {"main", "ticker", "monitor", "backup"}

VARIABLES
    now,        \* events ingested so far; also the clock
    window,     \* mw.entries: merged edges, at most one of each key
    batch,      \* edge records written to the indexed batch, not yet committed
    disk,       \* edge records committed to Pebble
    closed,     \* s.closed
    mainAt,     \* where the main goroutine is
    first,      \* the first occurrence main is about to write
    taken,      \* per flusher: merged edges swapped out of the window, not yet written
    pc,         \* per flusher: "idle", "put", "commit", "checkpoint" or "exited"
    flushes,    \* flushes started by the goroutines other than main
    lost,       \* history: merged edges dropped by a Flush that met an error
    before,     \* history: the events ingested when the backup began that no other
                \* flusher was about to write
    archive     \* the records in the latest checkpoint

edgeVars == <<now, window, batch, disk, closed, mainAt, first, taken, pc, flushes, lost, before,
          archive>>

\* MergedEdge: its key, its last time, and its count
Record == [key : Key, ts : 1 .. MaxEvents, of : SUBSET (1 .. MaxEvents)]

EdgeInit ==
    /\ now = 0
    /\ window = {}
    /\ batch = {}
    /\ disk = {}
    /\ closed = FALSE
    /\ mainAt = "run"
    /\ first = {}
    /\ taken = [f \in Flushers |-> {}]
    /\ pc = [f \in Flushers |-> "idle"]
    /\ flushes = 0
    /\ lost = {}
    /\ before = {}
    /\ archive = {}

\* The events that a set of edges counts.
EventsOf(S) == UNION {r.of : r \in S}

(***************************************************************************)
(* The store.  A record is stored under its time, source and target, and   *)
(* replaces what was stored there.                                         *)
(***************************************************************************)
Overlay(old, new) ==
    {r \in old : ~\E s \in new : s.key = r.key /\ s.ts = r.ts} \cup new

\* PutEdge on an open store, autoFlush included: what batch and disk become
PutEdge(r) ==
    LET b == Overlay(batch, {r}) IN
    IF Cardinality(b) >= BatchCap
      THEN disk' = Overlay(disk, b) /\ batch' = {}
      ELSE batch' = b /\ UNCHANGED disk

\* flushLocked
Commit ==
    /\ disk' = Overlay(disk, batch)
    /\ batch' = {}

(***************************************************************************)
(* The main goroutine: AddEvent, then Stop.                                *)
(***************************************************************************)

\* TryMerge on one derived edge: a key that is new to the window is tracked
\* and also returned to the caller as the first occurrence to be written
Tracked(k) == {r \in window : r.key = k}

TryMergeRestart(k) ==                   \* mutant: a repeated edge restarts its count
    /\ window' = (window \ Tracked(k)) \cup {[key |-> k, ts |-> now + 1, of |-> {now + 1}]}
    /\ IF Tracked(k) = {}
         THEN first' = {[key |-> k, ts |-> now + 1, of |-> {now + 1}]} /\ mainAt' = "putFirst"
         ELSE UNCHANGED <<first, mainAt>>

TryMerge(k) ==
    /\ window' = (window \ Tracked(k))
                  \cup {[key |-> k, ts |-> now + 1, of |-> EventsOf(Tracked(k)) \cup {now + 1}]}
    /\ IF Tracked(k) = {}
         THEN first' = {[key |-> k, ts |-> now + 1, of |-> {now + 1}]} /\ mainAt' = "putFirst"
         ELSE UNCHANGED <<first, mainAt>>

\* mergeEdges of an event with one edge of key k
AddEvent(k) ==
    /\ mainAt = "run" /\ pc["main"] = "idle"
    /\ now < MaxEvents
    /\ now' = now + 1
    /\ TryMerge(k)
    /\ UNCHANGED <<batch, disk, closed, taken, pc, flushes, lost, before, archive>>

\* "First occurrence in window - write to RocksDB directly"
PutFirst ==
    /\ mainAt = "putFirst"
    /\ \E r \in first : PutEdge(r)
    /\ first' = {}
    /\ mainAt' = "run"
    /\ UNCHANGED <<now, window, closed, taken, pc, flushes, lost, before, archive>>

\* Stop: close(p.stopCh)
BeginStop ==
    /\ mainAt = "run" /\ pc["main"] = "idle"
    /\ mainAt' = "wait"
    /\ UNCHANGED <<now, window, batch, disk, closed, first, taken, pc, flushes, lost, before,
                   archive>>

\* Stop: p.wg.Wait() waits for the periodic flusher only, then the final flush starts
FinalFlushNoWait ==                     \* mutant: no p.wg.Wait()
    /\ mainAt = "wait"
    /\ mainAt' = "final"
    /\ UNCHANGED <<now, window, batch, disk, closed, first, taken, pc, flushes, lost, before,
                   archive>>

FinalFlushWaitsForAll ==                \* mutant: waits for the monitor, which never reports
    /\ mainAt = "wait"
    /\ pc["ticker"] = "exited" /\ pc["monitor"] = "exited"
    /\ mainAt' = "final"
    /\ UNCHANGED <<now, window, batch, disk, closed, first, taken, pc, flushes, lost, before,
                   archive>>

FinalFlush ==
    /\ mainAt = "wait"
    /\ pc["ticker"] = "exited"
    /\ mainAt' = "final"
    /\ UNCHANGED <<now, window, batch, disk, closed, first, taken, pc, flushes, lost, before,
                   archive>>

\* Stop: p.store.Close() once the final onMidPressure is done
CloseStore ==
    /\ mainAt = "close"
    /\ pc["main"] = "idle"
    /\ closed' = TRUE
    /\ Commit
    /\ mainAt' = "closed"
    /\ UNCHANGED <<now, window, first, taken, pc, flushes, lost, before, archive>>

(***************************************************************************)
(* MergeWindow.Flush and its callers.                                      *)
(***************************************************************************)
\* When each caller starts a flush: main from checkPause and from Stop, the
\* periodic flusher until it sees stopCh closed, the other two at any time
\* (the monitor is told to stop but not waited for)
MayFlush(f) ==
    /\ pc[f] = "idle"
    /\ CASE f = "main"   -> mainAt \in {"run", "final"}
         [] f = "backup" -> flushes < MaxFlushes /\ ~closed
         [] OTHER        -> flushes < MaxFlushes

\* Flush: swap the window under mw.mu
Take(f) ==
    /\ taken' = [taken EXCEPT ![f] = window]
    /\ window' = {}

\* the events ingested, less those the other flushers carry
Settled == (1 .. now) \ EventsOf(taken["main"] \cup taken["ticker"] \cup taken["monitor"])

StartFlush(f) ==
    /\ MayFlush(f)
    /\ Take(f)
    /\ pc' = [pc EXCEPT ![f] = "put"]
    /\ flushes' = IF f = "main" THEN flushes ELSE flushes + 1
    /\ before' = IF f = "backup" THEN Settled ELSE before
    /\ mainAt' = IF f = "main" /\ mainAt = "final" THEN "close" ELSE mainAt
    /\ UNCHANGED <<now, batch, disk, closed, first, lost, archive>>

\* Flush: flushFn on one entry; on a closed store PutEdge fails and Flush
\* returns, abandoning what it has taken
FlushOne(f) ==
    /\ pc[f] = "put"
    /\ taken[f] # {}
    /\ IF closed
         THEN /\ lost' = lost \cup taken[f]
              /\ taken' = [taken EXCEPT ![f] = {}]
              /\ UNCHANGED <<batch, disk>>
         ELSE \E r \in taken[f] :
              /\ PutEdge(r)
              /\ taken' = [taken EXCEPT ![f] = @ \ {r}]
              /\ UNCHANGED lost
    /\ UNCHANGED <<now, window, closed, mainAt, first, pc, flushes, before, archive>>

\* Flush is done; onMidPressure goes on with store.Flush(), the periodic
\* flusher does not
EndFlush(f) ==
    /\ pc[f] = "put"
    /\ taken[f] = {}
    /\ pc' = [pc EXCEPT ![f] = IF f = "ticker" THEN "idle" ELSE "commit"]
    /\ UNCHANGED <<now, window, batch, disk, closed, mainAt, first, taken, flushes, lost, before,
                   archive>>

StoreFlushNot(f) ==                     \* mutant: onMidPressure without store.Flush()
    /\ pc[f] = "commit"
    /\ pc' = [pc EXCEPT ![f] = IF f = "backup" THEN "checkpoint" ELSE "idle"]
    /\ UNCHANGED <<now, window, batch, disk, closed, mainAt, first, taken, flushes, lost, before,
                   archive>>

StoreFlush(f) ==
    /\ pc[f] = "commit"
    /\ Commit
    /\ pc' = [pc EXCEPT ![f] = IF f = "backup" THEN "checkpoint" ELSE "idle"]
    /\ UNCHANGED <<now, window, closed, mainAt, first, taken, flushes, lost, before, archive>>

\* CreateCheckpointBackup: backup.CreateCheckpoint of the underlying database,
\* which makes no archive once the database is closed
Checkpoint ==
    /\ pc["backup"] = "checkpoint"
    /\ archive' = IF closed THEN archive ELSE disk
    /\ before' = IF closed THEN {} ELSE before
    /\ pc' = [pc EXCEPT !["backup"] = "idle"]
    /\ UNCHANGED <<now, window, batch, disk, closed, mainAt, first, taken, flushes, lost>>

\* the periodic flusher: <-p.stopCh
TickerExit ==
    /\ pc["ticker"] = "idle"
    /\ mainAt = "wait"
    /\ pc' = [pc EXCEPT !["ticker"] = "exited"]
    /\ UNCHANGED <<now, window, batch, disk, closed, mainAt, first, taken, flushes, lost, before,
                   archive>>

EdgeNext ==
    \/ \E k \in Key : AddEvent(k)
    \/ PutFirst
    \/ BeginStop \/ FinalFlush \/ CloseStore
    \/ \E f \in Flushers : StartFlush(f) \/ FlushOne(f) \/ EndFlush(f) \/ StoreFlush(f)
    \/ Checkpoint
    \/ TickerExit

\* Every goroutine is scheduled; nothing is assumed of events or flushes.
EdgeFairness ==
    /\ WF_edgeVars(PutFirst \/ FinalFlush \/ CloseStore \/ TickerExit)
    /\ WF_edgeVars(mainAt = "final" /\ StartFlush("main"))
    /\ \A f \in Flushers : WF_edgeVars(FlushOne(f) \/ EndFlush(f) \/ StoreFlush(f))

EdgeSpec == EdgeInit /\ [][EdgeNext]_edgeVars /\ EdgeFairness

(***************************************************************************)
(* Properties.                                                             *)
(***************************************************************************)
\* The shape of the window, the batch, the disk and the flushers.
EdgeTypeOK ==
    /\ now \in 0 .. MaxEvents
    /\ window \subseteq Record
    /\ batch \subseteq Record /\ disk \subseteq Record /\ archive \subseteq Record
    /\ IsFiniteSet(batch) /\ Cardinality(batch) < BatchCap
    /\ closed \in BOOLEAN
    /\ mainAt \in {"run", "putFirst", "wait", "final", "close", "closed"}
    /\ first \subseteq Record
    /\ taken \in [Flushers -> SUBSET Record]
    /\ pc \in [Flushers -> {"idle", "put", "commit", "checkpoint", "exited"}]
    /\ flushes \in 0 .. MaxFlushes
    /\ lost \subseteq Record
    /\ before \subseteq 1 .. now

\* Where an edge can be: stored, in the window, in the hands of a flusher, or
\* abandoned by one whose write failed.
Places == {"stored", "window", "lost"} \cup Flushers

At(p) ==
    CASE p = "stored" -> Overlay(disk, batch)
      [] p = "window" -> window
      [] p = "lost"   -> lost
      [] OTHER        -> taken[p]

\* The edges that count event e, each with its place.
Copies(e) == {c \in UNION {{p} \X At(p) : p \in Places} : e \in c[2].of}

\* No event is ever unaccounted for, however AddEvent and the four flushers
\* interleave, and overlapping flushes never multiply the counts.  They are not
\* exact: the first event of a window is stored on its own (PutFirst) and
\* counted again in the merged record, so n identical events do not become one
\* edge of count n; but no event is ever counted more than twice.
CountsBounded ==
    \A e \in 1 .. now : Cardinality(Copies(e)) \in 1 .. 2

\* When Stop has closed the store, the only events not on disk are those a
\* flusher Stop does not wait for (monitor, backup) had taken and not written.
StopLosesOnlyInFlight ==
    closed => 1 .. now \subseteq EventsOf(disk \cup lost \cup taken["monitor"] \cup taken["backup"])

\* Stop ends: the periodic flusher and the final flush do not hold it up.
StopCompletes == mainAt = "wait" ~> closed

\* A checkpoint backup flushes pending writes: the archive accounts for every
\* event ingested when the backup began, except those that another flusher had
\* taken out of the window and not yet written.
ArchiveHasPendingWrites ==
    pc["backup"] = "idle" => before \subseteq EventsOf(archive)
=============================================================================
