------------------------------ MODULE WorkerPool ------------------------------
(***************************************************************************)
(* The parallel parser of internal/engine/pipeline/workerpool.go around    *)
(* the ring of LockFreeQueue: the dispatcher goroutine reads raw samples   *)
(* and pushes them, a worker goroutine pops and parses them and sends the  *)
(* events on eventCh, a reader of EventCh takes them, and Stop ends both   *)
(* goroutines.  The pool has one worker here (NumWorkers = 1), so that the *)
(* ring keeps all its steps; more workers repeat the same pair of ring and *)
(* goroutine and share eventCh.  TryPush and TryPop run from their first   *)
(* step to their last without looking at stopCh.                           *)
(***************************************************************************)
EXTENDS LockFreeQueue

CONSTANT ChanCap        \* cap(eventCh), NumWorkers * QueueSize in the code

ASSUME WorkerPoolAssumption == ChanCap \in Nat \ {0}

VARIABLES
    disp,       \* where the dispatcher is
    work,       \* where the worker is
    eventCh,    \* the parsed events waiting in eventCh
    stopCh,     \* stopCh is closed
    stopped,    \* Stop has returned, eventCh and errCh are closed
    received,   \* history: the events taken from EventCh
    rejected    \* history: the positions, among the popped samples, that did not parse

poolVars == <<disp, work, eventCh, stopCh, stopped, received, rejected>>
allVars == <<vars, poolVars>>

PoolInit ==
    /\ Init
    /\ disp = "top" /\ work = "top"
    /\ eventCh = <<>>
    /\ stopCh = FALSE /\ stopped = FALSE
    /\ received = <<>> /\ rejected = {}

(***************************************************************************)
(* Dispatcher.run.                                                         *)
(***************************************************************************)

\* the select on stopCh, then ReadRaw
DispatcherTop ==
    /\ disp = "top"
    /\ disp' = IF stopCh THEN "exited" ELSE "read"
    /\ UNCHANGED <<vars, work, eventCh, stopCh, stopped, received, rejected>>

\* ReadRaw returns an error, the reader is closed: errCh takes it or not
ReadFails ==
    /\ disp = "read"
    /\ disp' = "top"
    /\ UNCHANGED <<vars, work, eventCh, stopCh, stopped, received, rejected>>

\* ReadRaw returns a sample, and TryPush begins
ReadSample ==
    /\ disp = "read"
    /\ \E x \in Item : PushLoadTail(x)
    /\ disp' = "push"
    /\ UNCHANGED <<work, eventCh, stopCh, stopped, received, rejected>>

\* the rest of TryPush; a sample that does not fit is dropped
DispatcherPush ==
    /\ disp = "push"
    /\ PushLoadHead \/ PushWriteSlot \/ PushStoreTail
    /\ disp' = IF ppc' = "idle" THEN "top" ELSE "push"
    /\ UNCHANGED <<work, eventCh, stopCh, stopped, received, rejected>>

(***************************************************************************)
(* Worker.run.                                                             *)
(***************************************************************************)
WorkerTopDeaf ==                        \* mutant: stopCh is not looked at
    /\ work = "top"
    /\ work' = "pop"
    /\ UNCHANGED <<vars, disp, eventCh, stopCh, stopped, received, rejected>>

WorkerTop ==
    /\ work = "top"
    /\ work' = IF stopCh THEN "exited" ELSE "pop"
    /\ UNCHANGED <<vars, disp, eventCh, stopCh, stopped, received, rejected>>

\* TryPop; when it finds nothing, Gosched and again
WorkerPop ==
    /\ work = "pop"
    /\ TryPop
    /\ work' = IF popped' # popped THEN "parse" ELSE IF cpc' = "idle" THEN "top" ELSE "pop"
    /\ UNCHANGED <<disp, eventCh, stopCh, stopped, received, rejected>>

\* ParseRawEvent fails: errCh takes the error or not
ParseFails ==
    /\ work = "parse"
    /\ rejected' = rejected \cup {Len(popped)}
    /\ work' = "top"
    /\ UNCHANGED <<vars, disp, eventCh, stopCh, stopped, received>>

Parse ==
    /\ work = "parse"
    /\ work' = "send"
    /\ UNCHANGED <<vars, disp, eventCh, stopCh, stopped, received, rejected>>

\* eventCh <- parsed: waits while the channel is full, whether or not stopCh
\* is closed
SendOrDrop ==                           \* mutant: an event that does not fit is dropped
    /\ work = "send"
    /\ eventCh' = IF Len(eventCh) < ChanCap THEN Append(eventCh, cItem) ELSE eventCh
    /\ work' = "top"
    /\ UNCHANGED <<vars, disp, stopCh, stopped, received, rejected>>

SendEvent ==
    /\ work = "send"
    /\ Len(eventCh) < ChanCap
    /\ eventCh' = Append(eventCh, cItem)
    /\ work' = "top"
    /\ UNCHANGED <<vars, disp, stopCh, stopped, received, rejected>>

(***************************************************************************)
(* The user of the pool.                                                   *)
(***************************************************************************)
Receive ==
    /\ eventCh # <<>>
    /\ received' = Append(received, Head(eventCh))
    /\ eventCh' = Tail(eventCh)
    /\ UNCHANGED <<vars, disp, work, stopCh, stopped, rejected>>

\* Stop closes stopCh and waits ...
Stop ==
    /\ ~stopCh
    /\ stopCh' = TRUE
    /\ UNCHANGED <<vars, disp, work, eventCh, stopped, received, rejected>>

\* ... for both goroutines, and closes the channels
StopReturns ==
    /\ stopCh /\ ~stopped
    /\ disp = "exited" /\ work = "exited"
    /\ stopped' = TRUE
    /\ UNCHANGED <<vars, disp, work, eventCh, stopCh, received, rejected>>

Dispatcher == DispatcherTop \/ ReadFails \/ ReadSample \/ DispatcherPush

Worker == WorkerTop \/ WorkerPop \/ ParseFails \/ Parse \/ SendEvent

PoolNext == Dispatcher \/ Worker \/ Receive \/ Stop \/ StopReturns

\* Goroutines run.  Nothing makes ReadRaw return, and nobody has to call Stop
\* or, once Stop was called, to go on reading EventCh.
PoolFairness ==
    /\ WF_allVars(DispatcherTop) /\ WF_allVars(DispatcherPush)
    /\ WF_allVars(Worker)
    /\ WF_allVars(~stopCh /\ Receive)
    /\ WF_allVars(StopReturns)

PoolSpec == PoolInit /\ [][PoolNext]_allVars /\ PoolFairness

(***************************************************************************)
(* Properties.                                                             *)
(***************************************************************************)

\* the worker's event that is parsed and not yet sent, or still to be parsed
InHand == IF work \in {"parse", "send"} THEN <<cItem>> ELSE <<>>

\* the parsed samples on their way to the reader of EventCh, in order
HandedOn == received \o eventCh \o InHand

\* Between the ring and EventCh nothing is lost, doubled or reordered, before
\* and after Stop: what was received, waits in eventCh and is in the worker's
\* hands are the popped samples that parsed, in their order; and nobody sends
\* on eventCh once Stop has closed it.
ParsedAreHandedOn ==
    /\ \E at \in [1 .. Len(HandedOn) -> 1 .. Len(popped)] :
         /\ \A i, j \in 1 .. Len(HandedOn) : i < j => at[i] < at[j]
         /\ {at[i] : i \in 1 .. Len(HandedOn)} = (1 .. Len(popped)) \ rejected
         /\ \A i \in 1 .. Len(HandedOn) : HandedOn[i] = popped[at[i]]
    /\ stopped => work \notin {"parse", "send"}

\* Every sample the ring accepted is popped, unless Stop comes first: Stop
\* leaves what the ring holds behind.
EveryPushIsPopped ==
    \A n \in 1 .. MaxPush : Len(pushed) >= n ~> Len(popped) >= n \/ stopCh

\* A Stop that does not return waits for the dispatcher in ReadRaw, or for the
\* worker at a full eventCh that nobody reads any more; in all other cases it
\* returns.
StopReturnsUnlessBlocked ==
    <>stopCh => \/ <>stopped
                \/ <>[](disp = "read")
                \/ <>[](work = "send" /\ Len(eventCh) = ChanCap)
=============================================================================
