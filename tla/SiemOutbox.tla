------------------------------ MODULE SiemOutbox ------------------------------
(***************************************************************************)
(* The SIEM outbox of the daemon (cmd/agent/daemon/main.go): API handlers  *)
(* append events to a file (writeSIEMTestEvent), and one goroutine         *)
(* (startSIEMForwarder) reads the whole file on each tick, delivers its    *)
(* lines one by one and empties the file (forwardSIEMOutbox).  No lock is  *)
(* shared between the two, and the daemon may die at any point.            *)
(* Events are numbered in the order in which they are appended.            *)
(***************************************************************************)
EXTENDS Naturals, Sequences, SequencesExt

CONSTANTS
    MaxEvents,  \* bound: events appended
    MaxFaults   \* bound: failing deliveries, failing truncations and crashes

ASSUME SiemOutboxAssumption == MaxEvents \in Nat /\ MaxFaults \in Nat

VARIABLES
    queued,     \* history: how many events were appended
    outbox,     \* the lines of the file
    received,   \* what reached the SIEM, in order
    pc,         \* the forwarder: "idle", "deliver" or "truncate"
    lines,      \* the lines it read and has not delivered yet
    late,       \* history: the events appended while a forward was under way
    unconfirmed,\* history: the events sent without an error that were not received then
    faults

vars == <<queued, outbox, received, pc, lines, late, unconfirmed, faults>>

Init ==
    /\ queued = 0
    /\ outbox = <<>>
    /\ received = <<>>
    /\ pc = "idle"
    /\ lines = <<>>
    /\ late = {}
    /\ unconfirmed = {}
    /\ faults = 0

\* writeSIEMTestEvent: one write to the file opened with O_APPEND
WriteEvent ==
    /\ queued < MaxEvents
    /\ queued' = queued + 1
    /\ outbox' = Append(outbox, queued')
    /\ late' = IF pc = "idle" THEN late ELSE late \cup {queued'}
    /\ UNCHANGED <<received, pc, lines, unconfirmed, faults>>

\* forwardSIEMOutbox: ReadFile; an empty file ends the forward
ReadOutboxTwo ==                            \* mutant: a single line is taken for an empty file
    /\ pc = "idle"
    /\ Len(outbox) > 1
    /\ lines' = outbox
    /\ pc' = "deliver"
    /\ UNCHANGED <<queued, outbox, received, late, unconfirmed, faults>>

ReadOutbox ==
    /\ pc = "idle"
    /\ outbox # <<>>
    /\ lines' = outbox
    /\ pc' = "deliver"
    /\ UNCHANGED <<queued, outbox, received, late, unconfirmed, faults>>

\* deliverSIEMLines: the next line is received, and the call returns no error
DeliverLineLast ==                          \* mutant: the newest line goes first
    /\ pc = "deliver" /\ lines # <<>>
    /\ received' = Append(received, Last(lines))
    /\ lines' = Front(lines)
    /\ UNCHANGED <<queued, outbox, pc, late, unconfirmed, faults>>

DeliverLine ==
    /\ pc = "deliver" /\ lines # <<>>
    /\ received' = Append(received, Head(lines))
    /\ lines' = Tail(lines)
    /\ UNCHANGED <<queued, outbox, pc, late, unconfirmed, faults>>

\* No error, and the line is not received, or not yet: a conn.Write that only
\* filled a buffer or sent a datagram, or an item that Elastic refuses in the
\* body of a bulk answer with status 200, which is not read
SendLine ==
    /\ pc = "deliver" /\ lines # <<>>
    /\ unconfirmed' = unconfirmed \cup {Head(lines)}
    /\ lines' = Tail(lines)
    /\ UNCHANGED <<queued, outbox, received, pc, late, faults>>

\* Such a line arrives after all, in whatever order
ArriveLate(e) ==
    /\ e \in unconfirmed \ ToSet(received)
    /\ received' = Append(received, e)
    /\ UNCHANGED <<queued, outbox, pc, lines, late, unconfirmed, faults>>

DeliverDone ==
    /\ pc = "deliver" /\ lines = <<>>
    /\ pc' = "truncate"
    /\ UNCHANGED <<queued, outbox, received, lines, late, unconfirmed, faults>>

Fault == faults < MaxFaults /\ faults' = faults + 1

\* a line fails (it may have arrived: the answer is lost) and the forward ends
DeliverFailsTruncates(arrived) ==           \* mutant: the file is emptied all the same
    /\ Fault
    /\ pc = "deliver" /\ lines # <<>>
    /\ received' = IF arrived THEN Append(received, Head(lines)) ELSE received
    /\ lines' = <<>>
    /\ pc' = "truncate"
    /\ UNCHANGED <<queued, outbox, late, unconfirmed>>

DeliverFails(arrived) ==
    /\ Fault
    /\ pc = "deliver" /\ lines # <<>>
    /\ received' = IF arrived THEN Append(received, Head(lines)) ELSE received
    /\ lines' = <<>>
    /\ pc' = "idle"
    /\ UNCHANGED <<queued, outbox, late, unconfirmed>>

\* WriteFile(outboxPath, nil)
Truncate ==
    /\ pc = "truncate"
    /\ outbox' = <<>>
    /\ pc' = "idle"
    /\ UNCHANGED <<queued, received, lines, late, unconfirmed, faults>>

TruncateFails ==
    /\ Fault
    /\ pc = "truncate"
    /\ pc' = "idle"
    /\ UNCHANGED <<queued, outbox, received, lines, late, unconfirmed>>

\* the daemon dies and starts again: the file is what is left
Restart ==
    /\ Fault
    /\ pc' = "idle"
    /\ lines' = <<>>
    /\ UNCHANGED <<queued, outbox, received, late, unconfirmed>>

Forward == ReadOutbox \/ DeliverLine \/ SendLine \/ DeliverDone \/ Truncate

Next ==
    \/ WriteEvent
    \/ Forward
    \/ \E e \in 1 .. queued : ArriveLate(e)
    \/ \E arrived \in BOOLEAN : DeliverFails(arrived)
    \/ TruncateFails
    \/ Restart

\* The ticker keeps firing; faults are bounded, so a forward that is repeated
\* succeeds in the end.
Fairness == WF_vars(Forward)

Spec == Init /\ [][Next]_vars /\ Fairness

(***************************************************************************)
(* Properties.                                                             *)
(***************************************************************************)
Event == 1 .. MaxEvents

\* The file, what was received and the forwarder; a file that is being
\* forwarded still holds what was read of it.
TypeOK ==
    /\ queued \in 0 .. MaxEvents
    /\ {outbox, received, lines} \subseteq Seq(Event)
    /\ pc \in {"idle", "deliver", "truncate"}
    /\ pc # "deliver" => lines = <<>>
    /\ ToSet(lines) \subseteq ToSet(outbox)
    /\ late \subseteq Event
    /\ unconfirmed \subseteq Event
    /\ faults \in 0 .. MaxFaults

Kept(e) == e \in ToSet(outbox) \cup ToSet(received)

Excepted == late \cup unconfirmed

\* Failing deliveries, failing truncations and crashes lose nothing: an event
\* is in the file until it was received, with two exceptions that
\* forwardSIEMOutbox leaves: an event appended while a forward was under way
\* goes when the file is emptied, and so does one for which deliverSIEMLines
\* saw no error although nobody received it.
FaultsLoseNothing == \A e \in 1 .. queued : e \notin Excepted => Kept(e)

\* The first copies of the events reach the SIEM in the order in which they
\* were appended, however often a forward is repeated: when an event arrives,
\* late or not, every older one is there, but for the two exceptions.
FirstCopiesInOrder ==
    \A i \in DOMAIN received : \A e \in 1 .. received[i] :
        e \notin Excepted => \E j \in 1 .. i : received[j] = e

\* An event that no forward was racing with is received in the end, unless a
\* call without an error pretended so, and the outbox does not keep what was
\* delivered for ever.
OutboxDrains ==
    /\ \A e \in Event :
          e \in ToSet(outbox) /\ e \notin late ~> e \in ToSet(received) \cup unconfirmed
    /\ <>[](outbox = <<>>)
=============================================================================
