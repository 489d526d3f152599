------------------------------ MODULE FileProofs ------------------------------
(***************************************************************************)
(* Proofs about the two logs that are kept in files and shared without a   *)
(* lock: SiemOutbox, for any number of events and of faults, and AuditLog, *)
(* for any number of providaptctl processes, entries, files and failures.  *)
(*                                                                         *)
(* What makes the forward of the outbox safe without a lock is that the    *)
(* file only grows while a forward is under way: what the forwarder read   *)
(* and did not deliver is still there, and what is there and was not read  *)
(* is late; a line that was sent and not received counts as unconfirmed.   *)
(* The file is in the order of the appends, so the next line to be         *)
(* delivered is older than everything that is still to be delivered.       *)
(*                                                                         *)
(* The audit log is rewritten from the memory of the daemon.  That loses   *)
(* nothing because memory, archives and the stated exceptions cover the    *)
(* active file in every state, and because a file never disappears without *)
(* being counted as removed, so that an entry is lost only where a file is *)
(* truncated or overwritten.  During the rewrite, memory is what was kept  *)
(* and what was archived, the file starts with what was written back, and  *)
(* what follows it came from providaptctl.                                 *)
(***************************************************************************)
EXTENDS SiemOutbox, AuditLog, FiniteSetTheorems, SequenceTheorems, TLAPS

Increasing(s) == \A i, j \in DOMAIN s : i < j => s[i] < s[j]

\* Nothing is in the file that was not appended.
FileWasQueued == \A e \in ToSet(outbox) : e <= queued

FileInOrder == Increasing(outbox) /\ Increasing(lines)

\* During a forward, the file holds what is yet to be delivered, what was
\* received or sent without an error, and what came too late to be read.
ForwardCoversFile ==
    pc # "idle" => ToSet(outbox) \subseteq ToSet(lines) \cup ToSet(received) \cup Excepted

\* Whatever is older than a line that was sent was received before, so that
\* the line may arrive at any time.
SentInOrder ==
    \A e \in unconfirmed : \A d \in 1 .. e : d \notin Excepted => d \in ToSet(received)

Inv ==
    /\ TypeOK
    /\ FileWasQueued
    /\ FileInOrder
    /\ ForwardCoversFile
    /\ SentInOrder
    /\ FaultsLoseNothing
    /\ FirstCopiesInOrder

-----------------------------------------------------------------------------
\* The lines of a file.

\* A truncated file has no lines.
LEMMA ToSetEmpty == ToSet(<<>>) = {}
  BY DEF ToSet

\* O_APPEND adds one line.
LEMMA ToSetAppend ==
    ASSUME NEW S, NEW s \in Seq(S), NEW x \in S
    PROVE  ToSet(Append(s, x)) = ToSet(s) \cup {x} /\ Append(s, x) \in Seq(S)
  <1> DEFINE t == Append(s, x)
  <1>1. /\ Len(s) \in Nat /\ DOMAIN s = 1 .. Len(s) /\ DOMAIN t = 1 .. Len(s) + 1
        /\ t[Len(s) + 1] = x /\ t \in Seq(S)
        /\ \A i \in 1 .. Len(s) : t[i] = s[i]
      OBVIOUS
  <1> HIDE DEF t
  <1>2. \A i \in 1 .. Len(s) + 1 : i \in 1 .. Len(s) \/ i = Len(s) + 1
      BY <1>1
  <1>3. ToSet(t) \subseteq ToSet(s) \cup {x}
      BY <1>1, <1>2 DEF ToSet
  <1>4. \A i \in 1 .. Len(s) : i \in 1 .. Len(s) + 1
      BY <1>1
  <1>5. ToSet(s) \cup {x} \subseteq ToSet(t)
      BY <1>1, <1>4 DEF ToSet
  <1> QED  BY <1>1, <1>3, <1>5 DEF t

\* The line that is delivered next, and the rest.
LEMMA ToSetTail ==
    ASSUME NEW S, NEW s \in Seq(S), s # <<>>
    PROVE  ToSet(s) = {Head(s)} \cup ToSet(Tail(s))
  <1>1. /\ Tail(s) \in Seq(S) /\ Len(s) \in Nat \ {0} /\ Len(Tail(s)) = Len(s) - 1
        /\ DOMAIN s = 1 .. Len(s) /\ DOMAIN Tail(s) = 1 .. Len(s) - 1
        /\ Head(s) = s[1]
        /\ \A i \in 1 .. Len(s) - 1 : Tail(s)[i] = s[i + 1]
      OBVIOUS
  <1>2. ASSUME NEW x \in ToSet(s) PROVE x \in {Head(s)} \cup ToSet(Tail(s))
    <2>1. PICK i \in 1 .. Len(s) : x = s[i]
        BY <1>1 DEF ToSet
    <2>2. CASE i = 1
        BY <1>1, <2>1, <2>2
    <2>3. CASE i # 1
      <3>1. i - 1 \in DOMAIN Tail(s) /\ Tail(s)[i - 1] = x
          BY <1>1, <2>1, <2>3
      <3> QED  BY <3>1 DEF ToSet
    <2> QED  BY <2>2, <2>3
  <1>3. Head(s) \in ToSet(s)
      BY <1>1 DEF ToSet
  <1>4. ToSet(Tail(s)) \subseteq ToSet(s)
    <2> SUFFICES ASSUME NEW i \in 1 .. Len(s) - 1 PROVE s[i + 1] \in ToSet(s)
        BY <1>1 DEF ToSet
    <2> QED  BY <1>1 DEF ToSet
  <1> QED  BY <1>2, <1>3, <1>4

\* The lines are events.
LEMMA ToSetType ==
    ASSUME NEW S, NEW s \in Seq(S)
    PROVE  ToSet(s) \subseteq S
  BY DEF ToSet

\* In a file in the order of the appends, the next line is the oldest one.
LEMMA HeadIsLeast ==
    ASSUME NEW s \in Seq(Nat), s # <<>>, Increasing(s)
    PROVE  /\ \A e \in ToSet(s) : Head(s) <= e
           /\ Increasing(Tail(s))
  <1>1. /\ Tail(s) \in Seq(Nat) /\ Len(s) \in Nat \ {0} /\ Len(Tail(s)) = Len(s) - 1
        /\ DOMAIN s = 1 .. Len(s) /\ DOMAIN Tail(s) = 1 .. Len(s) - 1
        /\ Head(s) = s[1]
        /\ \A i \in 1 .. Len(s) : s[i] \in Nat
        /\ \A i \in 1 .. Len(s) - 1 : Tail(s)[i] = s[i + 1]
      OBVIOUS
  <1>2. ASSUME NEW e \in ToSet(s) PROVE Head(s) <= e
    <2>1. PICK i \in 1 .. Len(s) : e = s[i]
        BY <1>1 DEF ToSet
    <2>2. i = 1 \/ s[1] < s[i]
        BY <1>1 DEF Increasing
    <2> QED  BY <1>1, <2>1, <2>2
  <1>3. Increasing(Tail(s))
      BY <1>1 DEF Increasing
  <1> QED  BY <1>2, <1>3

\* Appending the next number keeps a file in order.
LEMMA AppendInOrder ==
    ASSUME NEW s \in Seq(Nat), Increasing(s), NEW n \in Nat, \A e \in ToSet(s) : e <= n
    PROVE  Increasing(Append(s, n + 1))
  <1> DEFINE t == Append(s, n + 1)
  <1>1. /\ Len(s) \in Nat /\ DOMAIN s = 1 .. Len(s) /\ DOMAIN t = 1 .. Len(s) + 1
        /\ t[Len(s) + 1] = n + 1
        /\ \A i \in 1 .. Len(s) : t[i] = s[i] /\ s[i] \in Nat
      OBVIOUS
  <1>2. \A i \in 1 .. Len(s) : s[i] <= n
      BY <1>1 DEF ToSet
  <1> HIDE DEF t
  <1>3. SUFFICES ASSUME NEW i \in 1 .. Len(s) + 1, NEW j \in 1 .. Len(s) + 1, i < j
                 PROVE  t[i] < t[j]
      BY <1>1 DEF Increasing, t
  <1>4. i \in 1 .. Len(s)
      BY <1>1, <1>3
  <1>5. CASE j = Len(s) + 1
      BY <1>1, <1>2, <1>4, <1>5
  <1>6. CASE j # Len(s) + 1
    <2>1. j \in DOMAIN s /\ i \in DOMAIN s
        BY <1>1, <1>4, <1>6
    <2>2. s[i] < s[j]
        BY <2>1, <1>3 DEF Increasing
    <2> QED  BY <1>1, <2>1, <2>2
  <1> QED  BY <1>5, <1>6

-----------------------------------------------------------------------------
\* The inductive invariant.

\* What TypeOK says of the three sequences, in the form the proofs need.
LEMMA SeqTypes ==
    ASSUME TypeOK
    PROVE  /\ outbox \in Seq(Event) /\ received \in Seq(Event) /\ lines \in Seq(Event)
           /\ outbox \in Seq(Nat) /\ lines \in Seq(Nat)
           /\ ToSet(received) \subseteq Nat
  <1>1. outbox \in Seq(Event) /\ received \in Seq(Event) /\ lines \in Seq(Event)
      BY DEF TypeOK
  <1>2. Event \subseteq Nat
      BY DEF Event
  <1>3. ASSUME NEW s \in Seq(Event) PROVE s \in Seq(Nat)
    <2>1. Len(s) \in Nat /\ \A i \in 1 .. Len(s) : s[i] \in Event
        OBVIOUS
    <2>2. s = [i \in 1 .. Len(s) |-> s[i]]
        OBVIOUS
    <2> QED  BY <1>2, <2>1, <2>2, SMT
  <1>4. ToSet(received) \subseteq Event
      BY <1>1, ToSetType
  <1> QED  BY <1>1, <1>2, <1>3, <1>4

\* The invariant holds for an empty outbox.
LEMMA OutboxInit == Init => Inv
  BY SiemOutboxAssumption, ToSetEmpty
     DEF Init, Inv, TypeOK, Event, FileWasQueued, FileInOrder, Increasing,
         ForwardCoversFile, SentInOrder, FaultsLoseNothing, FirstCopiesInOrder

\* Whatever is older than the next line and not excepted was received.
LEMMA NextIsOldest ==
    ASSUME Inv, pc = "deliver", lines # <<>>
    PROVE  /\ Head(lines) \in Event /\ Head(lines) \in ToSet(lines)
           /\ \A e \in 1 .. Head(lines) :
                  e \notin Excepted => e = Head(lines) \/ e \in ToSet(received)
  <1> DEFINE h == Head(lines)
  <1>1. received \in Seq(Event) /\ lines \in Seq(Event) /\ lines \in Seq(Nat)
      BY SeqTypes DEF Inv
  <1>2. h \in Event /\ h \in ToSet(lines)
    <2>1. h \in ToSet(lines)
        BY <1>1, ToSetTail
    <2> QED  BY <1>1, <2>1, ToSetType
  <1>3. h <= queued
      BY <1>2 DEF Inv, TypeOK, FileWasQueued
  <1>4. ASSUME NEW e \in 1 .. h, e \notin Excepted
        PROVE  e = h \/ e \in ToSet(received)
    <2>1. e \in 1 .. queued
        BY <1>2, <1>3 DEF Inv, TypeOK, Event
    <2>2. e \in ToSet(outbox) \cup ToSet(received)
        BY <1>4, <2>1 DEF Inv, FaultsLoseNothing, Kept
    <2>3. e \in ToSet(lines) \cup ToSet(received)
        BY <1>4, <2>2 DEF Inv, ForwardCoversFile
    <2>4. e \in ToSet(lines) => h <= e
        BY <1>1, HeadIsLeast DEF Inv, FileInOrder
    <2>5. e \in Nat /\ h \in Nat /\ e <= h
        BY <1>2 DEF Event
    <2> QED  BY <2>3, <2>4, <2>5
  <1> QED  BY <1>2, <1>4

\* An event whose elders were received keeps the first copies in order when it
\* arrives.
LEMMA ReceiveInOrder ==
    ASSUME Inv, NEW h \in Event,
           \A e \in 1 .. h : e \notin Excepted => e = h \/ e \in ToSet(received)
    PROVE  LET r == Append(received, h) IN
           /\ r \in Seq(Event)
           /\ ToSet(r) = ToSet(received) \cup {h}
           /\ \A i \in DOMAIN r : \A e \in 1 .. r[i] :
                  e \notin Excepted => \E j \in 1 .. i : r[j] = e
  <1> DEFINE r == Append(received, h)
  <1>1. received \in Seq(Event)
      BY SeqTypes DEF Inv
  <1>2. r \in Seq(Event) /\ ToSet(r) = ToSet(received) \cup {h}
      BY <1>1, ToSetAppend
  <1>3. \A e \in 1 .. h : e \notin Excepted => e = h \/ e \in ToSet(received)
      OBVIOUS
  <1>4. /\ Len(received) \in Nat /\ DOMAIN received = 1 .. Len(received)
        /\ DOMAIN r = 1 .. Len(received) + 1
        /\ r[Len(received) + 1] = h
        /\ \A i \in 1 .. Len(received) : r[i] = received[i]
      BY <1>1
  <1> HIDE DEF r
  <1>5. ASSUME NEW i \in DOMAIN r, NEW e \in 1 .. r[i], e \notin Excepted
        PROVE  \E j \in 1 .. i : r[j] = e
    <2>1. CASE i = Len(received) + 1
      <3>1. e = h \/ \E j \in DOMAIN received : received[j] = e
          BY <1>3, <1>4, <1>5, <2>1 DEF ToSet
      <3>2. CASE e = h
        <4>1. i \in 1 .. i
            BY <1>4, <2>1
        <4> QED  BY <1>4, <2>1, <3>2, <4>1
      <3>3. CASE \E j \in DOMAIN received : received[j] = e
          BY <1>4, <2>1, <3>3
      <3> QED  BY <3>1, <3>2, <3>3
    <2>2. CASE i # Len(received) + 1
      <3>1. i \in DOMAIN received /\ r[i] = received[i]
          BY <1>4, <2>2
      <3>2. PICK j \in 1 .. i : received[j] = e
          BY <1>5, <3>1 DEF Inv, FirstCopiesInOrder
      <3> QED  BY <1>4, <3>1, <3>2
    <2> QED  BY <2>1, <2>2
  <1> QED  BY <1>2, <1>5 DEF r

\* Every step of the API handlers, of the forwarder and of a crash keeps the
\* invariant.
LEMMA OutboxStep == Inv /\ [Next]_vars => Inv'
  <1> SUFFICES ASSUME Inv, [Next]_vars PROVE Inv'
      OBVIOUS
  <1> USE SiemOutboxAssumption
  <1>1. /\ outbox \in Seq(Event) /\ received \in Seq(Event) /\ lines \in Seq(Event)
        /\ outbox \in Seq(Nat) /\ lines \in Seq(Nat)
      BY SeqTypes DEF Inv
  <1>2. CASE WriteEvent
    <2>1. /\ queued \in Nat /\ queued' = queued + 1 /\ queued' \in Event
          /\ outbox' = Append(outbox, queued')
          /\ late' = IF pc = "idle" THEN late ELSE late \cup {queued'}
          /\ UNCHANGED <<received, pc, lines, unconfirmed, faults>>
        BY <1>2 DEF WriteEvent, Inv, TypeOK, Event
    <2>2. outbox' \in Seq(Event) /\ ToSet(outbox') = ToSet(outbox) \cup {queued'}
        BY <1>1, <2>1, ToSetAppend
    <2>3. Excepted \subseteq Excepted'
        BY <2>1 DEF Excepted
    <2>4. TypeOK'
        BY <2>1, <2>2 DEF Inv, TypeOK, Event
    <2>5. FileWasQueued'
      <3>1. ToSet(outbox) \subseteq Nat
          BY <1>1, ToSetType
      <3> QED  BY <2>1, <2>2, <3>1 DEF Inv, FileWasQueued
    <2>6. FileInOrder'
        BY <1>1, <2>1, AppendInOrder DEF Inv, FileInOrder, FileWasQueued
    <2>7. ForwardCoversFile' /\ SentInOrder'
        BY <2>1, <2>2, <2>3 DEF Inv, ForwardCoversFile, SentInOrder, Excepted
    <2>8. FaultsLoseNothing'
      <3> SUFFICES ASSUME NEW e \in 1 .. queued', e \notin Excepted' PROVE Kept(e)'
          BY DEF FaultsLoseNothing
      <3>1. e \in 1 .. queued \/ e = queued'
          BY <2>1
      <3> QED  BY <2>1, <2>2, <2>3, <3>1 DEF Inv, FaultsLoseNothing, Kept
    <2>9. FirstCopiesInOrder'
        BY <2>1, <2>3 DEF Inv, FirstCopiesInOrder
    <2> QED  BY <2>4, <2>5, <2>6, <2>7, <2>8, <2>9 DEF Inv
  <1>3. CASE ReadOutbox
    <2>1. /\ lines' = outbox /\ pc' = "deliver"
          /\ UNCHANGED <<queued, outbox, received, late, unconfirmed, faults>>
        BY <1>3 DEF ReadOutbox
    <2> QED
        BY <2>1 DEF Inv, TypeOK, FileWasQueued, FileInOrder, ForwardCoversFile,
                    SentInOrder, FaultsLoseNothing, Kept, FirstCopiesInOrder, Excepted
  <1>4. CASE DeliverLine
    <2>1. /\ pc = "deliver" /\ lines # <<>>
          /\ received' = Append(received, Head(lines)) /\ lines' = Tail(lines)
          /\ UNCHANGED <<queued, outbox, pc, late, unconfirmed, faults>>
        BY <1>4 DEF DeliverLine
    <2>2. ToSet(lines) = {Head(lines)} \cup ToSet(lines')
        BY <1>1, <2>1, ToSetTail
    <2>3. /\ received' \in Seq(Event)
          /\ ToSet(received') = ToSet(received) \cup {Head(lines)}
          /\ FirstCopiesInOrder'
        BY <2>1, NextIsOldest, ReceiveInOrder DEF FirstCopiesInOrder, Excepted
    <2>4. lines' \in Seq(Event) /\ Increasing(lines')
        BY <1>1, <2>1, HeadIsLeast DEF Inv, FileInOrder
    <2>5. TypeOK'
        BY <2>1, <2>2, <2>3, <2>4 DEF Inv, TypeOK, Event
    <2>6. FileWasQueued' /\ FileInOrder'
        BY <2>1, <2>4 DEF Inv, FileWasQueued, FileInOrder
    <2>7. ForwardCoversFile' /\ SentInOrder' /\ FaultsLoseNothing'
        BY <2>1, <2>2, <2>3
           DEF Inv, ForwardCoversFile, SentInOrder, FaultsLoseNothing, Kept, Excepted
    <2> QED  BY <2>3, <2>5, <2>6, <2>7 DEF Inv
  <1>5. CASE SendLine
    <2>1. /\ pc = "deliver" /\ lines # <<>> /\ lines' = Tail(lines)
          /\ unconfirmed' = unconfirmed \cup {Head(lines)}
          /\ UNCHANGED <<queued, outbox, received, pc, late, faults>>
        BY <1>5 DEF SendLine
    <2>2. ToSet(lines) = {Head(lines)} \cup ToSet(lines')
        BY <1>1, <2>1, ToSetTail
    <2>3. /\ Head(lines) \in Event
          /\ \A e \in 1 .. Head(lines) :
                 e \notin Excepted => e = Head(lines) \/ e \in ToSet(received)
        BY <2>1, NextIsOldest
    <2>4. lines' \in Seq(Event) /\ Increasing(lines')
        BY <1>1, <2>1, HeadIsLeast DEF Inv, FileInOrder
    <2>5. Excepted' = Excepted \cup {Head(lines)}
        BY <2>1 DEF Excepted
    <2>6. TypeOK'
        BY <2>1, <2>2, <2>3, <2>4 DEF Inv, TypeOK, Event
    <2>7. FileWasQueued' /\ FileInOrder'
        BY <2>1, <2>4 DEF Inv, FileWasQueued, FileInOrder
    <2>8. ForwardCoversFile' /\ FaultsLoseNothing' /\ FirstCopiesInOrder'
        BY <2>1, <2>2, <2>5
           DEF Inv, ForwardCoversFile, FaultsLoseNothing, Kept, FirstCopiesInOrder
    <2>9. SentInOrder'
        BY <2>1, <2>3, <2>5 DEF Inv, SentInOrder
    <2> QED  BY <2>6, <2>7, <2>8, <2>9 DEF Inv
  <1>6. CASE \E e \in 1 .. queued : ArriveLate(e)
    <2>1. PICK e \in unconfirmed : received' = Append(received, e)
        BY <1>6 DEF ArriveLate
    <2>2. UNCHANGED <<queued, outbox, pc, lines, late, unconfirmed, faults>>
        BY <1>6 DEF ArriveLate
    <2>3. e \in Event /\ \A d \in 1 .. e : d \notin Excepted => d = e \/ d \in ToSet(received)
        BY <2>1 DEF Inv, TypeOK, SentInOrder
    <2>4. /\ received' \in Seq(Event)
          /\ ToSet(received') = ToSet(received) \cup {e}
          /\ FirstCopiesInOrder'
        BY <2>1, <2>2, <2>3, ReceiveInOrder DEF FirstCopiesInOrder, Excepted
    <2>5. TypeOK'
        BY <2>2, <2>4 DEF Inv, TypeOK, Event
    <2>6. FileWasQueued' /\ FileInOrder'
        BY <2>2 DEF Inv, FileWasQueued, FileInOrder
    <2>7. ForwardCoversFile' /\ SentInOrder' /\ FaultsLoseNothing'
        BY <2>2, <2>4
           DEF Inv, ForwardCoversFile, SentInOrder, FaultsLoseNothing, Kept, Excepted
    <2> QED  BY <2>4, <2>5, <2>6, <2>7 DEF Inv
  <1>7. CASE DeliverDone
    <2>1. pc = "deliver" /\ pc' = "truncate" /\ lines = <<>>
          /\ UNCHANGED <<queued, outbox, received, lines, late, unconfirmed, faults>>
        BY <1>7 DEF DeliverDone
    <2> QED
        BY <2>1 DEF Inv, TypeOK, FileWasQueued, FileInOrder, ForwardCoversFile,
                    SentInOrder, FaultsLoseNothing, Kept, FirstCopiesInOrder, Excepted
  <1>8. CASE Truncate
    <2>1. /\ pc = "truncate" /\ outbox' = <<>> /\ pc' = "idle" /\ lines = <<>>
          /\ UNCHANGED <<queued, received, lines, late, unconfirmed, faults>>
        BY <1>8 DEF Truncate, Inv, TypeOK
    <2>2. ToSet(outbox') = {} /\ ToSet(lines) = {}
        BY <2>1, ToSetEmpty
    <2>3. /\ TypeOK' /\ FileWasQueued' /\ ForwardCoversFile' /\ SentInOrder'
          /\ FirstCopiesInOrder'
        BY <2>1, <2>2 DEF Inv, TypeOK, FileWasQueued, ForwardCoversFile, SentInOrder,
                          FirstCopiesInOrder, Excepted
    <2>4. FileInOrder'
        BY <2>1 DEF Inv, FileInOrder, Increasing
    <2>5. FaultsLoseNothing'
        BY <2>1, <2>2 DEF Inv, ForwardCoversFile, FaultsLoseNothing, Kept, Excepted
    <2> QED  BY <2>3, <2>4, <2>5 DEF Inv
  <1>9. CASE \E arrived \in BOOLEAN : DeliverFails(arrived)
    <2>1. /\ pc = "deliver" /\ lines # <<>> /\ lines' = <<>> /\ pc' = "idle"
          /\ UNCHANGED <<queued, outbox, late, unconfirmed>>
          /\ faults' \in 0 .. MaxFaults
        BY <1>9 DEF DeliverFails, Fault, Inv, TypeOK
    <2>2. received' = received \/ received' = Append(received, Head(lines))
        BY <1>9 DEF DeliverFails
    <2>3. /\ received' \in Seq(Event)
          /\ ToSet(received) \subseteq ToSet(received')
          /\ FirstCopiesInOrder'
      <3>1. CASE received' = received
          BY <1>1, <2>1, <3>1 DEF Inv, FirstCopiesInOrder, Excepted
      <3>2. CASE received' = Append(received, Head(lines))
          BY <2>1, <3>2, NextIsOldest, ReceiveInOrder DEF FirstCopiesInOrder, Excepted
      <3> QED  BY <2>2, <3>1, <3>2
    <2>4. TypeOK'
        BY <2>1, <2>3, ToSetEmpty DEF Inv, TypeOK
    <2>5. FileWasQueued' /\ FileInOrder'
        BY <2>1 DEF Inv, FileWasQueued, FileInOrder, Increasing
    <2>6. ForwardCoversFile' /\ SentInOrder' /\ FaultsLoseNothing'
        BY <2>1, <2>3
           DEF Inv, ForwardCoversFile, SentInOrder, FaultsLoseNothing, Kept, Excepted
    <2> QED  BY <2>3, <2>4, <2>5, <2>6 DEF Inv
  <1>10. CASE TruncateFails \/ Restart
    <2>1. /\ lines' = <<>> /\ pc' = "idle"
          /\ UNCHANGED <<queued, outbox, received, late, unconfirmed>>
          /\ faults' \in 0 .. MaxFaults
        BY <1>10 DEF TruncateFails, Restart, Fault, Inv, TypeOK
    <2>2. TypeOK'
        BY <2>1, ToSetEmpty DEF Inv, TypeOK
    <2>3. FileWasQueued' /\ FileInOrder'
        BY <2>1 DEF Inv, FileWasQueued, FileInOrder, Increasing
    <2>4. ForwardCoversFile' /\ SentInOrder' /\ FaultsLoseNothing' /\ FirstCopiesInOrder'
        BY <2>1 DEF Inv, ForwardCoversFile, SentInOrder, FaultsLoseNothing, Kept,
                    FirstCopiesInOrder, Excepted
    <2> QED  BY <2>2, <2>3, <2>4 DEF Inv
  <1>11. CASE UNCHANGED vars
      BY <1>11 DEF vars, Inv, TypeOK, FileWasQueued, FileInOrder, ForwardCoversFile,
                  SentInOrder, FaultsLoseNothing, Kept, FirstCopiesInOrder, Excepted
  <1> QED
      BY <1>2, <1>3, <1>4, <1>5, <1>6, <1>7, <1>8, <1>9, <1>10, <1>11 DEF Next, Forward

\* The invariant holds in every state of the outbox.
THEOREM OutboxInvariant == Spec => []Inv
  BY OutboxInit, OutboxStep, PTL DEF Spec

\* The file, the lines that were read and what was received are sequences of
\* events, and what a forward has yet to deliver is still in the file.
THEOREM OutboxTypes == Spec => []TypeOK
  <1>1. Inv => TypeOK
      BY DEF Inv
  <1> QED  BY <1>1, OutboxInvariant, PTL

\* A failing delivery, a failing truncation or a crash never loses an event:
\* each event is in the file until it is received, but for one appended during a
\* forward and one that was sent without an error and not received.
THEOREM FaultsLoseNothingHolds == Spec => []FaultsLoseNothing
  <1>1. Inv => FaultsLoseNothing
      BY DEF Inv
  <1> QED  BY <1>1, OutboxInvariant, PTL

\* deliverSIEMLines hands the first copies of the events to the SIEM in the order
\* of the appends, through any number of repeated forwards and of late arrivals.
THEOREM FirstCopiesInOrderHolds == Spec => []FirstCopiesInOrder
  <1>1. Inv => FirstCopiesInOrder
      BY DEF Inv
  <1> QED  BY <1>1, OutboxInvariant, PTL

-----------------------------------------------------------------------------
\* AuditLog.

File == 1 .. created

Step == {"gone", "idle", "rename", "open", "write", "truncate", "rewrite"}

\* The shape of the directory and of the processes: handles, backups and the file
\* being rewritten are files that were created.
AuditTypes ==
    /\ created \in Inode
    /\ content \in [Inode -> Seq(Entry)]
    /\ active \in {0} \cup File
    /\ backup \in [Second -> {0} \cup File]
    /\ archive \in [Second -> SUBSET Entry] /\ second \in Second
    /\ logged \in 0 .. MaxEntries
    /\ at \in [Process -> Step]
    /\ handle \in [Process -> {0} \cup File]
    /\ rotated \in [Process -> {0} \cup Second]
    /\ pending \in [Process -> 0 .. MaxEntries]
    /\ buffer \in Seq(Entry) /\ kept \in Seq(Entry)
    /\ fd \in [inode : {0} \cup File, pos : Nat]
    /\ incomplete \in BOOLEAN /\ rewrote \in BOOLEAN

\* A process that is about to write has an entry, one that rotates has a name.
ProcessTypes == \A p \in Process :
    /\ at[p] \in {"rename", "open", "write"} => pending[p] # 0
    /\ at[p] \in {"rename", "open"} => rotated[p] # 0

\* No file disappears but for those that were pruned or replaced.
BackupFiles == {backup[s] : s \in Second}

FilesAccounted == File \subseteq BackupFiles \cup {active} \cup removed

NewFilesAreEmpty == \A i \in Inode \ File : content[i] = <<>>

\* During a retention, what is in memory is written back or archived.
RetentionCovers == at["daemon"] \in {"truncate", "rewrite"} =>
    ToSet(kept) \subseteq ToSet(buffer) /\ ToSet(buffer) \subseteq ToSet(kept) \cup Archived

\* The rewritten file starts with what was written back so far; what follows it
\* was appended by providaptctl in the meantime.
RewriteUnderWay == at["daemon"] = "rewrite" =>
    /\ rewrote = TRUE
    /\ fd.inode # 0
    /\ fd.pos <= Len(kept) /\ fd.pos <= Len(content[fd.inode])
    /\ \A j \in 1 .. fd.pos : content[fd.inode][j] = kept[j]
    /\ \A j \in DOMAIN content[fd.inode] : j > fd.pos => content[fd.inode][j] \in byCli

Remembered == ToSet(buffer) \cup Archived \cup bumped \cup byCli \cup revived \cup unread \cup replaced

OnDisk == Archived \cup UNION {ToSet(content[i]) : i \in File}

\* NothingLost, with all the files there ever were.
Survives(e) ==
    \/ e \in OnDisk
    \/ incomplete = TRUE /\ e \in ToSet(buffer)
    \/ e \in torn \cup bumped \cup replaced
    \/ e \in byCli \cup revived \cup unread /\ rewrote = TRUE

AcceptedSurvive == \A e \in accepted : Survives(e)

AuditInv ==
    /\ AuditTypes /\ ProcessTypes
    /\ FilesAccounted /\ NewFilesAreEmpty
    /\ RetentionCovers /\ RewriteUnderWay
    /\ FileIsInMemory
    /\ AcceptedSurvive

-----------------------------------------------------------------------------
\* Sequences of entries.

\* A full buffer is cut in two.
LEMMA NewestAndOldest ==
    ASSUME NEW S, NEW s \in Seq(S)
    PROVE  /\ Newest(s) \in Seq(S)
           /\ ToSet(s) = ToSet(Newest(s)) \cup ToSet(Oldest(s))
  <1>1. MaxSize \in Nat \ {0}
      BY AuditAssumption
  <1>2. CASE Len(s) > MaxSize
    <2> DEFINE d == Len(s) - MaxSize
               new == SubSeq(s, d + 1, Len(s))
               old == SubSeq(s, 1, d)
    <2>1. Len(s) \in Nat /\ d \in 1 .. Len(s) /\ DOMAIN s = 1 .. Len(s) /\ Len(s) - d = MaxSize
        BY <1>1, <1>2
    <2>2. /\ new \in Seq(S) /\ DOMAIN new = 1 .. Len(s) - d
          /\ \A i \in 1 .. Len(s) - d : new[i] = s[i + d]
        BY <2>1
    <2>3. /\ DOMAIN old = 1 .. d
          /\ \A i \in 1 .. d : old[i] = s[i]
        BY <2>1
    <2>4. Newest(s) = new /\ Oldest(s) = old
        BY <1>2 DEF Newest, Oldest
    <2> HIDE DEF new, old, d
    <2>5. \A i \in 1 .. Len(s) - d : i + d \in 1 .. Len(s)
        BY <2>1
    <2>6. \A i \in 1 .. d : i \in 1 .. Len(s)
        BY <2>1
    <2>7. \A i \in 1 .. Len(s) : i \in 1 .. d \/ (i - d \in 1 .. Len(s) - d /\ (i - d) + d = i)
        BY <2>1
    <2>8. ToSet(new) \cup ToSet(old) \subseteq ToSet(s)
        BY <2>1, <2>2, <2>3, <2>5, <2>6 DEF ToSet
    <2>9. ASSUME NEW i \in 1 .. Len(s) PROVE s[i] \in ToSet(new) \cup ToSet(old)
      <3>1. CASE i \in 1 .. d
          BY <2>3, <3>1 DEF ToSet
      <3>2. CASE i - d \in 1 .. Len(s) - d /\ (i - d) + d = i
        <4>1. new[i - d] = s[i]
            BY <2>2, <3>2
        <4> QED  BY <2>2, <3>2, <4>1 DEF ToSet
      <3> QED  BY <2>7, <3>1, <3>2
    <2>10. ToSet(s) \subseteq ToSet(new) \cup ToSet(old)
        BY <2>1, <2>9 DEF ToSet
    <2> QED  BY <2>2, <2>4, <2>8, <2>10
  <1>3. CASE ~(Len(s) > MaxSize)
    <2>1. Newest(s) = s /\ Oldest(s) = <<>> /\ ToSet(<<>>) = {}
        BY <1>3 DEF Newest, Oldest, ToSet
    <2> QED  BY <2>1
  <1> QED  BY <1>2, <1>3

\* Those lists just the entries that are in the set: every position that is taken
\* has a rank of its own, so that there is one for every rank.
LEMMA ThoseAreTaken ==
    ASSUME NEW S, NEW s \in Seq(S), NEW T
    PROVE  /\ Those(s, T) \in Seq(S)
           /\ ToSet(Those(s, T)) = ToSet(s) \cap T
  <1> DEFINE K == {k \in DOMAIN s : s[k] \in T}
             Below(k) == {j \in K : j <= k}
             n == Cardinality(K)
             rank == [k \in K |-> Cardinality(Below(k))]
             Nth(i) == CHOOSE k \in K : Cardinality(Below(k)) = i
  <1>1. DOMAIN s = 1 .. Len(s) /\ Len(s) \in Nat /\ K \subseteq 1 .. Len(s)
      OBVIOUS
  <1>2. IsFiniteSet(K) /\ n \in Nat
    <2>1. IsFiniteSet(1 .. Len(s))
        BY <1>1, FS_Interval
    <2> QED  BY <1>1, <2>1, FS_Subset, FS_CardinalityType
  <1>3. Those(s, T) = [i \in 1 .. n |-> s[Nth(i)]]
      BY DEF Those
  <1>4. \A k \in K : k \in Nat /\ k \in DOMAIN s /\ s[k] \in S /\ s[k] \in T
      BY <1>1
  <1>5. \A k \in DOMAIN s : s[k] \in T => k \in K
      OBVIOUS
  <1> HIDE DEF K
  <1>6. \A k \in K : IsFiniteSet(Below(k)) /\ Cardinality(Below(k)) \in 1 .. n
    <2> SUFFICES ASSUME NEW k \in K PROVE IsFiniteSet(Below(k)) /\ Cardinality(Below(k)) \in 1 .. n
        OBVIOUS
    <2>1. Below(k) \in SUBSET K /\ k \in Below(k)
        BY <1>4
    <2>2. IsFiniteSet(Below(k)) /\ Cardinality(Below(k)) <= n /\ Cardinality(Below(k)) \in Nat
        BY <1>2, <2>1, FS_Subset, FS_CardinalityType
    <2>3. Cardinality(Below(k)) # 0
        BY <2>1, <2>2, FS_EmptySet
    <2> QED  BY <1>2, <2>2, <2>3
  <1>7. ASSUME NEW k \in K, NEW l \in K, k < l PROVE Cardinality(Below(k)) # Cardinality(Below(l))
    <2>1. Below(k) \in SUBSET Below(l) /\ l \in Below(l) /\ l \notin Below(k)
        BY <1>4, <1>7
    <2> QED  BY <1>6, <2>1, FS_Subset
  <1>8. \A k, l \in K : Cardinality(Below(k)) = Cardinality(Below(l)) => k = l
    <2> SUFFICES ASSUME NEW k \in K, NEW l \in K, k # l
                 PROVE  Cardinality(Below(k)) # Cardinality(Below(l))
        OBVIOUS
    <2>1. k < l \/ l < k
        BY <1>4
    <2> QED  BY <1>7, <2>1
  <1>9. rank \in [K -> 1 .. n]
      BY <1>6
  <1>10. rank \in Injection(K, 1 .. n)
      BY <1>8, <1>9 DEF Injection, IsInjective
  <1>11. IsFiniteSet(1 .. n) /\ Cardinality(1 .. n) = n
      BY <1>2, FS_Interval
  <1>12. rank \in Surjection(K, 1 .. n)
      BY <1>10, <1>11, FS_Injection
  <1>13. \A i \in 1 .. n : \E k \in K : Cardinality(Below(k)) = i
      BY <1>12 DEF Surjection
  <1> HIDE DEF Below, n, rank
  <1>14. \A i \in 1 .. n : Nth(i) \in K
      BY <1>13
  <1>15. \A k \in K : Nth(Cardinality(Below(k))) = k
      BY <1>8
  <1> DEFINE t == Those(s, T)
  <1> HIDE DEF Nth
  <1>16. t \in Seq(S) /\ DOMAIN t = 1 .. n /\ \A i \in 1 .. n : t[i] = s[Nth(i)]
    <2>1. \A i \in 1 .. n : s[Nth(i)] \in S
        BY <1>4, <1>14
    <2> QED  BY <1>2, <1>3, <2>1
  <1> HIDE DEF t
  <1>17. ToSet(t) \subseteq ToSet(s) \cap T
      BY <1>4, <1>14, <1>16 DEF ToSet
  <1>18. ASSUME NEW k \in K PROVE s[k] \in ToSet(t)
    <2>1. Cardinality(Below(k)) \in 1 .. n /\ Nth(Cardinality(Below(k))) = k
        BY <1>6, <1>15
    <2> QED  BY <1>16, <2>1 DEF ToSet
  <1>19. ToSet(s) \cap T \subseteq ToSet(t)
      BY <1>5, <1>18 DEF ToSet
  <1> QED  BY <1>16, <1>17, <1>19 DEF t

-----------------------------------------------------------------------------
\* What the steps have in common.

\* An archive that is written replaces at most one of the same second.
LEMMA ArchiveWritten ==
    ASSUME AuditTypes, NEW S \in SUBSET Entry, WriteArchive(S)
    PROVE  /\ archive' \in [Second -> SUBSET Entry] /\ second' \in Second
           /\ replaced \subseteq replaced' /\ Archived \subseteq Archived' \cup replaced'
           /\ S \subseteq Archived'
  <1>1. PICK s \in Second : /\ second' = s
                            /\ archive' = [archive EXCEPT ![s] = S]
                            /\ replaced' = replaced \cup (archive[s] \ S)
      BY DEF WriteArchive, Stamp
  <1>2. /\ archive' \in [Second -> SUBSET Entry] /\ archive'[s] = S
        /\ \A t \in Second : t # s => archive'[t] = archive[t]
      BY <1>1 DEF AuditTypes
  <1>3. S \subseteq Archived'
      BY <1>2 DEF Archived
  <1>4. ASSUME NEW t \in Second, NEW e \in archive[t] PROVE e \in Archived' \cup replaced'
      BY <1>1, <1>2, <1>3 DEF Archived
  <1>5. Archived \subseteq Archived' \cup replaced'
      BY <1>4 DEF Archived
  <1> QED  BY <1>1, <1>2, <1>3, <1>5

\* What was created is within the bound.
LEMMA FilesAreInodes ==
    ASSUME AuditTypes
    PROVE  File \subseteq Inode
  <1>1. created \in 1 .. MaxInodes /\ MaxInodes \in Nat
      BY AuditAssumption DEF AuditTypes, Inode
  <1> QED  BY <1>1 DEF File, Inode

\* Opening the file at the path finds the active file, or makes a new and empty one.
LEMMA Opened ==
    ASSUME AuditInv, OpenActive
    PROVE  /\ created' \in Inode /\ active' \in File' /\ active' # 0 /\ active' \in Inode
           /\ File \subseteq File' /\ File' \subseteq File \cup {active'}
           /\ active # 0 => active' = active
           /\ ToSet(content[active']) \subseteq Remembered
  <1>1. created \in Inode /\ active \in {0} \cup File /\ MaxInodes \in Nat
      BY AuditAssumption DEF AuditInv, AuditTypes
  <1>2. CASE active # 0
    <2>1. active' = active /\ created' = created
        BY <1>2 DEF OpenActive
    <2>2. ToSet(content[active]) \subseteq Remembered
        BY <1>2 DEF AuditInv, FileIsInMemory, Remembered
    <2>3. active \in 1 .. created /\ 1 .. created \subseteq Inode
        BY <1>1, <1>2 DEF File, Inode
    <2> QED  BY <1>1, <1>2, <2>1, <2>2, <2>3 DEF File
  <1>3. CASE active = 0
    <2>1. created < MaxInodes /\ created' = created + 1 /\ active' = created + 1
        BY <1>3 DEF OpenActive
    <2>2. created' \in Inode /\ created + 1 \in Inode \ File
        BY <1>1, <2>1 DEF Inode, File
    <2>3. content[created + 1] = <<>>
        BY <2>2 DEF AuditInv, NewFilesAreEmpty
    <2>4. ToSet(<<>>) = {}
        BY DEF ToSet
    <2>5. /\ created + 1 \in 1 .. created + 1 /\ created + 1 # 0
          /\ 1 .. created \subseteq 1 .. created + 1
          /\ 1 .. created + 1 \subseteq (1 .. created) \cup {created + 1}
        BY <1>1 DEF Inode
    <2> QED  BY <1>3, <2>1, <2>2, <2>3, <2>4, <2>5 DEF File
  <1> QED  BY <1>2, <1>3

\* All files are accounted for when one is opened and backups are pruned.
LEMMA OpenedAccounted ==
    ASSUME AuditInv, OpenActive, removed \subseteq removed',
           BackupFiles \subseteq BackupFiles' \cup {0} \cup removed'
    PROVE  FilesAccounted'
  <1>1. File' \subseteq File \cup {active'} /\ (active # 0 => active' = active)
      BY Opened
  <1>2. 0 \notin File
      BY DEF File
  <1>3. File \subseteq BackupFiles \cup {active} \cup removed
      BY DEF AuditInv, FilesAccounted
  <1> QED  BY <1>1, <1>2, <1>3 DEF FilesAccounted

\* More files are created files; the processes keep theirs.
LEMMA TypesGrow ==
    ASSUME AuditTypes, File \subseteq File'
    PROVE  /\ handle \in [Process -> {0} \cup File']
           /\ backup \in [Second -> {0} \cup File']
           /\ fd \in [inode : {0} \cup File', pos : Nat]
  BY DEF AuditTypes

\* What was on disk stays there unless a file is truncated or overwritten.
LEMMA DiskGrows ==
    ASSUME Archived \subseteq Archived' \cup replaced', File \subseteq File',
           \A i \in File : ToSet(content[i]) \subseteq ToSet(content'[i])
    PROVE  OnDisk \subseteq OnDisk' \cup replaced'
  BY DEF OnDisk

\* A step that leaves the archives alone.
LEMMA ArchiveStays ==
    ASSUME UNCHANGED <<archive, replaced>>
    PROVE  /\ Archived' = Archived /\ Archived \subseteq Archived' \cup replaced'
           /\ replaced \subseteq replaced'
  BY DEF Archived

\* A step that loses nothing from disk and does not touch memory loses nothing.
LEMMA StillSurvive ==
    ASSUME AcceptedSurvive, OnDisk \subseteq OnDisk' \cup replaced', replaced \subseteq replaced',
           UNCHANGED <<accepted, buffer, incomplete, torn, bumped, byCli, rewrote, unread>>,
           revived \subseteq revived'
    PROVE  AcceptedSurvive'
  BY DEF AcceptedSurvive, Survives

\* The retention of the daemon is where it was, or over.
LEMMA RetentionStays ==
    ASSUME AuditInv, UNCHANGED <<kept, archive, buffer, fd, content, rewrote, byCli>>,
           at'["daemon"] \in {"truncate", "rewrite"} => at'["daemon"] = at["daemon"]
    PROVE  RetentionCovers' /\ RewriteUnderWay'
  BY DEF AuditInv, RetentionCovers, RewriteUnderWay, Archived

\* A process that goes to a step of Log is not in a retention.
LEMMA GoesOn ==
    ASSUME AuditTypes, NEW p \in Process, NEW s \in Step \ {"truncate", "rewrite"}, Goto(p, s)
    PROVE  /\ at' \in [Process -> Step]
           /\ at'["daemon"] \in {"truncate", "rewrite"} => at'["daemon"] = at["daemon"]
           /\ at'[p] = s
           /\ \A q \in Process : q # p => at'[q] = at[q]
  BY DEF AuditTypes, Goto, Process

\* A process takes another file.
LEMMA Holds ==
    ASSUME AuditTypes, NEW p \in Process, File \subseteq File', NEW i \in {0} \cup File', Hold(p, i)
    PROVE  handle' \in [Process -> {0} \cup File']
  BY TypesGrow DEF AuditTypes, Hold

-----------------------------------------------------------------------------
\* Log.

\* providaptctl takes the active file; the daemon is not disturbed.
LEMMA CliOpensStep ==
    ASSUME AuditInv, NEW p \in Cli, CliOpens(p)
    PROVE  AuditInv'
  <1>1. p \in Process /\ AuditTypes /\ OpenActive
      BY DEF Process, AuditInv, CliOpens
  <1>2. /\ Goto(p, "idle") /\ Hold(p, active')
        /\ UNCHANGED <<rotated, content, backup, second, logged, buffer, pending, accepted, byCli, bumped, removed,
                       revived, unread, kept, fd, rewrote, incomplete, torn, archive, replaced>>
      BY DEF CliOpens, text, lost, retention
  <1>3. /\ created' \in Inode /\ active' \in File' /\ active' # 0
        /\ File \subseteq File' /\ File' \subseteq File \cup {active'}
        /\ active # 0 => active' = active
        /\ ToSet(content[active']) \subseteq Remembered
      BY <1>1, Opened
  <1>4. /\ at' \in [Process -> Step] /\ at'[p] = "idle"
        /\ \A q \in Process : q # p => at'[q] = at[q]
        /\ at'["daemon"] \in {"truncate", "rewrite"} => at'["daemon"] = at["daemon"]
      BY <1>1, <1>2, GoesOn DEF Step
  <1>5. AuditTypes'
    <2>1. handle' \in [Process -> {0} \cup File']
        BY <1>1, <1>2, <1>3, Holds
    <2> QED  BY <1>1, <1>2, <1>3, <1>4, <2>1, TypesGrow DEF AuditTypes
  <1>6. ProcessTypes'
      BY <1>2, <1>4 DEF AuditInv, ProcessTypes
  <1>7. FilesAccounted'
      BY <1>1, <1>2, OpenedAccounted DEF BackupFiles
  <1>8. NewFilesAreEmpty'
      BY <1>2, <1>3 DEF AuditInv, NewFilesAreEmpty
  <1>9. RetentionCovers' /\ RewriteUnderWay'
      BY <1>2, <1>4, RetentionStays
  <1>10. FileIsInMemory'
      BY <1>2, <1>3, ArchiveStays DEF FileIsInMemory, Remembered
  <1>11. AcceptedSurvive'
      BY <1>2, <1>3, ArchiveStays, DiskGrows, StillSurvive DEF AuditInv
  <1> QED  BY <1>5, <1>6, <1>7, <1>8, <1>9, <1>10, <1>11 DEF AuditInv

\* An entry gets its number, and a file that is too large is closed.
LEMMA LogBeginsStep ==
    ASSUME AuditInv, NEW p \in Process, LogBegins(p)
    PROVE  AuditInv'
  <1>1. AuditTypes
      BY DEF AuditInv
  <1>2. /\ logged < MaxEntries /\ logged' = logged + 1
        /\ pending' = [pending EXCEPT ![p] = logged']
        /\ UNCHANGED <<content, active, backup, created, buffer, accepted, byCli, bumped, removed, revived,
                       unread, kept, fd, rewrote, incomplete, torn, archive, replaced>>
      BY DEF LogBegins, text, lost, retention
  <1>3. \/ /\ Hold(p, 0) /\ Goto(p, "rename")
           /\ \E t \in Second : second' = t /\ rotated' = [rotated EXCEPT ![p] = t]
        \/ Goto(p, "write") /\ UNCHANGED <<handle, second, rotated>>
      BY DEF LogBegins, Stamp
  <1>4. PICK s \in {"rename", "write"} : Goto(p, s)
      BY <1>3
  <1>5. /\ at' \in [Process -> Step] /\ at'[p] = s
        /\ \A q \in Process : q # p => at'[q] = at[q]
        /\ at'["daemon"] \in {"truncate", "rewrite"} => at'["daemon"] = at["daemon"]
      BY <1>1, <1>4, GoesOn DEF Step
  <1>6. File' = File
      BY <1>2 DEF File
  <1>7. handle' \in [Process -> {0} \cup File']
      BY <1>1, <1>3, <1>6, Holds DEF AuditTypes
  <1>8. logged' \in 0 .. MaxEntries /\ logged' # 0
      BY <1>1, <1>2, AuditAssumption DEF AuditTypes
  <1>9. /\ pending' \in [Process -> 0 .. MaxEntries] /\ pending'[p] # 0
        /\ \A q \in Process : q # p => pending'[q] = pending[q]
      BY <1>1, <1>2, <1>8 DEF AuditTypes
  <1>10. rotated \in [Process -> {0} \cup Second] /\ second \in Second /\ 0 \notin Second
      BY <1>1 DEF AuditTypes, Second
  <1>11. /\ rotated' \in [Process -> {0} \cup Second] /\ second' \in Second
         /\ at'[p] = "rename" => rotated'[p] # 0
         /\ \A q \in Process : q # p => rotated'[q] = rotated[q]
    <2>1. CASE \E t \in Second : second' = t /\ rotated' = [rotated EXCEPT ![p] = t]
        BY <1>10, <2>1
    <2>2. CASE Goto(p, "write") /\ UNCHANGED <<second, rotated>>
        BY <1>1, <1>10, <2>2 DEF Goto, AuditTypes
    <2> QED  BY <1>3, <2>1, <2>2
  <1>12. AuditTypes'
      BY <1>1, <1>2, <1>5, <1>6, <1>7, <1>8, <1>9, <1>11 DEF AuditTypes
  <1>13. ProcessTypes'
      BY <1>2, <1>4, <1>5, <1>9, <1>11 DEF AuditInv, ProcessTypes
  <1>14. FilesAccounted' /\ NewFilesAreEmpty' /\ FileIsInMemory'
      BY <1>2, <1>6, ArchiveStays DEF AuditInv, FilesAccounted, BackupFiles, NewFilesAreEmpty, FileIsInMemory
  <1>15. RetentionCovers' /\ RewriteUnderWay'
      BY <1>2, <1>5, RetentionStays
  <1>16. AcceptedSurvive'
      BY <1>2, <1>6, ArchiveStays, DiskGrows, StillSurvive DEF AuditInv
  <1> QED  BY <1>12, <1>13, <1>14, <1>15, <1>16 DEF AuditInv

\* The renamed file is a backup, and the one it replaces is counted as removed.
LEMMA RotateRenamesStep ==
    ASSUME AuditInv, NEW p \in Process, RotateRenames(p)
    PROVE  AuditInv'
  <1>1. AuditTypes /\ at[p] = "rename" /\ pending[p] # 0 /\ rotated[p] # 0
      BY DEF AuditInv, ProcessTypes, RotateRenames
  <1>2. UNCHANGED <<content, second, created, logged, handle, buffer, pending, accepted, byCli, bumped, revived,
                    unread, kept, fd, rewrote, incomplete, torn, archive, replaced>>
      BY DEF RotateRenames, text, retention
  <1>3. File' = File
      BY <1>2 DEF File
  <1>4. OnDisk \subseteq OnDisk' \cup replaced' /\ Archived' = Archived /\ replaced \subseteq replaced'
      BY <1>2, <1>3, ArchiveStays, DiskGrows
  <1>5. CASE active # 0
    <2>1. /\ backup' = [backup EXCEPT ![rotated[p]] = active] /\ active' = 0
          /\ removed' = removed \cup ({backup[rotated[p]]} \ {0})
          /\ rotated' = rotated /\ Goto(p, "open")
        BY <1>5 DEF RotateRenames
    <2>2. /\ at' \in [Process -> Step] /\ at'[p] = "open"
          /\ \A q \in Process : q # p => at'[q] = at[q]
          /\ at'["daemon"] \in {"truncate", "rewrite"} => at'["daemon"] = at["daemon"]
        BY <1>1, <2>1, GoesOn DEF Step
    <2>3. active \in File /\ rotated[p] \in Second /\ backup \in [Second -> {0} \cup File]
        BY <1>1, <1>5 DEF AuditTypes
    <2>4. /\ backup' \in [Second -> {0} \cup File] /\ backup'[rotated[p]] = active
          /\ \A t \in Second : t # rotated[p] => backup'[t] = backup[t]
        BY <2>1, <2>3
    <2>5. AuditTypes'
        BY <1>1, <1>2, <1>3, <2>1, <2>2, <2>4 DEF AuditTypes
    <2>6. ProcessTypes'
        BY <1>1, <1>2, <2>1, <2>2 DEF AuditInv, ProcessTypes
    <2>7. FilesAccounted'
      <3>1. 0 \notin File
          BY DEF File
      <3>2. BackupFiles \subseteq BackupFiles' \cup {0} \cup removed'
          BY <2>1, <2>4 DEF BackupFiles
      <3>3. active \in BackupFiles'
          BY <2>3, <2>4 DEF BackupFiles
      <3>4. File \subseteq BackupFiles \cup {active} \cup removed /\ removed \subseteq removed'
          BY <2>1 DEF AuditInv, FilesAccounted
      <3> QED  BY <1>3, <3>1, <3>2, <3>3, <3>4 DEF FilesAccounted
    <2>8. NewFilesAreEmpty' /\ FileIsInMemory'
        BY <1>2, <1>3, <2>1 DEF AuditInv, NewFilesAreEmpty, FileIsInMemory
    <2>9. RetentionCovers' /\ RewriteUnderWay'
        BY <1>2, <2>2, RetentionStays
    <2> QED  BY <1>2, <1>4, <2>5, <2>6, <2>7, <2>8, <2>9, StillSurvive DEF AuditInv
  <1>6. CASE active = 0
    <2>1. Goto(p, "write") /\ rotated' = [rotated EXCEPT ![p] = 0] /\ UNCHANGED <<backup, active, removed>>
        BY <1>6 DEF RotateRenames
    <2>2. /\ at' \in [Process -> Step] /\ at'[p] = "write"
          /\ \A q \in Process : q # p => at'[q] = at[q]
          /\ at'["daemon"] \in {"truncate", "rewrite"} => at'["daemon"] = at["daemon"]
        BY <1>1, <2>1, GoesOn DEF Step
    <2>3. /\ rotated' \in [Process -> {0} \cup Second]
          /\ \A q \in Process : q # p => rotated'[q] = rotated[q]
        BY <1>1, <2>1 DEF AuditTypes
    <2>4. AuditTypes'
        BY <1>1, <1>2, <1>3, <2>1, <2>2, <2>3 DEF AuditTypes
    <2>5. ProcessTypes'
        BY <1>1, <1>2, <2>2, <2>3 DEF AuditInv, ProcessTypes
    <2>6. FilesAccounted' /\ NewFilesAreEmpty' /\ FileIsInMemory'
        BY <1>2, <1>3, <1>4, <2>1 DEF AuditInv, FilesAccounted, BackupFiles, NewFilesAreEmpty, FileIsInMemory
    <2>7. RetentionCovers' /\ RewriteUnderWay'
        BY <1>2, <2>2, RetentionStays
    <2> QED  BY <1>2, <1>4, <2>4, <2>5, <2>6, <2>7, StillSurvive DEF AuditInv
  <1> QED  BY <1>5, <1>6

\* Pruned backups are counted as removed.
LEMMA RotateOpensStep ==
    ASSUME AuditInv, NEW p \in Process, RotateOpens(p)
    PROVE  AuditInv'
  <1> DEFINE excess == {s \in Backups : Cardinality({t \in Backups : t > s}) >= MaxBackups}
  <1>1. AuditTypes /\ OpenActive /\ pending[p] # 0
      BY DEF AuditInv, ProcessTypes, RotateOpens
  <1>2. /\ Goto(p, "write") /\ Hold(p, active')
        /\ backup' = [s \in Second |-> IF s \in excess THEN 0 ELSE backup[s]]
        /\ removed' = removed \cup {backup[s] : s \in excess}
        /\ rotated' = [rotated EXCEPT ![p] = 0]
        /\ UNCHANGED <<content, second, logged, buffer, pending, accepted, byCli, bumped, revived, unread, kept,
                       fd, rewrote, incomplete, torn, archive, replaced>>
      BY DEF RotateOpens, text, retention
  <1> HIDE DEF excess
  <1>3. Archived' = Archived /\ Archived \subseteq Archived' \cup replaced' /\ replaced \subseteq replaced'
      BY <1>2, ArchiveStays
  <1>4. /\ created' \in Inode /\ active' \in File' /\ active' # 0
        /\ File \subseteq File' /\ File' \subseteq File \cup {active'}
        /\ active # 0 => active' = active
        /\ ToSet(content[active']) \subseteq Remembered
      BY <1>1, Opened
  <1>5. /\ at' \in [Process -> Step] /\ at'[p] = "write"
        /\ \A q \in Process : q # p => at'[q] = at[q]
        /\ at'["daemon"] \in {"truncate", "rewrite"} => at'["daemon"] = at["daemon"]
      BY <1>1, <1>2, GoesOn DEF Step
  <1>6. /\ handle' \in [Process -> {0} \cup File']
        /\ backup \in [Second -> {0} \cup File']
        /\ fd' \in [inode : {0} \cup File', pos : Nat]
      BY <1>1, <1>2, <1>4, Holds, TypesGrow
  <1>7. backup' \in [Second -> {0} \cup File']
      BY <1>2, <1>6
  <1>8. /\ rotated' \in [Process -> {0} \cup Second]
        /\ \A q \in Process : q # p => rotated'[q] = rotated[q]
      BY <1>1, <1>2 DEF AuditTypes
  <1>9. AuditTypes'
      BY <1>1, <1>2, <1>4, <1>5, <1>6, <1>7, <1>8 DEF AuditTypes
  <1>10. ProcessTypes'
      BY <1>1, <1>2, <1>5, <1>8 DEF AuditInv, ProcessTypes
  <1>11. FilesAccounted'
    <2>1. removed \subseteq removed'
        BY <1>2
    <2>2. BackupFiles \subseteq BackupFiles' \cup {0} \cup removed'
        BY <1>2 DEF BackupFiles
    <2> QED  BY <1>1, <2>1, <2>2, OpenedAccounted
  <1>12. NewFilesAreEmpty'
      BY <1>2, <1>4 DEF AuditInv, NewFilesAreEmpty
  <1>13. RetentionCovers' /\ RewriteUnderWay'
      BY <1>2, <1>5, RetentionStays
  <1>14. FileIsInMemory'
      BY <1>2, <1>3, <1>4 DEF FileIsInMemory, Remembered
  <1>15. AcceptedSurvive'
      BY <1>2, <1>3, <1>4, DiskGrows, StillSurvive DEF AuditInv
  <1> QED  BY <1>9, <1>10, <1>11, <1>12, <1>13, <1>14, <1>15 DEF AuditInv

\* A file that is put back is a backup; what memory does not hold of it is revived.
LEMMA RotateFailsStep ==
    ASSUME AuditInv, NEW p \in Process, RotateFails(p)
    PROVE  AuditInv'
  <1> DEFINE file == backup[rotated[p]]
  <1>1. AuditTypes /\ pending[p] # 0 /\ rotated[p] # 0
      BY DEF AuditInv, ProcessTypes, RotateFails
  <1>2. /\ Goto(p, "write") /\ rotated' = [rotated EXCEPT ![p] = 0]
        /\ UNCHANGED <<content, second, created, logged, handle, buffer, pending, accepted, byCli, bumped, unread,
                       kept, fd, rewrote, incomplete, torn, archive, replaced>>
      BY DEF RotateFails, text, retention
  <1>3. File' = File
      BY <1>2 DEF File
  <1>4. /\ at' \in [Process -> Step] /\ at'[p] = "write"
        /\ \A q \in Process : q # p => at'[q] = at[q]
        /\ at'["daemon"] \in {"truncate", "rewrite"} => at'["daemon"] = at["daemon"]
      BY <1>1, <1>2, GoesOn DEF Step
  <1>5. /\ rotated' \in [Process -> {0} \cup Second]
        /\ \A q \in Process : q # p => rotated'[q] = rotated[q]
      BY <1>1, <1>2 DEF AuditTypes
  <1>6. ProcessTypes'
      BY <1>1, <1>2, <1>4, <1>5 DEF AuditInv, ProcessTypes
  <1>7. RetentionCovers' /\ RewriteUnderWay'
      BY <1>2, <1>4, RetentionStays
  <1>8. NewFilesAreEmpty'
      BY <1>2, <1>3 DEF AuditInv, NewFilesAreEmpty
  <1>9. OnDisk \subseteq OnDisk' \cup replaced' /\ Archived' = Archived /\ replaced \subseteq replaced'
      BY <1>2, <1>3, ArchiveStays, DiskGrows
  <1>10. CASE UNCHANGED <<active, backup, removed, revived>>
    <2>1. AuditTypes'
        BY <1>1, <1>2, <1>3, <1>4, <1>5, <1>10 DEF AuditTypes
    <2>2. FilesAccounted' /\ FileIsInMemory'
        BY <1>2, <1>3, <1>9, <1>10 DEF AuditInv, FilesAccounted, BackupFiles, FileIsInMemory
    <2>3. AcceptedSurvive'
        BY <1>2, <1>9, <1>10, StillSurvive DEF AuditInv
    <2> QED  BY <1>6, <1>7, <1>8, <2>1, <2>2, <2>3 DEF AuditInv
  <1>11. ASSUME file # 0, active' = file,
                backup' = [backup EXCEPT ![rotated[p]] = 0],
                removed' = removed \cup ({active} \ {0}),
                revived' = revived \cup (ToSet(content[file]) \ ToSet(buffer))
         PROVE  AuditInv'
    <2>1. rotated[p] \in Second /\ backup \in [Second -> {0} \cup File] /\ file \in File
        BY <1>1, <1>11 DEF AuditTypes
    <2>2. /\ backup' \in [Second -> {0} \cup File]
          /\ \A t \in Second : t # rotated[p] => backup'[t] = backup[t]
        BY <1>11, <2>1
    <2>3. BackupFiles \subseteq BackupFiles' \cup {active'}
        BY <1>11, <2>2 DEF BackupFiles
    <2>4. AuditTypes'
        BY <1>1, <1>2, <1>3, <1>4, <1>5, <1>11, <2>1, <2>2 DEF AuditTypes
    <2>5. FilesAccounted'
      <3>1. 0 \notin File
          BY DEF File
      <3> QED  BY <1>3, <1>11, <2>3, <3>1 DEF AuditInv, FilesAccounted
    <2>6. FileIsInMemory'
        BY <1>2, <1>11 DEF FileIsInMemory
    <2>7. AcceptedSurvive'
        BY <1>2, <1>9, <1>11, StillSurvive DEF AuditInv
    <2> QED  BY <1>6, <1>7, <1>8, <2>4, <2>5, <2>6, <2>7 DEF AuditInv
  <1> QED  BY <1>10, <1>11 DEF RotateFails

\* Between the write of the entry and its place in memory there is no step.
LEMMA LogWritesStep ==
    ASSUME AuditInv, NEW p \in Process, LogWrites(p)
    PROVE  AuditInv'
  <1> DEFINE e == pending[p]
             h == handle[p]
             grown == Append(buffer, e)
             s == IF p = "daemon" THEN "idle" ELSE "gone"
  <1>1. AuditTypes /\ e # 0
      BY DEF AuditInv, ProcessTypes, LogWrites
  <1>2. /\ Goto(p, s) /\ pending' = [pending EXCEPT ![p] = 0]
        /\ UNCHANGED <<rotated, active, backup, second, created, logged, handle, removed, revived, unread,
                       kept, fd, rewrote, incomplete, torn, archive, replaced>>
      BY DEF LogWrites, LogReturns, lost, retention
  <1>3. File' = File
      BY <1>2 DEF File
  <1>4. /\ at' \in [Process -> Step] /\ at'[p] = s /\ s \in {"idle", "gone"}
        /\ \A q \in Process : q # p => at'[q] = at[q]
        /\ at'["daemon"] \in {"truncate", "rewrite"} => at'["daemon"] = at["daemon"]
      BY <1>1, <1>2, GoesOn DEF Step
  <1>5. /\ pending' \in [Process -> 0 .. MaxEntries]
        /\ \A q \in Process : q # p => pending'[q] = pending[q]
      BY <1>1, <1>2, AuditAssumption DEF AuditTypes
  <1>6. ProcessTypes'
      BY <1>2, <1>4, <1>5 DEF AuditInv, ProcessTypes
  <1>7. FilesAccounted'
      BY <1>2, <1>3 DEF AuditInv, FilesAccounted, BackupFiles
  <1>8. Archived' = Archived /\ Archived \subseteq Archived' \cup replaced'
      BY <1>2, ArchiveStays
  <1>9. h # 0
      BY DEF LogWrites
  <1> QED
    <2>1. /\ content' = [content EXCEPT ![h] = Append(content[h], e)]
          /\ accepted' = accepted \cup {e}
          /\ byCli' = IF p \in Cli THEN byCli \cup {e} ELSE byCli
          /\ buffer' = IF p = "daemon" THEN Newest(grown) ELSE buffer
          /\ bumped' = IF p = "daemon" THEN bumped \cup ToSet(Oldest(grown)) ELSE bumped
        BY <1>9 DEF LogWrites
    <2>2. e \in Entry /\ h \in File /\ h \in Inode
      <3>1. h \in File /\ e \in 0 .. MaxEntries
          BY <1>1, <1>9 DEF AuditTypes
      <3>2. e \in Entry
          BY <1>1, <3>1, AuditAssumption DEF Entry
      <3> QED  BY <1>1, <3>1, <3>2, FilesAreInodes
    <2>3. buffer \in Seq(Entry) /\ content[h] \in Seq(Entry) /\ content \in [Inode -> Seq(Entry)]
        BY <1>1, <2>2 DEF AuditTypes
    <2>4. grown \in Seq(Entry) /\ ToSet(grown) = ToSet(buffer) \cup {e}
        BY <2>2, <2>3, ToSetAppend
    <2>5. Newest(grown) \in Seq(Entry) /\ ToSet(grown) = ToSet(Newest(grown)) \cup ToSet(Oldest(grown))
        BY <2>4, NewestAndOldest
    <2>6. /\ Append(content[h], e) \in Seq(Entry)
          /\ ToSet(Append(content[h], e)) = ToSet(content[h]) \cup {e}
        BY <2>2, <2>3, ToSetAppend
    <2> HIDE DEF e, h, grown
    <2>7. /\ content' \in [Inode -> Seq(Entry)]
          /\ content'[h] = Append(content[h], e)
          /\ \A i \in Inode : i # h => content'[i] = content[i]
        BY <2>1, <2>2, <2>3, <2>6
    <2>8. /\ \A i \in Inode : ToSet(content[i]) \subseteq ToSet(content'[i])
          /\ \A i \in Inode : ToSet(content'[i]) \subseteq ToSet(content[i]) \cup {e}
          /\ e \in ToSet(content'[h])
        BY <2>6, <2>7
    <2>9. /\ bumped \subseteq bumped' /\ byCli \subseteq byCli'
          /\ ToSet(buffer) \subseteq ToSet(buffer') \cup bumped'
          /\ e \in ToSet(buffer') \cup bumped' \cup byCli'
      <3>1. p = "daemon" \/ p \in Cli
          BY DEF Process
      <3> QED  BY <2>1, <2>4, <2>5, <3>1
    <2>10. buffer' \in Seq(Entry)
        BY <2>1, <2>3, <2>5
    <2>11. AuditTypes'
        BY <1>1, <1>2, <1>3, <1>4, <1>5, <2>7, <2>10 DEF AuditTypes
    <2>12. NewFilesAreEmpty'
        BY <1>3, <2>2, <2>7 DEF AuditInv, NewFilesAreEmpty
    <2>13. FileIsInMemory'
      <3> SUFFICES ASSUME active # 0
                   PROVE  ToSet(content'[active]) \subseteq
                            ToSet(buffer') \cup Archived \cup bumped' \cup byCli' \cup revived \cup unread \cup replaced
          BY <1>2, <1>8 DEF FileIsInMemory
      <3>1. active \in Inode
          BY <1>1, FilesAreInodes DEF AuditTypes
      <3>2. ToSet(content[active]) \subseteq
               ToSet(buffer) \cup Archived \cup bumped \cup byCli \cup revived \cup unread \cup replaced
          BY DEF AuditInv, FileIsInMemory
      <3> QED  BY <2>8, <2>9, <3>1, <3>2
    <2>14. File \subseteq Inode
        BY <1>1, FilesAreInodes
    <2>15. AcceptedSurvive'
      <3>1. OnDisk \subseteq OnDisk' \cup replaced' /\ e \in OnDisk'
        <4>1. OnDisk \subseteq OnDisk' \cup replaced'
            BY <1>3, <1>8, <2>8, <2>14, DiskGrows
        <4>2. e \in OnDisk'
            BY <1>3, <2>2, <2>8 DEF OnDisk
        <4> QED  BY <4>1, <4>2
      <3>2. ASSUME NEW x \in accepted PROVE Survives(x)'
        <4>1. Survives(x)
            BY DEF AuditInv, AcceptedSurvive
        <4> QED  BY <1>2, <2>9, <3>1, <4>1 DEF Survives
      <3>3. ASSUME NEW x, x = e PROVE Survives(x)'
          BY <3>1, <3>3 DEF Survives
      <3>4. \A x \in accepted' : x \in accepted \/ x = e
          BY <2>1
      <3> QED  BY <3>2, <3>3, <3>4 DEF AcceptedSurvive
    <2>16. CASE p = "daemon"
      <3>1. at'["daemon"] = "idle"
          BY <1>4, <2>16
      <3>2. RetentionCovers' /\ RewriteUnderWay'
          BY <3>1 DEF RetentionCovers, RewriteUnderWay
      <3> QED  BY <1>6, <1>7, <2>11, <2>12, <2>13, <2>15, <3>2 DEF AuditInv
    <2>17. CASE p # "daemon"
      <3>1. p \in Cli /\ at'["daemon"] = at["daemon"] /\ buffer' = buffer /\ byCli' = byCli \cup {e}
          BY <1>4, <2>1, <2>17 DEF Process
      <3>2. RetentionCovers'
          BY <1>2, <1>8, <3>1 DEF AuditInv, RetentionCovers
      <3>3. RewriteUnderWay'
        <4> SUFFICES ASSUME at["daemon"] = "rewrite"
                     PROVE  /\ rewrote = TRUE /\ fd.inode # 0
                            /\ fd.pos <= Len(kept) /\ fd.pos <= Len(content'[fd.inode])
                            /\ \A j \in 1 .. fd.pos : content'[fd.inode][j] = kept[j]
                            /\ \A j \in DOMAIN content'[fd.inode] : j > fd.pos =>
                                  content'[fd.inode][j] \in byCli'
            BY <1>2, <3>1 DEF RewriteUnderWay
        <4>1. /\ rewrote = TRUE /\ fd.inode # 0
              /\ fd.pos <= Len(kept) /\ fd.pos <= Len(content[fd.inode])
              /\ \A j \in 1 .. fd.pos : content[fd.inode][j] = kept[j]
              /\ \A j \in DOMAIN content[fd.inode] : j > fd.pos => content[fd.inode][j] \in byCli
            BY DEF AuditInv, RewriteUnderWay
        <4>2. fd.inode \in Inode /\ fd.pos \in Nat
            BY <1>1, <2>14, <4>1 DEF AuditTypes
        <4>3. CASE fd.inode # h
            BY <2>7, <3>1, <4>1, <4>2, <4>3
        <4>4. CASE fd.inode = h
          <5> DEFINE c == content[h]
                     d == content'[h]
          <5>1. /\ Len(c) \in Nat /\ DOMAIN c = 1 .. Len(c) /\ Len(d) = Len(c) + 1
                /\ DOMAIN d = 1 .. Len(c) + 1 /\ d[Len(c) + 1] = e
                /\ \A j \in 1 .. Len(c) : d[j] = c[j]
              BY <2>2, <2>3, <2>7
          <5>2. /\ fd.pos <= Len(c)
                /\ \A j \in 1 .. fd.pos : c[j] = kept[j]
                /\ \A j \in DOMAIN c : j > fd.pos => c[j] \in byCli
              BY <4>1, <4>4
          <5> HIDE DEF c, d
          <5>3. fd.pos <= Len(d) /\ \A j \in 1 .. fd.pos : d[j] = kept[j]
              BY <4>2, <5>1, <5>2
          <5>4. ASSUME NEW j \in DOMAIN d, j > fd.pos PROVE d[j] \in byCli'
            <6>1. j \in 1 .. Len(c) \/ j = Len(c) + 1
                BY <5>1
            <6> QED  BY <3>1, <5>1, <5>2, <5>4, <6>1
          <5> QED  BY <4>1, <4>4, <5>3, <5>4 DEF d
        <4> QED  BY <4>3, <4>4
      <3> QED  BY <1>6, <1>7, <2>11, <2>12, <2>13, <2>15, <3>2, <3>3 DEF AuditInv
    <2> QED  BY <2>16, <2>17

\* An entry that is not written changes nothing but perhaps the last line of a file.
LEMMA LogFailsStep ==
    ASSUME AuditInv, NEW p \in Process, LogFails(p)
    PROVE  AuditInv'
  <1> DEFINE s == IF p = "daemon" THEN "idle" ELSE "gone"
  <1>1. AuditTypes
      BY DEF AuditInv
  <1>2. /\ Goto(p, s) /\ pending' = [pending EXCEPT ![p] = 0]
        /\ UNCHANGED <<content, rotated, active, backup, second, created, logged, handle, buffer, accepted, byCli,
                       bumped, removed, revived, unread, kept, fd, rewrote, incomplete, torn, archive, replaced>>
      BY DEF LogFails, LogReturns, lost, retention
  <1>3. File' = File
      BY <1>2 DEF File
  <1>4. /\ at' \in [Process -> Step] /\ at'[p] = s /\ s \in {"idle", "gone"}
        /\ \A q \in Process : q # p => at'[q] = at[q]
        /\ at'["daemon"] \in {"truncate", "rewrite"} => at'["daemon"] = at["daemon"]
      BY <1>1, <1>2, GoesOn DEF Step
  <1>5. /\ pending' \in [Process -> 0 .. MaxEntries]
        /\ \A q \in Process : q # p => pending'[q] = pending[q]
      BY <1>1, <1>2, AuditAssumption DEF AuditTypes
  <1>6. AuditTypes'
      BY <1>1, <1>2, <1>3, <1>4, <1>5 DEF AuditTypes
  <1>7. ProcessTypes'
      BY <1>2, <1>4, <1>5 DEF AuditInv, ProcessTypes
  <1>8. FilesAccounted' /\ NewFilesAreEmpty' /\ FileIsInMemory'
      BY <1>2, <1>3, ArchiveStays DEF AuditInv, FilesAccounted, BackupFiles, NewFilesAreEmpty, FileIsInMemory
  <1>9. RetentionCovers' /\ RewriteUnderWay'
      BY <1>2, <1>4, RetentionStays
  <1>10. AcceptedSurvive'
      BY <1>2, <1>3, ArchiveStays, DiskGrows, StillSurvive DEF AuditInv
  <1> QED  BY <1>6, <1>7, <1>8, <1>9, <1>10 DEF AuditInv

-----------------------------------------------------------------------------
\* ApplyRetention.

\* The passing of time changes no file.
LEMMA ExpireStep ==
    ASSUME AuditInv, Expire
    PROVE  AuditInv'
  <1>1. UNCHANGED <<content, active, backup, archive, second, created, logged, at, handle, buffer, pending,
                    rotated, kept, fd, accepted, byCli, bumped, removed, revived, unread, replaced, rewrote,
                    incomplete, torn>>
      BY DEF Expire, text, lost
  <1>2. File' = File
      BY <1>1 DEF File
  <1>3. AuditTypes' /\ ProcessTypes'
      BY <1>1, <1>2 DEF AuditInv, AuditTypes, ProcessTypes
  <1>4. FilesAccounted' /\ NewFilesAreEmpty' /\ FileIsInMemory'
      BY <1>1, <1>2, ArchiveStays DEF AuditInv, FilesAccounted, BackupFiles, NewFilesAreEmpty, FileIsInMemory
  <1>5. RetentionCovers' /\ RewriteUnderWay'
      BY <1>1, RetentionStays
  <1>6. AcceptedSurvive'
      BY <1>1, <1>2, ArchiveStays, DiskGrows, StillSurvive DEF AuditInv
  <1> QED  BY <1>3, <1>4, <1>5, <1>6 DEF AuditInv

\* What has expired is archived, and the rest is kept.
LEMMA RetainArchivesStep ==
    ASSUME AuditInv, RetainArchives
    PROVE  AuditInv'
  <1> DEFINE gone == ToSet(buffer) \cap Outdated
  <1>1. AuditTypes /\ at["daemon"] = "idle" /\ "daemon" \in Process
      BY DEF AuditInv, RetainArchives, Process
  <1>2. /\ WriteArchive(gone) /\ Hold("daemon", 0)
        /\ UNCHANGED <<rotated, content, active, backup, created, logged, cutoff, buffer, pending, fd, accepted,
                       byCli, bumped, removed, revived, unread, rewrote, incomplete, torn>>
      BY DEF RetainArchives, text, lost
  <1>3. \/ UNCHANGED <<at, kept>>
        \/ Goto("daemon", "truncate") /\ kept' = Those(buffer, Entry \ Outdated)
      BY DEF RetainArchives
  <1>4. File' = File
      BY <1>2 DEF File
  <1>5. buffer \in Seq(Entry) /\ kept \in Seq(Entry) /\ ToSet(buffer) \subseteq Entry
    <2>1. buffer \in Seq(Entry) /\ kept \in Seq(Entry)
        BY <1>1 DEF AuditTypes
    <2> QED  BY <2>1 DEF ToSet
  <1>6. /\ Those(buffer, Entry \ Outdated) \in Seq(Entry)
        /\ ToSet(Those(buffer, Entry \ Outdated)) = ToSet(buffer) \cap (Entry \ Outdated)
      BY <1>5, ThoseAreTaken
  <1>7. /\ archive' \in [Second -> SUBSET Entry] /\ second' \in Second
         /\ replaced \subseteq replaced' /\ Archived \subseteq Archived' \cup replaced'
         /\ gone \subseteq Archived'
    <2>1. gone \in SUBSET Entry
        BY <1>5
    <2> HIDE DEF gone
    <2> QED  BY <1>1, <1>2, <2>1, ArchiveWritten
  <1>8. handle' \in [Process -> {0} \cup File'] /\ kept' \in Seq(Entry)
      BY <1>1, <1>2, <1>3, <1>4, <1>5, <1>6, Holds
  <1>9. /\ at' \in [Process -> Step] /\ at'["daemon"] \in {"idle", "truncate"}
        /\ \A q \in Process : q # "daemon" => at'[q] = at[q]
      BY <1>1, <1>3 DEF Goto, AuditTypes, Step
  <1>10. AuditTypes'
      BY <1>1, <1>2, <1>4, <1>7, <1>8, <1>9 DEF AuditTypes
  <1>11. ProcessTypes'
      BY <1>2, <1>9 DEF AuditInv, ProcessTypes
  <1>12. FilesAccounted' /\ NewFilesAreEmpty' /\ FileIsInMemory'
      BY <1>2, <1>4, <1>7 DEF AuditInv, FilesAccounted, BackupFiles, NewFilesAreEmpty, FileIsInMemory
  <1>13. RewriteUnderWay'
      BY <1>9 DEF RewriteUnderWay
  <1>14. RetentionCovers'
    <2>1. CASE UNCHANGED <<at, kept>>
        BY <1>1, <2>1 DEF RetentionCovers
    <2>2. CASE kept' = Those(buffer, Entry \ Outdated)
        BY <1>2, <1>5, <1>6, <1>7, <2>2 DEF RetentionCovers
    <2> QED  BY <1>3, <2>1, <2>2
  <1>15. AcceptedSurvive'
      BY <1>2, <1>4, <1>7, DiskGrows, StillSurvive DEF AuditInv
  <1> QED  BY <1>10, <1>11, <1>12, <1>13, <1>14, <1>15 DEF AuditInv

\* An archive that is not complete changes neither memory nor the active file.
LEMMA ArchiveFailsStep ==
    ASSUME AuditInv, ArchiveFails
    PROVE  AuditInv'
  <1> DEFINE old == Those(buffer, Outdated)
  <1>1. AuditTypes /\ at["daemon"] = "idle" /\ "daemon" \in Process
      BY DEF AuditInv, ArchiveFails, Process
  <1>2. UNCHANGED <<rotated, content, active, backup, created, logged, cutoff, at, handle, buffer, pending, kept,
                    fd, accepted, byCli, bumped, removed, revived, unread, rewrote, incomplete, torn>>
      BY DEF ArchiveFails, text, lost
  <1>3. PICK k \in 0 .. Len(old) - 1 : WriteArchive(ToSet(SubSeq(old, 1, k)))
      BY DEF ArchiveFails
  <1>4. old \in Seq(Entry)
      BY <1>1, ThoseAreTaken DEF AuditTypes
  <1> DEFINE part == ToSet(SubSeq(old, 1, k))
  <1> HIDE DEF old
  <1>5. part \in SUBSET Entry
    <2>1. SubSeq(old, 1, k) \in Seq(Entry)
        BY <1>4
    <2> QED  BY <2>1 DEF ToSet
  <1> HIDE DEF part
  <1>6. /\ archive' \in [Second -> SUBSET Entry] /\ second' \in Second
        /\ replaced \subseteq replaced' /\ Archived \subseteq Archived' \cup replaced'
    <2>1. WriteArchive(part)
        BY <1>3 DEF part
    <2> QED  BY <1>1, <1>5, <2>1, ArchiveWritten
  <1>7. File' = File
      BY <1>2 DEF File
  <1>8. AuditTypes' /\ ProcessTypes'
      BY <1>2, <1>6, <1>7 DEF AuditInv, AuditTypes, ProcessTypes
  <1>9. FilesAccounted' /\ NewFilesAreEmpty' /\ FileIsInMemory'
      BY <1>2, <1>6, <1>7 DEF AuditInv, FilesAccounted, BackupFiles, NewFilesAreEmpty, FileIsInMemory
  <1>10. RetentionCovers' /\ RewriteUnderWay'
      BY <1>1, <1>2 DEF RetentionCovers, RewriteUnderWay
  <1>11. AcceptedSurvive'
      BY <1>2, <1>6, <1>7, DiskGrows, StillSurvive DEF AuditInv
  <1> QED  BY <1>8, <1>9, <1>10, <1>11 DEF AuditInv

\* The truncation loses what memory does not hold.
LEMMA RetainTruncatesStep ==
    ASSUME AuditInv, RetainTruncates
    PROVE  AuditInv'
  <1>1. AuditTypes /\ at["daemon"] = "truncate" /\ "daemon" \in Process /\ OpenActive
      BY DEF AuditInv, RetainTruncates, Process
  <1>2. /\ content' = [content EXCEPT ![active'] = <<>>]
        /\ fd' = [inode |-> active', pos |-> 0]
        /\ incomplete' = TRUE /\ rewrote' = TRUE /\ Goto("daemon", "rewrite")
        /\ UNCHANGED <<rotated, backup, archive, second, logged, cutoff, handle, buffer, pending, kept, accepted,
                       byCli, bumped, removed, revived, unread, replaced, torn>>
      BY DEF RetainTruncates, lost
  <1>3. /\ created' \in Inode /\ active' \in File' /\ active' # 0 /\ active' \in Inode
        /\ File \subseteq File' /\ File' \subseteq File \cup {active'}
        /\ active # 0 => active' = active
        /\ ToSet(content[active']) \subseteq Remembered
      BY <1>1, Opened
  <1>4. /\ at' \in [Process -> Step] /\ at'["daemon"] = "rewrite"
        /\ \A q \in Process : q # "daemon" => at'[q] = at[q]
      BY <1>1, <1>2 DEF Goto, AuditTypes, Step
  <1>5. <<>> \in Seq(Entry) /\ ToSet(<<>>) = {} /\ Len(<<>>) = 0 /\ DOMAIN <<>> = {}
      BY DEF ToSet
  <1>6. /\ content' \in [Inode -> Seq(Entry)] /\ content'[active'] = <<>>
        /\ \A i \in Inode : i # active' => content'[i] = content[i]
      BY <1>1, <1>2, <1>3, <1>5 DEF AuditTypes
  <1>7. AuditTypes'
    <2>1. fd' \in [inode : {0} \cup File', pos : Nat]
        BY <1>2, <1>3
    <2> QED  BY <1>1, <1>2, <1>3, <1>4, <1>6, <2>1, TypesGrow DEF AuditTypes
  <1>8. ProcessTypes'
      BY <1>2, <1>4 DEF AuditInv, ProcessTypes
  <1>9. FilesAccounted'
      BY <1>1, <1>2, OpenedAccounted DEF BackupFiles
  <1>10. NewFilesAreEmpty'
      BY <1>3, <1>6 DEF AuditInv, NewFilesAreEmpty
  <1>11. FileIsInMemory'
      BY <1>5, <1>6 DEF FileIsInMemory
  <1>12. Archived' = Archived
      BY <1>2, ArchiveStays
  <1>13. RetentionCovers'
      BY <1>1, <1>2, <1>12 DEF AuditInv, RetentionCovers
  <1>14. RewriteUnderWay'
    <2>1. fd'.inode = active' /\ fd'.pos = 0 /\ Len(kept') \in Nat
        BY <1>1, <1>2 DEF AuditTypes
    <2>2. /\ fd'.inode # 0 /\ fd'.pos <= Len(kept') /\ fd'.pos <= Len(content'[fd'.inode])
          /\ DOMAIN content'[fd'.inode] = {} /\ 1 .. fd'.pos = {}
        BY <1>3, <1>5, <1>6, <2>1
    <2> QED  BY <1>2, <2>2 DEF RewriteUnderWay
  <1>15. AcceptedSurvive'
    <2> SUFFICES ASSUME NEW e \in accepted PROVE Survives(e)'
        BY <1>2 DEF AcceptedSurvive
    <2>1. Survives(e)
        BY DEF AuditInv, AcceptedSurvive
    <2>2. CASE e \in Archived
        BY <1>12, <2>2 DEF Survives, OnDisk
    <2>3. CASE e \in ToSet(content[active'])
      <3>1. \/ e \in ToSet(buffer) \/ e \in Archived \/ e \in bumped \cup replaced
            \/ e \in byCli \cup revived \cup unread
          BY <1>3, <2>3 DEF Remembered
      <3>2. CASE e \in ToSet(buffer)
          BY <1>2, <3>2 DEF Survives
      <3>3. CASE e \in bumped \cup replaced
          BY <1>2, <3>3 DEF Survives
      <3>4. CASE e \in byCli \cup revived \cup unread
          BY <1>2, <3>4 DEF Survives
      <3> QED  BY <2>2, <3>1, <3>2, <3>3, <3>4
    <2>4. ASSUME NEW i \in File, i # active', e \in ToSet(content[i]) PROVE Survives(e)'
      <3>1. i \in File' /\ content'[i] = content[i]
          BY <1>1, <1>3, <1>6, <2>4, FilesAreInodes
      <3> QED  BY <2>4, <3>1 DEF Survives, OnDisk
    <2>5. CASE e \in OnDisk
        BY <2>2, <2>3, <2>4, <2>5 DEF OnDisk
    <2>6. CASE e \in ToSet(buffer) \/ e \in torn \cup bumped \cup replaced \/ e \in byCli \cup revived \cup unread
        BY <1>2, <2>6 DEF Survives
    <2> QED  BY <2>1, <2>5, <2>6 DEF Survives
  <1> QED  BY <1>7, <1>8, <1>9, <1>10, <1>11, <1>13, <1>14, <1>15 DEF AuditInv

\* A written entry is one of memory; what it overwrites, providaptctl appended.
LEMMA RetainRewritesStep ==
    ASSUME AuditInv, RetainRewrites
    PROVE  AuditInv'
  <1> DEFINE f == fd.inode
             next == fd.pos + 1
             old == content[f]
             new == IF next > Len(old) THEN Append(old, kept[next]) ELSE [old EXCEPT ![next] = kept[next]]
  <1>1. /\ AuditTypes /\ at["daemon"] = "rewrite" /\ fd.pos < Len(kept)
        /\ content' = [content EXCEPT ![f] = new]
        /\ fd' = [fd EXCEPT !.pos = next]
        /\ UNCHANGED <<kept, rotated, active, backup, archive, second, created, logged, cutoff, at, handle, buffer,
                       pending, accepted, byCli, bumped, removed, revived, unread, replaced, rewrote, incomplete,
                       torn>>
      BY DEF AuditInv, RetainRewrites, lost
  <1>2. /\ rewrote = TRUE /\ f # 0
        /\ fd.pos <= Len(kept) /\ fd.pos <= Len(old)
        /\ \A j \in 1 .. fd.pos : old[j] = kept[j]
        /\ \A j \in DOMAIN old : j > fd.pos => old[j] \in byCli
      BY <1>1 DEF AuditInv, RewriteUnderWay
  <1>3. /\ f \in File /\ f \in Inode /\ fd.pos \in Nat /\ kept \in Seq(Entry) /\ old \in Seq(Entry)
        /\ fd'.inode = f /\ fd'.pos = next /\ fd' \in [inode : {0} \cup File, pos : Nat]
    <2>1. fd \in [inode : {0} \cup File, pos : Nat] /\ kept \in Seq(Entry)
        BY <1>1 DEF AuditTypes
    <2>2. f \in File /\ fd.pos \in Nat
        BY <1>2, <2>1
    <2>3. f \in Inode
        BY <1>1, <2>2, FilesAreInodes
    <2>4. old \in Seq(Entry)
        BY <1>1, <2>3 DEF AuditTypes
    <2>5. next \in Nat
        BY <2>2
    <2>6. fd' = [fd EXCEPT !.pos = next]
        BY <1>1
    <2> HIDE DEF next
    <2>7. fd'.inode = f /\ fd'.pos = next /\ fd' \in [inode : {0} \cup File, pos : Nat]
        BY <2>1, <2>5, <2>6
    <2> QED  BY <2>1, <2>2, <2>3, <2>4, <2>7
  <1>4. kept[next] \in Entry /\ kept[next] \in ToSet(kept) /\ next \in 1 .. Len(kept)
    <2>1. next \in 1 .. Len(kept) /\ DOMAIN kept = 1 .. Len(kept)
        BY <1>1, <1>3
    <2> QED  BY <1>3, <2>1 DEF ToSet
  <1>5. /\ new \in Seq(Entry) /\ next <= Len(new)
        /\ \A j \in 1 .. next : new[j] = kept[j]
        /\ \A j \in DOMAIN new : j > next => j \in DOMAIN old /\ new[j] = old[j]
        /\ \A j \in DOMAIN old : j \in DOMAIN new /\ (j # next => new[j] = old[j])
    <2>1. CASE next > Len(old)
      <3>1. new = Append(old, kept[next]) /\ Len(old) = fd.pos
          BY <1>2, <1>3, <2>1
      <3>2. /\ new \in Seq(Entry) /\ Len(new) = next /\ new[next] = kept[next] /\ DOMAIN new = 1 .. next
            /\ DOMAIN old = 1 .. fd.pos
            /\ \A j \in 1 .. fd.pos : new[j] = old[j]
          BY <1>3, <1>4, <3>1
      <3> HIDE DEF new, old
      <3>3. \A j \in 1 .. next : j \in 1 .. fd.pos \/ j = next
          BY <1>3
      <3> QED  BY <1>2, <1>3, <3>2, <3>3
    <2>2. CASE ~(next > Len(old))
      <3>1. new = [old EXCEPT ![next] = kept[next]] /\ next \in 1 .. Len(old) /\ DOMAIN old = 1 .. Len(old)
          BY <1>3, <2>2
      <3>2. /\ new \in Seq(Entry) /\ Len(new) = Len(old) /\ DOMAIN new = 1 .. Len(old)
            /\ new[next] = kept[next]
            /\ \A j \in 1 .. Len(old) : j # next => new[j] = old[j]
          BY <1>3, <1>4, <3>1
      <3> HIDE DEF new, old
      <3>3. \A j \in 1 .. next : j \in 1 .. Len(old) /\ (j \in 1 .. fd.pos \/ j = next)
          BY <1>3, <3>1
      <3>4. \A j \in 1 .. fd.pos : j # next
          BY <1>3
      <3>5. \A j \in 1 .. next : new[j] = kept[j]
          BY <1>2, <3>2, <3>3, <3>4
      <3> QED  BY <1>3, <3>1, <3>2, <3>5
    <2> QED  BY <2>1, <2>2
  <1> HIDE DEF new
  <1>6. /\ content' \in [Inode -> Seq(Entry)] /\ content'[f] = new
        /\ \A i \in Inode : i # f => content'[i] = content[i]
      BY <1>1, <1>3, <1>5 DEF AuditTypes
  <1>7. File' = File
      BY <1>1 DEF File
  <1>8. AuditTypes' /\ ProcessTypes'
      BY <1>1, <1>3, <1>6, <1>7 DEF AuditInv, AuditTypes, ProcessTypes
  <1>9. FilesAccounted'
      BY <1>1, <1>7 DEF AuditInv, FilesAccounted, BackupFiles
  <1>10. NewFilesAreEmpty'
      BY <1>3, <1>6, <1>7 DEF AuditInv, NewFilesAreEmpty
  <1>11. Archived' = Archived
      BY <1>1, ArchiveStays
  <1>12. RetentionCovers'
      BY <1>1, <1>11 DEF AuditInv, RetentionCovers
  <1>13. RewriteUnderWay'
    <2>1. \A j \in DOMAIN new : j > next => new[j] \in byCli
      <3> SUFFICES ASSUME NEW j \in DOMAIN new, j > next PROVE new[j] \in byCli
          OBVIOUS
      <3>1. j \in DOMAIN old /\ new[j] = old[j] /\ j > fd.pos
        <4>1. j \in Nat
            BY <1>5
        <4> QED  BY <1>3, <1>5, <4>1
      <3> QED  BY <1>2, <3>1
    <2>2. next <= Len(kept)
        BY <1>4
    <2> QED  BY <1>1, <1>2, <1>3, <1>5, <1>6, <2>1, <2>2 DEF RewriteUnderWay
  <1>14. ToSet(new) \subseteq ToSet(kept) \cup ToSet(old)
    <2> SUFFICES ASSUME NEW j \in DOMAIN new PROVE new[j] \in ToSet(kept) \cup ToSet(old)
        BY DEF ToSet
    <2>1. j \in Nat \ {0}
        BY <1>5
    <2>2. CASE j <= next
      <3>1. j \in 1 .. next /\ j \in DOMAIN kept
          BY <1>3, <1>4, <2>1, <2>2
      <3> QED  BY <1>5, <3>1 DEF ToSet
    <2>3. CASE j > next
        BY <1>5, <2>3 DEF ToSet
    <2> QED  BY <1>3, <2>1, <2>2, <2>3
  <1>15. FileIsInMemory'
    <2> SUFFICES ASSUME active # 0 PROVE ToSet(content'[active]) \subseteq Remembered
        BY <1>1, <1>11 DEF FileIsInMemory, Remembered
    <2>1. active \in Inode /\ ToSet(content[active]) \subseteq Remembered
        BY <1>1, FilesAreInodes DEF AuditInv, AuditTypes, FileIsInMemory, Remembered
    <2>2. ToSet(kept) \subseteq Remembered
        BY <1>1 DEF AuditInv, RetentionCovers, Remembered
    <2>3. CASE active = f
        BY <1>6, <1>14, <2>1, <2>2, <2>3
    <2>4. CASE active # f
        BY <1>6, <2>1, <2>4
    <2> QED  BY <2>3, <2>4
  <1>16. AcceptedSurvive'
    <2> SUFFICES ASSUME NEW e \in accepted PROVE Survives(e)'
        BY <1>1 DEF AcceptedSurvive
    <2>1. Survives(e)
        BY DEF AuditInv, AcceptedSurvive
    <2>2. CASE e \in Archived
        BY <1>11, <2>2 DEF Survives, OnDisk
    <2>3. CASE e \in ToSet(old)
      <3>1. PICK j \in DOMAIN old : old[j] = e
          BY <2>3 DEF ToSet
      <3>2. CASE j = next
        <4>1. j > fd.pos
            BY <1>3, <3>2
        <4>2. e \in byCli
            BY <1>2, <3>1, <4>1
        <4> QED  BY <1>1, <1>2, <4>2 DEF Survives
      <3>3. CASE j # next
        <4>1. e \in ToSet(new)
            BY <1>5, <3>1, <3>3 DEF ToSet
        <4> QED  BY <1>3, <1>6, <1>7, <4>1 DEF Survives, OnDisk
      <3> QED  BY <3>2, <3>3
    <2>4. ASSUME NEW i \in File, i # f, e \in ToSet(content[i]) PROVE Survives(e)'
      <3>1. i \in File' /\ content'[i] = content[i]
          BY <1>1, <1>6, <1>7, <2>4, FilesAreInodes
      <3> QED  BY <2>4, <3>1 DEF Survives, OnDisk
    <2>5. CASE e \in OnDisk
        BY <2>2, <2>3, <2>4, <2>5 DEF OnDisk
    <2>6. CASE e \notin OnDisk
        BY <1>1, <2>1, <2>6 DEF Survives
    <2> QED  BY <2>5, <2>6
  <1> QED  BY <1>8, <1>9, <1>10, <1>12, <1>13, <1>15, <1>16 DEF AuditInv

\* The file that was rewritten holds what memory is going to hold.
LEMMA RetainReopensStep ==
    ASSUME AuditInv, RetainReopens
    PROVE  AuditInv'
  <1>1. /\ AuditTypes /\ at["daemon"] = "rewrite" /\ fd.pos = Len(kept)
        /\ "daemon" \in Process /\ OpenActive
      BY DEF AuditInv, RetainReopens, Process
  <1>2. /\ Hold("daemon", active') /\ Goto("daemon", "idle")
        /\ buffer' = kept /\ kept' = <<>> /\ incomplete' = FALSE /\ fd' = [inode |-> 0, pos |-> 0]
        /\ UNCHANGED <<rotated, content, backup, archive, second, logged, cutoff, pending, accepted, byCli, bumped,
                       removed, revived, unread, replaced, rewrote, torn>>
      BY DEF RetainReopens, text, lost
  <1>3. /\ created' \in Inode /\ active' \in File' /\ active' # 0
        /\ File \subseteq File' /\ File' \subseteq File \cup {active'}
        /\ ToSet(content[active']) \subseteq Remembered
      BY <1>1, Opened
  <1>4. /\ at' \in [Process -> Step] /\ at'["daemon"] = "idle"
        /\ \A q \in Process : q # "daemon" => at'[q] = at[q]
      BY <1>1, <1>2, GoesOn DEF Step
  <1>5. AuditTypes'
    <2>1. handle' \in [Process -> {0} \cup File']
        BY <1>1, <1>2, <1>3, Holds
    <2>2. fd' \in [inode : {0} \cup File', pos : Nat] /\ kept' \in Seq(Entry)
        BY <1>2
    <2>3. incomplete' \in BOOLEAN
        BY <1>2
    <2> QED  BY <1>1, <1>2, <1>3, <1>4, <2>1, <2>2, <2>3, TypesGrow DEF AuditTypes
  <1>6. ProcessTypes'
      BY <1>2, <1>4 DEF AuditInv, ProcessTypes
  <1>7. FilesAccounted'
      BY <1>1, <1>2, OpenedAccounted DEF BackupFiles
  <1>8. NewFilesAreEmpty'
      BY <1>2, <1>3 DEF AuditInv, NewFilesAreEmpty
  <1>9. RetentionCovers' /\ RewriteUnderWay'
      BY <1>4 DEF RetentionCovers, RewriteUnderWay
  <1>10. Archived' = Archived /\ Archived \subseteq Archived' \cup replaced'
      BY <1>2, ArchiveStays
  <1>11. ToSet(buffer) \subseteq ToSet(kept) \cup Archived
      BY <1>1 DEF AuditInv, RetentionCovers
  <1>12. FileIsInMemory'
      BY <1>2, <1>3, <1>10, <1>11 DEF FileIsInMemory, Remembered
  <1>13. fd.inode \in File /\ ToSet(kept) \subseteq ToSet(content[fd.inode])
    <2>1. /\ fd.inode # 0 /\ fd.pos <= Len(content[fd.inode])
          /\ \A j \in 1 .. fd.pos : content[fd.inode][j] = kept[j]
        BY <1>1 DEF AuditInv, RewriteUnderWay
    <2>2. fd.inode \in File /\ kept \in Seq(Entry)
        BY <1>1, <2>1 DEF AuditTypes
    <2>3. content[fd.inode] \in Seq(Entry)
        BY <1>1, <2>2, FilesAreInodes DEF AuditTypes
    <2>4. DOMAIN kept = 1 .. fd.pos /\ \A j \in 1 .. fd.pos : j \in DOMAIN content[fd.inode]
        BY <1>1, <2>1, <2>2, <2>3
    <2> QED  BY <2>1, <2>2, <2>4 DEF ToSet
  <1>14. ToSet(kept) \subseteq OnDisk /\ OnDisk \subseteq OnDisk' \cup replaced'
    <2>1. OnDisk \subseteq OnDisk' \cup replaced'
        BY <1>2, <1>3, <1>10, DiskGrows
    <2> QED  BY <1>13, <2>1 DEF OnDisk
  <1>15. AcceptedSurvive'
    <2> SUFFICES ASSUME NEW e \in accepted PROVE Survives(e)'
        BY <1>2 DEF AcceptedSurvive
    <2>1. Survives(e)
        BY DEF AuditInv, AcceptedSurvive
    <2>2. Archived \subseteq OnDisk
        BY DEF OnDisk
    <2>3. CASE e \in OnDisk \/ e \in ToSet(buffer)
        BY <1>11, <1>14, <2>2, <2>3 DEF Survives
    <2>4. CASE e \in torn \cup bumped \cup replaced \/ (e \in byCli \cup revived \cup unread /\ rewrote = TRUE)
        BY <1>2, <2>4 DEF Survives
    <2> QED  BY <2>1, <2>3, <2>4 DEF Survives
  <1> QED  BY <1>5, <1>6, <1>7, <1>8, <1>9, <1>12, <1>15 DEF AuditInv

\* An error leaves memory as it was, and the truncated file marked incomplete.
LEMMA RetainFailsStep ==
    ASSUME AuditInv, NEW reopened \in BOOLEAN, RetainFails(reopened)
    PROVE  AuditInv'
  <1>1. AuditTypes /\ "daemon" \in Process
      BY DEF AuditInv, Process
  <1>2. /\ Goto("daemon", "idle") /\ kept' = <<>> /\ fd' = [inode |-> 0, pos |-> 0]
        /\ UNCHANGED <<rotated, content, backup, archive, second, logged, cutoff, buffer, pending, accepted,
                       byCli, bumped, removed, revived, unread, replaced, rewrote, incomplete, torn>>
      BY DEF RetainFails, lost
  <1>3. /\ at' \in [Process -> Step] /\ at'["daemon"] = "idle"
        /\ \A q \in Process : q # "daemon" => at'[q] = at[q]
      BY <1>1, <1>2, GoesOn DEF Step
  <1>4. ProcessTypes'
      BY <1>2, <1>3 DEF AuditInv, ProcessTypes
  <1>5. RetentionCovers' /\ RewriteUnderWay'
      BY <1>3 DEF RetentionCovers, RewriteUnderWay
  <1>6. fd' \in [inode : {0} \cup File', pos : Nat] /\ kept' \in Seq(Entry)
      BY <1>2
  <1>7. CASE reopened
    <2>1. OpenActive /\ Hold("daemon", active')
        BY <1>7 DEF RetainFails
    <2>2. /\ created' \in Inode /\ active' \in File' /\ active' # 0
          /\ File \subseteq File' /\ File' \subseteq File \cup {active'}
          /\ ToSet(content[active']) \subseteq Remembered
        BY <2>1, Opened
    <2>3. handle' \in [Process -> {0} \cup File']
        BY <1>1, <2>1, <2>2, Holds
    <2>4. AuditTypes'
        BY <1>1, <1>2, <1>3, <1>6, <2>2, <2>3, TypesGrow DEF AuditTypes
    <2>5. FilesAccounted'
        BY <1>2, <2>1, OpenedAccounted DEF BackupFiles
    <2>6. NewFilesAreEmpty' /\ FileIsInMemory'
        BY <1>2, <2>2, ArchiveStays DEF AuditInv, NewFilesAreEmpty, FileIsInMemory, Remembered
    <2>7. AcceptedSurvive'
        BY <1>2, <2>2, ArchiveStays, DiskGrows, StillSurvive DEF AuditInv
    <2> QED  BY <1>4, <1>5, <2>4, <2>5, <2>6, <2>7 DEF AuditInv
  <1>8. CASE ~reopened
    <2>1. UNCHANGED <<active, created, handle>>
        BY <1>8 DEF RetainFails
    <2>2. File' = File
        BY <2>1 DEF File
    <2>3. AuditTypes'
        BY <1>1, <1>2, <1>3, <1>6, <2>1, <2>2 DEF AuditTypes
    <2>4. FilesAccounted' /\ NewFilesAreEmpty' /\ FileIsInMemory'
        BY <1>2, <2>1, <2>2, ArchiveStays DEF AuditInv, FilesAccounted, BackupFiles, NewFilesAreEmpty, FileIsInMemory
    <2>5. AcceptedSurvive'
        BY <1>2, <2>2, ArchiveStays, DiskGrows, StillSurvive DEF AuditInv
    <2> QED  BY <1>4, <1>5, <2>3, <2>4, <2>5 DEF AuditInv
  <1> QED  BY <1>7, <1>8

\* What a crash finds in memory only is torn; the new daemon reads the file.
LEMMA DaemonRestartsStep ==
    ASSUME AuditInv, DaemonRestarts
    PROVE  AuditInv'
  <1> DEFINE c == content[active']
  <1>1. AuditTypes /\ OpenActive /\ "daemon" \in Process
      BY DEF AuditInv, DaemonRestarts, Process
  <1>2. /\ Hold("daemon", active') /\ Goto("daemon", "idle")
        /\ torn' = IF incomplete THEN torn \cup (ToSet(buffer) \ Stored) ELSE torn
        /\ incomplete' = FALSE /\ kept' = <<>> /\ fd' = [inode |-> 0, pos |-> 0]
        /\ rotated' = [rotated EXCEPT !["daemon"] = 0] /\ pending' = [pending EXCEPT !["daemon"] = 0]
        /\ UNCHANGED <<content, backup, archive, second, logged, cutoff, accepted, byCli, removed, revived,
                       replaced, rewrote>>
      BY DEF DaemonRestarts, text
  <1>3. /\ created' \in Inode /\ active' \in File' /\ active' # 0 /\ active' \in Inode
        /\ File \subseteq File' /\ File' \subseteq File \cup {active'}
      BY <1>1, Opened
  <1>4. c \in Seq(Entry)
      BY <1>1, <1>3 DEF AuditTypes
  <1>5. PICK k \in 0 .. Len(c) :
           /\ buffer' = Newest(Those(SubSeq(c, 1, k), Entry \ garbled))
           /\ bumped' = bumped \cup ToSet(Oldest(Those(SubSeq(c, 1, k), Entry \ garbled)))
           /\ unread' = unread \cup (ToSet(c) \ ToSet(Those(SubSeq(c, 1, k), Entry \ garbled)))
      BY DEF DaemonRestarts
  <1>6. /\ buffer' \in Seq(Entry) /\ unread \subseteq unread' /\ bumped \subseteq bumped'
        /\ ToSet(c) \subseteq ToSet(buffer') \cup bumped' \cup unread'
    <2> DEFINE read == Those(SubSeq(c, 1, k), Entry \ garbled)
    <2>1. SubSeq(c, 1, k) \in Seq(Entry)
        BY <1>4
    <2>2. read \in Seq(Entry)
        BY <2>1, ThoseAreTaken
    <2>3. /\ buffer' = Newest(read) /\ bumped' = bumped \cup ToSet(Oldest(read))
          /\ unread' = unread \cup (ToSet(c) \ ToSet(read))
        BY <1>5
    <2> HIDE DEF read
    <2>4. Newest(read) \in Seq(Entry) /\ ToSet(read) = ToSet(Newest(read)) \cup ToSet(Oldest(read))
        BY <2>2, NewestAndOldest
    <2> QED  BY <2>3, <2>4
  <1>7. /\ at' \in [Process -> Step] /\ at'["daemon"] = "idle"
        /\ \A q \in Process : q # "daemon" => at'[q] = at[q]
      BY <1>1, <1>2, GoesOn DEF Step
  <1>8. /\ rotated' \in [Process -> {0} \cup Second] /\ pending' \in [Process -> 0 .. MaxEntries]
        /\ \A q \in Process : q # "daemon" => rotated'[q] = rotated[q] /\ pending'[q] = pending[q]
    <2>1. rotated \in [Process -> {0} \cup Second] /\ pending \in [Process -> 0 .. MaxEntries]
        BY <1>1 DEF AuditTypes
    <2>2. 0 \in 0 .. MaxEntries
        BY AuditAssumption
    <2> QED  BY <1>2, <2>1, <2>2
  <1>9. AuditTypes'
    <2>1. handle' \in [Process -> {0} \cup File']
        BY <1>1, <1>2, <1>3, Holds
    <2>2. fd' \in [inode : {0} \cup File', pos : Nat] /\ kept' \in Seq(Entry)
        BY <1>2
    <2>3. incomplete' \in BOOLEAN
        BY <1>2
    <2> QED  BY <1>1, <1>2, <1>3, <1>6, <1>7, <1>8, <2>1, <2>2, <2>3, TypesGrow DEF AuditTypes
  <1>10. ProcessTypes'
      BY <1>7, <1>8 DEF AuditInv, ProcessTypes
  <1>11. FilesAccounted'
      BY <1>1, <1>2, OpenedAccounted DEF BackupFiles
  <1>12. NewFilesAreEmpty'
      BY <1>2, <1>3 DEF AuditInv, NewFilesAreEmpty
  <1>13. RetentionCovers' /\ RewriteUnderWay'
      BY <1>7 DEF RetentionCovers, RewriteUnderWay
  <1>14. FileIsInMemory'
      BY <1>2, <1>6 DEF FileIsInMemory
  <1>15. Stored \subseteq OnDisk /\ OnDisk \subseteq OnDisk' \cup replaced'
    <2>1. Named \subseteq File
        BY <1>1 DEF AuditTypes, Named
    <2>2. Stored \subseteq OnDisk
        BY <2>1 DEF Stored, OnDisk
    <2> QED  BY <1>2, <1>3, <2>2, ArchiveStays, DiskGrows
  <1>16. AcceptedSurvive'
    <2> SUFFICES ASSUME NEW e \in accepted PROVE Survives(e)'
        BY <1>2 DEF AcceptedSurvive
    <2>1. Survives(e)
        BY DEF AuditInv, AcceptedSurvive
    <2>2. torn \subseteq torn' /\ bumped \subseteq bumped' /\ unread \subseteq unread'
        BY <1>2, <1>6
    <2>3. CASE e \in OnDisk
        BY <1>15, <2>3 DEF Survives
    <2>4. CASE incomplete = TRUE /\ e \in ToSet(buffer)
      <3>1. torn' = torn \cup (ToSet(buffer) \ Stored)
          BY <1>2, <2>4
      <3> QED  BY <1>15, <2>4, <3>1 DEF Survives
    <2>5. CASE e \in torn \cup bumped \cup replaced \/ (e \in byCli \cup revived \cup unread /\ rewrote = TRUE)
        BY <1>2, <2>2, <2>5 DEF Survives
    <2> QED  BY <2>1, <2>3, <2>4, <2>5 DEF Survives
  <1> QED  BY <1>9, <1>10, <1>11, <1>12, <1>13, <1>14, <1>16 DEF AuditInv

-----------------------------------------------------------------------------
\* The theorems.

\* New opens an empty file.
LEMMA AuditInitInv ==
    ASSUME AuditInit
    PROVE  AuditInv
  <1> USE AuditAssumption DEF AuditInit
  <1>1. "daemon" \in Process /\ 1 \in Inode /\ File = {1}
      BY DEF Process, Inode, File
  <1>2. <<>> \in Seq(Entry) /\ ToSet(<<>>) = {}
      BY DEF ToSet
  <1>3. AuditTypes
    <2>1. created \in Inode /\ active \in {0} \cup File /\ backup \in [Second -> {0} \cup File]
        BY <1>1
    <2>2. archive \in [Second -> SUBSET Entry] /\ second \in Second
        BY DEF Second
    <2>3. content \in [Inode -> Seq(Entry)] /\ buffer \in Seq(Entry) /\ kept \in Seq(Entry)
        BY <1>2
    <2>4. logged \in 0 .. MaxEntries /\ pending \in [Process -> 0 .. MaxEntries]
        OBVIOUS
    <2>5. at \in [Process -> Step]
        BY DEF Step
    <2>6. handle \in [Process -> {0} \cup File] /\ rotated \in [Process -> {0} \cup Second]
        BY <1>1
    <2>7. fd \in [inode : {0} \cup File, pos : Nat] /\ incomplete \in BOOLEAN /\ rewrote \in BOOLEAN
        OBVIOUS
    <2> QED  BY <2>1, <2>2, <2>3, <2>4, <2>5, <2>6, <2>7 DEF AuditTypes
  <1>4. \A p \in Process : at[p] \in {"idle", "gone"}
      OBVIOUS
  <1>5. ProcessTypes /\ RetentionCovers /\ RewriteUnderWay
      BY <1>1, <1>4 DEF ProcessTypes, RetentionCovers, RewriteUnderWay
  <1>6. FilesAccounted /\ NewFilesAreEmpty
      BY <1>1 DEF FilesAccounted, NewFilesAreEmpty
  <1>7. FileIsInMemory
      BY <1>1, <1>2 DEF FileIsInMemory
  <1>8. AcceptedSurvive
      BY DEF AcceptedSurvive
  <1> QED  BY <1>3, <1>5, <1>6, <1>7, <1>8 DEF AuditInv

\* The invariant is inductive.
LEMMA AuditStep == AuditInv /\ [AuditNext]_auditVars => AuditInv'
  <1> SUFFICES ASSUME AuditInv, [AuditNext]_auditVars PROVE AuditInv'
      OBVIOUS
  <1>1. ASSUME NEW p \in Cli, CliOpens(p) PROVE AuditInv'
      BY <1>1, CliOpensStep
  <1>2. ASSUME NEW p \in Process,
               \/ LogBegins(p) \/ RotateRenames(p) \/ RotateOpens(p) \/ RotateFails(p)
               \/ LogWrites(p) \/ LogFails(p)
        PROVE  AuditInv'
      BY <1>2, LogBeginsStep, RotateRenamesStep, RotateOpensStep, RotateFailsStep, LogWritesStep,
         LogFailsStep
  <1>3. CASE Expire
      BY <1>3, ExpireStep
  <1>4. CASE RetainArchives \/ ArchiveFails \/ RetainTruncates \/ RetainRewrites \/ RetainReopens
      BY <1>4, RetainArchivesStep, ArchiveFailsStep, RetainTruncatesStep, RetainRewritesStep, RetainReopensStep
  <1>5. ASSUME NEW reopened \in BOOLEAN, RetainFails(reopened) PROVE AuditInv'
      BY <1>5, RetainFailsStep
  <1>6. CASE DaemonRestarts
      BY <1>6, DaemonRestartsStep
  <1>7. CASE UNCHANGED auditVars
    <2>1. UNCHANGED <<content, active, backup, archive, second, created, logged, at, handle, buffer, pending,
                      rotated, kept, fd, accepted, byCli, bumped, removed, revived, unread, replaced, rewrote,
                      incomplete, torn>>
        BY <1>7 DEF auditVars
    <2>2. File' = File
        BY <2>1 DEF File
    <2>3. AuditTypes' /\ ProcessTypes'
        BY <2>1, <2>2 DEF AuditInv, AuditTypes, ProcessTypes
    <2>4. FilesAccounted' /\ NewFilesAreEmpty' /\ FileIsInMemory'
        BY <2>1, <2>2, ArchiveStays DEF AuditInv, FilesAccounted, BackupFiles, NewFilesAreEmpty, FileIsInMemory
    <2>5. RetentionCovers' /\ RewriteUnderWay'
        BY <2>1, RetentionStays
    <2>6. AcceptedSurvive'
        BY <2>1, <2>2, ArchiveStays, DiskGrows, StillSurvive DEF AuditInv
    <2> QED  BY <2>3, <2>4, <2>5, <2>6 DEF AuditInv
  <1> QED  BY <1>1, <1>2, <1>3, <1>4, <1>5, <1>6, <1>7 DEF AuditNext

\* The inductive invariant of the audit directory, for any number of providaptctl
\* processes, entries, files and failures.
THEOREM AuditInductive == AuditSpec => []AuditInv
  BY AuditInitInv, AuditStep, PTL DEF AuditSpec

\* Log, rotate, ApplyRetention and New lose no entry that Log accepted, but for the
\* stated exceptions, for any number of processes, files, failures and crashes.
THEOREM NoEntryIsLost == AuditSpec => []NothingLost
  <1>1. AuditInv => NothingLost
    <2> SUFFICES ASSUME AuditInv, NEW e \in accepted
                 PROVE  \/ e \in Stored \cup UNION {ToSet(content[i]) : i \in removed}
                        \/ incomplete /\ e \in ToSet(buffer)
                        \/ e \in torn \cup bumped \cup replaced
                        \/ e \in byCli \cup revived \cup unread /\ rewrote
        BY DEF NothingLost
    <2>1. Survives(e)
        BY DEF AuditInv, AcceptedSurvive
    <2>2. OnDisk \subseteq Stored \cup UNION {ToSet(content[i]) : i \in removed}
      <3>1. File \subseteq Named \cup removed
        <4>1. 0 \notin File
            BY DEF File
        <4> QED  BY <4>1 DEF AuditInv, FilesAccounted, BackupFiles, Named
      <3> QED  BY <3>1 DEF OnDisk, Stored
    <2> QED  BY <2>1, <2>2 DEF Survives
  <1> QED  BY <1>1, AuditInductive, PTL

\* ApplyRetention may rewrite the active file from memory: memory and archives hold
\* every entry of it, but for the stated exceptions.
THEOREM MemoryCoversFile == AuditSpec => []FileIsInMemory
  BY AuditInductive, PTL DEF AuditInv
=============================================================================
