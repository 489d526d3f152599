--------------------------- MODULE WorkerPoolProofs ---------------------------
(***************************************************************************)
(* For every capacity, every set of events and every number of pushes: the *)
(* lock-free ring is type correct, delivers in order without loss, never   *)
(* lets its two goroutines touch the same slot, and implements the bounded *)
(* FIFO; and the worker pool uses it only as those two goroutines may, and *)
(* hands on what it popped in order, before and after Stop.                *)
(***************************************************************************)
EXTENDS WorkerPool, TLAPS

\* Two indices less than a lap apart fall into different slots.
LEMMA SlotInjective ==
    ASSUME NEW a \in Nat, NEW b \in Nat, a < b, b < a + Cap
    PROVE  Slot(a) # Slot(b)
<1> DEFINE qa == a \div Cap
           qb == b \div Cap
<1>1. Cap \in Nat /\ Cap > 0
  BY QueueAssumption
<1>2. /\ qa \in Int /\ qb \in Int
      /\ a = Cap * qa + (a % Cap)
      /\ b = Cap * qb + (b % Cap)
  BY <1>1, SMT
<1> SUFFICES ASSUME a % Cap = b % Cap PROVE FALSE
  BY DEF Slot
<1>3. b - a = Cap * (qb - qa)
  <2> HIDE DEF qa, qb
  <2> QED BY <1>1, <1>2, SMT
<1> HIDE DEF qa, qb
<1>4. CASE qb - qa <= 0
  <2>1. Cap * (qb - qa) <= 0
    BY <1>1, <1>2, <1>4, SMT
  <2> QED BY <1>3, <2>1
<1>5. CASE qb - qa >= 1
  <2>1. Cap * (qb - qa) >= Cap
    BY <1>1, <1>2, <1>5, SMT
  <2> QED BY <1>1, <1>3, <2>1
<1> QED BY <1>2, <1>4, <1>5

\* An index falls into the buffer.
LEMMA SlotInBuffer == \A i \in Nat : Slot(i) \in 0 .. Cap - 1
  BY QueueAssumption DEF Slot

(***************************************************************************)
(* The inductive invariant.  PoppedIsPrefix alone is not inductive: it     *)
(* needs what the slots between head and tail hold, and that each          *)
(* goroutine's locals still agree with the index only it advances.         *)
(***************************************************************************)

\* The indices count the two histories and are at most a lap apart.
IndexInv ==
    /\ head = Len(popped)
    /\ tail = Len(pushed)
    /\ head <= tail
    /\ tail <= head + Cap

\* A goroutine in the middle of a call knows its own index; the other index
\* can only have moved in its favour since it was loaded.
LocalsInv ==
    /\ ppc # "idle" => pTail = tail /\ pItem \in Item
    /\ ppc \in {"write", "advance"} => tail < head + Cap
    /\ cpc # "idle" => cHead = head
    /\ cpc \in {"read", "clear", "advance"} => head < tail
    /\ cpc \in {"clear", "advance"} => cItem = pushed[head + 1]

\* The slots from head up to tail hold the pushed events in order, except the
\* one TryPop has just cleared; the slot TryPush has written holds its item.
SlotsInv ==
    /\ \A i \in Nat : head <= i /\ i < tail /\ (cpc = "advance" => i # head)
          => buffer[Slot(i)] = pushed[i + 1]
    /\ ppc = "advance" => buffer[Slot(tail)] = pItem

RingInv ==
    /\ TypeOK
    /\ IndexInv
    /\ LocalsInv
    /\ SlotsInv
    /\ PoppedIsPrefix
    /\ RefusedOnlyWhenFull

\* A new ring is consistent.
LEMMA RingInit == Init => RingInv
<1> SUFFICES ASSUME Init PROVE RingInv
  OBVIOUS
<1>1. TypeOK
  BY QueueAssumption DEF Init, NewLockFreeQueue, TypeOK
<1>2. IndexInv /\ LocalsInv /\ SlotsInv
  BY QueueAssumption DEF Init, NewLockFreeQueue, IndexInv, LocalsInv, SlotsInv
<1>3. PoppedIsPrefix /\ RefusedOnlyWhenFull
  BY QueueAssumption DEF Init, PoppedIsPrefix, RefusedOnlyWhenFull
<1> QED BY <1>1, <1>2, <1>3 DEF RingInv

\* Every memory access of TryPush and TryPop keeps the ring consistent.
LEMMA RingStep == RingInv /\ [Next]_vars => RingInv'
<1> SUFFICES ASSUME RingInv, [Next]_vars PROVE RingInv'
  OBVIOUS
<1> USE QueueAssumption DEF RingInv
<1>1. ASSUME NEW x \in Item, PushLoadTail(x) PROVE RingInv'
  <2>1. TypeOK'
    BY <1>1 DEF PushLoadTail, TypeOK, queueVars, consVars, histVars
  <2>2. IndexInv' /\ PoppedIsPrefix' /\ RefusedOnlyWhenFull'
    BY <1>1 DEF PushLoadTail, IndexInv, PoppedIsPrefix, RefusedOnlyWhenFull,
                queueVars, consVars, histVars
  <2>3. LocalsInv' /\ SlotsInv'
    BY <1>1 DEF PushLoadTail, LocalsInv, SlotsInv, Slot, queueVars, consVars, histVars
  <2> QED BY <2>1, <2>2, <2>3
<1>2. CASE PushLoadHead
  <2>1. TypeOK'
    BY <1>2 DEF PushLoadHead, Full, TypeOK, IndexInv, queueVars, consVars
  <2>2. IndexInv' /\ PoppedIsPrefix'
    BY <1>2 DEF PushLoadHead, IndexInv, PoppedIsPrefix, queueVars, consVars
  <2>3. LocalsInv' /\ SlotsInv'
    BY <1>2 DEF PushLoadHead, TypeOK, Full, LocalsInv, SlotsInv, Slot, queueVars, consVars
  <2>4. RefusedOnlyWhenFull'
    <3>1. pTail = tail
      BY <1>2 DEF PushLoadHead, LocalsInv
    <3>2. Full(pTail, head) => Len(pushed) - Len(popped) = Cap
      BY <3>1 DEF Full, IndexInv, TypeOK
    <3> QED BY <1>2, <3>2 DEF PushLoadHead, RefusedOnlyWhenFull
  <2> QED BY <2>1, <2>2, <2>3, <2>4
<1>3. CASE PushWriteSlot
  <2>1. TypeOK'
    BY <1>3 DEF PushWriteSlot, TypeOK, LocalsInv, consVars, histVars
  <2>2. IndexInv' /\ PoppedIsPrefix' /\ RefusedOnlyWhenFull'
    BY <1>3 DEF PushWriteSlot, IndexInv, PoppedIsPrefix, RefusedOnlyWhenFull, histVars
  <2>3. LocalsInv'
    BY <1>3 DEF PushWriteSlot, LocalsInv, consVars, histVars
  <2>4. ASSUME NEW i \in Nat, head <= i, i < tail PROVE buffer'[Slot(i)] = buffer[Slot(i)]
    <3>1. Slot(i) # Slot(tail)
      BY <1>3, <2>4, SlotInjective DEF PushWriteSlot, LocalsInv, TypeOK
    <3>2. Slot(i) \in 0 .. Cap - 1 /\ Slot(tail) \in 0 .. Cap - 1
      BY SlotInBuffer DEF TypeOK
    <3> QED BY <1>3, <3>1, <3>2 DEF PushWriteSlot, LocalsInv, TypeOK
  <2>5. buffer'[Slot(tail)] = pItem
    BY <1>3, SlotInBuffer DEF PushWriteSlot, LocalsInv, TypeOK
  <2>6. SlotsInv'
    BY <1>3, <2>4, <2>5 DEF PushWriteSlot, SlotsInv, Slot, consVars, histVars
  <2> QED BY <2>1, <2>2, <2>3, <2>6
<1>4. CASE PushStoreTail
  <2>1. pItem \in Item /\ pTail = tail /\ tail < head + Cap
    BY <1>4 DEF PushStoreTail, LocalsInv
  <2>2. /\ pushed' \in Seq(Item) /\ Len(pushed') = tail + 1
        /\ pushed'[tail + 1] = pItem
        /\ \A i \in 1 .. tail : pushed'[i] = pushed[i]
    BY <1>4, <2>1 DEF PushStoreTail, TypeOK, IndexInv
  <2>3. TypeOK'
    BY <1>4, <2>1, <2>2 DEF PushStoreTail, TypeOK, consVars
  <2>4. IndexInv' /\ RefusedOnlyWhenFull'
    BY <1>4, <2>1, <2>2 DEF PushStoreTail, TypeOK, IndexInv, RefusedOnlyWhenFull
  <2>5. PoppedIsPrefix'
    <3>1. \A i \in 1 .. head : popped[i] = pushed'[i]
      BY <2>2 DEF TypeOK, IndexInv, PoppedIsPrefix
    <3> QED BY <1>4, <2>2, <3>1 DEF PushStoreTail, TypeOK, IndexInv, PoppedIsPrefix
  <2>6. LocalsInv'
    BY <1>4, <2>1, <2>2 DEF PushStoreTail, TypeOK, IndexInv, LocalsInv, consVars
  <2>7. SlotsInv'
    <3>1. ASSUME NEW i \in Nat, head <= i, i < tail + 1, cpc = "advance" => i # head
          PROVE  buffer[Slot(i)] = pushed'[i + 1]
      <4>1. CASE i < tail
        BY <2>2, <3>1, <4>1 DEF SlotsInv, TypeOK
      <4>2. CASE i = tail
        BY <1>4, <2>2, <4>2 DEF SlotsInv, PushStoreTail
      <4> QED BY <3>1, <4>1, <4>2 DEF TypeOK
    <3> QED BY <1>4, <2>1, <3>1 DEF PushStoreTail, SlotsInv, Slot, TypeOK, consVars
  <2> QED BY <2>3, <2>4, <2>5, <2>6, <2>7
<1>5. CASE PopLoadHead
  <2>1. TypeOK'
    BY <1>5 DEF PopLoadHead, TypeOK, queueVars, prodVars, histVars
  <2>2. IndexInv' /\ PoppedIsPrefix' /\ RefusedOnlyWhenFull'
    BY <1>5 DEF PopLoadHead, IndexInv, PoppedIsPrefix, RefusedOnlyWhenFull, queueVars, histVars
  <2>3. LocalsInv' /\ SlotsInv'
    BY <1>5 DEF PopLoadHead, LocalsInv, SlotsInv, Slot, queueVars, prodVars, histVars
  <2> QED BY <2>1, <2>2, <2>3
<1>6. CASE PopLoadTail
  <2>1. TypeOK'
    BY <1>6 DEF PopLoadTail, TypeOK, queueVars, prodVars, histVars
  <2>2. IndexInv' /\ PoppedIsPrefix' /\ RefusedOnlyWhenFull'
    BY <1>6 DEF PopLoadTail, IndexInv, PoppedIsPrefix, RefusedOnlyWhenFull, queueVars, histVars
  <2>3. LocalsInv' /\ SlotsInv'
    BY <1>6 DEF PopLoadTail, Empty, TypeOK, LocalsInv, SlotsInv, Slot, queueVars, prodVars, histVars
  <2> QED BY <2>1, <2>2, <2>3
<1>7. CASE PopReadSlot
  <2>1. buffer[Slot(cHead)] = pushed[head + 1] /\ cHead = head /\ head < tail
    BY <1>7 DEF PopReadSlot, LocalsInv, SlotsInv, TypeOK
  <2>2. TypeOK'
    BY <1>7, SlotInBuffer DEF PopReadSlot, TypeOK, queueVars, prodVars, histVars
  <2>3. IndexInv' /\ PoppedIsPrefix' /\ RefusedOnlyWhenFull'
    BY <1>7 DEF PopReadSlot, IndexInv, PoppedIsPrefix, RefusedOnlyWhenFull, queueVars, histVars
  <2>4. LocalsInv' /\ SlotsInv'
    BY <1>7, <2>1 DEF PopReadSlot, LocalsInv, SlotsInv, Slot, queueVars, prodVars, histVars
  <2> QED BY <2>2, <2>3, <2>4
<1>8. CASE PopClearSlot
  <2>1. cHead = head /\ head < tail /\ cHead \in Nat
    BY <1>8 DEF PopClearSlot, LocalsInv, TypeOK
  <2>2. TypeOK'
    BY <1>8 DEF PopClearSlot, TypeOK, prodVars, histVars
  <2>3. IndexInv' /\ PoppedIsPrefix' /\ RefusedOnlyWhenFull'
    BY <1>8 DEF PopClearSlot, IndexInv, PoppedIsPrefix, RefusedOnlyWhenFull, histVars
  <2>4. LocalsInv'
    BY <1>8 DEF PopClearSlot, LocalsInv, prodVars, histVars
  <2>5. ASSUME NEW i \in Nat, head < i, i < head + Cap PROVE buffer'[Slot(i)] = buffer[Slot(i)]
    <3>1. Slot(i) # Slot(head)
      BY <2>5, SlotInjective DEF TypeOK
    <3>2. Slot(i) \in 0 .. Cap - 1
      BY SlotInBuffer
    <3>3. buffer' = [buffer EXCEPT ![Slot(head)] = Nil]
      BY <1>8, <2>1 DEF PopClearSlot
    <3> QED BY <3>1, <3>2, <3>3 DEF TypeOK
  <2>6. SlotsInv'
    <3>1. ASSUME NEW i \in Nat, head <= i, i < tail, i # head
          PROVE  buffer'[Slot(i)] = pushed[i + 1]
      <4>1. head < i /\ i < head + Cap
        BY <3>1 DEF IndexInv, TypeOK
      <4>2. buffer[Slot(i)] = pushed[i + 1]
        BY <3>1 DEF SlotsInv
      <4> QED BY <2>5, <4>1, <4>2
    <3>2. ppc = "advance" => buffer'[Slot(tail)] = pItem
      BY <2>1, <2>5 DEF SlotsInv, LocalsInv, TypeOK
    <3> QED BY <1>8, <3>1, <3>2 DEF PopClearSlot, SlotsInv, Slot, prodVars, histVars
  <2> QED BY <2>2, <2>3, <2>4, <2>6
<1>9. CASE PopStoreHead
  <2>1. cHead = head /\ head < tail /\ cItem = pushed[head + 1]
    BY <1>9 DEF PopStoreHead, LocalsInv
  <2>2. cItem \in Item
    BY <2>1 DEF IndexInv, TypeOK
  <2>3. /\ popped' \in Seq(Item) /\ Len(popped') = head + 1
        /\ popped'[head + 1] = cItem
        /\ \A i \in 1 .. head : popped'[i] = popped[i]
    BY <1>9, <2>2 DEF PopStoreHead, TypeOK, IndexInv
  <2>4. TypeOK'
    BY <1>9, <2>3 DEF PopStoreHead, TypeOK, prodVars
  <2>5. IndexInv' /\ RefusedOnlyWhenFull'
    BY <1>9, <2>1, <2>3 DEF PopStoreHead, TypeOK, IndexInv, RefusedOnlyWhenFull
  <2>6. PoppedIsPrefix'
    <3>1. popped'[head + 1] = pushed[head + 1]
      BY <2>1, <2>3
    <3>2. \A i \in 1 .. head : popped'[i] = pushed[i]
      BY <2>3 DEF PoppedIsPrefix, IndexInv
    <3>3. \A i \in 1 .. head + 1 : popped'[i] = pushed[i]
      BY <3>1, <3>2 DEF TypeOK
    <3> HIDE QueueAssumption
    <3> QED BY <1>9, <2>1, <2>3, <3>3 DEF PopStoreHead, TypeOK, IndexInv, PoppedIsPrefix
  <2>7. LocalsInv'
    BY <1>9, <2>1 DEF PopStoreHead, TypeOK, LocalsInv, prodVars
  <2>8. SlotsInv'
    <3>1. ASSUME NEW i \in Nat, head + 1 <= i, i < tail PROVE buffer[Slot(i)] = pushed[i + 1]
      <4>1. head <= i /\ i # head
        BY <3>1 DEF TypeOK
      <4> QED BY <3>1, <4>1 DEF SlotsInv
    <3> QED BY <1>9, <2>1, <3>1 DEF PopStoreHead, SlotsInv, Slot, prodVars
  <2> QED BY <2>4, <2>5, <2>6, <2>7, <2>8
<1>10. CASE UNCHANGED vars
  BY <1>10 DEF vars, queueVars, prodVars, consVars, histVars, TypeOK, IndexInv, LocalsInv,
               SlotsInv, Slot, PoppedIsPrefix, RefusedOnlyWhenFull
<1> QED BY <1>1, <1>2, <1>3, <1>4, <1>5, <1>6, <1>7, <1>8, <1>9, <1>10 DEF Next, TryPush, TryPop

\* What a consistent ring promises: no shared slot, no nil slot to read.
LEMMA RingPromises == RingInv => TypeOK /\ NoSlotRace /\ NilSlotUnreachable
<1> SUFFICES ASSUME RingInv PROVE NoSlotRace /\ NilSlotUnreachable
  BY DEF RingInv
<1>1. NoSlotRace
  <2> SUFFICES ASSUME ppc \in {"write", "advance"}, cpc \in {"read", "clear", "advance"}
               PROVE  Slot(pTail) # Slot(cHead)
    BY DEF NoSlotRace
  <2>1. pTail = tail /\ cHead = head /\ head < tail /\ tail < head + Cap
    BY DEF RingInv, LocalsInv
  <2> QED BY <2>1, SlotInjective DEF RingInv, TypeOK
<1>2. NilSlotUnreachable
  <2> SUFFICES ASSUME cpc = "read" PROVE buffer[Slot(cHead)] # Nil
    BY DEF NilSlotUnreachable
  <2>1. buffer[Slot(cHead)] = pushed[head + 1] /\ head < tail
    BY DEF RingInv, LocalsInv, SlotsInv, TypeOK
  <2>2. pushed[head + 1] \in Item
    BY <2>1 DEF RingInv, IndexInv, TypeOK
  <2> QED BY <2>1, <2>2, QueueAssumption
<1> QED BY <1>1, <1>2

\* A TryPush takes effect on the bounded FIFO when it stores tail, a TryPop when
\* it stores head; their other steps are invisible.
LEMMA RingStepsAreFifoSteps == RingInv /\ [Next]_vars => [Fifo!FifoNext]_(Fifo!fifoVars)
<1> SUFFICES ASSUME RingInv, [Next]_vars PROVE Fifo!FifoNext \/ UNCHANGED Fifo!fifoVars
  OBVIOUS
<1>1. CASE PushStoreTail
  <2>1. pItem \in Item /\ Len(pushed) - Len(popped) < Cap
    BY <1>1, QueueAssumption DEF PushStoreTail, RingInv, LocalsInv, IndexInv, TypeOK
  <2>2. Fifo!Send(pItem)
    BY <1>1, <2>1 DEF PushStoreTail, Fifo!Send
  <2> QED BY <2>1, <2>2 DEF Fifo!FifoNext
<1>2. CASE PopStoreHead
  <2>1. Len(popped) < Len(pushed) /\ cItem = pushed[Len(popped) + 1]
    BY <1>2 DEF PopStoreHead, RingInv, LocalsInv, IndexInv
  <2>2. Fifo!Receive
    BY <1>2, <2>1 DEF PopStoreHead, Fifo!Receive
  <2> QED BY <2>2 DEF Fifo!FifoNext
<1>3. CASE ~PushStoreTail /\ ~PopStoreHead
  <2>1. UNCHANGED <<pushed, popped>>
    BY <1>3 DEF Next, TryPush, TryPop, PushLoadTail, PushLoadHead, PushWriteSlot, PopLoadHead,
                PopLoadTail, PopReadSlot, PopClearSlot, vars, histVars
  <2> QED BY <2>1 DEF Fifo!fifoVars
<1> QED BY <1>1, <1>2, <1>3

\* The ring is consistent at every step of its two goroutines.
LEMMA RingInvariant == Spec => []RingInv
  BY RingInit, RingStep, PTL DEF Spec

\* The ring and both goroutines' locals stay well typed.
THEOREM TypeCorrect == Spec => []TypeOK
  BY RingPromises, RingInvariant, PTL

\* TryPop returns the events in the order TryPush accepted them, none lost,
\* none twice, for every capacity and every interleaving.
THEOREM FifoOrder == Spec => []PoppedIsPrefix
<1>1. RingInv => PoppedIsPrefix
  BY DEF RingInv
<1> QED BY <1>1, RingInvariant, PTL

\* The plain accesses to q.buffer by the two goroutines are never to the same
\* slot at the same time.
THEOREM SlotsNotShared == Spec => []NoSlotRace
  BY RingPromises, RingInvariant, PTL

\* A worker past the emptiness test always finds an event: TryPop's
\* "item == nil" return is dead code.
THEOREM NilNeverRead == Spec => []NilSlotUnreachable
  BY RingPromises, RingInvariant, PTL

\* TryPush fails only on a ring that holds Cap unpopped events.
THEOREM FullMeansFull == Spec => []RefusedOnlyWhenFull
<1>1. RingInv => RefusedOnlyWhenFull
  BY DEF RingInv
<1> QED BY <1>1, RingInvariant, PTL

\* The ring implements the bounded FIFO.
THEOREM RingImplementsFifo == Spec => ImplementsFifo
<1>1. Init => Fifo!FifoInit
  BY DEF Init, Fifo!FifoInit
<1> QED BY <1>1, RingStepsAreFifoSteps, RingInvariant, PTL DEF Spec, ImplementsFifo, Fifo!FifoSpec

(***************************************************************************)
(* The pool.  Its dispatcher and worker move the ring only by the steps of *)
(* TryPush and TryPop, so everything above holds of the ring in the pool.  *)
(***************************************************************************)

\* A step of the pool is a step of the ring, or leaves the ring alone.
LEMMA PoolStepsAreRingSteps == [PoolNext]_allVars => [Next]_vars
  BY DEF PoolNext, Dispatcher, DispatcherTop, ReadFails, ReadSample, DispatcherPush, Worker,
         WorkerTop, WorkerPop, ParseFails, Parse, SendEvent, Receive, Stop, StopReturns,
         Next, TryPush, allVars

\* The ring is consistent at every step of the pool.
LEMMA PoolRingInvariant == PoolSpec => []RingInv
<1>1. PoolInit => RingInv
  BY RingInit DEF PoolInit
<1> QED BY <1>1, RingStep, PoolStepsAreRingSteps, PTL DEF PoolSpec

\* In the pool, too, the ring is well typed, its goroutines never share a slot,
\* and the dispatcher drops a sample only when the ring is full.
THEOREM PoolKeepsRing == PoolSpec => [](TypeOK /\ NoSlotRace /\ RefusedOnlyWhenFull)
<1>1. RingInv => TypeOK /\ NoSlotRace /\ RefusedOnlyWhenFull
  BY RingPromises DEF RingInv
<1> QED BY <1>1, PoolRingInvariant, PTL

\* Between dispatcher and worker the pool is a bounded FIFO.
THEOREM PoolImplementsFifo == PoolSpec => ImplementsFifo
<1>1. PoolInit => Fifo!FifoInit
  BY DEF PoolInit, Init, Fifo!FifoInit
<1> QED BY <1>1, RingStepsAreFifoSteps, PoolStepsAreRingSteps, PoolRingInvariant, PTL
        DEF PoolSpec, ImplementsFifo, Fifo!FifoSpec

(***************************************************************************)
(* What the worker hands on.  ParsedAreHandedOn needs to know that the     *)
(* sample in the worker's hands is the last one popped and not rejected,   *)
(* and that only a worker that has exited lets Stop return.                *)
(***************************************************************************)

\* at lists, in order, the positions of in that are not rejected, and out holds
\* what is there.
Enumerates(at, out, in, rej) ==
    /\ at \in [1 .. Len(out) -> 1 .. Len(in)]
    /\ \A i, j \in 1 .. Len(out) : i < j => at[i] < at[j]
    /\ {at[i] : i \in 1 .. Len(out)} = (1 .. Len(in)) \ rej
    /\ \A i \in 1 .. Len(out) : out[i] = in[at[i]]

\* A new element on both sides extends the enumeration.
LEMMA EnumerationGrows ==
    ASSUME NEW out \in Seq(Item), NEW in \in Seq(Item), NEW rej, rej \subseteq 1 .. Len(in),
           NEW x \in Item, NEW at, Enumerates(at, out, in, rej)
    PROVE  \E b : Enumerates(b, Append(out, x), Append(in, x), rej)
<1> DEFINE m == Len(out)
           n == Len(in)
           b == [i \in 1 .. m + 1 |-> IF i = m + 1 THEN n + 1 ELSE at[i]]
<1>1. m \in Nat /\ n \in Nat /\ at \in [1 .. m -> 1 .. n]
  BY DEF Enumerates
<1>2. /\ Len(Append(out, x)) = m + 1 /\ Len(Append(in, x)) = n + 1
      /\ Append(out, x)[m + 1] = x /\ Append(in, x)[n + 1] = x
      /\ \A i \in 1 .. m : Append(out, x)[i] = out[i]
      /\ \A i \in 1 .. n : Append(in, x)[i] = in[i]
  OBVIOUS
<1>3. /\ \A i, j \in 1 .. m : i < j => at[i] < at[j]
      /\ {at[i] : i \in 1 .. m} = (1 .. n) \ rej
      /\ \A i \in 1 .. m : out[i] = in[at[i]]
  BY DEF Enumerates
<1> HIDE DEF m, n
<1>4. b \in [1 .. m + 1 -> 1 .. n + 1]
  BY <1>1
<1>5. \A i, j \in 1 .. m + 1 : i < j => b[i] < b[j]
  BY <1>1, <1>3
<1>6. {b[i] : i \in 1 .. m + 1} = (1 .. n + 1) \ rej
  <2>1. n + 1 \notin rej
    BY <1>1 DEF n
  <2>2. ASSUME NEW k \in (1 .. n + 1) \ rej PROVE \E i \in 1 .. m + 1 : k = b[i]
    <3>1. CASE k = n + 1
      BY <1>1, <3>1
    <3>2. CASE k # n + 1
      <4>1. k \in (1 .. n) \ rej
        BY <1>1, <2>2, <3>2
      <4>2. PICK i \in 1 .. m : k = at[i]
        BY <1>3, <4>1
      <4> QED BY <1>1, <4>2
    <3> QED BY <3>1, <3>2
  <2>3. ASSUME NEW i \in 1 .. m + 1 PROVE b[i] \in (1 .. n + 1) \ rej
    <3>1. CASE i = m + 1
      BY <1>1, <2>1, <3>1
    <3>2. CASE i # m + 1
      <4>1. i \in 1 .. m
        BY <1>1, <3>2
      <4>2. at[i] \in (1 .. n) \ rej
        BY <1>3, <4>1
      <4> QED BY <1>1, <3>2, <4>2
    <3> QED BY <3>1, <3>2
  <2> HIDE DEF b
  <2> QED BY <2>2, <2>3
<1>7. \A i \in 1 .. m + 1 : Append(out, x)[i] = Append(in, x)[b[i]]
  <2> SUFFICES ASSUME NEW i \in 1 .. m + 1 PROVE Append(out, x)[i] = Append(in, x)[b[i]]
    OBVIOUS
  <2>1. CASE i = m + 1
    BY <1>1, <1>2, <2>1
  <2>2. CASE i # m + 1
    <3>1. i \in 1 .. m /\ b[i] = at[i] /\ at[i] \in 1 .. n
      BY <1>1, <2>2
    <3> HIDE DEF b
    <3> QED BY <1>2, <1>3, <3>1
  <2> QED BY <2>1, <2>2
<1> HIDE DEF b
<1>8. Enumerates(b, Append(out, x), Append(in, x), rej)
  BY <1>2, <1>4, <1>5, <1>6, <1>7 DEF Enumerates
<1> QED BY <1>8

\* Rejecting the last position takes its element off the enumeration.
LEMMA EnumerationShrinks ==
    ASSUME NEW out \in Seq(Item), NEW in \in Seq(Item), NEW rej, Len(in) > 0, Len(in) \notin rej,
           NEW x, NEW at, Enumerates(at, Append(out, x), in, rej)
    PROVE  \E b : Enumerates(b, out, in, rej \cup {Len(in)})
<1> DEFINE m == Len(out)
           n == Len(in)
           b == [i \in 1 .. m |-> at[i]]
<1>1. /\ m \in Nat /\ n \in Nat /\ n > 0 /\ n \notin rej
      /\ Len(Append(out, x)) = m + 1
      /\ \A i \in 1 .. m : Append(out, x)[i] = out[i]
  OBVIOUS
<1>2. /\ at \in [1 .. m + 1 -> 1 .. n]
      /\ \A i, j \in 1 .. m + 1 : i < j => at[i] < at[j]
      /\ {at[i] : i \in 1 .. m + 1} = (1 .. n) \ rej
      /\ \A i \in 1 .. m + 1 : Append(out, x)[i] = in[at[i]]
  BY <1>1 DEF Enumerates
<1> HIDE DEF m, n
<1>3. at[m + 1] = n
  <2>1. n \in (1 .. n) \ rej
    BY <1>1
  <2>2. PICK i \in 1 .. m + 1 : at[i] = n
    BY <1>2, <2>1
  <2>3. m + 1 \in 1 .. m + 1 /\ at[m + 1] \in 1 .. n
    BY <1>1, <1>2
  <2>4. ~(i < m + 1)
    BY <1>1, <1>2, <2>2, <2>3
  <2> QED BY <1>1, <2>2, <2>4
<1>4. b \in [1 .. m -> 1 .. n] /\ \A i \in 1 .. m : i \in 1 .. m + 1 /\ b[i] = at[i]
  BY <1>1, <1>2
<1> HIDE DEF b
<1>5. \A i, j \in 1 .. m : i < j => b[i] < b[j]
  BY <1>2, <1>4
<1>6. {b[i] : i \in 1 .. m} = (1 .. n) \ (rej \cup {n})
  <2>1. ASSUME NEW i \in 1 .. m PROVE b[i] \in (1 .. n) \ (rej \cup {n})
    <3>1. at[i] < at[m + 1] /\ at[i] \in (1 .. n) \ rej
      BY <1>1, <1>2, <1>4
    <3> QED BY <1>1, <1>3, <1>4, <3>1
  <2>2. ASSUME NEW k \in (1 .. n) \ (rej \cup {n}) PROVE \E i \in 1 .. m : k = b[i]
    <3>1. PICK i \in 1 .. m + 1 : k = at[i]
      BY <1>2
    <3>2. i \in 1 .. m
      BY <1>1, <1>3, <3>1
    <3> QED BY <1>4, <3>1, <3>2
  <2> QED BY <2>1, <2>2
<1>7. \A i \in 1 .. m : out[i] = in[b[i]]
  BY <1>1, <1>2, <1>4
<1>8. Enumerates(b, out, in, rej \cup {n})
  BY <1>4, <1>5, <1>6, <1>7 DEF Enumerates, m, n
<1> QED BY <1>8 DEF n

\* What waits in eventCh and what was received are events.
PoolTypes ==
    /\ work \in {"top", "pop", "parse", "send", "exited"}
    /\ eventCh \in Seq(Item) /\ received \in Seq(Item)
    /\ rejected \subseteq 1 .. Len(popped)

\* The sample in the worker's hands is the last one popped, and not rejected.
InHandIsLast == work \in {"parse", "send"} =>
    /\ Len(popped) > 0
    /\ cItem = popped[Len(popped)]
    /\ Len(popped) \notin rejected

\* Stop has waited for the worker.
StoppedIsExited == stopped => work = "exited"

\* ParsedAreHandedOn without its second conjunct, which StoppedIsExited implies.
HandedOnInOrder == \E at : Enumerates(at, HandedOn, popped, rejected)

PoolInv ==
    /\ RingInv
    /\ PoolTypes
    /\ InHandIsLast
    /\ StoppedIsExited
    /\ HandedOnInOrder

\* What is handed on, with empty hands and with a sample in them.
LEMMA HandedOnValue ==
    ASSUME PoolTypes
    PROVE  /\ received \o eventCh \in Seq(Item)
           /\ work \notin {"parse", "send"} => HandedOn = received \o eventCh
           /\ work \in {"parse", "send"} => HandedOn = Append(received \o eventCh, cItem)
<1>1. received \in Seq(Item) /\ eventCh \in Seq(Item)
  BY DEF PoolTypes
<1>2. received \o eventCh \in Seq(Item)
  BY <1>1
<1>3. (received \o eventCh) \o <<>> = received \o eventCh
  BY <1>2
<1>4. (received \o eventCh) \o <<cItem>> = Append(received \o eventCh, cItem)
  BY <1>2
<1> QED BY <1>2, <1>3, <1>4 DEF HandedOn, InHand

\* Moving an event from the worker to eventCh, or from there to the reader,
\* changes nothing of what is handed on.
LEMMA MovingKeepsOrder ==
    ASSUME NEW r \in Seq(Item), NEW c \in Seq(Item), NEW x \in Item
    PROVE  /\ r \o Append(c, x) = Append(r \o c, x)
           /\ c # <<>> => /\ Append(r, Head(c)) \in Seq(Item) /\ Tail(c) \in Seq(Item)
                          /\ Append(r, Head(c)) \o Tail(c) = r \o c
<1>1. r \o Append(c, x) = Append(r \o c, x)
  OBVIOUS
<1>2. ASSUME c # <<>>
      PROVE  /\ Append(r, Head(c)) \in Seq(Item) /\ Tail(c) \in Seq(Item)
             /\ Append(r, Head(c)) \o Tail(c) = r \o c
  BY <1>2
<1> QED BY <1>1, <1>2

\* A new pool has handed nothing on, and popped nothing.
LEMMA PoolStarts == PoolInit => PoolInv
<1> SUFFICES ASSUME PoolInit PROVE PoolInv
  OBVIOUS
<1>1. RingInv /\ popped = <<>>
  BY RingInit DEF PoolInit, Init
<1>2. PoolTypes /\ InHandIsLast /\ StoppedIsExited
  BY <1>1 DEF PoolInit, PoolTypes, InHandIsLast, StoppedIsExited
<1>3. HandedOn = <<>> /\ rejected = {}
  <2>1. received \o eventCh = <<>>
    BY DEF PoolInit
  <2> QED BY <1>2, <2>1, HandedOnValue DEF PoolInit
<1>4. Enumerates(<<>>, <<>>, <<>>, {})
  BY DEF Enumerates
<1> QED BY <1>1, <1>2, <1>3, <1>4 DEF PoolInv, HandedOnInOrder

\* Every step of dispatcher, worker, reader and Stop keeps the pool's invariant.
LEMMA PoolStep == PoolInv /\ [PoolNext]_allVars => PoolInv'
<1> SUFFICES ASSUME PoolInv, [PoolNext]_allVars PROVE PoolInv'
  OBVIOUS
<1> USE DEF PoolInv
<1>1. RingInv'
  BY RingStep, PoolStepsAreRingSteps
<1>2. ASSUME UNCHANGED <<work, cItem, popped, eventCh, received, rejected>>,
             stopped' => work = "exited"
      PROVE  PoolInv'
  <2>1. PoolTypes' /\ InHandIsLast' /\ StoppedIsExited'
    BY <1>2 DEF PoolTypes, InHandIsLast, StoppedIsExited
  <2>2. HandedOn' = HandedOn
    BY <1>2 DEF HandedOn, InHand
  <2>3. HandedOnInOrder'
    BY <1>2, <2>2 DEF HandedOnInOrder, Enumerates
  <2> QED BY <1>1, <2>1, <2>3
<1>3. ASSUME UNCHANGED <<popped, eventCh, received, rejected, stopped>>,
             work \notin {"parse", "send"}, work' \in {"top", "pop", "exited"},
             stopped => work' = "exited"
      PROVE  PoolInv'
  <2>1. PoolTypes' /\ InHandIsLast' /\ StoppedIsExited'
    BY <1>3 DEF PoolTypes, InHandIsLast, StoppedIsExited
  <2>2. HandedOn' = HandedOn
    BY <1>3, <2>1, HandedOnValue DEF HandedOn, InHand
  <2>3. HandedOnInOrder'
    BY <1>3, <2>2 DEF HandedOnInOrder, Enumerates
  <2> QED BY <1>1, <2>1, <2>3
<1>4. CASE Dispatcher
  BY <1>2, <1>4 DEF Dispatcher, DispatcherTop, ReadFails, ReadSample, DispatcherPush,
     PushLoadTail, PushLoadHead, PushWriteSlot, PushStoreTail, StoppedIsExited,
     vars, queueVars, prodVars, consVars, histVars
<1>5. CASE WorkerTop
  BY <1>3, <1>5 DEF WorkerTop, StoppedIsExited, vars, histVars
<1>6. CASE WorkerPop
  <2>1. CASE PopStoreHead
    <3>1. cItem \in Item /\ cItem' = cItem /\ popped' = Append(popped, cItem)
      <4>1. cItem = pushed[head + 1] /\ head < tail
        BY <2>1 DEF PopStoreHead, RingInv, LocalsInv
      <4> QED BY <2>1, <4>1 DEF PopStoreHead, RingInv, IndexInv, TypeOK
    <3>2. /\ popped \in Seq(Item) /\ popped' \in Seq(Item) /\ Len(popped') = Len(popped) + 1
          /\ popped'[Len(popped) + 1] = cItem /\ popped' # popped
      BY <3>1 DEF RingInv, TypeOK
    <3>3. work = "pop" /\ work' = "parse" /\ UNCHANGED <<eventCh, received, rejected, stopped>>
      BY <1>6, <3>2 DEF WorkerPop
    <3>4. Len(popped) + 1 \notin rejected
      BY <3>2 DEF PoolTypes
    <3>5. PoolTypes' /\ InHandIsLast' /\ StoppedIsExited'
      BY <3>1, <3>2, <3>3, <3>4 DEF PoolTypes, InHandIsLast, StoppedIsExited
    <3>6. HandedOn = received \o eventCh /\ HandedOn \in Seq(Item)
      BY <3>3, HandedOnValue
    <3>7. HandedOn' = Append(HandedOn, cItem)
      BY <3>1, <3>3, <3>6 DEF HandedOn, InHand
    <3>8. PICK at : Enumerates(at, HandedOn, popped, rejected)
      BY DEF HandedOnInOrder
    <3>9. rejected \subseteq 1 .. Len(popped)
      BY DEF PoolTypes
    <3>10. \E b : Enumerates(b, Append(HandedOn, cItem), Append(popped, cItem), rejected)
      BY <3>1, <3>2, <3>6, <3>8, <3>9, EnumerationGrows
    <3>11. HandedOnInOrder'
      BY <3>1, <3>3, <3>7, <3>10 DEF HandedOnInOrder, Enumerates
    <3> QED BY <1>1, <3>5, <3>11
  <2>2. CASE ~PopStoreHead
    <3>1. UNCHANGED popped
      BY <1>6, <2>2 DEF WorkerPop, TryPop, PopLoadHead, PopLoadTail, PopReadSlot, PopClearSlot,
                        histVars
    <3> QED BY <1>3, <1>6, <3>1 DEF WorkerPop, StoppedIsExited
  <2> QED BY <2>1, <2>2
<1>7. CASE ParseFails
  <2>1. /\ work = "parse" /\ work' = "top" /\ rejected' = rejected \cup {Len(popped)}
        /\ UNCHANGED <<cItem, popped, eventCh, received, stopped>>
    BY <1>7 DEF ParseFails, vars, consVars, histVars
  <2>2. popped \in Seq(Item) /\ Len(popped) > 0 /\ Len(popped) \notin rejected
    BY <2>1 DEF RingInv, TypeOK, InHandIsLast
  <2>3. PoolTypes' /\ InHandIsLast' /\ StoppedIsExited'
    <3>1. rejected' \subseteq 1 .. Len(popped)
      <4>1. Len(popped) \in 1 .. Len(popped)
        BY <2>2
      <4> QED BY <2>1, <4>1 DEF PoolTypes
    <3>2. PoolTypes'
      BY <2>1, <3>1 DEF PoolTypes
    <3> QED BY <2>1, <3>2 DEF InHandIsLast, StoppedIsExited
  <2>4. received \o eventCh \in Seq(Item) /\ HandedOn = Append(received \o eventCh, cItem)
    BY <2>1, HandedOnValue
  <2>5. HandedOn' = received \o eventCh
    BY <2>1, <2>4 DEF HandedOn, InHand
  <2>6. PICK at : Enumerates(at, HandedOn, popped, rejected)
    BY DEF HandedOnInOrder
  <2>7. \E b : Enumerates(b, received \o eventCh, popped, rejected \cup {Len(popped)})
    BY <2>2, <2>4, <2>6, EnumerationShrinks
  <2>8. HandedOnInOrder'
    BY <2>1, <2>5, <2>7 DEF HandedOnInOrder, Enumerates
  <2> QED BY <1>1, <2>3, <2>8
<1>8. ASSUME work' \in {"top", "pop", "parse", "send", "exited"},
             eventCh' \in Seq(Item), received' \in Seq(Item),
             UNCHANGED <<popped, cItem, rejected>>, InHandIsLast', StoppedIsExited',
             HandedOn' = HandedOn
      PROVE  PoolInv'
  <2>1. PoolTypes'
    BY <1>8 DEF PoolTypes
  <2>2. HandedOnInOrder'
    BY <1>8 DEF HandedOnInOrder, Enumerates
  <2> QED BY <1>1, <1>8, <2>1, <2>2
<1>9. CASE Parse
  <2>1. /\ work = "parse" /\ work' = "send"
        /\ UNCHANGED <<cItem, popped, eventCh, received, rejected, stopped>>
    BY <1>9 DEF Parse, vars, consVars, histVars
  <2>2. HandedOn' = HandedOn
    BY <2>1 DEF HandedOn, InHand
  <2> QED BY <1>8, <2>1, <2>2 DEF PoolTypes, InHandIsLast, StoppedIsExited
<1>10. CASE SendEvent
  <2>1. /\ work = "send" /\ work' = "top" /\ eventCh' = Append(eventCh, cItem)
        /\ UNCHANGED <<cItem, popped, received, rejected, stopped>>
    BY <1>10 DEF SendEvent, vars, consVars, histVars
  <2>2. cItem \in Item
    BY <2>1 DEF InHandIsLast, RingInv, TypeOK
  <2>3. received \in Seq(Item) /\ eventCh \in Seq(Item) /\ eventCh' \in Seq(Item)
    BY <2>1, <2>2 DEF PoolTypes
  <2>4. HandedOn = Append(received \o eventCh, cItem)
    BY <2>1, HandedOnValue
  <2>5. received \o Append(eventCh, cItem) \in Seq(Item)
    BY <2>1, <2>3
  <2>6. HandedOn' = received \o Append(eventCh, cItem)
    BY <2>1, <2>5 DEF HandedOn, InHand
  <2>7. HandedOn' = HandedOn
    BY <2>2, <2>3, <2>4, <2>6, MovingKeepsOrder
  <2> QED BY <1>8, <2>1, <2>3, <2>7 DEF InHandIsLast, StoppedIsExited
<1>11. CASE Receive
  <2>1. /\ eventCh # <<>> /\ received' = Append(received, Head(eventCh))
        /\ eventCh' = Tail(eventCh)
        /\ UNCHANGED <<cItem, popped, work, rejected, stopped>>
    BY <1>11 DEF Receive, vars, consVars, histVars
  <2>2. received \in Seq(Item) /\ eventCh \in Seq(Item)
    BY DEF PoolTypes
  <2>3. Head(eventCh) \in Item
    BY <2>1, <2>2
  <2>4. /\ received' \in Seq(Item) /\ eventCh' \in Seq(Item)
        /\ received' \o eventCh' = received \o eventCh
    BY <2>1, <2>2, <2>3, MovingKeepsOrder
  <2>5. HandedOn' = HandedOn
    BY <2>1, <2>4 DEF HandedOn, InHand
  <2> QED BY <1>8, <2>1, <2>4, <2>5 DEF PoolTypes, InHandIsLast, StoppedIsExited
<1>12. CASE Stop \/ StopReturns
  BY <1>2, <1>12 DEF Stop, StopReturns, StoppedIsExited, vars, consVars, histVars
<1>13. CASE UNCHANGED allVars
  BY <1>2, <1>13 DEF allVars, poolVars, StoppedIsExited, vars, consVars, histVars
<1> QED BY <1>4, <1>5, <1>6, <1>7, <1>9, <1>10, <1>11, <1>12, <1>13 DEF PoolNext, Worker

\* The events that reach the reader of EventCh are the popped samples that
\* parsed, in order, and no event is sent after Stop: whatever the capacities,
\* the interleaving of dispatcher, worker and reader, and the moment of Stop.
THEOREM ParsedAreHandedOnHolds == PoolSpec => []ParsedAreHandedOn
<1>1. PoolInv => ParsedAreHandedOn
  <2> SUFFICES ASSUME PoolInv PROVE ParsedAreHandedOn
    OBVIOUS
  <2>1. PICK at : Enumerates(at, HandedOn, popped, rejected)
    BY DEF PoolInv, HandedOnInOrder
  <2>2. stopped => work \notin {"parse", "send"}
    BY DEF PoolInv, StoppedIsExited
  <2> QED BY <2>1, <2>2 DEF ParsedAreHandedOn, Enumerates
<1> QED BY <1>1, PoolStarts, PoolStep, PTL DEF PoolSpec
=============================================================================
