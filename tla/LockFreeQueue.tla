---------------------------- MODULE LockFreeQueue ----------------------------
(***************************************************************************)
(* The lock-free ring of internal/engine/pipeline/lockfree.go, between the *)
(* dispatcher goroutine (TryPush) and one worker goroutine (TryPop).  Each *)
(* atomic load, atomic store and plain slot access of the two methods is a *)
(* step of its own, so the two goroutines interleave between any two of    *)
(* them.  The code's uint64 indices are natural numbers here: they count   *)
(* events and do not reach 2^64.                                           *)
(***************************************************************************)
EXTENDS Integers, Sequences

CONSTANTS
    Item,       \* the non-nil pointers that may be queued
    Nil,        \* the nil pointer
    Cap,        \* len(q.buffer); the code makes it a power of two
    MaxPush     \* bound: how many pushes succeed

ASSUME QueueAssumption ==
    /\ Nil \notin Item
    /\ Cap \in Nat \ {0}
    /\ MaxPush \in Nat

VARIABLES
    buffer, head, tail,             \* the LockFreeQueue fields
    ppc, pItem, pTail, pHead,       \* a TryPush in progress and its locals
    cpc, cItem, cHead, cTail,       \* a TryPop in progress and its locals
    pushed, popped,                 \* history: what TryPush and TryPop returned
    refused                         \* history: in flight when the last TryPush that failed read head

queueVars == <<buffer, head, tail>>
prodVars == <<ppc, pItem, pTail, pHead>>
consVars == <<cpc, cItem, cHead, cTail>>
histVars == <<pushed, popped, refused>>
vars == <<queueVars, prodVars, consVars, histVars>>

\* slot := index & q.mask
Slot(i) == i % Cap

\* tail-head >= uint64(len(q.buffer))
FullOneLate(t, h) == t - h > Cap        \* mutant: off by one
FullOneEarly(t, h) == t - h >= Cap - 1  \* mutant: off by one
Full(t, h) == t - h >= Cap

\* head >= tail
EmptyOneEarly(h, t) == h + 1 >= t       \* mutant: the last event is never seen
Empty(h, t) == h >= t

NewLockFreeQueue ==
    /\ buffer = [s \in 0 .. Cap - 1 |-> Nil]
    /\ head = 0
    /\ tail = 0

Init ==
    /\ NewLockFreeQueue
    /\ ppc = "idle" /\ pItem = Nil /\ pTail = 0 /\ pHead = 0
    /\ cpc = "idle" /\ cItem = Nil /\ cHead = 0 /\ cTail = 0
    /\ pushed = <<>> /\ popped = <<>> /\ refused = Cap

(***************************************************************************)
(* TryPush.                                                                *)
(***************************************************************************)
PushLoadTail(x) ==
    /\ ppc = "idle"
    /\ tail < MaxPush
    /\ pItem' = x
    /\ pTail' = tail
    /\ ppc' = "loadHead"
    /\ UNCHANGED <<pHead, queueVars, consVars, histVars>>

PushLoadHead ==
    /\ ppc = "loadHead"
    /\ pHead' = head
    /\ IF Full(pTail, head)
         THEN ppc' = "idle" /\ refused' = Len(pushed) - Len(popped)
         ELSE ppc' = "write" /\ UNCHANGED refused
    /\ UNCHANGED <<pItem, pTail, queueVars, consVars, pushed, popped>>

PushWriteSlot ==
    /\ ppc = "write"
    /\ buffer' = [buffer EXCEPT ![Slot(pTail)] = pItem]
    /\ ppc' = "advance"
    /\ UNCHANGED <<head, tail, pItem, pTail, pHead, consVars, histVars>>

PushStoreTail ==
    /\ ppc = "advance"
    /\ tail' = pTail + 1
    /\ pushed' = Append(pushed, pItem)
    /\ ppc' = "idle"
    /\ UNCHANGED <<buffer, head, pItem, pTail, pHead, consVars, popped, refused>>

(***************************************************************************)
(* TryPop.                                                                 *)
(***************************************************************************)
PopLoadHead ==
    /\ cpc = "idle"
    /\ cHead' = head
    /\ cpc' = "loadTail"
    /\ UNCHANGED <<cItem, cTail, queueVars, prodVars, histVars>>

PopLoadTail ==
    /\ cpc = "loadTail"
    /\ cTail' = tail
    /\ cpc' = IF Empty(cHead, tail) THEN "idle" ELSE "read"
    /\ UNCHANGED <<cItem, cHead, queueVars, prodVars, histVars>>

PopReadSlot ==
    /\ cpc = "read"
    /\ cItem' = buffer[Slot(cHead)]
    /\ cpc' = IF buffer[Slot(cHead)] = Nil THEN "idle" ELSE "clear"
    /\ UNCHANGED <<cHead, cTail, queueVars, prodVars, histVars>>

PopClearSlot ==
    /\ cpc = "clear"
    /\ buffer' = [buffer EXCEPT ![Slot(cHead)] = Nil]
    /\ cpc' = "advance"
    /\ UNCHANGED <<head, tail, cItem, cHead, cTail, prodVars, histVars>>

PopStoreHead ==
    /\ cpc = "advance"
    /\ head' = cHead + 1
    /\ popped' = Append(popped, cItem)
    /\ cpc' = "idle"
    /\ UNCHANGED <<buffer, tail, cItem, cHead, cTail, prodVars, pushed, refused>>

TryPush ==
    \/ \E x \in Item : PushLoadTail(x)
    \/ PushLoadHead
    \/ PushWriteSlot
    \/ PushStoreTail

TryPop ==
    \/ PopLoadHead
    \/ PopLoadTail
    \/ PopReadSlot
    \/ PopClearSlot
    \/ PopStoreHead

Next == TryPush \/ TryPop

\* The worker goroutine polls TryPop for ever; a push that has started ends.
Fairness ==
    /\ WF_vars(TryPop)
    /\ WF_vars(PushLoadHead \/ PushWriteSlot \/ PushStoreTail)

Spec == Init /\ [][Next]_vars /\ Fairness

(***************************************************************************)
(* Properties.                                                             *)
(***************************************************************************)

\* The shape of the queue, of both goroutines' locals and of the histories.
TypeOK ==
    /\ buffer \in [0 .. Cap - 1 -> Item \cup {Nil}]
    /\ head \in Nat /\ tail \in Nat
    /\ ppc \in {"idle", "loadHead", "write", "advance"}
    /\ pItem \in Item \cup {Nil} /\ pTail \in Nat /\ pHead \in Nat
    /\ cpc \in {"idle", "loadTail", "read", "clear", "advance"}
    /\ cItem \in Item \cup {Nil} /\ cHead \in Nat /\ cTail \in Nat
    /\ pushed \in Seq(Item) /\ popped \in Seq(Item)
    /\ refused \in Nat

\* The ring is a FIFO: what the worker popped is a prefix of what the
\* dispatcher pushed, so no event is lost, duplicated, torn or overtaken in
\* the ring, whatever the interleaving of the two methods.
PoppedIsPrefix ==
    /\ Len(popped) <= Len(pushed)
    /\ \A i \in 1 .. Len(popped) : popped[i] = pushed[i]

\* The two goroutines never hold the same slot: while TryPush is about to
\* write or has written its slot, TryPop is not reading or clearing that slot,
\* so the plain (non-atomic) accesses to q.buffer do not race.
NoSlotRace ==
    ppc \in {"write", "advance"} /\ cpc \in {"read", "clear", "advance"}
        => Slot(pTail) # Slot(cHead)

\* The "item == nil" early return of TryPop never hides a queued event: a
\* worker that got past the emptiness test finds an item in the slot.
NilSlotUnreachable == cpc = "read" => buffer[Slot(cHead)] # Nil

\* TryPush reports "full" only when Cap pushed events had not been popped: no
\* event is dropped by the dispatcher while the ring has a free slot.
RefusedOnlyWhenFull == refused = Cap

\* The ring implements the bounded FIFO.
Fifo == INSTANCE BoundedFifo WITH sent <- pushed, rcvd <- popped

\* Every step of the two methods is a Send, a Receive or invisible to both.
ImplementsFifo == Fifo!FifoSpec
=============================================================================
