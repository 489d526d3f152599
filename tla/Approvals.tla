------------------------------- MODULE Approvals -------------------------------
(***************************************************************************)
(* The change approvals of the daemon: approvalStore in                    *)
(* cmd/agent/daemon/main.go.  An operator requests an approval for an      *)
(* action, another one resolves it, and a guarded operation (publishing or *)
(* rolling back a policy, an upgrade, a cutover) consumes it.  Approvals   *)
(* expire, the list keeps only the newest ones, and it is saved to a file  *)
(* after each change, from which a restarted daemon loads it.              *)
(* The methods run under s.mu, so each is one step; only request draws its *)
(* number and reads the clock before it takes the lock.  The clock counts  *)
(* seconds, the precision in which expiry times are stored.                *)
(***************************************************************************)
EXTENDS Naturals, Sequences, SequencesExt, FiniteSets

CONSTANTS
    Action,         \* the guarded actions
    Limit,          \* s.limit: how many items the list keeps
    TTL,            \* approvalTTL, in clock units
    Client,         \* the concurrent callers of request
    MaxRequests,    \* bound: requests
    MaxTime,        \* bound: the clock
    MaxRestarts,    \* bound: restarts of the daemon
    MaxSaveFailures \* bound: saves that fail

ASSUME ApprovalsAssumption ==
    /\ Limit \in Nat \ {0} /\ TTL \in Nat \ {0}
    /\ {MaxRequests, MaxTime, MaxRestarts, MaxSaveFailures} \subseteq Nat

VARIABLES
    items,      \* s.items, newest first
    counter,    \* s.counter
    file,       \* approvals.json
    drawn,      \* per client: the number it drew for its request, or 0, and when
    now,        \* the clock
    requests, restarts, failures,
    granted,    \* history: how often each approval let an action through
    recent,     \* history: the approvals used since the daemon last started, in order
    named       \* history: how many requests were answered with each number

vars == <<items, counter, file, drawn, now, requests, restarts, failures, granted, recent, named>>

Id == 1 .. MaxRequests

NoRequest == [id |-> 0, at |-> 0]

Init ==
    /\ items = <<>>
    /\ counter = 0
    /\ file = [counter |-> 0, items |-> <<>>]
    /\ drawn = [c \in Client |-> NoRequest]
    /\ now = 0
    /\ requests = 0 /\ restarts = 0 /\ failures = 0
    /\ granted = [i \in Id |-> 0]
    /\ recent = <<>>
    /\ named = [i \in Id |-> 0]

\* expireLocked, at time t
ExpiresLate(x, t) == x.expires < t          \* mutant: an approval outlives its expiry time

Expires(x, t) == x.expires <= t

Expired(x, t) == IF x.status \in {"pending", "approved"} /\ Expires(x, t)
                   THEN [x EXCEPT !.status = "expired"] ELSE x

ExpireLocked(t) == [i \in DOMAIN items |-> Expired(items[i], t)]

\* saveLocked: the file is replaced, or an error is logged; the save that
\* expireLocked makes for itself may have succeeded before
Save(list, expired) ==
    \/ /\ file' = [counter |-> counter, items |-> list]
       /\ UNCHANGED failures
    \/ /\ failures < MaxSaveFailures
       /\ failures' = failures + 1
       /\ \/ UNCHANGED file
          \/ expired # items /\ file' = [counter |-> counter, items |-> expired]

\* the list, which expireLocked made expired, becomes list; it is saved when
\* something changed
Becomes(list, expired) ==
    /\ items' = list
    /\ IF list # items THEN Save(list, expired) ELSE UNCHANGED <<file, failures>>

(***************************************************************************)
(* The methods.                                                            *)
(***************************************************************************)

\* request: atomic.AddUint64(&s.counter, 1)
DrawNumber(c) ==
    /\ drawn[c].id = 0
    /\ requests < MaxRequests
    /\ requests' = requests + 1
    /\ counter' = counter + 1
    /\ drawn' = [drawn EXCEPT ![c] = [id |-> counter', at |-> now]]
    /\ UNCHANGED <<items, file, now, restarts, failures, granted, recent, named>>

\* request, under s.mu
Trim(list) == SubSeq(list, 1, IF Len(list) > Limit THEN Limit ELSE Len(list))

Request(c, a) ==
    LET id == drawn[c].id
        item == [id |-> id, action |-> a, status |-> "pending", expires |-> drawn[c].at + TTL]
        expired == ExpireLocked(drawn[c].at)
    IN
    /\ id # 0
    /\ Becomes(Trim(<<item>> \o expired), expired)
    /\ drawn' = [drawn EXCEPT ![c] = NoRequest]
    /\ named' = [named EXCEPT ![id] = @ + 1]
    /\ UNCHANGED <<counter, now, requests, restarts, granted, recent>>

\* resolve: only a pending item changes
Resolves(x) == x.status = "pending"

Resolve(id, status) ==
    LET expired == ExpireLocked(now)
        i == SelectInSeq(expired, LAMBDA x : x.id = id)
    IN
    /\ Becomes(IF i # 0 /\ Resolves(expired[i]) THEN [expired EXCEPT ![i].status = status] ELSE expired,
               expired)
    /\ UNCHANGED <<counter, drawn, now, requests, restarts, granted, recent, named>>

\* consumeApproved: the first approved item of the action is used
MarkUsedNot(list, i) == list                \* mutant: the item stays approved

MarkUsed(list, i) == [list EXCEPT ![i].status = "used"]

ConsumeApproved(a) ==
    LET expired == ExpireLocked(now)
        i == SelectInSeq(expired, LAMBDA x : x.status = "approved" /\ x.action = a)
    IN
    /\ IF i = 0
         THEN Becomes(expired, expired) /\ UNCHANGED <<granted, recent>>
         ELSE /\ Becomes(MarkUsed(expired, i), expired)
              /\ granted' = [granted EXCEPT ![items[i].id] = @ + 1]
              /\ recent' = Append(recent, items[i].id)
    /\ UNCHANGED <<counter, drawn, now, requests, restarts, named>>

\* status: only expires
Status ==
    /\ Becomes(ExpireLocked(now), ExpireLocked(now))
    /\ UNCHANGED <<counter, drawn, now, requests, restarts, granted, recent, named>>

Clock ==
    /\ now < MaxTime
    /\ now' = now + 1
    /\ UNCHANGED <<items, counter, file, drawn, requests, restarts, failures, granted, recent, named>>

LoadedCounterByLength == Len(file.items)    \* mutant: counts the items that are left

LoadedCounter == file.counter

\* the daemon restarts: newPersistentApprovalStore
Restart ==
    /\ restarts < MaxRestarts
    /\ restarts' = restarts + 1
    /\ counter' = LoadedCounter
    /\ items' = Trim(file.items)
    /\ drawn' = [c \in Client |-> NoRequest]
    /\ recent' = <<>>
    /\ UNCHANGED <<file, now, requests, failures, granted, named>>

Next ==
    \/ \E c \in Client : DrawNumber(c) \/ \E a \in Action : Request(c, a)
    \/ \E id \in Id, status \in {"approved", "rejected"} : Resolve(id, status)
    \/ \E a \in Action : ConsumeApproved(a)
    \/ Status
    \/ Clock
    \/ Restart

Spec == Init /\ [][Next]_vars

(***************************************************************************)
(* Properties.                                                             *)
(***************************************************************************)
Item == [id : Id, action : Action, status : {"pending", "approved", "rejected", "used", "expired"},
         expires : 0 .. MaxTime + TTL]

\* The list and its copy on disk, neither longer than the limit.
TypeOK ==
    /\ \A list \in {items, file.items} : list \in Seq(Item) /\ Len(list) <= Limit
    /\ counter \in 0 .. MaxRequests /\ file.counter \in 0 .. counter
    /\ drawn \in [Client -> [id : 0 .. MaxRequests, at : 0 .. MaxTime]]
    /\ now \in 0 .. MaxTime

\* As long as saving works, an approval lets one action through and no more,
\* also when the daemon restarts after it was consumed.
OneGrantPerApproval == failures = 0 => \A i \in Id : granted[i] <= 1

\* As long as saving works, a number that was returned to a requester never
\* names another request, also when the daemon restarts while other requests
\* have drawn theirs and the oldest items have been dropped: whoever approves
\* a number approves the request it was given for.
NumbersNotReused == failures = 0 => \A i \in Id : named[i] <= 1

\* An approval that has run out lets nothing through, also when it ran out
\* while the daemon was down or a save had failed.
ExpiredNeverGranted ==
    [][\A i \in Id : granted'[i] > granted[i]
          => \E k \in DOMAIN items : items[k].id = i /\ now < items[k].expires]_vars

\* Even when saves fail, one run of the daemon uses an approval only once.
OneGrantPerRun == \A i, j \in DOMAIN recent : recent[i] = recent[j] => i = j
=============================================================================
