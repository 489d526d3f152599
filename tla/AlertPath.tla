------------------------------ MODULE AlertPath ------------------------------
(***************************************************************************)
(* From the analyzer to the people who watch: the analyzer's scans put     *)
(* findings into AlertCh, and two goroutines of the daemon receive from    *)
(* that one channel: the main loop (cmd/agent/daemon/main.go), which files *)
(* a finding with the workflow manager (AlertFlow) and hands it to the     *)
(* notifiers, and the forwarder of the management server                   *)
(* (internal/policy/mgmt/server.go), which copies it to the streams of the *)
(* WatchAlerts callers.  Operators update the workflow beside them.        *)
(***************************************************************************)
EXTENDS AlertFlow, FiniteSets

CONSTANTS
    Watcher,        \* clients that may call WatchAlerts
    ChanCap,        \* capacity of AlertCh
    SubCap,         \* capacity of a watcher's channel
    MaxSubs,        \* alertSub.maxSubs
    MaxTime,        \* bound: ticks of the clock
    MaxEmits        \* bound: findings that scans report

ASSUME SubsAssumption == MaxSubs \in Nat

VARIABLES
    now,            \* the clock
    emitted,        \* how many findings scans reported
    alertCh,        \* AlertCh: finding and the time of its detection
    notifying,      \* the main loop is inside notifyMgr.Send
    forwarding,     \* the event the forwarder took and is to broadcast, or 0
    watching,       \* watchers whose stream is open
    subs,           \* alertSub.subs: the watchers that are registered
    inbox,          \* a watcher's channel
    fate            \* history: what became of the finding reported as the n-th

pathVars == <<now, emitted, alertCh, notifying, forwarding, watching, subs, inbox, fate>>
vars == <<flowVars, pathVars>>

None == "none"
Emit == 1 .. MaxEmits

Init ==
    /\ FlowInit
    /\ now = 0
    /\ emitted = 0
    /\ alertCh = <<>>
    /\ notifying = FALSE
    /\ forwarding = 0
    /\ watching = {}
    /\ subs = {}
    /\ inbox = [w \in Watcher |-> <<>>]
    /\ fate = [n \in Emit |-> None]

Tick ==
    /\ now < MaxTime
    /\ now' = now + 1
    /\ UNCHANGED <<flowVars, emitted, alertCh, notifying, forwarding, watching, subs, inbox, fate>>

\* the end of scan: a non-blocking send.  Every scan reports what it finds anew,
\* so a finding that was lost may come again.
ScanReports(f) ==
    /\ emitted < MaxEmits
    /\ emitted' = emitted + 1
    /\ IF Len(alertCh) < ChanCap
         THEN alertCh' = Append(alertCh, [n |-> emitted', finding |-> f, at |-> now])
              /\ UNCHANGED fate
         ELSE fate' = [fate EXCEPT ![emitted'] = "dropped"] /\ UNCHANGED alertCh
    /\ UNCHANGED <<flowVars, now, notifying, forwarding, watching, subs, inbox>>

\* the main loop: case al := <-apt.AlertCh
MainTakes ==
    /\ ~notifying /\ alertCh # <<>>
    /\ LET al == Head(alertCh)
       IN  /\ Ingest(al.finding, al.at)
           /\ notifying' = Delivers(al.finding, al.at)
           /\ fate' = [fate EXCEPT ![al.n] = "filed"]
    /\ alertCh' = Tail(alertCh)
    /\ UNCHANGED <<now, emitted, forwarding, watching, subs, inbox>>

\* notifyMgr.Send returns (see NotifyDelivery)
SendReturns ==
    /\ notifying
    /\ notifying' = FALSE
    /\ UNCHANGED <<flowVars, now, emitted, alertCh, forwarding, watching, subs, inbox, fate>>

\* the forwarder: for al := range alertCh
ForwarderTakes ==
    /\ forwarding = 0 /\ alertCh # <<>>
    /\ forwarding' = Head(alertCh).n
    /\ alertCh' = Tail(alertCh)
    /\ UNCHANGED <<flowVars, now, emitted, notifying, watching, subs, inbox, fate>>

\* mutant: broadcast waits for the slowest watcher
BroadcastBlocking ==
    /\ forwarding # 0
    /\ \A w \in subs : Len(inbox[w]) < SubCap
    /\ inbox' = [w \in Watcher |-> IF w \in subs THEN Append(inbox[w], forwarding) ELSE inbox[w]]
    /\ fate' = [fate EXCEPT ![forwarding] = "forwarded"]
    /\ forwarding' = 0
    /\ UNCHANGED <<flowVars, now, emitted, alertCh, notifying, watching, subs>>

\* broadcast: a non-blocking send to every registered channel
Broadcast ==
    /\ forwarding # 0
    /\ inbox' = [w \in Watcher |->
                   IF w \in subs /\ Len(inbox[w]) < SubCap THEN Append(inbox[w], forwarding) ELSE inbox[w]]
    /\ fate' = [fate EXCEPT ![forwarding] = "forwarded"]
    /\ forwarding' = 0
    /\ UNCHANGED <<flowVars, now, emitted, alertCh, notifying, watching, subs>>

\* WatchAlerts: subscribe registers the channel unless there are too many; the
\* call goes on either way
Watch(w) ==
    /\ w \notin watching
    /\ watching' = watching \cup {w}
    /\ IF Cardinality(subs) < MaxSubs THEN subs' = subs \cup {w} ELSE UNCHANGED subs
    /\ UNCHANGED <<flowVars, now, emitted, alertCh, notifying, forwarding, inbox, fate>>

StreamSends(w) ==
    /\ w \in watching /\ inbox[w] # <<>>
    /\ inbox' = [inbox EXCEPT ![w] = Tail(@)]
    /\ UNCHANGED <<flowVars, now, emitted, alertCh, notifying, forwarding, watching, subs, fate>>

\* the client leaves or a send fails: unsubscribe closes the channel
StreamEnds(w) ==
    /\ w \in watching
    /\ watching' = watching \ {w}
    /\ subs' = subs \ {w}
    /\ inbox' = [inbox EXCEPT ![w] = <<>>]
    /\ UNCHANGED <<flowVars, now, emitted, alertCh, notifying, forwarding, fate>>

\* the REST handlers of the alert workflow
Triage ==
    /\ (\E id \in DOMAIN alerts : Update(id, now)) \/ Snapshot(now)
    /\ UNCHANGED pathVars

Next ==
    \/ Tick
    \/ \E f \in Finding : ScanReports(f)
    \/ MainTakes \/ SendReturns
    \/ ForwarderTakes \/ Broadcast
    \/ \E w \in Watcher : Watch(w) \/ StreamSends(w) \/ StreamEnds(w)
    \/ Triage

(***************************************************************************)
(* Both receivers run on, and so does Send, whose calls of the HTTP        *)
(* notifiers time out.  Nothing is assumed of who receives first, or of    *)
(* watchers and operators.                                                 *)
(***************************************************************************)
Fairness ==
    /\ WF_vars(MainTakes) /\ WF_vars(SendReturns)
    /\ WF_vars(ForwarderTakes) /\ WF_vars(Broadcast)

Spec == Init /\ [][Next]_vars /\ Fairness

(***************************************************************************)
(* Properties.                                                             *)
(***************************************************************************)

\* The records of the workflow, its index and its list.
TypeOK ==
    /\ DOMAIN alerts \subseteq Node
    /\ \A i \in DOMAIN alerts :
         alerts[i] \in [key : Key, status : Status, assigned : BOOLEAN,
                        silenceUntil : Int, lastNotifiedAt : 0 .. now]
    /\ DOMAIN byDedupKey \subseteq Key
    /\ \A k \in DOMAIN byDedupKey : byDedupKey[k] \in Node
    /\ order \in Seq(Node) /\ Len(order) <= MaxAlerts
    /\ \A i \in DOMAIN alerts : \E j \in DOMAIN order : order[j] = i
    /\ subs \subseteq watching /\ Cardinality(subs) <= MaxSubs

\* Every record is found by its own key, whatever was replaced or trimmed: a
\* record that is not found is never counted, reopened or silenced again.
RecordsStayFindable == \A i \in DOMAIN alerts :
    alerts[i].key \in DOMAIN byDedupKey /\ byDedupKey[alerts[i].key] = i

\* A key leads to the record of another key only after its own record was
\* replaced by a second pattern on the same node, or trimmed.
MisfiledOnlyWhenDisplaced == \A k \in DOMAIN byDedupKey :
    byDedupKey[k] \in DOMAIN alerts => alerts[byDedupKey[k]].key = k \/ k \in displaced

\* A silence holds through assignments, closing, reopening and repeated
\* findings: until it ends, nothing is notified for the key that was silenced
\* or in its name, unless its record was displaced.
SilenceHolds == [][
    MainTakes /\ notifying' =>
        LET f == Head(alertCh).finding
        IN  \A k \in {DedupKey(f), Reported(f)} : silenced[k] > now => k \in displaced ]_vars

\* A finding that got into AlertCh is filed or forwarded in the end, however
\* slow a watcher is and whatever the notifiers do.
EachIsTaken == emitted > 0 ~> \A n \in 1 .. emitted : fate[n] # None

\* What the management server says of its forwarder: alerts of the analyzer go
\* to all subscribers.  The main loop takes none away from registered watchers.
ForwardedToAll == [][MainTakes => subs = {}]_vars
=============================================================================
