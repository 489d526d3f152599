---------------------------- MODULE NotifyDelivery ----------------------------
(***************************************************************************)
(* The notification manager (pkg/notify): Send, which the daemon's main    *)
(* loop calls and which tries the notifiers one after the other, and the   *)
(* replay of dead letters by operators through the REST API.  A call of a  *)
(* notifier runs without m.mu; what it left behind is recorded under m.mu. *)
(* A notification is known by its number: the payload plays no part.       *)
(***************************************************************************)
EXTENDS Integers, Sequences, SequencesExt, Functions

CONSTANTS
    Notifier,       \* m.notifiers, in the order in which they were added
    Operator,       \* operators whose replay requests may overlap
    MaxAttempts,    \* m.maxAttempts
    MinInterval,    \* m.minInterval, in ticks; 0 switches throttling off
    MaxHistory,     \* m.maxHistory
    Pattern,        \* what the throttle tells apart: pattern and severity
    MaxNotes,       \* bound: notifications that pass the throttle
    MaxLetters,     \* bound: dead letters
    MaxTicks        \* bound: ticks of the clock

\* notify.go of the daemon adds at most one notifier of each of three kinds, and
\* their names begin with the kind
ASSUME NotifyAssumption ==
    /\ Notifier \in Seq(ToSet(Notifier)) /\ IsInjective(Notifier)
    /\ MaxAttempts \in Nat \ {0} /\ MaxHistory \in Nat \ {0}
    /\ MinInterval \in Nat /\ MaxNotes \in Nat /\ MaxLetters \in Nat /\ MaxTicks \in Nat

VARIABLES
    clock,          \* the time, in ticks
    lastSent,       \* m.lastSent: time by pattern and severity, where there is one
    notes,          \* history: how many notifications passed the throttle
    sending,        \* Send: the notifiers it has still to serve, and the attempt
    deadLetters,    \* m.deadLetters: ids, newest first
    letterItems,    \* m.deadLetterItems: notification and notifier by id
    letters,        \* how many dead letters there were: the next id
    queue,          \* an operator's request: letters that it has still to replay
    replay,         \* the replay under way for an operator
    copies,         \* history: how often a notification reached a notifier, up to twice
    excused,        \* history: deliveries that an error may have repeated
    overflowed      \* history: a letter was dropped from a full deadLetters

notifyVars == <<clock, lastSent, notes, sending, deadLetters, letterItems, letters, queue, replay,
                copies, excused, overflowed>>

Idle == [step |-> "idle"]
Delivery == (1 .. MaxNotes) \X ToSet(Notifier)      \* a notification for a notifier

NotifyInit ==
    /\ clock = 0
    /\ lastSent = [p \in {} |-> {}]
    /\ notes = 0
    /\ sending = [to |-> <<>>, attempt |-> 1]
    /\ deadLetters = <<>>
    /\ letterItems = <<>>
    /\ letters = 0
    /\ queue = [o \in Operator |-> <<>>]
    /\ replay = [o \in Operator |-> Idle]
    /\ copies = [d \in Delivery |-> 0]
    /\ excused = {}
    /\ overflowed = FALSE

(***************************************************************************)
(* What one call of a notifier may do, and what recordDelivery keeps.      *)
(***************************************************************************)
Outcome == {"accepted", "failed", "unanswered"}     \* the last: it arrived, and the caller saw an error

\* the notifier is called; an answer that is lost excuses a second copy
Call(d, outcome, again) ==
    /\ copies' = [copies EXCEPT ![d] = IF outcome = "failed" \/ @ = 2 THEN @ ELSE @ + 1]
    /\ excused' = IF outcome = "unanswered" \/ again THEN excused \cup {d} ELSE excused

\* the last attempt failed: a dead letter, and the oldest ones leave the list
AddLetter(d) ==
    /\ letters < MaxLetters
    /\ letters' = letters + 1
    /\ deadLetters' = <<letters'>> \o (IF Len(deadLetters) = MaxHistory THEN Front(deadLetters) ELSE deadLetters)
    /\ letterItems' = [i \in DOMAIN letterItems \cup {letters'} |->
                         IF i = letters' THEN d ELSE letterItems[i]]
    /\ overflowed' = (overflowed \/ Len(deadLetters) = MaxHistory)

NoLetter == UNCHANGED <<deadLetters, letterItems, letters, overflowed>>

(***************************************************************************)
(* Send.                                                                   *)
(***************************************************************************)
IsSending == sending.to # <<>>

\* shouldThrottle: a notification of the same pattern passed too recently
Throttled(pattern) ==
    MinInterval > 0 /\ pattern \in DOMAIN lastSent /\ clock - lastSent[pattern] < MinInterval

SendBegin(pattern) ==
    /\ ~IsSending
    /\ IF Throttled(pattern)
         THEN UNCHANGED <<lastSent, notes, sending>>
         ELSE /\ notes < MaxNotes
              /\ notes' = notes + 1
              /\ lastSent' = IF MinInterval = 0 THEN lastSent
                             ELSE [p \in DOMAIN lastSent \cup {pattern} |->
                                     IF p = pattern THEN clock ELSE lastSent[p]]
              /\ sending' = [to |-> Notifier, attempt |-> 1]
    /\ UNCHANGED <<clock, deadLetters, letterItems, letters, queue, replay, copies, excused, overflowed>>

\* mutant: the attempts are counted from one again after the last
SendAttemptForever(outcome) ==
    /\ IsSending
    /\ Call(<<notes, Head(sending.to)>>, outcome, FALSE)
    /\ sending' = IF outcome = "accepted" THEN [to |-> Tail(sending.to), attempt |-> 1]
                  ELSE [sending EXCEPT !.attempt = 1 + (@ % MaxAttempts)]
    /\ NoLetter
    /\ UNCHANGED <<clock, lastSent, notes, queue, replay>>

\* one attempt at the next notifier; the loop over the attempts ends with a
\* success or with the last of them
SendAttempt(outcome) ==
    LET d == <<notes, Head(sending.to)>>
        last == sending.attempt = MaxAttempts
    IN  /\ IsSending
        /\ Call(d, outcome, FALSE)
        /\ IF outcome = "accepted" \/ last
             THEN sending' = [to |-> Tail(sending.to), attempt |-> 1]
             ELSE sending' = [sending EXCEPT !.attempt = @ + 1]
        /\ IF outcome # "accepted" /\ last THEN AddLetter(d) ELSE NoLetter
        /\ UNCHANGED <<clock, lastSent, notes, queue, replay>>

(***************************************************************************)
(* ReplayDeadLetter and ReplayAllDeadLetters.                              *)
(***************************************************************************)

\* the handler of "replay" and "replay_all": one letter, or a copy of the list
RequestReplay(o, ids) ==
    /\ replay[o].step = "idle" /\ queue[o] = <<>>
    /\ queue' = [queue EXCEPT ![o] = ids]
    /\ UNCHANGED <<clock, lastSent, notes, sending, deadLetters, letterItems, letters, replay, copies,
                   excused, overflowed>>

Replaying(o, d) == replay[o].step # "idle" /\ replay[o].item = d

\* look the letter up under m.mu; one that is gone is an error of its own.  That
\* another operator is replaying the same delivery excuses a second copy.
ReplayRead(o) ==
    LET id == Head(queue[o])
    IN  /\ replay[o].step = "idle" /\ queue[o] # <<>>
        /\ queue' = [queue EXCEPT ![o] = Tail(@)]
        /\ IF id \in DOMAIN letterItems
             THEN /\ replay' = [replay EXCEPT ![o] = [step |-> "try", id |-> id,
                                                     item |-> letterItems[id], attempt |-> 1]]
                  /\ excused' = excused \cup {d \in {letterItems[id]} :
                                               \E p \in Operator \ {o} : Replaying(p, d)}
             ELSE UNCHANGED <<replay, excused>>
        /\ UNCHANGED <<clock, lastSent, notes, sending, deadLetters, letterItems, letters, copies, overflowed>>

\* mutant: the letter is cleared whatever came of the attempt
ReplayAttemptOnce(o, outcome) ==
    /\ replay[o].step = "try"
    /\ Call(replay[o].item, outcome, FALSE)
    /\ replay' = [replay EXCEPT ![o].step = "clear"]
    /\ NoLetter
    /\ UNCHANGED <<clock, lastSent, notes, sending, queue>>

\* one attempt; a replay that fails for good adds a letter and keeps the old one
ReplayAttempt(o, outcome) ==
    LET r == replay[o]
        last == r.attempt = MaxAttempts
        dead == outcome # "accepted" /\ last
    IN  /\ r.step = "try"
        /\ Call(r.item, outcome, dead)          \* a second letter for the same delivery
        /\ replay' = [replay EXCEPT ![o] =
                        IF outcome = "accepted" THEN [r EXCEPT !.step = "clear"]
                        ELSE IF last THEN Idle ELSE [r EXCEPT !.attempt = @ + 1]]
        /\ IF dead THEN AddLetter(r.item) ELSE NoLetter
        /\ UNCHANGED <<clock, lastSent, notes, sending, queue>>

\* clearDeadLetter: the letter leaves the map and, where it is listed, the list
ReplayClearListed(o) ==                     \* mutant: only the list forgets the letter
    /\ replay[o].step = "clear"
    /\ deadLetters' = RemoveFirst(deadLetters, replay[o].id)
    /\ replay' = [replay EXCEPT ![o] = Idle]
    /\ UNCHANGED <<clock, lastSent, notes, sending, letterItems, letters, queue, copies, excused,
                   overflowed>>

ReplayClear(o) ==
    LET id == replay[o].id
    IN  /\ replay[o].step = "clear"
        /\ letterItems' = [i \in DOMAIN letterItems \ {id} |-> letterItems[i]]
        /\ deadLetters' = RemoveFirst(deadLetters, id)
        /\ replay' = [replay EXCEPT ![o] = Idle]
        /\ UNCHANGED <<clock, lastSent, notes, sending, letters, queue, copies, excused, overflowed>>

ReplayStep(o) ==
    \/ ReplayRead(o)
    \/ \E outcome \in Outcome : ReplayAttempt(o, outcome)
    \/ ReplayClear(o)

ClockTick ==
    /\ clock < MaxTicks
    /\ clock' = clock + 1
    /\ UNCHANGED <<lastSent, notes, sending, deadLetters, letterItems, letters, queue, replay,
                   copies, excused, overflowed>>

SendStep == \E outcome \in Outcome : SendAttempt(outcome)

NotifyNext ==
    \/ ClockTick
    \/ \E pattern \in Pattern : SendBegin(pattern)
    \/ SendStep
    \/ \E o \in Operator :
         \/ \E id \in DOMAIN letterItems : RequestReplay(o, <<id>>)
         \/ deadLetters # <<>> /\ RequestReplay(o, deadLetters)
         \/ ReplayStep(o)

(***************************************************************************)
(* The HTTP notifiers bound every call to ten seconds, so an attempt ends; *)
(* the main loop and the handlers run on.  Nothing is assumed of findings, *)
(* operators' requests or the answers of the notifiers.                    *)
(***************************************************************************)
NotifyFairness ==
    /\ WF_notifyVars(SendStep)
    /\ \A o \in Operator : WF_notifyVars(ReplayStep(o))

NotifySpec == NotifyInit /\ [][NotifyNext]_notifyVars /\ NotifyFairness

(***************************************************************************)
(* Properties.                                                             *)
(***************************************************************************)

\* Every notification that passed the throttle reached each notifier, or is a
\* dead letter, or is still to be tried by Send; and a dead letter is listed
\* for the operators unless the list was full.
NothingForgotten == \A n \in 1 .. notes, c \in ToSet(Notifier) :
    \/ copies[n, c] > 0
    \/ n = notes /\ c \in ToSet(sending.to)
    \/ \E i \in DOMAIN letterItems :
         letterItems[i] = <<n, c>> /\ (i \in ToSet(deadLetters) \/ overflowed)

\* A notification reaches a notifier at most once, unless an answer was lost, a
\* replay of it failed (which leaves a second letter beside the first), or two
\* operators replayed it at the same time.
DuplicatesExcused == \A d \in Delivery : copies[d] > 1 => d \in excused

\* Send returns to the main loop, and every letter that an operator asked to
\* replay is dealt with, however often the notifiers fail.
CallsReturn ==
    /\ IsSending ~> ~IsSending
    /\ \A o \in Operator : queue[o] # <<>> ~> (queue[o] = <<>> /\ replay[o].step = "idle")
=============================================================================
