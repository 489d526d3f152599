------------------------------ MODULE IngestLoop ------------------------------
(***************************************************************************)
(* The backpressure handshake of the agent: the daemon's main select loop  *)
(* (cmd/agent/daemon/main.go), which feeds events to Pipeline.AddEvent and *)
(* obeys its pause channel, and the memory pressure monitor goroutine      *)
(* (internal/engine/pipeline/backpressure.go), which requests a pause.     *)
(* The two share p.mu, p.paused and two channels of capacity one.          *)
(* What a flush writes is the subject of EdgePersistence; here it is one   *)
(* step, because only its place between lock and unlock matters.           *)
(***************************************************************************)
EXTENDS Naturals

VARIABLES
    main,       \* where the main goroutine is
    mon,        \* where the pressure monitor goroutine is
    mu,         \* who holds p.mu: "none", "main" or "mon"
    paused,     \* p.paused
    pauseCh,    \* p.pauseCh holds a token
    resumeCh,   \* p.resumeCh holds a token
    sigCh,      \* the signal waiting in sigCh (capacity one), or "none"
    monStop,    \* the monitor's stopCh is closed
    healthy,    \* pipelineHealthy, read by the health endpoint
    watched,    \* a client of the management server has a WatchAlerts stream open
    flushed     \* history: a flush has answered the latest pause request

vars == <<main, mon, mu, paused, pauseCh, resumeCh, sigCh, monStop, healthy, watched, flushed>>

Signals == {"TERM", "HUP", "QUIT"}

Init ==
    /\ main = "select"
    /\ mon = "idle"
    /\ mu = "none"
    /\ paused = FALSE
    /\ pauseCh = FALSE
    /\ resumeCh = FALSE
    /\ sigCh = "none"
    /\ monStop = FALSE
    /\ healthy = TRUE
    /\ watched = FALSE
    /\ flushed = TRUE

(***************************************************************************)
(* The main goroutine.                                                     *)
(***************************************************************************)

\* case evt := <-eventCh: AddEvent up to checkPause
TakeEvent ==
    /\ main = "select"
    /\ main' = "add"
    /\ UNCHANGED <<mon, mu, paused, pauseCh, resumeCh, sigCh, monStop, healthy, flushed, watched>>

\* checkPause: take p.mu; when paused, clear the flag and flush under the lock
CheckPause ==
    /\ main = "add"
    /\ mu = "none"
    /\ IF paused
         THEN /\ paused' = FALSE
              /\ mu' = "main"
              /\ main' = "flush"
         ELSE /\ main' = "drain"
              /\ UNCHANGED <<paused, mu>>
    /\ UNCHANGED <<mon, pauseCh, resumeCh, sigCh, monStop, healthy, flushed, watched>>

\* checkPause after onMidPressure: a non-blocking send on resumeCh, then unlock
CheckPauseResume ==
    /\ main = "flush"
    /\ resumeCh' = TRUE
    /\ flushed' = TRUE
    /\ mu' = "none"
    /\ main' = "drain"
    /\ UNCHANGED <<mon, paused, pauseCh, sigCh, monStop, healthy, watched>>

\* after AddEvent: "Track dropped events via backpressure signal"
DrainPauseNot ==                        \* mutant: the signal is left in the channel
    /\ main = "drain"
    /\ main' = "select"
    /\ UNCHANGED <<mon, mu, paused, pauseCh, resumeCh, sigCh, monStop, healthy, flushed, watched>>

DrainPause ==
    /\ main = "drain"
    /\ pauseCh' = FALSE
    /\ main' = "select"
    /\ UNCHANGED <<mon, mu, paused, resumeCh, sigCh, monStop, healthy, flushed, watched>>

\* case al := <-apt.AlertCh: the alert is recorded and notifyMgr.Send runs in
\* the main goroutine (module NotifyDelivery) ...
TakeAlert ==
    /\ main = "select"
    /\ main' = "notify"
    /\ UNCHANGED <<mon, mu, paused, pauseCh, resumeCh, sigCh, monStop, healthy, flushed, watched>>

\* ... and returns
NotifyReturns ==
    /\ main = "notify"
    /\ main' = "select"
    /\ UNCHANGED <<mon, mu, paused, pauseCh, resumeCh, sigCh, monStop, healthy, flushed, watched>>

\* case <-pipe.PauseCh(): stop reading events
TakePause ==
    /\ main = "select"
    /\ pauseCh
    /\ pauseCh' = FALSE
    /\ healthy' = FALSE
    /\ main' = "paused"
    /\ UNCHANGED <<mon, mu, paused, resumeCh, sigCh, monStop, flushed, watched>>

\* the inner select: <-pipe.ResumeCh()
Resume ==
    /\ main = "paused"
    /\ resumeCh
    /\ resumeCh' = FALSE
    /\ healthy' = TRUE
    /\ main' = "select"
    /\ UNCHANGED <<mon, mu, paused, pauseCh, sigCh, monStop, flushed, watched>>

\* the inner select: <-time.After(10 * time.Second)
ForcedResumeForgets ==                  \* mutant: the timeout clears the request, too
    /\ main = "paused"
    /\ healthy' = TRUE
    /\ paused' = FALSE
    /\ main' = "select"
    /\ UNCHANGED <<mon, mu, pauseCh, resumeCh, sigCh, monStop, flushed, watched>>

ForcedResume ==
    /\ main = "paused"
    /\ healthy' = TRUE
    /\ main' = "select"
    /\ UNCHANGED <<mon, mu, paused, pauseCh, resumeCh, sigCh, monStop, flushed, watched>>

\* the inner select: <-sigCh, whatever the signal is
PausedSignal ==
    /\ main = "paused"
    /\ sigCh # "none"
    /\ sigCh' = "none"
    /\ main' = "report"
    /\ UNCHANGED <<mon, mu, paused, pauseCh, resumeCh, monStop, healthy, flushed, watched>>

\* case sig := <-sigCh of the outer select: SIGQUIT dumps the stacks, SIGHUP
\* reloads the configuration, and both continue; the others leave the loop
TakeSignal ==
    /\ main = "select"
    /\ sigCh # "none"
    /\ sigCh' = "none"
    /\ IF sigCh \in {"HUP", "QUIT"}
         THEN UNCHANGED main
         ELSE main' = "report"
    /\ UNCHANGED <<mon, mu, paused, pauseCh, resumeCh, monStop, healthy, flushed, watched>>

\* the final report calls pipe.Stats(), which takes p.mu
Report ==
    /\ main = "report"
    /\ mu = "none"
    /\ main' = "stop"
    /\ UNCHANGED <<mon, mu, paused, pauseCh, resumeCh, sigCh, monStop, healthy, flushed, watched>>

\* the deferred mgmtServer.Stop() comes first: GracefulStop waits until the
\* streams of its clients have ended, WatchAlerts streams included
GracefulStop ==
    /\ main = "stop"
    /\ ~watched
    /\ main' = "stopPipe"
    /\ UNCHANGED <<mon, mu, paused, pauseCh, resumeCh, sigCh, monStop, healthy, flushed, watched>>

\* the deferred pipe.Stop(): pressure.Stop() closes stopCh and does not wait
Stop ==
    /\ main = "stopPipe"
    /\ monStop' = TRUE
    /\ main' = "stopped"
    /\ UNCHANGED <<mon, mu, paused, pauseCh, resumeCh, sigCh, healthy, flushed, watched>>

\* a client opens a WatchAlerts stream, which a server that is stopping refuses;
\* the stream lasts until the client ends it or its connection breaks
Watch ==
    /\ main \notin {"stop", "stopPipe", "stopped"}
    /\ watched' = TRUE
    /\ UNCHANGED <<main, mon, mu, paused, pauseCh, resumeCh, sigCh, monStop, healthy, flushed>>

Unwatch ==
    /\ watched' = FALSE
    /\ UNCHANGED <<main, mon, mu, paused, pauseCh, resumeCh, sigCh, monStop, healthy, flushed>>

(***************************************************************************)
(* The pressure monitor goroutine: one tick of its two second ticker runs  *)
(* check(), with a memory use below the mid mark, between mid and high, or *)
(* above the high mark.                                                    *)
(***************************************************************************)
MonTick(level) ==
    /\ mon = "idle"
    /\ mon' = CASE level = "nominal" -> "idle" [] level = "mid" -> "mid" [] OTHER -> "high"
    /\ UNCHANGED <<main, mu, paused, pauseCh, resumeCh, sigCh, monStop, healthy, flushed, watched>>

\* onHighPressure: lock, and request a pause unless one is requested already
MonRequestAlways ==                     \* mutant: no test of p.paused
    /\ mon = "high"
    /\ mu = "none"
    /\ paused' = TRUE
    /\ flushed' = FALSE
    /\ mu' = "mon"
    /\ mon' = "send"
    /\ UNCHANGED <<main, pauseCh, resumeCh, sigCh, monStop, healthy, watched>>

MonRequest ==
    /\ mon = "high"
    /\ mu = "none"
    /\ IF paused
         THEN mon' = "mid" /\ UNCHANGED <<paused, flushed, mu>>
         ELSE /\ paused' = TRUE
              /\ flushed' = FALSE
              /\ mu' = "mon"
              /\ mon' = "send"
    /\ UNCHANGED <<main, pauseCh, resumeCh, sigCh, monStop, healthy, watched>>

\* p.pauseCh <- struct{}{} with p.mu held: blocks while the channel is full
MonSend ==
    /\ mon = "send"
    /\ ~pauseCh
    /\ pauseCh' = TRUE
    /\ mu' = "none"
    /\ mon' = "mid"
    /\ UNCHANGED <<main, paused, resumeCh, sigCh, monStop, healthy, flushed, watched>>

\* onMidPressure, called by check() after onHigh and at the mid mark
MonMid ==
    /\ mon = "mid"
    /\ mon' = "idle"
    /\ UNCHANGED <<main, mu, paused, pauseCh, resumeCh, sigCh, monStop, healthy, flushed, watched>>

\* loop(): <-pm.stopCh
MonExit ==
    /\ mon = "idle"
    /\ monStop
    /\ mon' = "exited"
    /\ UNCHANGED <<main, mu, paused, pauseCh, resumeCh, sigCh, monStop, healthy, flushed, watched>>

\* signal.Notify delivers into sigCh and drops what does not fit
Deliver(s) ==
    /\ sigCh = "none"
    /\ sigCh' = s
    /\ UNCHANGED <<main, mon, mu, paused, pauseCh, resumeCh, monStop, healthy, flushed, watched>>

MainNext ==
    \/ TakeEvent \/ CheckPause \/ CheckPauseResume \/ DrainPause
    \/ TakeAlert \/ NotifyReturns
    \/ TakePause \/ Resume \/ ForcedResume \/ PausedSignal
    \/ TakeSignal \/ Report \/ GracefulStop \/ Stop

MonNext ==
    \/ \E level \in {"nominal", "mid", "high"} : MonTick(level)
    \/ MonRequest \/ MonSend \/ MonMid \/ MonExit

Next == MainNext \/ MonNext \/ Watch \/ Unwatch \/ \E s \in Signals : Deliver(s)

(***************************************************************************)
(* Go schedules every runnable goroutine; its mutexes hand over to a       *)
(* waiter that has starved, and its select picks among the ready cases at  *)
(* random, so what is ready again and again is taken: strong fairness.     *)
(* Nothing is assumed of the arrival of events, alerts, signals or         *)
(* pressure, nor of a client that watches alerts.  That Send returns is    *)
(* what NotifyDelivery shows of notifiers with a timeout; the e-mail       *)
(* notifier has none.                                                      *)
(***************************************************************************)
Fairness ==
    /\ SF_vars(CheckPause) /\ SF_vars(Report) /\ SF_vars(MonRequest)
    /\ SF_vars(TakeSignal) /\ SF_vars(MonExit)
    /\ WF_vars(CheckPauseResume \/ DrainPause \/ GracefulStop \/ Stop) /\ WF_vars(NotifyReturns)
    /\ WF_vars(Resume \/ ForcedResume \/ PausedSignal)
    /\ WF_vars(MonSend) /\ WF_vars(MonMid)

Spec == Init /\ [][Next]_vars /\ Fairness

(***************************************************************************)
(* Properties.                                                             *)
(***************************************************************************)

\* The program counters, the lock holder and the channels.
TypeOK ==
    /\ main \in {"select", "add", "flush", "drain", "notify", "paused", "report", "stop",
                "stopPipe", "stopped"}
    /\ mon \in {"idle", "high", "send", "mid", "exited"}
    /\ mu = (IF main = "flush" THEN "main" ELSE IF mon = "send" THEN "mon" ELSE "none")
    /\ {paused, pauseCh, resumeCh, monStop, healthy, flushed, watched} \subseteq BOOLEAN
    /\ sigCh \in Signals \cup {"none"}

\* Whenever the main loop is back in its select, sends a notification, waits for
\* a resume or is on its way out, a token in pauseCh means p.paused is still set: the monitor
\* then does not send again, so it cannot block on pauseCh with p.mu held
\* while the main goroutine needs p.mu in checkPause or in Stats.
TokenMeansPaused ==
    main \in {"select", "notify", "paused", "report", "stop", "stopPipe", "stopped"} /\ pauseCh => paused

\* A pause request is never forgotten: it is in pauseCh, or being sent, or
\* obeyed by the main loop, or still recorded in p.paused, until a flush.
RequestNotForgotten == ~flushed => paused \/ pauseCh \/ main = "flush"

\* AddEvent always returns: the main goroutine is not left waiting for a lock
\* that the monitor holds while it waits for the main goroutine.
AddEventReturns == main = "add" ~> main = "select"

\* The monitor's blocking send on pauseCh always completes, also when the
\* main loop has ended and nobody receives from the channel any more.
MonitorSendCompletes == mon = "send" ~> mon # "send"

\* A SIGINT or SIGTERM that reached sigCh ends the daemon through pipe.Stop,
\* whether it is taken by the main select or, with any other signal, by the
\* select of a pause.  The one thing that keeps it waiting is a client that has
\* alerts streamed to it; when the last such stream ends, the daemon does.
ShutdownCompletes ==
    /\ sigCh = "TERM" ~> main = "stopped" \/ (main = "stop" /\ watched)
    /\ main = "stop" /\ ~watched ~> main = "stopped"
=============================================================================
