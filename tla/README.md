# A TLA+ verification of ProvidAPT

ProvidAPT is an endpoint provenance agent and its control plane, written in Go.
Kernel probes feed events to an agent, which merges them into provenance edges,
stores them in Pebble, analyses them with Sigma rules and taint tracking, and
reports to a control plane. The control plane keeps the fleet, distributes
policies, runs change approvals, forwards to a SIEM and elects a leader among
its own nodes. Most of the program is sequential data processing. This project
models the parts in which goroutines, requests, crashes and time meet, because
there the code is hardest to test.

Every module is translated from the Go code. Paths below are relative to `src/`.

## 1. Inventory

### Modelled parts

| Part | State it keeps | Operations | What is hard |
|---|---|---|---|
| Worker pool, `workerpool.go`, `zerocopy.go` | `stopCh`, `eventCh`, the two goroutines | dispatch, parse, send, `Stop` | a blocking send inside the goroutine that `Stop` waits for |
| Event ring, `internal/engine/pipeline/lockfree.go` | slots, `head`, `tail` | `TryPush`, `TryPop` | one producer and one consumer, no lock; slots are accessed without atomics |
| Ingest loop and backpressure, `cmd/agent/daemon/main.go` (the main select), `pipeline.go`, `backpressure.go` | `p.paused`, `pauseCh`, `resumeCh`, `sigCh`, `p.mu` | `AddEvent`/`checkPause`, `onHighPressure`, the monitor's `check`, pause, resume, forced resume, signals, shutdown | a blocking send under a lock, three selects that read the same channels, a timeout racing a token |
| Merge window and edge store, `merger.go`, `pipeline.go`, `internal/storage/store/store.go` | window entries, indexed batch, database, `closed` | `TryMerge`, `Flush` and its callers, `PutEdge` with `autoFlush`, `Flush`, `Close`, `Stop`, checkpoint backup | entries are swapped out under a lock and written without it, by up to four goroutines; `Stop` waits for only one of them |
| Agent policy client, `cmd/agent/daemon/main.go`, `pkg/telemetry/reporter.go` | applied version, its copy on disk, the analyzer's rules | report, `OnAck`, download, apply, store, save, restart | one goroutine per acknowledgement and nothing that serialises them; failures half way; restart |
| Policy and fleet server, `internal/policy/mgmt/server.go`, `state_store.go` | fleet, working rules, policy history, current and next version, state file and temporary file | `UpdatePolicy`, `PublishPolicyFor`, `RollbackPolicyFor`, `ReportEvents`, `SetAgentEnrollment`, `UpsertAgentMetadata`, `saveState`, `loadState` | two locks taken in turn, several times per request; the snapshot is written with neither held, through one temporary file for all |
| SIEM outbox, `cmd/agent/daemon/main.go` | the outbox file | append, read, deliver, truncate, restart | append and truncation share no lock; deliveries that fail after arriving, and calls that succeed without delivering |
| Change approvals, `cmd/agent/daemon/main.go` | list, counter, file | `request`, `resolve`, `consumeApproved`, `status`, expiry, save, restart | the number is drawn and the clock read before the lock; failing saves; restart |
| HA coordinator, `pkg/controlplaneha/coordinator.go` | shared heartbeats, per-node status | tick, reconcile, failing transaction, crash, restart | a clock read before a transaction that may wait, a status shown after others have committed; failover |
| Alert workflow, `pkg/alertflow/manager.go` | records by id, index by deduplication key, list | `Ingest`, `Update`, `Snapshot` | records are filed by node and found by pattern; a silence has to outlast every other change |
| Alert channel and streams, `analyzer.go`, `main.go`, `server.go` | `AlertCh`, subscriptions | scan, the main loop's case, forwarder, broadcast, `WatchAlerts` | two goroutines receive from one channel; slow watchers |
| Notification delivery, `pkg/notify` | throttle times, dead letters | `Send`, replay of one or all dead letters | calls without the lock, failing and unanswered calls, replays by several operators |
| Audit log, `pkg/audit/audit.go`, `cmd/cli/providaptctl` | active file, backups, archives, entries in memory | `Log`, rotation, `ApplyRetention`, replay at start | two processes on one file, names with the precision of a second, a rewrite from memory, crashes, failing system calls and a failing replay |

The components interact as follows. The collector hands events to the main
loop, which calls `Pipeline.AddEvent`; the pressure monitor, the periodic
flusher and backups call into the same pipeline from their own goroutines. The
reporter sends a summary with the applied policy version; the server answers
with the current version, which triggers `OnAck`, which downloads the bundle
from the server. Publishing, rolling back and cutovers consume an approval.
The analyzer's alerts go through one channel to the main loop, which files them
with the workflow and hands them to the notifiers, and to the management
server, which streams them. Commands and changes are written to the audit log,
by the daemon and by `providaptctl` on the same files.
The coordinator of each control-plane node reads the health of that node and
shares its state through PostgreSQL.

### What makes each part correct

* Ring: it behaves as a bounded FIFO queue, and producer and consumer never
  access one slot at the same time (a data race in Go's memory model).
* Ingest loop: no deadlock over `p.mu` and `pauseCh`; a pause request is acted
  upon; a shutdown signal ends the daemon once no client streams alerts.
* Edge store: however flushes overlap, no event goes unaccounted and none is
  counted more than twice, and `Stop` and backups miss nothing but what is in
  flight in goroutines they do not wait for.
* Policy client: an agent that is told of a version it can fetch ends there, and
  it enforces what it reports.
* Policy server and agents together: a rollout shown as applied is enforced, a
  telemetry report does not undo a change of enrollment, published versions
  survive, and the state file can be loaded.
* SIEM outbox: failures that are seen lose nothing, first copies are in order,
  the outbox drains.
* Approvals: an approval grants once, numbers are not reused, nothing expired
  grants.
* Worker pool: what parses is handed on, in order, and `Stop` returns.
* Alerts: a record is found by its key, a silence holds, no receiver or watcher
  keeps an alert from being taken.
* Notifications: every alert reaches every notifier or is a dead letter, and
  duplicates have a known cause.
* Audit log: no accepted entry disappears.
* Coordinator: one leader in the end, and two claims at once only for a known,
  short time.

### Parts that are not modelled

Each is listed with its reason in `PROJECT.json`. In short: the hot node cache,
self-healing and adaptive control, the batch writer, the transport manager and
the stitcher have protocols of their own and are in the plan below (the last
three are not reached from the daemon). Kernel probes and loaders run outside
the Go scheduler. Detection heuristics, machine learning, forensics,
visualisation, encoders, exporters, the REST layer, configuration, command line
tools and release tooling make up most of the repository's lines; they are
sequential or pure I/O and keep no state whose order matters, and generated
protocol code has no logic of its own. A model of them would repeat their text.

## 2. The modules

`BoundedFifo` is the abstract specification of a queue of bounded length: an item
is sent while fewer than `Cap` are in flight, and items are received in the
order in which they were sent. `LockFreeQueue` is the
ring. Each atomic load and store and each plain slot access is a step of its
own, with the locals of the two goroutines (`pTail`, `pHead`, `cHead`, `cTail`,
`cItem`). The history variables `pushed`, `popped` and `refused` record the
completed operations; `pushed` and `popped` are what the abstract queue has sent
and received. The counters are natural numbers: a 64-bit counter does
not wrap in the life of a process. Slots are taken modulo the capacity, which
is what the mask does for a power of two.

`WorkerPool` puts the ring into the pool that uses it. The dispatcher and the
worker take the ring's steps between their own: the look at `stopCh`, `ReadRaw`
(which may never return), parsing (which may fail), the blocking send on
`eventCh`. It has one worker, because each worker has a ring of its own and
shares only `eventCh`. `ReadRaw`'s samples are inputs.

`IngestLoop` has the main goroutine (`main`, its program counter, named after
the select or call it is in), the monitor goroutine (`mon`), the lock `mu` and
the two channels, each of which holds one token or none. The outer select is
one action per case, the inner select of a pause is `Resume`, `ForcedResume`
and `PausedSignal`. `AddEvent` is taken from the channel to `checkPause`, since
its other work touches nothing shared here. The alert case is two steps,
since `notifyMgr.Send` runs inside the loop and holds it up. Shutdown runs the
deferred stops in the code's order: `mgmtServer.Stop` first, which waits for open
`WatchAlerts` streams (`GracefulStop`; clients come and go with `Watch` and
`Unwatch`), then `pipe.Stop`. The other deferred stops (reporter, analyzer,
stitcher, notifiers, writer) are taken to return: they wait for nobody, or, as
the reporter's last report, for a call with a time limit. `signal.Notify` drops a signal that
does not fit into `sigCh`. The forced resume after ten seconds may happen at any
time.

`EdgePersistence` follows the events that each edge counts: the count of an edge is
kept as the set of the events it stands for, so that counts are compared without
summing them. `window`, `taken[f]`, `batch`, `disk` and `lost` are the places where
an edge can be. A record in the store is identified by time and key, as `edgeKey` does,
and overwrites its predecessor. An event's time is its number, so the clock is
taken to be strictly increasing (the code uses nanoseconds). The four callers
of `MergeWindow.Flush` are `Flushers`; each swaps the window (`Take`), writes one
entry per step (`FlushOne`) and, except for the periodic flusher, commits
(`StoreFlush`). I/O errors of Pebble itself are left out; the one error that
the program produces itself, writing to a closed store, is modelled with its
consequence, that `Flush` abandons everything it has taken. Nodes and the cache
in front of them are not in this module. Each event yields one edge, which is
the most that `deriveEdges` returns.

`AgentPolicy` gives each `OnAck` goroutine a program counter. The server is
reduced to its current version, the bundle of each version (its rules, and the
version it was written for, because a failing write keeps the bundle of the
revision that was copied) and whether it tells this agent the version (`told`:
neither quarantined nor revoked, and in the target). An agent refuses a bundle that
names another version. Adding the rules
of a bundle and removing all others are two steps, as in `applyPolicyBundle`,
which may fail after any part of the additions (a rule that does not parse),
or after both (the copy on disk). `Restart` restores the saved version and the
built-in rules.

`PolicyServer` gives each request in service a record `req[h]` that holds what
it has read so far. A step is what a handler does under one lock, or one write
of the state. `refreshPolicyDeploymentFromAgents` thus takes three steps, and
`saveState` several: the fleet under `telemetry.mu`, the policy under `policy.mu`,
and under neither the system calls on the state file, the default backend: open
with truncation, write, rename, and remove when the rename fails. All requests
use one temporary file, and a descriptor follows its file, so a request may write
to what another has renamed into place. A file is absent, empty, a whole state,
or torn, which no load can decode (`StayDown`: the daemon does not start; an
operator's repair is out of scope). A PostgreSQL backend saves with one statement,
which is the case that no two saves overlap. Any call may fail, as a bundle write
may; the code logs it and goes on. Policy
content is one value, `rules`. The text of rules, whitelists and taint sources
does not matter to the properties. A bundle is the rules in the file and the
version it was written for. The answer to a report is computed in three steps,
as `policyAckMessageForAgent` does.

`ControlLoop` joins the server with its agents and closes the loop: the version an
agent reports is the one it applied, and what it applies is the bundle the
server hands out when the agent asks. Answers may be lost or acted upon late and
in any order. The steps of one application are in `AgentPolicy`; here it is one
step that succeeds or fails. Agents do not restart here. `enforced` and `lost`
are history.

`SiemOutbox` numbers events in the order of appending. Lines are delivered one
at a time; a delivery may fail although the SIEM has the line. And a call may see no
error although the line is not received (`SendLine`): `conn.Write` on tcp and udp
hands it to the system, and an Elastic bulk answer with status 200 may refuse
single items in its body, which is discarded. Such a line arrives later, out of
order (`ArriveLate`), or never. `MCOutbound` runs it together with `NotifyDelivery`.

`Approvals` has one step per method, because all of them run under `s.mu`,
except that `request` draws its number and reads the clock before (`DrawNumber`).
Expiry is part of every method, as in the code. The clock counts seconds, the
precision in which expiry times are stored. A save may fail and is only logged.

`Coordinator` keeps time as ages. A tick reads clock and health (`Tick`), commits
its transaction (`Commit`), and assigns `c.status` (`Show`), all within `Delay`;
other nodes may take their own steps between these. The transaction may fail for
the node, before or after it was committed (`ReconcileFails`); a COMMIT that the
database executes after the node gave up is taken to come before that. `MCCoordinator` gives
the nodes their roles. The clocks of the nodes are taken to agree: the code
compares `time.Now()` of different nodes without further provisions. Only the
PostgreSQL backend and active-passive mode are modelled.

`AlertFlow` has the operations of the workflow manager, each one step because
all run under `m.mu`. Severity and source, which are part of the key as well, are
folded into the pattern. Counts, reasons and classifications decide nothing and
are left out. `AlertPath` joins it with the channel: the end of a scan, the two
receivers, broadcast, subscribe and unsubscribe. What a scan finds is an input,
and a later scan may report it again, as the analyzer does. `MCAlertPath` gives
the findings.

`NotifyDelivery` has `Send`, called by the main loop only, one attempt per step,
and the replays of several operators. A call of a notifier is accepted, fails,
or arrives although the caller sees an error. `deadLetters` (the list, which
is cut at `maxHistory`) and `deadLetterItems` (the map, which is not) are kept
apart as in the code. Ids are numbers; in the code they contain the time in
nanoseconds. Tickets are left out, and so is `Close`, after which a replay finds
no notifier (`delivery.go:160`) and leaves its letter as it is. The notifiers have different names, since the
daemon adds at most one of each kind.

`AuditLog` follows inodes, so that a handle keeps writing to a file that another
process has renamed. `Log` is up to four steps (size test and close, rename,
open and prune, write), `ApplyRetention` one per system call and entry written.
Every process may be between any two, and there may be several `providaptctl`
processes (`Cli`). Backups and archives are named by the second, read from the
clock when the name is made: a rename replaces a backup of the same second, which
`removed` then has together with what was pruned, and a second archive replaces
the first (`replaced`). A rotation that cannot open the new file puts the old one
back, over whatever is at the path by then; `revived` is what the daemon has not in
memory of such a file. A write that fails may leave part of a line, and the next
entry on that line is `garbled`: it is on disk and replay skips it. When the
daemon starts, its memory is what replay read: all of the file, or a first part
of it, since `New` tolerates a replay that fails; `unread` is the rest. A crash is
one of the process, not of the machine: what was written stays. An entry is written
over another as a whole. `MCGovernance` runs it together with `Approvals`.

Definitions marked "mutant" in the modules are plausible mistakes in the
definition that follows them. None is part of a specification; each shows that
a property notices the mistake.

## 3. The runs

Run one with `tlc -workers 2 -config <cfg> <module>`; most take less
than a minute, `coordinator`, `outbound`, `governance` and those of `ControlLoop`
one to three and a half.

`outbound` and `governance` each explore two modules that share no variable. One
moves while the other rests in its initial state: the product of the two would add
no behaviour of either, only states. Their states are the sum of those of the parts
(less the common initial state).

### Passing runs

| Run | States | What it shows |
|---|---|---|
| `worker_pool` | 166 719 | Two slots, four pushes (both indices go around the ring twice, and full, empty and wrapped states all occur), an output channel of one, Stop at any time. The ring implements `BoundedFifo`, refuses only when it was full, and does not race on slots. What parsed is handed on in order. Everything pushed is popped unless `Stop` comes first. |
| `ingest_handshake` | 1 424 | No bounds: all reachable states. `TokenMeansPaused` is why the blocking send in `onHighPressure` is harmless: with a token left in `pauseCh` whenever the main goroutine may need `p.mu`, the monitor finds `p.paused` set and does not send. It depends on the main loop draining `pauseCh` after each `AddEvent`. A shutdown ends unless a client keeps watching alerts (`ShutdownCompletes`). |
| `edge_persistence` | 216 350 | Two keys, three events, two background flushes, batches of two: a key recurs after a flush, flushes overlap, a batch fills by itself. `CountsBounded`, `StopLosesOnlyInFlight`, `StopCompletes`, `ArchiveHasPendingWrites`. |
| `agent_policy` | 40 546 | Two goroutines, two versions with or without a bundle of their own, for this agent or not, a restart, any failures. The agent converges where it is told of a version it can fetch; an application that met no other leaves exactly its rules (`LoneApplicationIsExact`) even on top of a mixture. |
| `control_loop` | 2 604 832 | One agent, one request of an operator and two reports, two at a time, two policy contents, a crash, any failing call: two savers overlap at each of their system calls and a third save follows. `ReturnedVersionsSurvive`, `StateFileIsWhole`, `ReportsKeepEnrollment`. Requests in service are symmetric. |
| `control_loop_crash` | 5 696 408 | One request at a time, but two of operators and three reports, and a crash: what it takes to apply one version under the number of another and to report it. `AppliedIsEnforced`, with its exception reached. States are told apart by all but `mixed` and `returned`, which only the properties of the other run mention (`WithoutSaveHistory`). |
| `outbound` | 183 776 | `SiemOutbox` (31 915): three events, two faults, any number of calls without receipt. `FaultsLoseNothing`, `FirstCopiesInOrder`, `OutboxDrains`. `NotifyDelivery` (151 862): two notifications, two notifiers, two attempts, two operators, a dead-letter list of one, so that it overflows. `NothingForgotten`, `DuplicatesExcused`, `CallsReturn`. |
| `coordinator` | 797 783 | Three nodes; node 2 is the configured leader and node 3 an observer by role; one fault of any kind, and a crashed node may restart. Interval, timeout and delay 2, 3 and 1 satisfy the same relations as the code's 10, 45 and 5 seconds and are tighter. |
| `alert_path` | 335 907 | Three findings, two of them on one node and two with one key, so that records are both merged and replaced; a list of two, so that trimming happens; two watchers for one subscription; channels of one. `RecordsStayFindable`, `MisfiledOnlyWhenDisplaced`, `SilenceHolds`, `EachIsTaken`. |
| `governance` | 759 119 | `Approvals` (440 188): two clients, three requests on a list that keeps two, so one is dropped; two restarts and one failing save. `OneGrantPerApproval`, `NumbersNotReused`, `OneGrantPerRun`, `ExpiredNeverGranted`. `AuditLog` (318 932): three entries, files of one, one backup, two entries in memory, one `providaptctl`, two seconds, two failures (a crash and a failing rotation together are what brings back a file the daemon does not know): both processes rotate, in one second or in two, a backup is pruned or replaced, memory overflows, a replay reads a part, and a crash or failure falls between any two steps. `NothingLost`, `FileIsInMemory`. Every exception they make is needed here, but for `revived` in `NothingLost`, for which it takes a fourth entry (7 446 422 states, checked as well). |

### Runs that find a disagreement

`alert_path_forward`: "StartAlertForwarder begins forwarding analyzer alerts to
all gRPC subscribers" (`server.go:241`), but `main.go:3054` receives from the same
channel. An alert reaches one of the two: what the main loop takes is not
streamed, and what the forwarder takes is neither filed, notified nor logged.

`audit_replay`: "Non-fatal — entries remain on disk" (`audit.go:89`), but they
remain only until the next retention, which rewrites the file from the memory
that the failing replay left empty or partial.

### What the passing properties leave open

Some passing properties state the guarantee together with its exception, which
is a limit of the code a reader should know. In several cases a document or
comment promises more:

* The main loop's inner select of a pause ends the daemon on any signal
  (`PausedSignal`, `main.go:3083`), SIGHUP included, where `main.go:2983` announces
  "shutdown (SIGINT/SIGTERM) + reload (SIGHUP)".
* `ShutdownCompletes`: a client that watches alerts keeps the daemon from ending,
  since `GracefulStop` (`server.go:419`, deferred at `main.go:2970`) waits for its
  stream and nothing ends it.
* `ZeroCopyReader.ReadRaw` says of its slice that it is "valid only until the next
  call to ReadRaw" (`zerocopy.go:52`), while the dispatcher queues the slice and
  reads on. `ParsedAreHandedOn` is about which sample is handed on, not about its bytes.
* `CountsBounded` is not an equality: the first occurrence of an edge is written
  with count 1 (`pipeline.go:195`) and counted again in the merged record, which
  has another time and so another key. `docs/architecture/overview.md:168` says
  "500 identical events → 1 edge with `count=500`".
* `StopLosesOnlyInFlight`: entries that the pressure monitor or a backup has
  taken are lost when `Stop` closes the store, which waits for neither.
* `ArchiveHasPendingWrites`: a backup misses what another flusher holds.
* `LoneApplicationIsExact`: two overlapping `OnAck` goroutines may leave a
  mixture of rules under the version of one of them. And a restarted agent
  (`main.go:1214`) restores the version, not the rules, and finds itself up to
  date, while `docs/user-guide/policy-lifecycle.md:61` has the operator confirm a
  rollout by "agents report the desired policy version".
* `ConvergesToCurrent`: an agent never reaches a version whose bundle was not
  written (`server.go:805` logs it and goes on), and is told nothing while it is
  quarantined or outside the target.
* `ReturnedVersionsSurvive`: a request that still holds an older snapshot
  overwrites a newer one, and a crash then makes the newer version disappear.
* `StateFileIsWhole`: two saves that overlap may rename a file into place that one of
  them has just truncated, or is still writing to. A daemon that dies then does not
  start again, until the file is repaired by hand. Without a crash the next save
  that meets no other replaces it.
* `StaleClaimsOnly`: two nodes may show themselves as the leader for an interval and
  a tick; one that has committed that it is not healthy still shows the lead
  until it assigns its status.
* `AppliedIsEnforced`: an agent may be told and apply a version that is not yet
  saved. After a crash its number is given to another policy, and the agent's
  report counts for that one.
* `FaultsLoseNothing`: what is appended between the read and the truncation of the
  SIEM outbox (`main.go:4040`) is deleted undelivered, as is what was sent without
  an error and without receipt: on tcp and udp `conn.Write` confirms nothing, and the
  body of an Elastic answer is not read. `docs/compliance/data-retention.md:13` says
  "delete after confirmed delivery or expiry".
* `OneGrantPerApproval` and `NumbersNotReused` hold as long as saves succeed;
  `OneGrantPerRun` and `ExpiredNeverGranted` hold in any case.
* `StopReturnsUnlessBlocked`: `Stop` of the worker pool waits for ever when nobody
  reads `EventCh` any more and it is full, or when `ReadRaw` does not return.
* `MisfiledOnlyWhenDisplaced` and `SilenceHolds`: a second pattern on a node
  replaces the first record, its silence included, and the first pattern's
  findings then count for the second record.
* `DuplicatesExcused`: a replay that fails leaves two letters for one delivery, and
  two operators may replay one letter at once. `notify.go:116` says that notifiers
  are served "concurrently"; they are served one after the other, in the main loop.
* `NothingLost`: retention rewrites the audit file from the memory of the daemon
  and so removes, unarchived, what only the file held: entries beyond `maxSize`
  and those of `providaptctl`. A crash in the middle of the rewrite loses what
  was to be written back. When the daemon starts while another process is between
  the rename and the open of a rotation, and that open fails, the old file is put
  back in place of the daemon's new one: the daemon goes on writing to a file without
  a name, and a retention removes, unarchived, what the old one held (`FileIsInMemory`
  excepts these entries). Entries that a failing replay did not read go the same
  way. Two rotations within a second leave one backup, two retentions one archive;
  an archive that fails may truncate a complete one of the same second. An entry
  that follows part of a line is on disk where no replay finds it. After a rename that failed, the store stays closed and
  refuses every later entry.

### Fairness

* Worker pool: each goroutine runs on, and the user reads `EventCh` until `Stop`.
  Nothing makes `ReadRaw` return.
* Ingest loop: goroutines are scheduled. Taking `p.mu` and a ready case of a
  select is strongly fair, since Go's mutexes hand over to a starving waiter
  and select chooses at random. `notifyMgr.Send` returns. Nothing is assumed of
  events, signals, memory pressure or clients that watch alerts.
* Edge store: a goroutine that is in the middle of a flush or of `Stop` goes on.
  No flush has to begin.
* Policy client: the reporter's ticker keeps reporting, goroutines go on, and
  a download or application that is repeated for ever does not fail for ever: the
  server accepts only rules that the agent's parser, which is the same, accepts. A
  bundle of another version is no such download: it is always refused. Publications
  are bounded, so the conclusion is about the last version.
* SIEM outbox: the ticker fires, and faults are bounded. A line that was sent need
  never arrive.
* Coordinator: the ticker of a running node fires at its interval, a tick ends
  within the time limit of its transaction, the assignment of its status included
  (`Clock` does not advance past either), and faults are bounded.
* Alert path and notifications: both receivers run on and a call of a notifier
  ends, with success or not. The HTTP notifiers have a time limit of ten
  seconds; the mail notifier has none, so with it this is an assumption on the
  mail server.
* The control loop, the approvals and the audit log state safety only.

Deadlock checking is on for the coordinator, which never stops. The other
systems may end: the daemon or pool stops, or a bounded number of inputs is used
up.

## 4. The proofs

Eight modules hold proofs, for every value of the constants: `WorkerPoolProofs`
(the ring and the pool around it), `PipelineProofs` (the ingest loop and the edge
store), `AgentPolicyProofs`, `ControlLoopProofs` (the server and its fleet),
`FileProofs` (the SIEM outbox and the audit log, files that are shared without a
lock), `ApprovalsProofs`, `AlertProofs` (the workflow with its channel, and the
notifications) and `CoordinatorProofs`. For each component there is an inductive
invariant, which the initial states have and every action keeps, and from which the
properties of section 3 follow. Every safety property that a passing run checks is
proved. TLC has checked each invariant on small bounds before it was proved.

**Ring.** `popped` is a prefix of `pushed`, slots are not shared, nil is never read,
a refusal means full, and the ring implements `BoundedFifo` (the safety part of a
refinement, which is all `BoundedFifo` asks). None of these is inductive by
itself. `RingInv` adds what relates shared and local state: the indices count
the histories and are at most a lap apart (`IndexInv`), a goroutine's copy of its
own index is exact and its copy of the other's errs on the safe side
(`LocalsInv`), and the slots between the indices hold the pushed items in order
(`SlotsInv`). The arithmetic core is `SlotInjective`: two indices less than a lap
apart are in different slots.

**Pool.** Every step of the pool is a step of the ring or leaves it alone
(`PoolStepsAreRingSteps`), so all of this holds in the pool, for every schedule of
dispatcher, worker, reader and `Stop` (`PoolKeepsRing`, `PoolImplementsFifo`).
`ParsedAreHandedOn` says that an increasing list of positions leads from what is
handed on to the popped samples that were not rejected. Popping a sample
extends that list (`EnumerationGrows`), failing to parse the last one takes it off
again (`EnumerationShrinks`), and sending and receiving only move the border
between the worker, `eventCh` and the reader. Besides the ring's invariant this
needs that the sample in the worker's hands is the last one popped
(`InHandIsLast`).

**Ingest loop.** `TokenMeansPaused` is not inductive: from `checkPause`'s flush to the
drain, `p.paused` is clear and the token may still be there. `TokenOutlivesFlag`
says that it is so only there. `SendWaitsForDrainOnly` follows from the same
invariant and is the reason why the blocking send under `p.mu` does not deadlock:
whenever it finds `pauseCh` full, the main goroutine receives from it next and
does not wait for `p.mu` (`NoCircularWait`).

**Edge store.** `EdgeInv` says of every event where it is counted: somewhere
(`EveryEventHeld`), and of two edges that count it one is the first occurrence
that `mergeEdges` stored by itself (`OneMergedCopy`), which gives `CountsBounded`.
That a write never replaces another edge needs `TimesIdentify`: an edge is known by
its last time, since the clock increases and the event that gave the edge this time
is one it counts (`LastIsCounted`). `StopProgress` and `BackupProgress` say what is finished at each
step of `Stop` and of a backup; the other two properties are their last lines.

**Policy client.** `LoneApplicationIsExact` speaks of the end of an application. The
invariant follows one from the download on: nobody else is applying
(`SoleIsAlone`), the bundle is the one written for its version, and after the
additions the rules contain the bundle, after the removals they are the bundle
(`SoleProgress`).

**Policy and fleet server.** The server's state is in several places: in memory,
in the state file, in the temporary file, and in the snapshots that `saveState` has
taken and not yet written. `Consistent` says the same of all of them: a snapshot may be old, but it
has the same rules for the versions it has, and what it shows as applied is
deployed. With that, a late write, the renaming of another request's file and a start after a
crash are harmless for `AppliedIsEnforced`. `ReturnedVersionsSurvive` needs that
nothing a save may put in place lacks its version (`Ready`), which is so from the
moment it opens the file when no older snapshot waits. `StateFileIsWhole` needs
that a save alone finds what it put into the temporary file, unless a failing
save has removed it (`Undisturbed`), and that whoever still writes to the state
file overlapped the save that renamed it (`Behind`). What a request has read between its locks may be stale too:
`ReqOK` states, per step, that it is still something some agent has applied, and
the relation `Later` that agents only add to what they have applied. The
theorems hold for any finite fleet and any number of requests in service, where
the run has one agent and two requests. `ReportsKeepEnrollment` is proved as an
action property.

**SIEM outbox.** The file only grows while a forward is under way, so what was
read and not delivered is still there, and what is there and was not read is
late (`ForwardCoversFile`). The file is in the order of the appends
(`FileInOrder`), hence the next line is older than everything that remains to be
delivered, which gives `FirstCopiesInOrder`. A line that was sent without receipt
may arrive at any time, so of these too everything older was received before
(`SentInOrder`).

**Audit log.** A file is the backup of some second, the active file, or counted as
removed (`FilesAccounted`), so an entry is lost only where a file is truncated or
overwritten. `FileIsInMemory` covers the truncation, and it is kept by the retention
because memory is what is kept and what was archived (`RetentionCovers`). During
the rewrite the file starts with what was written back, and what follows it came
from `providaptctl` (`RewriteUnderWay`): this is what an overwritten entry is, and
why memory may be replaced at the end. `Those` takes the entries of a set in order by
their rank among its positions, for what is kept and for what a replay reads; that
it takes them all is a bijection argument (`ThoseAreTaken`). The theorems hold for any number of `providaptctl` processes,
files and failures.

**Approvals.** A used item stays used and its number is never drawn again.
Within one run that follows from the counter (`NumbersOfItems`, `NumbersDrawn`,
`RecentAreUsed`) and holds whatever saves fail. Across a restart it needs the
file, which is the list as long as saves succeed (`FileIsCurrent`,
`GrantedAreUsed`). `ExpiredNeverGranted` is proved as an action property from the
types alone, since expiry is part of every method.

**Alert path.** `RecordsStayFindable` needs its converse: an entry of the index
that does not lead to the record of its key belongs to a displaced key
(`IndexOwnOrDisplaced`). `SilenceHolds`, an action property, rests on
`SilenceIsRecorded`: what an operator silenced is in the record the key leads to,
unless it was displaced.

**Notifications.** `NothingForgotten` needs little more than the types. For
`DuplicatesExcused` the invariant follows a delivery that nothing excuses
(`SingleCopy`): it has one letter and one replay at a time, of that letter; it is
not tried after it has arrived; if it has arrived and has a letter, a replay is
about to clear it; and what `Send` has still to try was never sent, filed or
replayed. Clearing removes the first occurrence of an id from the list, which exists
because a set of positions has a least one (`FirstPosition`).

**Coordinator.** `FreshHeartbeat` follows from `HeartbeatsInTime`, which says how old a
heartbeat is at each step of a tick: no older than an interval and a tick, hence
within the timeout, so any other node that elects counts it and does not prefer
itself over a preferred one that leads. Since a commit and its status are two
steps, the order of two leads is stated for what nodes show and for what they are about
to show alike (`ClaimsInOrder`): the preferred one committed last, or has committed
since that it is not healthy. The proof uses of the election only that the
elected node is preferred among the candidates (`ElectedIsPreferred`).

### Assumptions

The constants are assumed to be what the code makes them, and TLC evaluates
every assumption on the run of its module:

* ring and pool: capacities are positive, nil is no item;
* policy server: the fleet is finite, the empty group name is no group, the empty
  rules are rules;
* policy client: the built-in rules are rules, and there is a first version;
* approvals: the list has room for one item, and the time to live is positive;
* alert path: the limits are natural numbers, while the deduplication window and
  the silences may be any integers, because `time.ParseDuration` accepts negative
  ones;
* notifications: the notifiers are different, and there is at least one attempt and
  room for one dead letter, as `NewManager` has it;
* edge store: a batch holds at least one edge;
* audit log: the limits are positive, as `New` sets them, clocks do not go back, and the daemon is not a
  `providaptctl`;
* coordinator: `Delay <= Interval` and `Interval + Delay <= Timeout`, which the
  defaults (a heartbeat every 10 seconds, a timeout of 45) and the limit of 5
  seconds on a transaction satisfy (with ample room for what follows the commit);
* all bounds on calls, faults, restarts and time are natural numbers: the theorems
  hold for every such bound.

### Only model-checked

* The liveness properties (`EveryPushIsPopped`, `StopReturnsUnlessBlocked`,
  `AddEventReturns`, `MonitorSendCompletes`, `ShutdownCompletes`, `StopCompletes`,
  `ConvergesToCurrent`, `OutboxDrains`, `OneLeaderInTheEnd`, `EachIsTaken`,
  `CallsReturn`): fairness and ENABLED are outside the prover's reach.

No induction over data is available either, since the provers cannot instantiate a
theorem that has an operator as its parameter. The models are written so that none
is needed: counts are sets of events, a filtered sequence is an enumeration of
positions, and the one least element that is needed comes from a well-founded
relation.

Type correctness is proved of all components, of the notifications and the audit log
as a part of their invariants, and is in no run. Nor are that `popped` is a prefix of
`pushed`, that nil is never read, and the mutual exclusion and the absence of a
circular wait in the ingest loop, which are proved.

## 5. Plan

Proofs: `PoolKeepsRing` and its companions are about a pool of one worker. An
application in `AgentPolicy` that meets no other could be shown to amount to the
single step it is in `ControlLoop`.

Models:

1. The file backend of the coordinator, where a heartbeat can be lost
   (`coordinator.go:150`).
2. `HotCache` (`internal/storage/cache/lru.go`): eviction of nodes with write-back
   while they are updated, called from `onMidPressure`; composed with
   `EdgePersistence`.
3. Tickets on dead letters (`main.go:4545`), which are looked up and created without
   a lock between the two.
4. Self-healing and adaptive control; the transport manager, which records the
   hash of a payload as known before it is sent (`pkg/transport/manager.go:197`), and
   the batch writer.
