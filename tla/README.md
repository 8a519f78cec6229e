# A verification of Breeze's command delivery

Breeze is a remote monitoring and management system: an API server (TypeScript,
PostgreSQL, Redis), an agent on every managed machine (Go), web and mobile front
ends. This directory holds TLA+ models of the part on which everything else
rests, *getting a command to a machine, running or stopping it there and getting
its result back*, and of the agent's own crash-safe rollback; the TLC
configurations that check them on small instances; and TLAPS proofs for instances
of every size.

Paths below are relative to `src/`; `api/` abbreviates `apps/api/src/`, `agent/`
abbreviates `agent/internal/`.

## 1. Inventory

| component | state | operations | what makes it hard |
|---|---|---|---|
| Command queue: `api/services/{dispatchDeviceCommand,commandDispatch,commandDelivery,commandClaimEligibility,commandQueue}.ts` | `device_commands` rows: status, `executed_at` (claim timestamp), `deliver_by`, `result` | enqueue, claim by WebSocket push or heartbeat, prepare, release, refuse, wait | several API processes, READ COMMITTED, claims undone after the fact |
| Result ingest: `api/routes/agents/commands.ts`, `api/routes/agentWs.ts`, `api/services/commandResultAcceptance.ts` | the same rows and per-type records (script executions, backups, ...) | look up, finalize, park after a failure | the same result arrives over two transports, late, more than once |
| Stale command reaper: `api/jobs/staleCommandReaper.ts` | none of its own | fail rows past one of two clocks, close what they own | reads without locks, writes later |
| Cancellation: `api/routes/devices/commands.ts`, `api/routes/admin/abuse.ts`, `api/services/commandCancelPropagation.ts` | none of its own | user cancel, decommission, org move, sweeps | a command that is cancelled may be on the wire |
| Agent execution: `agent/heartbeat/heartbeat.go` | `seenCommands`, worker pool | deduplicate, run, answer | two delivery channels, restart loses memory |
| Agent worker pool: `agent/workerpool/pool.go` | channel, wait group, flags | Submit, StopAccepting, Drain, workers | lock-free check-then-act against shutdown |
| Agent script executor: `agent/executor/executor.go`, `agent/heartbeat/handlers_script.go` | `running` map of reservations, process groups | Execute, Cancel, refusals of ids not seen yet | a cancel during setup, a kill before the group is known, duplicates |
| Script cancellation: `api/services/scriptCancellation.ts`, `commandResultHandlers.ts`, the sweep of `staleCommandReaper.ts` | `script_executions`: status, status before the cancel, cancel state, cancel command, output; batch counters | request, retract, deliver, acknowledge, sweep | five closers and two reapers race for one row, in transactions of their own |
| Agent result resend: `agent/websocket/{result_resend,client}.go`, `agent/heartbeat/backup_result_outbox.go` | bounded record of sent results with timers, channel, files | record, ack, error frame, timer, eviction, flush | timers, pumps and senders race; connection and process end at any time |
| Agent rollback: `agent/rollback`, `agent/updater/backup_swap.go`, `agent/heartbeat/handlers_rollback_backend.go` | state file, swap journal, backups, live files | execute, swap, recover, commit, reconcile, report | death between any two durable writes, writes that fail |
| Relay between API instances: `api/services/agentCommandRelay.ts` | pending requests | request, reply, time out | reply after timeout |
| Agent watchdog and ordinary updates: `agent/cmd/breeze-watchdog`, `agent/updater` | files, processes | supervise, swap | crash between two steps |
| PAM lifetime: `agent/pamlifetime` | leases on disk | apply, renew, clean up | crash recovery |
| Automation, authentication, AI tools, alerts, patching, tickets, billing | their own tables | CRUD and periodic jobs | they reach devices through the command queue |
| Web, mobile, add-ins, collectors, backup engines, installers | - | - | I/O and presentation, no protocol of their own |

How they interact: a request inserts a row and, if the device is connected, pushes
it itself; otherwise the device's next heartbeat claims it. Both claim with a
compare-and-set on `status = 'pending'` that stamps `executed_at`, and undo the
claim with one on `(status, executed_at)`. The agent runs the command on its pool
and sends the result over the socket and over REST. Whoever finalizes it does so
in one transaction with the per-type records. Meanwhile the waiting request, the
reaper, users and sweeps may close the row; some of these closings are
provisional and a late result replaces them.

What makes it correct: a result is recorded once and together with the row that
shows it; settled rows stay settled; nobody undoes or fails a claim that is not
the one it looked at; a power command goes out alone; every row and every
execution is settled eventually; accepted tasks of the pool run. A script is
reported stopped only on proof from the device, and what it printed is kept. An
interrupted rollback can be undone, is reported truthfully and comes to an end,
unless its commit was cut off from its record (`rollback_stuck` in section 3) or a
failed save leaves it to the next start. A durable result is lost between socket and
disk only for a reason the code knows: the outbox drops it for its age, for room, for
another result of its command or because it cannot write it, or the client stops with
it in the channel.

The hazards behind these properties are listed, with their lines, in
`PROJECT.json`.

## 2. Modules

* `WorkerPool`: the pool of `agent/workerpool/pool.go`.
* `DeviceCommands`: the rows of one device and all their writers.
* `CommandOutcome`: the abstract promise that `DeviceCommands` implements.
* `ScriptAgent`: the abstract promise of the agent about one script and its
  cancels. `ScriptExecutor`: the executor that implements it.
* `ScriptCancellation`: the server's side of one execution, composed with
  `ScriptAgent` (it EXTENDS that module and puts its actions into its own).
* `ResultResend`: how the agent's WebSocket client delivers results.
* `Rollback`: engine, state file and swap of a component set.
* `MC...`: instances for TLC.
* `WorkerPoolProofs`, `DeviceCommandsProofs`, `ScriptExecutorProofs`,
  `ScriptCancellationProofs`, `RollbackProofs`, `ResultResendProofs`,
  `ResultTrackerProofs`: theorems. `FunctionSums`: lemmas on sums over finite sets.

The definitions headed "Mistake:" are wrong versions of the definition that
follows them. No specification uses them; they are substituted one at a time to
see that the properties notice.

### WorkerPool

One action per step another goroutine can observe. `Submit` is three actions:
load `accepting` (`SubmitCheck`), `wg.Add` (`SubmitAdd`), the `select` on the
channel (`SubmitOffer`), which panics on a closed channel. `Drain` is
`DrainStop` (stop accepting, close `stopChan`), `DrainWait` (wait group at zero,
or the context's deadline) and `DrainClose` (cancel, close the channel). A worker
is `WorkerSelect`, `WorkerDrain` (the `range` loop after `stopChan`) and
`WorkerFinish` (the end of a task, panics recovered). Which ready case of a
`select` is taken is a free choice, as in Go.

### DeviceCommands

A row has the columns that decide anything: `status`, `executedAt` (0 is NULL; the
claim timestamp is a counter, so two claims of a row have different ones),
`deliverBy` relative to the clock, and `mark`, the part of `result` that
predicates read: a server timeout, a queue acknowledgement, a parked result, the
agent's own result, a cancel, a deferral or refusal. `owner` stands for the
`script_executions` record of a script command. Payloads, types beyond the classes
that the code distinguishes, tenants and messages are left out.

| actions | code |
|---|---|
| `Enqueue`, `PushPowerCheck`, `PushClaim`, `PushDeliver`, `PushRelease` | `dispatchDeviceCommand` and the push of `executeCommand`; each database transaction of the request is one action |
| `WaitResult` | `waitForCommandResult` |
| `HbScan`, `HbCommit`, `HbRollback` | the heartbeat's (and the REST poll's) transaction: locked scan and count, then eligibility, power barrier, claim, preparation and commit |
| `Deliver`, `AgentRefuse`, `Forget` | the agent: `executeCommand` with `markCommandSeen`; a full or stopped pool; eviction or restart |
| `IngestLookup`, `IngestFinalize`, `IngestPark` | one result handler per transport: pre-read, finalizing transaction, parking |
| `ReapScan`, `ReapLock`, `ReapCommit`, `ReapRollback`, `ReapExecution` | the reaper's pass in one transaction, and its pass over script executions |
| `CancelPending`, `Sweep` | cancels row by row with propagation; suspensions and offboarding, without |
| `AgeDelivery`, `AgeExecution`, `AgeCreated` | the clock |

Database model: READ COMMITTED. A single statement or short transaction is one
action; a long one (heartbeat, reaper pass) keeps the rows it touched in `Locked`
until it ends, other writers of these rows wait, `SKIP LOCKED` skips them, plain
reads do not notice. Results stay in `results` and may be applied again at any
time: this is the agent's resending, and a result that is never looked up is a
lost one. The outcome of checks outside the model (eligibility, preparation,
persistence, sends) is a free choice that a run enables through `Events`.

`CommandOutcome` knows five outcomes of a command: none, open, provisional,
final, void. Outcomes only move forward, final and void ones stay, and the records
of a command grow by one in the very step that makes its outcome final.

### ScriptExecutor and ScriptAgent

`Execute` is a call per delivery: `Reserve` (the id is taken, refused as a
duplicate, or meets the refusal a cancel left), `SetupFails`, `BeginStart` (the
critical section that decides between start and cancel), `Start`/`StartFails`,
`Attach` (the process group becomes known), `Reap`, `Stamp`, `Release`. `Cancel` is
`CancelLookup`, `CancelRefuse` (nothing known: a refusal with an expiry is left),
`CancelMark`, then `CancelGrade` when the execution is released or `CancelGiveUp` at
the backstop. `Kill` is the tree kill of the cancelled or timed out context, which
may fail; the script itself may start children, and children and leader may end on
their own, the leader also before its children, whom nothing then ends.
`NotFoundHere` is the round over the user helpers that a `not_found` takes. A step
is one critical section or one system call. `ScriptAgent` reduces this to attempts
that wait, live, are doomed or over, and to cancels with their answers; the
refinement mapping is in `AttemptOf`.

### ScriptCancellation

| actions | code |
|---|---|
| `PushScript`, `MarkRunning`, `ReleaseClaim`, `HeartbeatScript` | delivery of the script (`scriptDispatch.ts`, the heartbeat's claim) |
| `Retract`, `Recovered`, `StartCancelling` | the three cases of `cancelScriptExecution` |
| `DeliverCancel`, `ReleaseCancel` | `deliverCancelCommand` and the heartbeat |
| `IngestResult`, `IngestFails` | ingest of the script's result with `handleScriptResult`, or its failure and parking |
| `Ack`, `AckCommit`, `AckFails` | ingest of the acknowledgement: `applyScriptCancelAck` commits on its own connection while the ingest holds the cancel command's row (`acking`) |
| `ReapRow`, `ReapCancelRow`, `ReapExecution` | the reapers |
| `SweepObserve`, `SweepRevert` | `reapStaleCancellations`, selection and compare-and-set |
| `RowCancel` | the command cancelled as such, with propagation |

`commandResultSchema` keeps the keys it declares; the marker by which the agent's
result names a cancel command is not one of them, so closer 1 never finds its
proof. `readOutcome` finds the agent's word only on the socket transport.

### ResultResend

`record`, `Forget`, `onProcessingFailed` and `Fire` are the tracker's critical
sections. A call of `SendResult` is `Produce`, `Resend` or `FlushNext` followed by
`Queue` or `Refuse`; the write pump is `Write` or `Preserve`; `Cut`, `PumpsEnd`,
`Reconnect` and `Stop` are the connection's life. Results of a command have ranks,
because a queued workload answers twice under one id. `Enqueue` puts a result into
the outbox in one of three ways: it is written, after expired files and as many of
the oldest as it needs are removed (`EnqueueWritten`); it is refused before anything
is touched (`EnqueueRefused`: an unsafe id, no directory); or it fails after the
removals (`EnqueueFailed`: encoding, write or rename). `lost` remembers the durable
results that are given up and why: `expired`, `evicted`, `replaced` by another result
of the same command, or `failed`. A stopped client's channel is not emptied, and what
is in it is `Stranded`. The identity of a record
(`life`), which Go's pointer comparison in `fire` tests, is a number no pending
timer or resend refers to. A file of the outbox is named by its command's id, and
`Deleted` takes out that one. Of the times of the sends only their order matters:
`before` is that order, on the records there are (sends within one tick of the
clock count in the order they took the lock). The eviction loop is one step:
`Oldest` says what it may have removed after some turns, `Fits` when it may stop,
and `Evicts` that it stops at the first turn that fits.

### Rollback

Every durable write is an action; `Try` lets it succeed, or fail with or without
its effect. `Crash` may come between any two, `Boot` with `Reconcile` follows. The
engine's program counter names the step of `Execute`, `Reconcile` or the backend
that comes next. A directive binds a current version per component (`Current`) and
one target. `Inventory` reads the agent's own version from the process and the
others from the files, as the code does.

The server records an observation and acknowledges it (`SendObservation`,
`Acknowledge`), or leaves it unanswered: when the device was deleted and enrolled
anew (`Disown`) it has none of the rollbacks begun before, and an observation of one
stays at the head of the queue (`Blocked`). The third refusal, of versions that do not
match the directive (`agentRollbackResult.ts:172-174`), cannot meet an observation
of this agent, which takes its versions from the directive by the same rule
(`executor.go:87-101`).

Two history variables serve the properties: `found`, the files a rollback was
received over, and `committed`, the rollbacks whose swap was committed.

## 3. Runs

All runs end on their own; deadlock checking is off where the system may come to
rest: every command settled, every worker gone, every result delivered. It is on
for `rollback`, whose heartbeat never rests.

| run | instance | properties |
|---|---|---|
| `pool` | 3 tasks, 2 workers, 2 drainers, 1 slot, fair | `TypeOK`, `WaitGroupCountsOutstanding`, `NothingLeftBehind`, `AcceptedTaskRuns`, `WorkersExit` |
| `commands` | 1 command of any of five classes (script, script with a waiting caller, backup with one, diagnostic, PAM), all events, fair | `TypeOK`, `RecordedExactlyOnce`, `ReapsOnlyDueRows`, `ReleaseOnlyOwnClaim`, `OwnerFollowsResult`, `ExecutedOncePerLife`, `FinalRowsFrozen`, `ImplementsOutcome`, `Settles`, `ExecutionSettles` |
| `power` | 1 reboot and 1 script, failing eligibility | `PowerAloneInBatch` |
| `executor` | 2 deliveries of a script, 2 cancels, 1 restart, symmetric | `TypeOK`, `TerminatedMeansLeaderGone`, `KilledMeansTreeGone`, `OneProcessPerId`, `ImplementsAgent` |
| `cancel` | 1 execution, 1 delivery, 2 cancels, 1 agent restart, all events, fair | `TypeOK`, `ConfirmedByDevice`, `CountedAtMostOnce`, `OutputKept`, `DecidedStays`, `ExecutionCloses` |
| `rollback` | 2 directives in a row, 2 components of different versions, 3 versions, 1 crash, 1 failing write, fair | `TypeOK`, `MixedIsRecoverable`, `HealthyIsTarget`, `RecoveredIsWhole`, `ObservationsKept`, `OutcomeReported`, `ResolvesOrCommitted` |
| `resend` | 3 results of 2 commands, every limit at 1 or 2, 2 failed recordings, 1 disk error, fair | `TypeOK`, `Bounded`, `CapHolds`, `DurableAccounted`, `BackoffKept`, `ScheduledFires` |

What the properties say:

* `RecordedExactlyOnce`: the per-type records of a command were written once if
  its row shows the agent's result, and not at all otherwise. It relates two
  tables over every order of two handlers, resends, timeouts and parking.
* `FinalRowsFrozen`: a terminal row that no longer accepts a result is not
  written again, however stale the read a writer acts on.
* `ReleaseOnlyOwnClaim`: `sent` goes back to `pending` only through the request
  whose claim timestamp the row carries.
* `ReapsOnlyDueRows`: a row the reaper has locked is due on its current clock,
  not only on the one it was on when it was selected.
* `OwnerFollowsResult`: a script execution shows the agent's output exactly when
  its command does, although timeouts close them at different times.
* `ExecutedOncePerLife`: redelivery does not run a command twice unless the agent
  lost its memory of the id.
* `PowerAloneInBatch`: no claim takes a power command together with another one.
* `Settles`, `ExecutionSettles`: as long as some row is open, a time comes when none
  is, and likewise for script executions, however rows are released and claimed
  again and whatever is lost.
* `ImplementsOutcome`: refinement of `CommandOutcome`.
* `WaitGroupCountsOutstanding`, `NothingLeftBehind`, `AcceptedTaskRuns`,
  `WorkersExit`: the pool's bookkeeping, that no worker leaves a task behind, that
  accepted tasks run, and that workers end after a `Drain`.
* `TerminatedMeansLeaderGone`, `KilledMeansTreeGone`, `OneProcessPerId`: the answer
  `terminated` is given only when the leader of the execution that the cancel
  reached does not run and will not start, a kill without error took the whole group
  along, and deliveries of one id never run side by side. Of the children of a
  leader that ended by itself the first two say nothing (see `executor_tree` below).
  `ImplementsAgent`: refinement of `ScriptAgent`, on which `cancel` relies.
* `ConfirmedByDevice`: `cancel_state = 'confirmed'` has its evidence, whichever
  closer won. `OutputKept`: once the command row shows the result, the execution
  has its output. `DecidedStays`: late closers and stale sweeps never undo a
  decision. `CountedAtMostOnce`: the batch's counters move once at most per device.
  `ExecutionCloses`: no execution stays open or `cancelling`, although agent,
  frames and acknowledgements may be lost.
* `MixedIsRecoverable`: while the files are neither the set installed first nor some
  directive's whole target, journal and backups are there to undo it. `HealthyIsTarget`: `healthy` is recorded over the
  whole target, the journal gone. `RecoveredIsWhole`: when `recovered` is recorded,
  the files are those the rollback was received over, if its swap was not committed,
  and the whole target, if it was; that the record names the current versions even
  then is a disagreement of its own (below). `ObservationsKept`, `OutcomeReported`:
  late or repeated acknowledgements drop nothing the server has not seen, and every
  outcome arrives unless the server refuses the observation at the head.
  `ResolvesOrCommitted`: a rollback ends unless its commit was cut off from its
  record (below) or a failed save left it to the next start; if starts keep coming,
  the second exception goes.
* `Bounded`, `CapHolds`, `BackoffKept`, `ScheduledFires`: the tracker's limits and
  accounting, resends per record, no resend on another record's timer, and no
  schedule that blocks for ever. `DurableAccounted`: a durable result is on its
  way, on disk, written, stranded in a stopped client, or was given up by the outbox
  for one of its four causes. What it forbids is a path that loses one unnoticed: a
  write pump that skips it, a flush that deletes another's file. It does not forbid
  that an early acknowledgement's file replaces the final result's (see the hazards).

### Disagreements between comments and code

Five runs check a sentence of the repository that the code does not keep; TLC
shows the steps.

* `pool_race` (`SubmitNeverMeetsClosedQueue`): a `Submit` between its check and
  its `wg.Add` is invisible to `Drain`; its send panics on the closed channel.
* `race_power` (`PowerClaimedAlone`): counting commands in flight and claiming a
  reboot are separate transactions.
* `cancel_batch` (`TerminalIsCounted`): a retraction, or an acknowledgement that
  proves the stop, ends the execution and moves no counter of its batch.
* `executor_tree` (`TerminatedMeansTreeGone`): `terminated` is said to mean that the
  process and its tree are gone (`executor.go:80`). A leader that ends by itself
  leaves its children; a cancel that found the execution before its release finds a
  contained start and no kill error, and answers `terminated` although no kill ran.
* `rollback_stuck` (`EndsAsReported`): a process dies between the commit of a swap
  and the record of its health. The next one either finds the set healthy, and the
  rollback stays active for good, because `CommitRollbackSwap` accepts a journal in
  state `swapped` only; or it finds it unhealthy, recovery keeps the committed
  target, and `recovered`, bound to the current versions on both sides, is recorded
  over the target.

Smaller ones, which no run is spent on, are notes of the hazards in
`PROJECT.json`: a PAM row rewritten after its timeout, a released row cancelled
while its command runs, a late acknowledgement that completes a parked row, the
cancellation marker that the schema strips, a cap on resends that
`result_resend.go:42` states per command id and the code keeps per record (a record
that expired or was evicted starts anew), a retraction of a released row whose frame
had left, though `scriptCancellation.ts:374` says nothing reached the device, and a
comment in the sweep
(`staleCommandReaper.ts:990`) that calls a revert committed which is rolled back
when the bookkeeping after it fails.

### Bounds

`MaxClaims = 2` (1 in the two-command runs): the second claim is the one that
makes a release, a reap or a delivery stale; a third repeats the second with
another owner. `MaxForgets = 1`: one loss of memory is enough for a second run.
One command is enough for what concerns a single row, since writers of different
rows meet only in the power barrier, in batches and in the reaper's pass: the
runs with two commands cover these; `commands` enqueues one command, of any class,
per behaviour. Two cancels are what it takes for an acknowledgement, a sweep or a
result to meet a cancel that is not its own; one delivery of the script is enough
in `cancel`, since `executor` shows that two deliveries never run at once. Two
directives let the journal and the backups of one rollback meet the next; two
components make a set mixed, the agent being the first of them makes the process and
its file differ, and the second being a version behind makes the current versions of
a directive differ from each other. One crash and one failing write in any place
include a swap that fails and a death during its recovery; more of both, and other
numbers of components, are left to the theorems. The limits of `resend` are as small
as they can be, so that every queue is full and evictions happen; `MaxPending` is 2,
since with room for one file a file is evicted before another can replace it. With
two commands one record at a time is evicted from the tracker, and
what an eviction of several does is proved (section 4). `MaxFailures = 2` exhausts
the one attempt; one disk error loses a result before or after older files went.
The pool's one slot is full with one task, so
that three submitters meet a full, an empty and a closed channel.

### Fairness

Pool: the Go scheduler runs every runnable goroutine, tasks end, and a `Drain` that
was entered goes on; nobody has to call `Submit` or `Drain`. Command queue: the
clock advances, a heartbeat transaction ends, and the reaper is scheduled every two
minutes, gets the row locks its `UPDATE` queues for (strong fairness of `ReapLock`:
a heartbeat may lock the row in between) and commits. Agents, users, and requests,
which may die with their process, owe nothing. The database may abort the
transactions of heartbeat and reaper any number of times, but not for ever.
Cancellation: the reapers and the sweep run periodically, the sweep gets the row
lock it queues for (strong fairness: an ingest may hold it in between), and an
ingest's transaction ends. Rollback: the engine's thread goes on, a process that is
down is started again, and the heartbeat loop sends and is answered if the engine
comes to rest again and again (strong fairness). No restart is assumed: Reconcile
runs at start only, and nothing restarts an agent with an active rollback, whose
updates are suppressed (`heartbeat.go:5165, 5189, 5237, 5252`). Resend: timers go
off and their goroutines get the lock; nothing is assumed of network or server.

## 4. Proofs

TLC shows a property on an instance; the theorems hold for all sets of commands,
workers, tasks, deliveries, results, components and directives, all classes, events,
limits and numbers of crashes. Every safety property that a passing run checks has
one. Each proof module states an inductive invariant `IInv`, shows that it holds
initially and that every action keeps it, and derives the properties; every `IInv`
was checked with TLC on the run's instance before it was proved.

**WorkerPoolProofs**

* `NothingLeftBehindHolds`. Inductive as it stands together with the type of the
  workers' program counters: `worker()` returns only from an empty closed channel,
  and nothing is put into a closed one.
* `TypeCorrect`, `WaitGroupCountsOutstandingHolds`. That the counter is the number
  of outstanding tasks is not inductive: a `wg.Done` must meet a task that was
  counted and is not counted elsewhere. `Places` adds that a task is with its
  caller, in one slot of the channel or with one worker. The counting is by the
  cardinality theorems on finite sets, and gives that the counter never goes below
  zero.

**DeviceCommandsProofs**

* `TypeCorrect`, `RecordedExactlyOnceHolds`. Inductive invariant `IInv`.
  `RecordedExactlyOnce` is not inductive: the heartbeat and the
  reaper write rows whose status they tested in an earlier step, so the invariant
  adds that rows held by a heartbeat are pending, rows locked by the reaper are
  open, no row is held by both, and rows with the agent's result are closed. With
  this every writer but the finalizing handler is seen to meet no recorded row,
  and the handler's acceptance predicate does the rest.
* `FinalRowsFrozenHolds`. From `IInv` and a lemma on what a step may do to a row
  (`Moves`): enqueue an absent one, change an open one, close again one that
  accepts a result.
* `ImplementsOutcomeHolds`. The refinement, from `Moves` and `IInv`:
  every outcome moves to a successor, and the records grow as `CommandOutcome`
  says because `RecordedExactlyOnce` holds before and after the step.
* `ReleaseOnlyOwnClaimHolds`, `ReapsOnlyDueRowsHolds`. A second relation between
  the rows before and after a step (`Timely`) says what happens to claims and
  clocks. The reaper's observation is old when it is used; `DueInv` says that the
  clock it found over is still over unless the row was claimed anew, which the
  claim timestamp then shows.
* `OwnerFollowsResultHolds`: needs that an execution is cancelled only with its
  command (`OwnerInv`). `ExecutedOncePerLifeHolds`: every run is paid for by an id
  the agent remembers or once forgot (`RunsPaid`). `PowerAloneInBatchHolds`: from
  what the heartbeat's commit writes, behind the power barrier.

**ScriptExecutorProofs**

* `TypeCorrect`, `TerminatedMeansLeaderGoneHolds`, `KilledMeansTreeGoneHolds`,
  `OneProcessPerIdHolds`. `Execute` and `Cancel` run in goroutines of their own and
  meet in a `runningExecution`. The invariant says who owns an entry of the
  `running` map and that nobody else does (`EntryInv`), what the entry's flags say
  about the progress and the process of its owner (`CallInv`), and what a waiting
  or answered `Cancel` knows of its entry (`AskInv`). The first of the three theorems
  is about the leader, the second about its tree after a kill; that the tree is gone
  without one is not a theorem (`executor_tree`).
* `ImplementsAgentHolds`. The refinement of `ScriptAgent`, action by action: each
  step of a call is a step of its attempt or a stutter.

**ScriptCancellationProofs**

* `TypeCorrect`, `ConfirmedByDeviceHolds`, `CountedAtMostOnceHolds`,
  `OutputKeptHolds`, `DecidedStaysHolds`. Closers test the status in the statement
  that writes it, so the invariant is about what a status says of the rest: an open
  execution is not counted, a completed one has output, a confirmed one is
  cancelled, and what the sweep remembers from its selection is a status an
  execution can go back to.
* `ComposesAgent`: the composed system satisfies the specification of `ScriptAgent`,
  so that what `ScriptExecutor` implements is what the server's model runs against.

**RollbackProofs**

* `TypeCorrect`, `MixedIsRecoverableHolds`, `HealthyIsTargetHolds`,
  `RecoveredIsWholeHolds`, `ObservationsKeptHolds`. Three layers: what the engine's
  position says about the state file (`ControlInv`), what `Reconcile` has
  established when it confirms (`ConfirmInv`), and, as long as nothing was given up
  as failed, what the journal says about the installed files (`FilesInv`). Without a
  journal the files are those the rollback owes (`Owed`: what it found, or its target
  once committed; `NoJournal`); with one, it is the active rollback's, and unless it
  is committed its backups are the files the rollback found (`SomeJournal`); a
  commit without a final record is the active rollback's (`Committed`); and each
  component is old or new as far as the swap or the recovery got (`Progress`).
* `RecoveredIsWholeHolds` needs no assumption on the components, the agent alone
  included: it compares with the files that were found, not with the versions the
  directive claims, which the agent checks against its process instead of its file
  (see the hazards).

**ResultResendProofs**

* `CapHoldsHolds`. `fired <= MaxAttempts` is not inductive; a record pays for a
  resend when it schedules it, so the invariant counts the one that is still to
  come: `fired`, and one more while a timer is pending, is at most `resends`.
* `BackoffKeptHolds`. A timer that went off belongs to a record that is due or
  gone (`FiringDue`). A new record keeps this because its life is one that nothing
  refers to, which exists since finitely many are referred to (`FreshLifeUnused`,
  by a count).
* `DurableAccountedHolds`, `OutboxBounded`. A flush works on the list of files it
  read when it took the lock. That it deletes what it sent takes that the list
  stays part of the files, that no two files are of one command, and that its one
  call under way is for the first of the list (`Flushing`); `Deleted` and `Filed`
  are characterised by lemmas on sequences. What `Enqueue` does to the account is in
  `FilesSplit` and `LoseFacts`: every file there was, and the result itself, is on
  disk afterwards or given up with its cause (`GaveUp`), whichever of its three ways
  it takes.

**ResultTrackerProofs** (its invariant `BInv` adds to that of `ResultResendProofs`)

* `BoundedHolds`. `Bounded` says that a counter, kept by adding and subtracting, is a
  sum over the records. It is inductive together with the finiteness of the records
  and the order of the sends. There are three ways to touch the tracker: a record's
  timer or age changes and no size does (`SizesKeptAccounts`), a record goes with its
  bytes (`ForgetAccounts`), or a result is noted (`RecordAccounts`): the records
  split into the expired, the one replaced, the evicted and the kept, and the sum
  splits with them.
* `EvictionDefinedHolds`. `record` is stated with an existential over what is evicted;
  the theorem says that this is one set, never none and never a choice. What the
  loop may have removed is a chain under inclusion, as the sends are totally ordered
  (`TurnsNested`); of those sets that fit, which include all the others, there is a
  smallest (`LoopEnds`).
* `TypeCorrect`.

**FunctionSums** has the facts on sums that these proofs cite. The library defines
`SumFunctionOnSet` by a recursive function on the subsets of a set, which takes out
an element picked by CHOOSE. The lemmas show that the recursion defines a function
(`SumsExist`: one for the sets of up to n elements extends to those of n + 1), that
any element may be taken out (`SumsTake`), and hence that a sum depends on the values
alone (`SumAgrees`) and splits (`SumSplit`). The inductions are on the size of a set,
in the form that a set of counterexamples has no smallest member (`LeastSet`, from
the well-foundedness of < on the naturals): in this form no operator has to be
instantiated in an induction theorem.

Assumptions on the constants, all evaluated by TLC: `CommandAssumption`,
`BoundsAssumption`, `EventsAssumption`, `QueueSizeAssumption`, `WorkerAssumption`,
`NoTaskAssumption`, `AgentAssumption`, `ExecutorAssumption`, `RollbackAssumption`,
`ResendAssumption`, and `NoneAssumption` where a `None` must differ from the values
it stands in for.

Only model-checked: liveness, since fairness and ENABLED are outside TLAPS' reach
(`AcceptedTaskRuns`, `WorkersExit`, `Settles`, `ExecutionSettles`, `ExecutionCloses`,
`OutcomeReported`, `ResolvesOrCommitted`, `ScheduledFires`).

## 5. Not modelled

* Rows for the watchdog role, `desktop_stream_stop` rows that are re-armed after
  their end, and `self_uninstall` with its exemptions from sweeps and reaper.
* The cancels a claim makes before its scan (unsupported peripheral policy rows,
  devices parked in a holding org): they are cancels of pending rows like
  `CancelPending`.
* Eligibility rules one by one, and the records other than script executions.
* The cap on rows per reaper pass, and claims within one millisecond.
* A push retries its send up to three times; the copies are one frame here, since
  the agent drops all but the first.
* The per-type schemas of results: a backup verification, restore, vault or recovery
  result that fails its schema ends the row with a validation error and writes no
  per-type record (`commands.ts:547`, `agentWs.ts:2436-2449`). The classes of the
  model have none.
* The agent's deduplication exempts `start_desktop`, `stop_desktop` and
  `desktop_stream_stop` (`heartbeat.go:6841-6843`); `ExecutedOncePerLife` is about the
  other types.
* Script executor: Windows job objects, and the relay of a helper's verdict. A script
  started in a user helper runs in an executor of its own, of the same code, for
  which `ScriptExecutor` stands as well; its answer, `terminated` included, is passed
  on unchanged, and only helpers that do not answer are modelled here
  (`NotFoundHere`).
* Script cancellation: time (a deadline may pass at any moment), the automation
  results that follow an execution, and the circular wait between the sweep and
  the ingest of an acknowledgement (see the hazards).
* Rollback: the detached swap of Windows, downloads and signatures (a free
  choice of `Prepare`), the ordinary updater.
* Result delivery: frames other than results; a process that ends with results in
  memory loses those that are not durable, which nothing in the code promises to
  prevent. Files of the outbox that cannot be read or decoded, and removals that
  fail.
* Everything in the inventory without a module. The repository has 1.4 million
  lines in more than 5000 files, most of them request handlers over their own
  tables, user interface, integrations, tests and declarations. The modules cover
  the concurrent and crash-prone core of command delivery, a small share of the
  lines by design; a model of a CRUD handler would restate it.

## 6. Plan

Done: the modules of section 2, their runs, and a theorem for every safety property
of the passing runs. Next, in this order:

1. `CommandRelay`: request and reply between API instances with timeouts.
2. PAM leases (`agent/pamlifetime`) and the watchdog's supervision.
3. `ResultResend` composed with ingest: the retrying agent against the parking
   server.
