# Invoker: a verification project

Invoker orchestrates AI-agent workflows: a plan becomes a graph of tasks, each task is launched
as a process (a worktree, a container, a remote shell), and people and background workers
approve, reject, fix, cancel, retry and recreate tasks while others run. This directory holds
TLA+ models of the parts that decide *what runs when* and of what keeps their copies in step, the
TLC configurations that check them, and TLAPS proofs about all of them: every safety property that
the runs check on small instances is a theorem for all values of the constants. `PROJECT.json` maps
every definition to the lines it models and lists components, runs, hazards and theorems.

## 1. The system

A request travels through these layers:

    surfaces (UI, HTTP, command line, Slack)
      -> mutation queue          persisted intents, one drain per workflow
      -> workflow actions        policies of approve, reject, fix
      -> CommandService          a mutex per workflow, held over awaits
      -> Orchestrator            reads and writes the task rows
           -> launch outbox      rows of task_launch_dispatch
      LaunchDispatcher -> TaskRunner -> executor process
      worker responses, watchdogs and the dispatcher call the Orchestrator directly

SQLite has one writer process, the *owner*. Everything in it runs on one event loop, so a
handler is atomic between two awaits; what makes the system hard is what happens at the awaits,
between the handlers, and across a restart, which keeps the rows and loses the memory.

| Component | State | Operations | What is hard | Correct when |
|---|---|---|---|---|
| Launch handoff (`orchestrator.ts`, `scheduler-domain.ts`, `launch-dispatcher.ts`, `task-runner*.ts`) | attempts, leases, outbox rows; deferred set, live executions | claim, enqueue, lease, start, accept, defer, complete, cancel, retry, stuck-lease and stall recovery, restart | slow launches, late answers, expired leases, failed outbox writes, restarts | one live attempt per task; what runs is owned; outcomes are final; what is claimed is launched or given up |
| Mutation queue (`persisted-workflow-mutation-coordinator.ts`) | intent and lease rows; drain loops, invalidations, callers | submit, coalesce, drain, evict, supersede, fail, recover | preemption of a running dispatch, lost wake-ups, restarts | fences clear what they should; each failure is told once; callers hear what is recorded; every intent ends |
| Task graph (`orchestrator/*.ts`, `invalidation-policy.ts`, `task-reset-policy.ts`) | task rows of a workflow | responses, fix sessions, approvals, cancels, resets, drains | cascades through the graph, awaits inside commands, residues on rows | no work over undone inputs; nothing skipped for ever; sessions return; finished work stands |
| Command service | a promise chain per workflow | one command at a time | commands that bypass it | see the task graph |
| Review gates (`task-runner-review-gate.ts`, `merge-runner.ts`) | gate row, its cached copy, pull requests | publish, poll, approve, fix, retry, close | answers of the forge against a gate that moved on; writes past the cache | a gate completes and closes only for its own reviews, and hears of their end |
| Recovery workers (`auto-fix-*.ts`, `requeue-*.ts`, `worker-runtime.ts`) | ledgers, caps, breaker | scan, submit, back off, escalate | budgets across generations and crashes | at most the configured retries; a stall is handled; a person is asked once |
| Locks (`db-writer-lock.ts`, `gui-instance-lock.ts`, `worker-lock.ts`) | lock files that name a pid | acquire, judge stale, take over, release | crashes between calls, reused pids, two takers | one holder; a dead holder's lock is taken over |
| Ownership (`ipc-bus.ts`, `owner-socket-sentinel.ts`, `owner-resolver.ts`) | socket path, servers, connections; the sentinel's counters | connect, serve, reclaim, recover, probe, re-serve, disconnect; delegate | races for the path, split brain, erased socket files | the holder of the writer lock is found |
| Delta stream (`delta-merge.ts`, `renderer-task-feed.ts`, `useTasks.ts`) | versioned snapshot cache, stream, renderer's map | merge, quarantine, batch, snapshot, resync | silent writers, gaps, reloads, a broken socket | no copy mixes two versions; what is counted is shown; a resync ends |
| Peer sync (`sync-*.ts`) | journals, cursors, tombstones | append, export, merge, purge, prune | late, repeated, lost batches | what one side is ahead in, and has journaled, is not forgotten; deletions stand |
| Planning (`approval-state-machine.ts`, `plan-draft-lifecycle.ts`) | conversation and draft state | message, approve, submit | late replies | a draft is submitted once |
| Plans and rollups (`plan-parser.ts`, `dag.ts`, `workflow-rollup.ts`, `failure-classifier.ts`) | none | pure functions | edge cases | agree with a reference definition |
| Surfaces, executors, pools, packaging | mostly I/O | | | not modelled |

The hazards (what can go wrong here that a test would hardly reach) are in `PROJECT.json`, each
at its line with the properties that would catch it or the reason none does.

## 2. Modules

| Module | Models | Checked by | Proved in |
|---|---|---|---|
| `LaunchHandoff` | attempts, launch outbox, dispatcher, runner, completions | `launch_*` | `LaunchHandoffProofs` |
| `MutationQueue` | the persisted mutation queue of the owner process | `queue_*` | `MutationQueueProofs` |
| `SerialQueue` | what the mutation queue promises, without drains, leases or timers | refined in `queue_fences` | `MutationQueueProofs` |
| `WorkflowGraph` | the task rows of one workflow and the commands that hold its mutex | `graph_core` | `WorkflowGraphProofs` |
| `ReviewGate` | a merge gate with pull requests: publishers, polls, fixes, approvals, retries | `review_gate` | `ReviewGateProofs` |
| `RequeueWorker` | the worker that retries stalled tasks, its budget and escalation | `requeue_budget` | `RequeueWorkerProofs` |
| `ProcessLocks` | the three lock files, call by call | `locks_takeover` | `ProcessLocksProofs` |
| `OwnerBus` | who serves the socket, against who holds the writer lock | `owner_serves` | `ConnectionProofs` |
| `TaskFeed` | rows, deltas, cache, publisher, preload and renderer | `feed` | `TaskFeedProofs` |
| `PeerSync` | journal exchange between two databases | `sync_exchange` | `ConnectionProofs` |

How they fit: `WorkflowGraph` takes a launch as one action and `LaunchHandoff` opens it up;
`WorkflowGraph` takes the approval of a merge gate as a choice and `ReviewGate` opens it up;
`RequeueWorker` submits to a queue that drains in order, which is what `RunsSerially` says of
`MutationQueue`; all of them assume one owner process: `ProcessLocks`
looks at its lock and `OwnerBus`, which takes the lock as one step, at its socket; `TaskFeed`
starts at the rows the others write.

Each `MC` module only gives values to constants. Definitions with the comment
`Mutant:` are plausible bugs of the code; they belong to no specification and exist so that every
property can be shown to fail on one.

### LaunchHandoff

`db[t]` is what SQLite holds of a task (status, phase, attempts with their statuses and the
selected one, outbox row per attempt, generation), `mem[t]` what the owner holds (deferred set,
process per attempt, a retry under way). Actions are the handlers of the code between two awaits:
`Poll`'s parts of the dispatcher, the start of an executor, its acceptance, its rejection as stale,
deferral for lack of capacity, `handleWorkerResponse` for all outcomes, cancel, retry, input,
stuck-lease recovery, the executing-stall watchdog, attempt lease expiry, owner stall, failed
outbox write and restart.

Abstracted: the scheduler queue's order, the batch size of a poll (at least the tasks), resource
leases, timestamps (an expiry is an action that may happen once the owner has stopped renewing),
the residue fields that force an extra attempt, the synchronous order of the parts of one poll.
The first attempt exists in `Init`; an attempt has one row; a task has one retry in flight (the
command mutex). Statuses of approvals and fixes belong to `WorkflowGraph`.

Bounds: `MaxAttempt` 3 (replaced, live and next attempt: a stale message can come from two
generations back), `MaxTries` 2 and `MaxStuck` 1 (both budgets are exhausted), `MaxConcurrency` 1.
`AgeCutoff` is TRUE in production, where the launch-age cutoff equals a dispatch lease (12
minutes); `launch_faults` takes FALSE so that expired rows are requeued as well as abandoned.

### MutationQueue

`row` and `lease` are the SQLite tables; `loop`, `pending`, `timer`, `kick` are the coordinator's
drain bookkeeping; `mem` has, per intent, whether its dispatch still runs, whether its race was
invalidated, and what its caller was told. A dispatch and the race that decides what the caller
hears are separate, and so is the gap between the end of one intent and the claim of the next.
Mutations are classes: plain work, start-ready, retry, rebase-and-retry, recreate, delete
(delete-all is a delete of each). The two identical requeue passes of the recovery are one.

Left out: a second live owner (the writer lock), an event loop that stalls for longer than the
lease lead, SQLite exceptions inside the drain. One workflow suffices: rows, leases and loops are
per workflow. Properties about rows exempt deleted workflows, whose lease row is erased under a
running drain.

Bounds: three intents (one running, a fence, one behind it), one restart; `QuickRestart` lets the
new owner start within the dead one's lease.

### WorkflowGraph

`task` has, per task: status, whether a workspace is kept, the recorded entry status of a fix
session, whether a fix is parked, whether an agent works on the current lineage, and the history
variable `launched` (its attempt was claimed). `cmd` is the command that holds the mutex over an
await: an invalidation between its cancel and its reset, or the approval of a gate that merges.
Every handler is one action and includes the drain it ends with.

Abstracted: a launch (claim to running) is one action, detailed in `LaunchHandoff`; `startedAt` is
folded into the status, since every reset clears it; `assertReviewGateApprovable` is the
environment's choice; the commit of an approved fix and its failure. Approvals of gates that merge
are taken through the mutex. `CommandFails` covers a thrown kill or merge and the death of the
owner in the window. Left out: needs_input, stale, experiments and reconciliation, external gates
and cross-workflow cascades, conflict fixes of ordinary tasks, deferral, edits, forks,
replacement, deletion, detachment.

Bounds: four tasks a -> b -> m, c -> m, where c needs an approval and m is a merge gate (a chain,
a join, both kinds of approval), two slots (so that a slot may be missing), `MaxMoves` 3 requests
of people and workers (a fix, a cancel and a retry in any order, or a fix, its approval and a late
reject); worker responses and approvals are not bounded. `CHECK_DEADLOCK FALSE`: a workflow at rest
stays at rest. `Reject` has the guard of the code and no other: a task that waits for a decision, or
one that carries a parked fix, which an approval leaves on the completed row. The history variable
`undone` says that an idle task was closed or finished work rejected.

### ReviewGate

`row` is the gate in SQLite, `mem` the copy in the orchestrator's cache, `forge` the pull requests.
A poll (`pollMergeGateTask`) reads the *cache*, awaits the forge for one artifact after another,
and writes the artifacts *past* the cache; commands refresh the cache first and write both. A
publisher (one per generation) awaits each `createReview`, and a retry first awaits the closing of
the current reviews (`closeWorkflowReview`) and then resets. `agent` is the generation a fix agent
works on. A kill reaches the executor of a launch, which drops what it opened; the publication
after a fix is not killed by anything.

What the model made plain: the pull requests of a killed publication stay open on the forge, and
the next publication of the branch takes them over; a poll may complete or close a gate with a
parked fix; and a retry closes its own pull requests while a poll may still close the gate on that
account. All of that is in the model, and the properties hold with it. The source tree also lets a
poll lose an answer: with two artifacts, the answer for the first is written to the row, and the
answer for the second writes the cached artifacts back, in which the first is still open
(`task-runner-review-gate.ts:325`, whose comment says "Rebase each provider update on the freshest
persisted gate so concurrent polls don't clobber each other's artifact statuses with a stale
snapshot"). It mends itself: the dispatcher's poll refreshes the cache and a later poll asks
again, which is what `DecidedIsHeard` checks.

Left out: requested changes, failing CI and merge conflicts as triggers of fixes, gates with a
review id and no artifacts, manual and automatic merge modes, deletion, what differs between
GitHub and GitLab. Bounds: two slots (a gate that is half decided), three pull requests (one slot is
republished), three generations (a fix and a retry, or two of either), two requests of people and
faults, one poll: the status worker awaits a tick before the next, so a second one takes a
person's check; a gate with two polls, two generations and two requests was checked by hand.

### RequeueWorker

`task` has the rows, `cap` the durable counter in `worker_actions`, `intents` the open mutation
intents, `ledger`, `hints` and `work` the worker's memory. `count` records what happened, for the
properties and the bounds. A requeue is submitted first and counted afterwards; `DieInTick` is the
crash in between, and `DieInIntent` the one between an intent's effect and its completion.
`escalateStalledToNeedsInput` (`orchestrator.ts:2024`) parks liveness stalls only, although the
worker also takes `ssh-transport-transient` failures, and a requeue looks at no status when it
runs; the model has both. Left out: the auto-fix worker, and a worker that a survived signal
stopped for good (`worker-runtime.ts:447`). Bounds: a budget of 2, four failures (one more than the
budget's requeues and the first), one restart, one refused submission, one act of a person.

### ProcessLocks

`lock` is what is on the disk: its maker, and the name written in it. Each call to the file system
is an action, `life` counts the processes a pid was given to, `robbed` and `overlap` are history
variables: whose lock was removed by somebody else, and whether two acquisitions were ever under
way at once. The writer's lock without a pid file is left alone for ever, and the other two treat
a nameless lock as stale, as the code does. The worker lock does not ask whether a pid was reused,
so a worker with the pid of the dead holder (always, for pid 1 of a container) is refused for ever,
where `worker-lock.ts:16` says a lock never wedges: `AloneSucceeds` names both exceptions in
`Hopeless`. A removal is one step; a pid that may not be signalled (`EPERM`) is left out. Bounds:
two pids, three processes each, two crashes, two of the five passes of the worker's loop.

### OwnerBus

Every process that may own the database makes its bus *before* it asks for the writer lock, so the
race for the socket and the race for the lock have different winners. `path` is what the socket path
names (the server of a process, a dead file, nothing), `serves` who has a listening server, on the
path or no longer, `peer` and `link` the connection of a member and what its bus does next, `life`
and `holder` the process and the lock, `sentinel` the two counters of the owner's probe. `tryConnect`,
the unlink of `tryServe(true)`, the bind, `tryConnectRetry` and the timer of `scheduleRecovery` are
separate actions, as are the two removals of `disconnect` (closing the server unlinks the path, and
so does the bus itself). `Reaches` is the probe: the server on the path answers the ping itself or
relays it to its clients. A viewer is a pure client.

`Undisturbed` is an assumption about time, switched by `ProbesFirst`: between a re-serve and the
owner's next probe (15 seconds at most) nobody else takes the path. Without it the property fails
in the code, see section 3. Left out: the ids of relayed requests, spurious failures of a slow
owner's probes, the 25 ms recovery of a bus that has just served again, Windows pipes, delegation,
the resolver's retries and the bootstrap lock. Bounds: two processes, one viewer, five
starts (each process is refused, quits and comes back), two crashes, two erased files,
`FailuresBeforeReserve` 2 as in the code. `CHECK_DEADLOCK FALSE`: an owner that is found stays.

### TaskFeed

`log` is the history of each row, `cache` the snapshot cache of a main process, `stream` what it
forwarded, `pending`, `ipc` and `drain` the queues to the renderer, `ui` the renderer's map, its
watermark and its resync. The same model is a window of the owner or of another process, which
hears deltas over a socket that loses them and breaks. Two fields of a task suffice to tell a
mixture of versions from a version. Writes that announce nothing (`WriteSilently`) are found by
the row poll. `Batch` and `Handle` are what the renderer does with a batch and with
an event, as functions of its state; the maps along the deltas of a batch are a recursive function
(`Applied`). Left out: workflow deltas, the web surface, the activity log. Bounds: one task (rows
and cache entries are per task, the stream is numbered across them), three writes, one failed
resync before the renderer gives up (instead of the code's larger number), one reload.

### PeerSync

Per store: the rows, the journal and the cursor of the peer. A row of a task or an attempt is its
place in the order by which merges decide (status rank, then canonical text); a workflow is alive
or has a time of deletion. What a merge stores of a winning task row is the constant `Kept`, since it
writes `TASK_COLUMNS` only: in the instance, rows 2 and 3 of a task differ in its freshness alone,
which stays the receiver's. `ClaimAttempt` and `DeleteTask` change rows and journal nothing, as in
the code; every other write in the model journals the row it leaves. `wire` has the batches under
way, which may be delayed, repeated, reordered or lost. A workflow entry journaled by `updateTask`
carries a rolled-up status no local row has, so it wins over the peer's.

`NothingIsForgotten` speaks of what the journal is there for, and the code breaks it in these cases,
all of them in the model and exempted by name:

- `claimed`: an attempt, from the claim at its launch to its next write. The claim is not journaled,
  so the store is ahead with nothing to export until `updateAttempt` writes the row;
- `strayed`: a row that a local write lowered in the order (the peer's will win), a task that a merge
  stored with another freshness than it came with (its text is no longer the sender's, and which of
  the two is higher was never exported), and what went with a deleted task;
- the tasks and attempts of a deleted workflow, and everything once a journal was pruned, which
  happens only before the first exchange: `last_sent_seq` is never advanced, so that a known peer
  stops pruning for good.

A batch in the model begins at entry 0: what a later start leaves out is what the receiver skips by
its cursor, which never goes back. A batch that holds nothing beyond that cursor is left out. No code
in the repository drives the exchange but tests, so no liveness is claimed. Left out: the other
columns of a workflow (`staged` among them), events and outputs, the updates that migrations make at
the start (`sqlite-migrations.ts`), `deleteAllWorkflows` (it wipes journal and cursors with the
rest), `deleteAllTasks` (nobody calls it), and that `deleteTask` of the orchestrator leaves the last
task alone and retargets dependents (which are `UpdateTask`). Bounds: two stores, one workflow with a
task and an attempt, three rows of the task and two of the attempt (pending and claimed), four local
writes, two batches under way.

## 3. What the runs show

| Run | Shows | Distinct states |
|---|---|---|
| `launch_faults` | one task under all faults: `OnlySelectedActive`, `RunningIsOwned`, `ClaimedIsRecoverable`, `OutcomesAreFinal`, `AcceptedNeverRequeued`, `StuckBudgetStops`, `EndIsHeard`, `EndedRevivedOnlyByRetry` | 803,959 |
| `launch_slots` | two tasks, one slot: `SlotsRespected` while leases are renewed | 528,618 (symmetry) |
| `launch_live` | every outbox row is answered, no ownerless task runs for ever | 261,815 |
| `queue_fences` | fences, dispatches, notices and callers agree, with preemption and a quick restart; and the queue implements `SerialQueue` (`RunsSerially`) | 1,465,889 |
| `queue_live` | intents end and callers are answered | 34,681 |
| `graph_core` | `InputsStand`, `SkippedHasReason`, `SessionsReturn`, `FinishedWorkStands`, `ReadyIsLaunched` | 67,161 |
| `review_gate` | a gate completes (`CompletedIsLanded`) and is closed (`ClosedForACause`) only for its own reviews, and hears of their end (`DecidedIsHeard`) | 515,760 |
| `requeue_budget` | the budget holds over crashes and generations, a person is asked once per failure, what is parked stays parked, every stall is handled | 140,803 |
| `locks_takeover` | one holder while acquisitions do not overlap, and a starter that is alone gets the lock | 133,763 |
| `owner_serves` | the holder of the lock is found in the end, by new connections and by the viewer (`HolderIsFound`) | 194,454 |
| `feed` | neither cache nor screen ever shows a mixture of versions, the watermark counts only what is shown, the renderer never gives up on a sound stream, every resync ends | 248,611 |
| `sync_exchange` | what a store is ahead in is not forgotten but for the cases above, deletions stand, batches apply while nothing is deleted | 1,801,981 (symmetry) |

`SkippedHasReason` exempts behaviours in which an idle task was closed: on a line a -> b -> c -> m
TLC finds m skipped for ever after a retry of a, a cancel of b, a fix of b approved while c runs,
a sweep that closes b, and the failure of a. It also exempts those in which finished work was
rejected, see below. `FinishedWorkStands` has the late reject as its one exception, and limits it: one
reject, which fails that task alone, and only if it was approved with a parked fix. `InputsStand` speaks of launched attempts: a task
that was cancelled before its attempt started, fixed in its kept workspace and approved, is
completed over unfinished inputs without one.

**Refinement.** `SerialQueue` has only the places of the queue: what waits, runs, has ended or is
erased. `RunsSerially` is its specification under the mapping `Entries` of the rows (what belongs
to a deleted workflow maps to erased): an intent starts only when nothing of its workflow runs,
nothing more urgent or older waits, and, for a reset, nothing older is open; it is dropped only
behind a later reset; the replacement of the owner puts a running one back. One step of the owner
may be a step of several places, since an eviction ends many intents at once. TLC checks it in
`queue_fences`, `MutationQueueProofs` proves it for all values of the constants.

### What else the models showed

Where code and text disagree, found by model checking or while modelling; the runs above
exempt these cases or have them in the model:

- Two starters that judge the writer's lock stale both remove it, the later one the lock the earlier
  has just made, and both hold it (`db-writer-lock.ts:224` against `:2`, "prevents concurrent writable
  access"). `ExclusiveAlone` is about acquisitions that do not overlap.
- A sentinel that has served the socket again waits for a reachable probe before it may do so once
  more (`owner-socket-sentinel.ts:68`). When the path goes right after the re-serve (a refused process
  that served it earlier quits, and its `disconnect` unlinks the path), the holder of the lock stays
  unreachable for ever, where `:2` says the sentinel enforces that it serves the socket. With
  `ProbesFirst` FALSE TLC finds it.
- Two servers may listen at once, one of them on an unlinked path (`ipc-bus.ts:444`, and `:866`, which
  removes whatever the path names by then): `ipc-bus.ts:12` says "exactly one server".
- `deferTask` revives a task that was cancelled meanwhile (`cancellation.ts:450`; the comment at
  `:436` says it moves an executing task back). `EndedRevivedOnlyByRetry` allows this one exception.
- `provideInput` marks a task running without a process (`orchestrator.ts:2004` against `:2001`);
  the stall watchdog fails it in the end (`UnownedRunEnds`).
- `deleteWorkflow` erases intents accepted behind it (`sqlite-adapter.ts:2152` against
  `docs/persisted-execution-refactor-plan.md:54`).
- An owner that restarts within the lease of the dead one leaves its intents waiting
  (`persisted-workflow-mutation-coordinator.ts:334` against line 72 of the same plan).
- Retrying a completed task resets dependents that run, without killing them
  (`invalidation-policy.ts:591` against `task-invalidation-chart.md:29`).
- A late reject takes back a completed task: `rejectTask` (`workflow-actions.ts:249`, and the same in
  `command-service.ts:108`) asks for `pendingFixError` only, which `approve` (`orchestrator.ts:2266`)
  leaves on the completed row, and reverts the fix session, whose record is gone, to failed;
  `merge.ts:164` says that completed is terminal and that "a revert that resurrects finished work is
  a different, dangerous operation". What was launched on top of the task stays as it is, so a
  dependent that is skipped later may find no way back.
- The claim of an attempt at its launch (`sqlite-task-attempt-repository.ts:1429`, from
  `scheduler-domain.ts:483`) journals nothing, unlike every other write of an attempt: a peer hears
  of it with the next `updateAttempt`, and of none if the store stops before.
- The columns a merge stores of a task (`sync-merge.ts:57`) lack `freshness` (`sqlite-schema.ts:51`),
  which the journal carries. The stored row is not the one that won; the receiver journals the import
  as one, exports nothing, and two rows of one rank that differ in freshness stay apart.
- Deleting a task (`sqlite-adapter.ts:2046`) leaves no tombstone, unlike deleting a workflow
  (`:2138`): the peer keeps the task, and an attempt of it that the peer exports makes the batch throw.
- The requeue back-off is kept per generation, which every requeue bumps, so it never spaces two
  requeues (`requeue-attempt-ledger.ts:114` against
  `docs/architecture/recovery-lifecycle-workers.md:158`).
- The publisher drops deltas while a window is not interactive yet
  (`task-graph-event-publisher.ts:66` against `docs/ui-backend-drift-tracing.md:15`); the gap is
  found by its number.
- A batch that names an attempt whose task went with its workflow here throws at every delivery, with all
  that follows it (`sync-merge.ts:588` against `sync-merge.test.ts:175`, "keeps tombstones while
  parking late progress under the soft-deleted workflow", whose export always has the task row).

### Fairness

- `LaunchHandoff`: only the owner's timers are fair (poll, watchdogs, outbox fences, leases,
  back-offs, and the awaited kill of a process). No process has to end, nobody has to retry. The
  liveness run has no owner stall, since a stalled owner renews nothing.
- `MutationQueue`: continuations of the event loop, timers and the clock are fair, and a dispatch
  that was not superseded ends. Nobody has to submit or to restart.
- `WorkflowGraph`: only the dispatcher's poll, a timer of the owner.
- `ReviewGate`: the status worker ticks, each question to the forge is answered (or fails, boundedly),
  and the dispatcher's poll, which refreshes the cache before it launches anything, does not stop.
  Nobody has to review, approve or retry.
- `RequeueWorker`: the poll timer, the drain of the work queue, the spacing clock and the drain of
  the intents. Tasks need not fail or complete, nobody has to help.
- `OwnerBus`: the event loops and timers of living processes, the sentinel among them, and the second
  half of an owner's shutdown. Nobody has to start, quit or crash; a refused process may stay, and
  hold viewers that hang on it (`Found` exempts them).
- `ProcessLocks`: a starter's calls follow each other without waiting.
- `TaskFeed`: timers, messages and answers go on as long as one of them can; writers, reloads and
  broken links are not fair.
- `PeerSync`: none.

## 4. What is proved

`LaunchHandoffProofs` (any set of tasks, any bounds, any faults). The inductive invariant is, per
task, `Sound` (attempts below the selected one have ended, none exists above it, the selected one
agrees with the task's status, a pending one has no outbox row, an accepted row is not enqueued)
and `Owned` (a running task has a process of its selected attempt and generation). It is needed
because neither `OnlySelectedActive` nor `RunningIsOwned` says what the *other* attempts and rows
look like, which is what a late message meets. `Evolves` carries the action properties: outcomes
and acknowledgements persist. Theorems: `LaunchTypeCorrect`, `LaunchOnlySelectedActive`,
`LaunchRunningIsOwned`, `LaunchOutcomesAreFinal`, `LaunchAcceptedNeverRequeued`.

The second part of the module ties the record to the processes. `Held` is, per task, `Kin` (nothing
runs for an attempt above the selected one, what is registered for the selected one is of the
generation of the task, a task that is pending or queued has at most a launch under way, a live row
is of the current generation) and `Recoverable`, which is `ClaimedIsRecoverable` of one task.
`Recoverable` is lost when a row is reaped or a process ends, and only `Kin` says that the handler
then reaches the very task whose row it takes away: that the guards against stale launches and
stale ends never turn down the current one. Every action is shown to be `Fine` for every task, which is
the next `Held` with what the three action properties say of the step. Theorems: `LaunchKinship`,
`LaunchClaimedIsRecoverable`, `LaunchEndIsHeard`, `LaunchStuckBudgetStops`,
`LaunchEndedRevivedOnlyByRetry`.

The third part is the limit on running tasks. A task takes a slot (`Slot`) while it runs, or is on
its way into a launch, with the lease of its attempt standing, unless a crash preserved it or its
user's answer resumed it; and `Few` says that there are at most as many slots as the limit. A drain
counts what is occupied and launches at most what is left. Every other step may only give slots
back: who has one afterwards had one before. That is clear for all but the handlers which turn a
queued task into a running one, a launch that is accepted and a heartbeat; they rest on `Waiting` (a
queued task waits for an attempt that was not claimed) and `Leased` (what is claimed is leased until
it has ended), which with `Owned` make up `SInv`. Theorems: `LaunchSlotDiscipline`,
`LaunchSlotsRespected`.

`WorkflowGraphProofs` (any finite graph, any gates, any bounds). The invariant is `RowOK`, per row
(a waiting attempt was not launched, an attempt at work carries no parked fix, an open session is
recorded, an agent works only on rows where its end can be heard, and never beside a parked fix),
and `Stands`, per edge (a launched row has no input that is to be done). `Stands` alone is not
inductive: a reset leaves pending rows of its subgraph alone, which is right only because a
pending row was never launched. The lemma `BelowClosed` says that the walk of a reset is closed
under dependents, from the definition of `Below` as a least set, without induction. Theorems:
`GraphTypeCorrect`, `GraphInputsStand`, `GraphSessionsReturn`, `GraphFinishedWorkStands`.

Why a task is skipped has its own invariant, `Waits`, as long as nothing was `undone` (no sweep has
closed an idle task, and no finished work was rejected): who
works was launched (`Started`), what was launched stands over completed inputs (`Built`), nothing
is closed (`Open`), and a skipped task has an input that holds it up (`Reasoned`). `Built` is what
`Reasoned` needs: an input of a skipped task which is no reason any more has been reset, and then
the skipped task was below it and was reset as well. It is stronger than `InputsStand`, and a late
reject breaks it, for it fails an input under what was launched; that is why the reject ends the
promise of `SkippedHasReason`, as the sweep does. Theorems: `GraphWaits`, `GraphSkippedHasReason`.

`MutationQueueProofs` (any workflows, any number of intents, restarts, every kind and form). The
invariant is `Bookkeeping` (the shape of leases, loops and timers) and `Announced`: ids are accepted
in order (`Contiguous`), what is older than a hard fence has ended (`Cleared`), and what was told
agrees with the rows (`Agree`). Every handler is a composition of row updates that never take an
ended intent back (`Moves`), and the lemmas show that each such update keeps the parts. Theorems: `QueueTypeCorrect`, `QueueHardFenceClears`,
`QueueFailureToldOnce`, `QueueOutcomesStick`.

The second part of the module proves that the queue implements `SerialQueue` (`QueueRunsSerially`). A step
of `SerialQueue` may start an intent only when nothing of its workflow runs, which the code never
looks at: it looks at `drainingWorkflows` and at the lease. What links the two is `OneAtATime`: a
drain that is not idle holds the lease, a lease that has expired is not this owner's, and what runs
of a workflow is the intent of its drain or was left behind by an owner whose lease still stands.
So a claim that succeeds finds nothing running (`DrainsSerially`): either the lease was free, or it
was taken over, which puts what ran under it back first. The proof goes from tables to tables
(`DrainStep`, then `Allowed` for a whole handler), and one lemma, `AllowedIsSerial`, maps what a
handler may do to a row to a step of its place. Theorems: `QueueRunsOneAtATime`,
`QueueRunsSerially`.

On top of it the third part proves what the callers hear. `Heard` says, of every intent, that its
race is open only while its row runs, that a race which is not over belongs to the intent its drain
executes, and that a race won by the dispatch over a failed row means a later hard fence (`Fenced`);
of every drain, that its intent is running or was overtaken and is the one the lease names. The last
part is why recovery, which puts back running rows that no lease names, never takes an intent away
from a live drain. Theorems: `QueueHeard`, `QueueOverlapIsSuperseded`, `QueueCallerHearsTheRecord`.

`ReviewGateProofs` (any number of polls, slots, pull requests, generations and requests). An artifact is
approved nowhere, be it in the row, the cache, a publisher or an answer on its way, unless its pull
request is merged, and a settled pull request stays settled (`SettledStays`). That alone does not
do: a poll writes the cached artifacts over the row, so the invariant also says that the cache
lags behind the row in artifacts only, and that no publication is still to be written over a
completed gate. Theorems: `ReviewCompletedIsLanded`, `ReviewClosedForACause`.

`RequeueWorkerProofs` (any budget, tasks and faults). The counter plus the records that crashes cut
off equal the requeues of each task (`Tallied`), and the counter stays within the budget. `Asked` links the
ledger in the worker's memory to the failures: a failure this life has not asked about yet
(`Unasked`) leaves room for one more question. `Parked` is about the order of the intents: whoever
is parked, or is about to be, has used up its requeues, and no requeue waits behind an escalation,
so that the parking finds the requeues before it gone. Theorems: `RequeueTypeCorrect`,
`RequeueBudget`, `RequeueAsksOnce`, `RequeueParkedLeftAlone`.

`ProcessLocksProofs` (any pids, lives, crashes and tries). The invariant is who made the lock on the
disk (`MakersOwn`, proved without any assumption about overlap) and, while no two acquisitions have
overlapped, `Quiet`: nobody was robbed, one process acquires, the lock is named by its maker, a
starter judges the pid of the very holder, and nobody holds what is about to be removed. Theorems: `LocksTypeCorrect`, `LocksHolderOwns` (two holders always include one that was
robbed), `LocksExclusiveAlone`.

`ConnectionProofs` holds two independent parts, the bus inside a machine and the exchange between
machines. The bus (any processes, viewers and bounds): the invariant `OnTheBus` is inductive with
the types. What the path names and what anybody is connected to is a listening server of a living
process that is nobody's client, who is getting onto the bus is not on it, and the lock has the one
holder whose life says so. Theorems: `BusInvariant`, `BusTypeCorrect`, `BusOnTheBus`.

The exchange (any tasks and attempts, any rows, writes and batches, lost, repeated and reordered):
what a store says, in its journal or under way, was a row of it, under a number nobody else has
(`Honest`); a batch holds all there is between the cursor of the receiver and its own mark
(`Complete`); and a task the peer does not have is told to it before its attempts (`TasksFirst`).
With these, `NothingIsForgotten` is inductive: a cursor moves past an entry only with a batch that
had it. A claim is a write like the others but for the journal, and its row is exempt until it is
written again (`ClaimWrote`), and what the journals still say of a task that went binds nobody
(`EraseKeeps`). A batch is a set of entries, applied in the order of their numbers, and what it does is a
recursive function of these numbers; `Course` and `Along` say, number by number, that it only ever
lifts rows to what is said. Theorems: `PeerInvariant`, `PeerTypeCorrect`, `PeerNothingIsForgotten`,
`PeerBatchesApply`, `PeerDeletionStands`.

`TaskFeedProofs` (any tasks, histories of rows, batches, losses, reloads and refreshes). Two
invariants, one for every process and one for the owner's window. The first, `Heard`, is that the
cache holds whole copies and that a delta on the wire says what was written to its row; it is why a
merge of the next version onto a whole copy is whole again, and why everything else has to be
dropped or fetched, which is the guard of `Process`. The second, `Shows`, has four parts, since the
screen is right only because of what is still on its way to it. `Telling`: the stream is a history of
the rows, so that what it says of a task next carries the next version of the last copy that it or a
snapshot gave. `Sound`: what waits in the publisher, in a message or in the preload script is what
the stream says under that number, or a snapshot that was right when the stream stood at its number
(`Good`). `Queued`: it waits in order, and no snapshot is older than what went before it. `Screen`:
the deltas in the renderer's pipe are consecutive, its map is right where the first of them begins
and its watermark is where the last one ends; a renderer that waits for a snapshot has counted one
failure at most, and every snapshot still on its way to it reaches the gap, so that one is enough. `ShownIsWhole` alone says nothing of the queues, and a queue may hold a snapshot that would
take the map back. The proof goes from worlds to worlds (`Goes`: what a step of the main process may
change), and the lemmas say that each part stays when the world moves on (`GoodStays`, `SoundStays`,
`TellingStays`, `ScreenStays`), when a batch is applied (`AlongGood`, `BatchScreen`), when an event
is handled (`HandleScreen`) and when events move from queue to queue (`SendShows`). The assumption
that the renderer tolerates at least one failed resync (`MaxFailures`, 3 in the code) is needed: with
none it would give up at its first gap. Theorems: `FeedInvariant`, `FeedTypeCorrect`,
`FeedCacheIsWhole`, `FeedShownIsWhole`, `FeedWatermarkIsShown`.

The proofs rest on the named assumptions about the constants, which TLC evaluates in every run of
the modules. An induction rule with an operator as its parameter is out of the prover's reach. Where
the proofs go along a batch or a sequence they take the least number at which the claim would fail,
from the fact that a set of numbers has a least element (`Least`, `Induction`, `LeastNumber`,
`Numbers`), and unfold a recursive function once at that number.

Model-checked only: the liveness properties (`LaunchSettles`, `UnownedRunEnds`, `IntentsEnd`,
`CallersAnswered`, `ReadyIsLaunched`, `DecidedIsHeard`, `StalledIsHandled`, `AloneSucceeds`,
`HolderIsFound`, `ResyncEnds`), since fairness and ENABLED are out of the prover's reach. Every other
property of the runs is a theorem of the specification that the run checks, without further
assumptions.

## 5. Plan

Done: the launch handoff, the mutation queue with its abstract specification, the task graph, review
gates, the requeue worker, the locks, the election of the server, the task feed and the peer exchange. Next, in this order:

1. `CommandMutex`: the promise chain of `command-service.ts` with the calls that bypass it, as the
   specification that `WorkflowGraph`'s `cmd` abstracts; the HTTP approve and the cancels.
2. Delegation to the owner (`headless-delegation.ts`, `headless-owner-bootstrap.ts`) over `OwnerBus`.
3. The auto-fix worker with its circuit breaker, beside `RequeueWorker`.
4. `ApprovalConversation`: the approval state machine and the draft lifecycle.
5. Pure algorithms against reference definitions: topological order, rollup, reset rules, order of
   the scheduler queue.
6. `WorkflowGraph` extended: needs_input, external gates between workflows, experiments, edits.
7. Proofs about these as they come; for liveness, the safety half of the arguments (what a fair step
   does when it is taken) as lemmas.

## 6. Not modelled

- *Invalidation plan, plan parser, rollup, failure classes, executor routing*: functions of their
  input that nothing interleaves with; the edits end in the resets `WorkflowGraph` has.
- *Response handler, state machine facade*: thin layers whose effect is part of modelled handlers.
- *Delegation to the owner, worker control, planning and approval conversations*: planned above.
- *Workspace pools, executors and agents*: git, file system, containers and remote shells behind the
  start, kill and complete steps of `LaunchHandoff`.
- *Surfaces, user interface, packaging*: parsing and presentation in front of the mutation queue.

Hazards that no property covers carry the reason in `PROJECT.json`. Known gaps inside modelled
components: tasks preserved over a crash keep their outbox row (`crash-preserved-tasks.ts:32`); the
resource-limit branch of a failed launch defers before it asks whether the launch is current
(`task-runner.ts:631`); heartbeats of an old attempt extend the lease of the new one
(`orchestrator.ts:3620`); a recreate resets task by task without a transaction
(`lifecycle.ts:496`); a task cancelled before it ran can be fixed and approved (`merge.ts:183`);
the sweep that closes idle tasks (`cancellation.ts:321`) exempts `SkippedHasReason`; a reload of the
renderer empties `TaskFeed`'s `pending` at once, where the publisher keeps those events until its timer
fires and drops them while the new window has not subscribed.
