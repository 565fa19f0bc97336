# A formal model of n8n's execution core

TLA+ modules, TLC runs and TLAPS proofs for the parts of n8n that decide *which
workflow execution runs, when, in which process, and how often*. Paths below are
relative to `src/packages/`; `PROJECT.json` gives the exact lines of each
definition.

    tlc -workers 2 -config queue.cfg MCConcurrencyQueue     # one run
    tlapm LeaderElection_proofs.tla                         # one module of proofs

The first part is an inventory of the whole system, the second the plan. The
third part describes what exists: the models, the runs, the proofs. The last
part lists what the models leave out and the behaviours they brought to light.

## 1. Inventory

n8n is a TypeScript monorepo. `workflow` holds the workflow graph and its
expressions, `core` the engine that runs one workflow, `cli` the server: the
processes, the queue, the database, webhooks and triggers. `nodes-base` and
`@n8n/*` are integrations, `editor-ui` and `design-system` the browser. The logic
of interest is in `cli/src` and `core/src`.

A deployment is either **regular**, with one main process that runs the workflows
itself, or in **queue mode**, where mains put jobs into Redis (Bull) and workers
run them. In queue mode several mains can share the load of webhooks and the UI
(**multi-main**); one of them is the leader, and only the leader keeps triggers,
pollers and periodic tasks.

### 1.1 Running an execution

| component | state | operations | interacts with |
|---|---|---|---|
| `ConcurrencyQueue` (`cli/src/concurrency/concurrency-queue.ts`) | `capacity`, a list of `{executionId, resolve}` | `enqueue`, `dequeue`, `remove`, `getAll` | used by the concurrency control alone |
| `ConcurrencyControlService` | `isEnabled`, the limit, the queue | `throttle`, `release`, `remove`, `removeAll`, `disable` | called by `ActiveExecutions` and `ExecutionService` |
| `ActiveExecutions` | a map from execution id to its promise, its running workflow and its status | `add`, `attachWorkflowExecution`, `stopExecution`, `finalizeExecution`, `shutdown` | concurrency control, execution rows, `WorkflowRunner` |
| `WorkflowRunner` | none of its own | `run`, `runMainProcess`, `enqueueExecution`, `processError` | permission checks, engine, `ActiveExecutions`, hooks |
| `WaitTracker` | a map from execution id to a timer, the poll interval | `startTracking`, `getWaitingExecutions`, `startExecution`, `stopExecution`, `stopTracking` | execution rows, `WorkflowRunner`, events of leadership |
| `WaitingWebhooks`, `WaitingForms` | none | `executeWebhook` | execution rows, `WorkflowRunner` |
| `ExecutionService.stop` | none | `stopInRegularMode`, `stopInScalingMode` | queue, `ActiveExecutions`, `WaitTracker`, rows |
| `ExecutionRepository` | the rows: status, `waitTill`, `stoppedAt`, data | inserts, updates, queries | everybody |
| lifecycle hooks | none | save at the end, save progress, error workflow | rows, event bus |
| `Start` command, `ShutdownService` | the order of initialisation and of shutdown | `run`, `runEnqueuedExecutions`, `stopProcess` | everybody |
| event bus and recovery | the event log; ids with unfinished logs | `initialize`, `recoverFromLogs` | rows |

Hard: `add()` awaits the queue and then the database before its entry exists;
the promise that gives the capacity back is created only after both, and is
settled by whichever of finishing, timing out, stopping and failing comes first.
A request to stop reads a row, then acts on memory, then writes the row, with
awaits between. What waits in the queue is only in memory; after a crash its
rows are all that is left.

Correct means: capacity is neither lost nor invented; nobody who waits is
overtaken or forgotten; every entry of `ActiveExecutions` can still be removed;
no execution runs twice at a time; an accepted execution is eventually run, also
by the next process; nothing leaves the queue during shutdown, and shutdown ends.

### 1.2 Several mains

| component | state | operations | interacts with |
|---|---|---|---|
| `MultiMainSetup` (`cli/src/services/orchestration/main/multi-main-setup.ee.ts`) | the leader key in Redis, its own id | `init`, `checkLeader` (on an interval), `tryBecomeLeader`, `shutdown`; emits `leader-takeover` and `leader-stepdown` | `Publisher` (GET, SETNX, EXPIRE, DEL), `InstanceSettings` |
| `InstanceSettings` | the role of the instance | `markAsLeader`, `markAsFollower` | read by all services below |
| `OrchestrationService` | initialised or not | `init`, `shutdown`, `shouldAddWebhooks`, `shouldAddTriggersAndPollers` | `MultiMainSetup` |
| `WaitTracker` | as above | starts and stops with the events | |
| `PruningService` | two timers, `isShuttingDown` | `startPruning`, `stopPruning` | role, events |
| `ScalingService` (see 1.3) | the timer of queue recovery, the Bull queue | `scheduleQueueRecovery`, `stopQueueRecovery`, `recoverFromQueue`, jobs | events, rows |
| `ActiveWorkflowManager`, `ActiveWorkflows`, `ScheduledTaskManager` | triggers, pollers and timers in memory, queued activations | `add`, `remove`, `addAll…`, `removeAll…` | role, webhooks, license |
| `Subscriber`, command handlers | debounce timers | handle `reload…`, `add-webhooks…`, `relay…` | all mains and workers |

Hard: an interval starts `checkLeader()` whether or not the last one is done;
each check has awaits between reading the key and acting on it; the key expires
on Redis' clock; a process may end between SETNX and EXPIRE; a client resends
commands whose reply was lost; the handlers of the two events change the
triggers only after awaits, so they overlap with each other and with commands of
other mains; an addition reads the role first and starts the trigger later.

Correct means: at most one main leads and nobody takes its key away while it
renews it; a main that lost the key learns of it; leadership passes on; what the
leader does is done by the leader, and by it alone; a trigger that runs can be
closed, and is not started twice.

### 1.3 Queue mode

| component | state | operations | interacts with |
|---|---|---|---|
| `WorkflowRunner.enqueueExecution` (`cli/src/workflow-runner.ts`) | the job it waits for, a watchdog on an interval | adds the job, waits for it, reads the result from the row, finalizes the entry | Bull, `ActiveExecutions`, rows, hooks |
| `ScalingService` (`cli/src/scaling/scaling.service.ts`) | the Bull queue | `setupWorker`, `addJob`, `getJob`, `stopJob`, `recoverFromQueue`, `stop` | Bull, `JobProcessor`, rows |
| `JobProcessor` (`cli/src/scaling/job-processor.ts`) | `runningJobs` | `processJob`, `stopJob` | rows, engine, hooks of the worker |
| Bull (external) | jobs that wait or are active, a lock for each active one | takes, renews locks, finds stalled jobs, tells of results | Redis |

Hard: main and worker share the row and the queue and see neither at the same
moment; a lock expires under a worker that is alive; a worker or the main goes
down at any point; the main may learn that a job is gone but not how it ended;
recovery acts on two lists that were read one after the other; a request to stop
is a look-up, a message and a write.

Correct means: an execution is at one worker at a time; who waits for it gets an
answer, and a true one; a success is not overwritten and nothing is deleted
before it has ended; a worker that is told to stop finishes what it runs, and stops.

### 1.4 The engine

`WorkflowExecute` (`core/src/WorkflowExecute.ts`) keeps the node execution stack,
the data that waits for nodes with several inputs, the runs of each node, and the
last node executed; it saves them when an execution waits or fails, and goes on
from them. Hard: the bookkeeping of partly filled sets of inputs, what to run
when nothing but waiting nodes is left, and continuing in the middle. Correct
means: what a node passes on reaches the next one, once, also across a wait or a
retry; an execution ends, and leaves nobody behind.

### 1.5 Everything else

| component | what makes it correct | why it is left out |
|---|---|---|
| pub/sub between instances, but for the command that adds triggers | commands reach every instance but the sender | the handlers call services that are left out themselves |
| partial executions (`core/src/PartialExecutionUtils`) | the start nodes are those whose data is missing or dirty | pure functions behind a setting that is off by default; their treatment of cycles is not written yet (`findCycles.ts` returns `[]`) |
| activation and deactivation of workflows by users | the row, the webhooks and the triggers agree | request handling, and webhooks at other services |
| event bus destinations, log writer | a message is sent at least once | log files and log servers; the models keep which executions are unfinished in the log |
| test webhooks, webhook registrations | each is registered, fires or expires, and is removed | request handling and other services |
| cache (memory or Redis) | a miss is filled from the source | no modelled component relies on it |
| collaboration, push | presence of users in the editor | nothing relies on it |
| license, credentials, external secrets, source control, REST API, users, migrations, loading of nodes, binary data, node implementations, UI | | SDKs, cryptography, I/O, SQL, files, request handling, integrations, browser code |

The behaviours that are hard to test are listed, each at its line, under
`hazards` in `PROJECT.json`.

## 2. Plan

The order in which the modules were written is that of their importance for the
question which execution runs when:

1. `ConcurrencyQueue` with its abstract specification `Admission`: the smallest
   part on which most of the rest depends.
2. `ActiveExecutions` → `WaitTracker` → `ExecutionService` → `RegularMode`: a
   process in regular mode, one module per component, each extending the last,
   composed with startup, shutdown, crash and restart in `RegularMode`.
3. `LeaderElection` → `MultiMain`, `ActiveWorkflowManager`: the election, the services
   that follow it by timers, and the triggers that follow it by additions and removals.
4. `Scaling`: a main, the queue and workers; stopping, recovery, stalled jobs.
5. `WorkflowExecute`: the engine, over small workflows.

Theorems: the queue (accounting, fairness, refinement of `Admission`); the process
around it (types, proper use of the queue, hence all of the above in it, entries with
owners, single runs, capacity); the election (types, one leader, the key stays with its
holder), the services and the triggers on top of it; the jobs (one worker at a time, an orderly
stop, true answers, deletion of what has ended); the engine (types, results that stand,
nothing lost, nothing twice, nobody left waiting). Each safety property that a passing run checks
is now a theorem as well.

What would be next, in this order: executions that wait in queue mode and come back
as another job; a run that saves its progress after each node while it is stopped;
activations by users, on top of `ActiveWorkflowManager`.

## 3. The models

JavaScript runs a function without interruption up to its next `await`, timer or
callback. So throughout **an action is what happens between two awaits**, and a
write to the database or a command to Redis takes effect in a step of its own,
in which nothing else of the caller happens.

### 3.1 `ConcurrencyQueue`, `Admission`

`ConcurrencyQueue` has the fields of the class: `capacity`, which falls below
zero by one for each waiting item, and `queue`. `admitted` is not a field: it is
the set of calls whose promise was resolved and that have not called `dequeue()`.
A *call* is one invocation of `enqueue()`. An execution may have several, one
for its first run and one for each resume, so items carry an execution id *and* a
call, while `remove()` looks for the first item of an id. `Enqueue`, `Dequeue` and
`RemoveItem` are the methods; `ResolveNext` is the private helper two of them
share. `Arrive`, `Leave`, `RemoveExecution` let an environment call them in any
order that its users could.

`Admission` says the same without a counter: start when fewer than `Limit` run,
else wait in line; whenever somebody ends or is withdrawn, the head of the line
takes over. `RefinesAdmission` maps `running` to `admitted` and `waiting` to `queue`.

### 3.2 `ActiveExecutions`, `WaitTracker`, `ExecutionService`, `RegularMode`

`ActiveExecutions` follows a call of `WorkflowRunner.run()` from stage to stage,
one stage per await:

| stage | the code is at |
|---|---|
| `reading` | the query in `WaitTracker.startExecution()` |
| `ready` | the insert of the row, or the start of `add()` |
| `throttled`, `passed` | `throttle()`: in the queue or let through; not limited |
| `marked` | after `setRunning()` / `updateExistingExecution()` |
| `registered` | the entry is in the map; permission check |
| `starting` | `updateStatus(…, 'running')` done |
| `running` | the nodes run; the workflow is attached to the entry, if it still exists |
| `saving`, `saved` | the final hook writes the row; `then` of the run is to come |

`db` holds the rows, reduced to the status, whether `waitTill` is set, whether
the data holds an error, and the mode. `active[e]` is the entry: the call that
owns its promise (`owner`) and the call whose workflow is attached (`run`). The
two are apart because a second `add()` for the same id replaces the entry while
the first promise's `finally` still deletes by id. `promise`, `canceled` and
`hook` of a call are its `postExecutePromise`, `isCanceled` of its workflow, and
a write of a cancelled run that is still on the way. A cancelled run ends between
two nodes and is saved (`EndRun`), or inside a node that heeds the abort signal,
and is not saved again (`EndAborted`). Every failing branch is an
action: `MarkRunningFails`, `RefuseRun`, `RejectRun`, `PrepareRunFails`,
`StartRunFails`, `TimeOut`; the constant `Faults` says which a run allows.

`WaitTracker` adds the poll (`Poll` reads, `ArmTimers` acts on the answer later),
timers (`FireTimer`, `ReadWaiting`) and requests to resume URLs
(`ResumeByWebhook`). Time is left out: a timer may fire as soon as it is armed.
`HasEnded` keeps the one fact about time that the code relies on: a wait outlasts
the few callbacks between saving the wait and settling the promise.
`nodes-base/nodes/Wait/Wait.node.ts` sleeps through anything below 65 seconds.

`ExecutionService` serves requests to stop, in three steps: `RequestStop` reads
the row, `StopQueued` or `StopOther` changes memory, `WriteStopped` writes the row.

`RegularMode` adds arrivals, the startup pass (`FindEnqueued`, then `RunEnqueued`
one at a time, oldest first), graceful shutdown in its order (`BeginShutdown`
stops the timers, `DisableConcurrencyControl`, `Exit` once no entry is left),
`Crash`, and `Restart`, in which the event bus marks what was running as crashed
before the server listens. `GoDown` resets everything but the rows.

### 3.3 `LeaderElection`, `MultiMain`, `ActiveWorkflowManager`

`LeaderElection` has the key with its time to live, and for each main its phase,
its role, the commands it has sent and the replies it has not handled. One
connection per main: commands are executed, and replies handled, in order. A
check is not a variable: it *is* the one command or reply it has on the way, and
each reply says how it goes on (`Renew`, `Follow`, `StepDown`, `KeySet`, `KeyKept`,
`TakeOver`, `KeyCleared`). So two overlapping checks are two entries in the
sequences. `Reconnect` loses the replies of a main and puts their commands back
in front, as ioredis does with `maxRetriesPerRequest: null`. `Lapse` is the expiry of the key, free when
its holder is gone and otherwise bounded by `MaxLapses`. A process that starts
again has a new id, so `Leave` leaves `Departed` in a key it held.

`MultiMain` composes the election with the services that work by timers. `StepDown`
and `TakeOver` are the steps that emit an event, and are taken together with the
handlers of the event, which run at once (`OnStepdown`, `OnTakeover`): the timers of
waiting executions, queue recovery and pruning change. `timer` is the timer each
service can clear; starting a service that already has one overwrites the
handle, which `leaked` remembers. `InitService` initialises the services in the order
of `start.ts`, each listening from then on. One waiting execution
(`due`, `polling`, `entry`) passes through polls, timers and resumption.

`ActiveWorkflowManager` composes the election with the triggers, whose handlers are
asynchronous. One workflow is active and has one trigger node, which keeps a connection
of its own; `Triggers` are the connections that its starts have opened. (What
crons and polls do when they fire asks for the role again,
`core/src/ScheduledTaskManager.ts`, so for them a late addition does no harm.)

| state | the code is at |
|---|---|
| `pending` | an event was emitted or a command received; the handler awaits the license, or the query of the active workflows |
| `passing`, `decided` | `add()` has read the role (`shouldAddTriggersAndPollers`) as a follower or as a leader, and awaits data and webhooks |
| `starting` | `ActiveWorkflows.add()` has replaced the entry and awaits `runTrigger()` |
| `listed`, `responses` | the entry of the workflow and its `triggerResponses` |
| `removals` | removals that await `closeFunction()`, with the entry they began with (`current`) or, once an addition has replaced it, with what the old one had (`old`) |
| `running` | the triggers that run, whether an entry knows them or not |
| `queued` | `queuedActivations`: a timeout will try again |
| `activeRow` | `active` in the row of the workflow |

`HandleAdd` (the event of a takeover, and `init()`) and `HandleCommand` end in
`Decide`, the only place at which the role is read; `Register` and `StartTrigger` are
taken later, whatever has happened by then. `Register` replaces the entry; a removal
that is under way goes on with the old one, and then deletes the new one
(`EndRemoval`). `FailAddition`, `Pass` and `StartTrigger` have the failures, also that
of a write after the trigger has started, or of keeping its response when a removal has deleted
the entry. What has failed is queued after an event (`Fails`) and deactivated after a
command; `Retry` publishes the command to every main that listens, itself included. `EmitError` is a trigger that fails while
it runs, `FailRemoval` one that cannot be closed. A shutdown removes all triggers twice,
by its handlers (`BeginShutdown`) and in `stopProcess()` (`StopProcess`,
`RemoveAgain`), before it leaves the election (`Depart`); `stage` says how far it is. Where
closing fails in `stopProcess()` the process ends as in a crash.
`disordered` is history: in these mains an addition was decided or
registered while a removal was pending, under way or due, or while another addition was
under way, or a trigger could not be closed.

### 3.4 `Scaling`

`row` is the database, `job`, `holder` and `stalled` are the queue of Bull, and
the two sides that meet there each have a program counter per execution.

`main[e]` follows `enqueueExecution()`: `registered` (in `ActiveExecutions`),
`enqueued` (`addJob()` is done), `watching` (for the event of the job, or for the
watchdog, which finds it gone), then either `reading` (the result is taken from
the row), `deleting` (it is not to be saved), or `failing` and `saving`
(`processError()`). `refused`, `throwing` and `thrown` are the path on which
`addJob()` or a hook fails and `run()` throws.

`proc[w][e]` follows `processJob()` in a worker: `picked` (the row is read),
`starting` (the row is running, the workflow is loaded), `running` (registered in
`runningJobs`), `canceled` (an abort message came), `saved` (the hook of the
worker has written the row), `ended` or `failed` until Bull has recorded it.
`aborts` are the messages of `stopJob()` on their way, `log` what the event log of
the worker calls unfinished.

Bull is external: `Stall` puts an active job without a lock back, or fails it
when that has happened `MaxStalledCount` times; `Leave` removes a job that has
ended, since `removeOnComplete` and `removeOnFail` are set. A lock is lost with its worker, or as a fault
under a worker that runs (`lapse`).

A request to stop has a step per await: `StopEntry`, `FindJob`, `StopFoundJob`,
`StopDuringRun`; `CancelJob` is the cancelled promise of the main, which stops
the job a second time. `ListStored`, `ListQueued` and `MarkAsCrashed` are the
three parts of `recoverFromQueue()`. `Restart` and `RecoverFromLogs` are the start
of a worker. The constant `Faults` says which failures a run allows, each once.

### 3.5 `WorkflowExecute`

A workflow is a trigger, connections between outputs and inputs, and the inputs
each node requires; nodes are numbered by their position. Of the data only the
origin is kept: a *token* names the node, the output and the run it comes from,
as the `source` of a task does in the code. A step is one turn of the loop in
`processRunExecutionData()`: the top of the stack is skipped (`SkipNode`, not on
the way to the destination), returns nothing, succeeds with data at some of its
outputs, passes its input through (disabled, or going on after a failure), fails,
or puts the execution to wait. `Complete` records
the run and adds the nodes that follow one by one, the top left one last and so
on top (`AddNodeToBeExecuted`); if the stack is empty then, `Continued` runs a
waiting node that has the inputs it requires. The inputs it still lacks are then
filled with empty data (`Filled`, `WorkflowExecute.ts:1769-1774`): `NoData` is
`null`, an input that waits, and `NoItems` is `[]`. A node that passes on an empty first
input records a run that sends nothing (`PassedThrough`), unless it is disabled and
outputs an item always. `Resume` and `Retry` are how an execution goes on.

`skipped` and `retracted` are history: what was given to nodes that left no run,
and whether a retry deleted a run that will not be repeated.

## 4. The runs

| run | expects | instance | what it shows |
|---|---|---|---|
| `queue` | pass | 5 calls, 3 executions, limit 2 | accounting, no waiting while there is room, first come first served, overruns only by removal, nobody starves, refinement of `Admission` |
| `regular_restart` | pass | 2 calls, 2 executions, limit 1, one stop request, failures of permission check and start, timeouts, one shutdown or crash | no double run, no lost capacity, every run that somebody waits for can be stopped, nothing leaves the queue during shutdown |
| `regular_waits` | pass | 2 calls, 2 executions, limit 1, waits, timers, resume URLs, both modes, traffic before the startup pass, failing writes | proper use of the queue, so that what holds of the queue holds inside the process; every entry has a promise that can settle it, and the two places at which capacity is lost |
| `regular_liveness` | pass | 2 calls, 2 executions, one of which waits again and again, limit 1, one shutdown or crash | accepted executions run, waiting ones are resumed, by this process or the next, capacity returns, shutdown ends |
| `double_run` | violation | one execution, 2 calls, resume URLs | `NoDoubleRun`: two requests to the resume URL both run it |
| `election` | pass | 2 mains, 2 overlapping checks each, one lapse, one lost connection, one departure | one leader whose key is not taken while no key lapsed and no reply was lost; a stale leader steps down, leadership passes on |
| `stuck_follower` | violation | 2 mains, 2 overlapping checks, one departure | `HolderLeads`: the holder of the key can stay a follower for ever |
| `services` | pass | 2 mains with services, no overlap, one of a lapse and a shutdown or crash | one tracker of waiting executions, timers follow the role, a waiting execution is resumed by whoever leads then, but for two causes |
| `triggers` | pass | 2 mains, one trigger in each at a time, one of a lapse, a shutdown, a crash and a failure, and a trigger that cannot be closed besides | a main can close what runs in it, and it is the only one to run the trigger; a main that loses leadership closes it, one that gains it starts one; all unless an addition met a removal or another addition |
| `scaling` | pass | one execution, 2 workers, any 2 of 8 faults, successes not saved | one worker at a time, true answers, deletion and overwriting only where named, orderly stop of a worker, everybody who waits is answered |
| `crash_mark` | violation | one execution, one worker, no fault | `OnlyInProgressMarked`: recovery marks an execution that has succeeded |
| `engine` | pass | all workflows of 3 nodes and a merge with 4 connections, and 5 special ones (if, required inputs, loops, three runs into one input); with and without a destination; one pause or failure and continuation | nothing is lost or received twice, the results on record stay, and nobody is left waiting when an execution ends |

The type invariants of all modules but `WorkflowExecute` are theorems and are not checked by
runs again; that of `WorkflowExecute` is both.

`CHECK_DEADLOCK FALSE` stands only where calls and executions are finite and the
environment really comes to rest. Symmetry is used only in runs without
liveness properties.

**Bounds.** `Calls` bounds the calls under way at once, not their number: a call
that is over is reused. Two calls and a limit of one suffice for somebody to
hold capacity while somebody waits, ends, is stopped or times out; five with a
limit of two let a removal in the middle of the queue overrun the limit and then
drain. `MaxRestarts = 1` gives two processes, hence one state left behind and
one that finds it; a second restart starts from the same kind of rows.
`MaxChecks = 2` is the smallest overlap; a third check would have to find the
state the first two leave. `MaxLapses`, `MaxReconnects` and `MaxDepartures` are
each one, which is enough for a stale leader to meet a new one, and for a
takeover; `MaxTroubles` is the sum of lapses and departures (and failures, in
`ActiveWorkflowManager`) in the modules on top of the election. In
`ActiveWorkflowManager` `MaxUnderWay` bounds what is under way in a main when a
check *starts*; the code has no such bound, and without one the events would
pile up. With one, what one check has begun meets the handlers of the next: this
is the overlap of additions and removals that matters. `Removals` are the
removals under way in a main at once, one of them that of the shutdown, and
`Triggers` the triggers that run in a main at once. With one of them a second
start waits until the first trigger has gone; the theorems hold for any number.
`MaxFailures` is one; the failure to close a trigger is allowed after another
trouble, since only then are triggers closed. In `Scaling` the properties are
about single executions, which meet only in the concurrency of a worker and in
the early return of recovery (modelled so that other executions may keep the
queue from being empty or not), so one execution suffices; two workers give a
job that moves; two faults give each failure and whatever is handled badly while
it is being handled. In `WorkflowExecute` four nodes give a merge whose inputs
come by ways of different length; `MaxRuns` ends loops, and with two runs a node
sends to the same input again; `MaxPauses = 1` is one continuation. That the
safety of the queue, of the election, of the tracking and of the jobs does not
depend on these numbers is what the proofs are for.

**Fairness.** Weak fairness for each step of a call, poll, timer, reply and
handler: the event loop runs every callback that is due, the database and Redis
answer, and workflows end. Fairness is **strong** in two places, for the startup
pass (`\E c : RunEnqueued(c)`) and for the timer of an execution (`\E c :
TimerFires(c, e)`): both need a free call of the bounded pool, of which the code
has as many as it wants, so that other calls must not keep them from having one
for ever. In `Scaling` the main, the queue and each worker go on, and a worker that
is down is started again; the watchdog and the check for stalled jobs run on
intervals. In `ActiveWorkflowManager` what a main
awaits comes, timeouts of queued activations included. `WorkflowExecute` has only safety properties, and no fairness. Restarts are fair: process managers start n8n again.
The interval of `checkLeader()` is fair, as is the expiry of a key nobody
renews. Arrivals, requests to stop or resume, failures, crashes, lapses under a
live holder and lost connections are never forced. `QueueFairness` asks only that
what runs ends. Conditions of liveness properties that the code does not
guarantee are in the property's comment or in the instance: `LeadershipPassesOn`
needs a key that can expire.

## 5. The proofs

Eight modules, each checked by `tlapm` without an open leaf, for every number of
calls, executions, requests, mains, checks, departures, triggers, removals, workers and faults, and
every finite set of nodes with any workflows over it. A theorem that needs more than
the assumptions on the constants says so in its statement.

`ConcurrencyQueue_proofs`, from `CallsFinite` and `LimitPositive`:

- `QueueTypes`, `QueueAccounting`, `QueueConservesWork`, `QueueOnePlace`, by the inductive invariant `QueueInv`. `CapacityAccounting`
  alone is not inductive: it counts `admitted` by cardinality, so it needs
  `OnePlace` to know that a call resolved from the queue was not already counted,
  and `WorkConserving` needs the accounting to know when the comparison in
  `enqueue()` lets a call through. The proof works on `Line`, a statement about a
  sequence and a set, so that `ResolveNext` is reasoned about once for
  `dequeue()` and `remove()`.
- `QueueIsFair`: a step lets in the first of the items that it leaves in the line, or
  a call that finds the line empty, so nobody who stays is older.
- `QueueOverruns`: an admission beyond the limit is a step of `remove()`.
- `QueueImplementsAdmission`: under the refinement mapping, initial states map to
  initial states and each step to a step; `CounterIsRoom` is the link, that
  `capacity - 1 < 0` says exactly that there is no room.

`RegularMode_proofs`, from the same and the assumptions on the constants of
`RegularMode`, extends the former:

- `ProcessTypes`, `ProcessAccounting`, `ProcessConservesWork`, `ProcessOnePlace`,
  `ProcessUsesQueueProperly`. The inductive
  invariant `Inv` is `TypeOK`, `QueueInv`, `CallInv` and that a process that is
  shutting down has a restart left. The heart is `CallInv`: each call *fits* its
  place. Before `throttle()` it has no capacity and no item; while the service is
  enabled, a limited call that was let through holds capacity for as long as
  its promise exists. That is what makes the call of `release()` in the
  `finally` a legal `dequeue()`, whichever of finishing, stopping or timing out
  settled the promise. A call that is not limited never has a place in the queue.
  Each operation has a lemma that it keeps all three parts
  and touches the queue only by `QueueNext`.
- `ProcessImplementsAdmission`, `ProcessIsFair`, `ProcessOverruns`: a step of the
  process is a step of the queue or its end, and a process that ends leaves an empty
  queue (`QueueOrEnd`). So what the first module proves of a step of the queue
  (`QueueStepIsAdmissionStep`, `QueueStepIsFair`, `QueueStepOverruns`) holds of each
  step of the process: from its start to its end its control is `Admission`, and the
  next process begins with nobody running and nobody in line.
- `ProcessEntriesHaveOwners`: `EntriesHaveOwners` is inductive given `Inv`. Most
  steps keep every promise, the execution of the call that has it, and the owner
  of every entry (`PromisesKept`, `OwnersKept`); three need an argument. A call
  that registers owned nothing before; the entry that a `finally` deletes is the
  only one its call can own; and the call that a stop takes out of the queue has
  no promise yet, which is what `CallInv` says of calls in the queue while the
  service is enabled.
- `ProcessKeepsThrottled` needs no invariant: with the service disabled, `throttle()` and
  `release()` return at once and no stop finds anything in the queue.

`SingleRuns_proofs` extends the former, with `NoEntryType` (`NoEntry` is not an entry):

- `CapacityIsTracked`, without a condition: a call that holds capacity stays
  accountable for it, except at the two places that `CapacityLostOnlyHere` names.
  With `InLine` (who is in the queue is in `throttle()`) each step is shown to
  leave a call accountable, or to be the failed write after `throttle()`, or to be
  a step of another call of the same execution that replaces or deletes the entry.
- `RunsOnce` and `RunsAreStoppable` where `NothingWaits`: no request reaches the
  server before the startup pass, none a resume URL, and no execution waits. The
  condition is needed: `double_run` and section 7 show what happens without. The
  inductive invariant `Solo` says that two live calls of an execution are one
  (`Single`), which holds because new executions, the rows the startup pass has
  still to run, and the executions with a call are disjoint, and because the pass of the
  next process begins only when the calls of the former are gone; and that a call with a
  promise owns the entry, with its workflow attached once it runs (`Entered`).
- `CapacityComesBack` where `NothingWaits` and `RowsCanBeWritten`: of the two
  places, the one is excluded by `Solo` and the other by the second condition.

`LeaderElection_proofs`, from `MainIds` and `ElectionBounds`:

- `ElectionTypes`.
- `OneLeader` and `KeyKeptByHolder`. The properties speak of behaviours up to the
  first lapse of a live main's key or loss of a reply (`Reliable`), so the
  theorems need no assumption on the bounds: the invariant is
  `Reliable => LeaseInv`. The inductive invariant `LeaseInv` says of every main
  (`Sound`): if it is active and leads, or is about to because a successful SETNX
  is on its way back, the key is its own; it sends DEL only while stopping,
  at most once, and while DEL is on its way the key is still its own; and a
  process that is gone has sent nothing. The third part is why the unconditional
  DEL of `shutdown()` is harmless here, and the reason for both conditions:
  without them a stale leader deletes its successor's key.

`MultiMain_proofs`, from the same:

- `ServicesElect`: every step of `MultiMain` is a step of the election or leaves
  its variables alone, so `OneLeader` and `KeyKeptByHolder` hold with the services.
- `ServiceTypes`.
- `TrackedOnce`, under the same condition in the property. `OneTracker` follows from `TrackInv`: an
  active main that tracks holds the key. That is inductive only together with the
  main that is *about to* track, whose EXPIRE, or the reply to it, is on the way
  (`TakesOver`), and with the fact that a process that is gone has no timers. The
  step is short: a tracker's main keeps its key, by the lemma of the election, and
  starts one only where `LeaseInv` says that the key is its own already.
- `RolesAreServed` where `MaxChecks <= 1`, that is, where a check is over before the
  next begins: for any lapses, lost connections and departures, the services of a
  main at rest are those of its role. The invariant `RoleInv` says which command of a
  main may be on its way in which phase, and that the timers that exist are those of
  a leader exactly while the main leads and is not in the middle of a campaign.

`ActiveWorkflowManager_proofs`, from the same, `StopRemovalAssumption` and `ManagerBounds`:

- `ManagersElect`, as above, and `ManagerTypes`. `ManagerOK` adds to the types that
  the removal of the shutdown is under way at two of its stages only.
- `TriggersClosable`, without a condition but those in the property. `OrderInv` says of a main in which
  everything met in order (`Orderly`) that its work excludes itself: one addition at most is
  starting, none is while a removal is under way or the entry has a trigger, what a removal has yet to
  close is in the entry, and so is what runs. From the last removal of a shutdown on,
  there is nothing more (`Ended`).
- `OneRunnerOnly`: `RunInv` says, while the key is reliable, that a main that runs the
  trigger, is starting it or has decided to (`Works`) holds the key, and that a main
  sends DEL, or leaves, only after its last removal. This is why the
  awaits between decision and start do no harm while the key is kept: a main loses the role only after its key
  has lapsed, and gives it away only after `Ended`. It is where the order of
  `stopProcess()`, removal before `shutdown()`, is needed.

`Scaling_proofs`, from `NoWorkerAssumption`, `StalledAssumption` and `FaultsAssumption`:

- `ScalingTypes`.
- `OneWorkerAtATime`, `CountedAreRuns`, `StoppingWorkersFinish` and
  `SettledAreDeleted`, by the inductive invariant `IInv`, which has four parts.
  `JobInv`: how far the main has come decides where the job can be, and a request to
  stop removes the entry before the job. `RunInv`: only a worker that is alive
  works, and its `runningJobs` are exactly its runs. `LockInv`: while no lock has
  lapsed, whoever is at an execution holds the lock of its active job; this is
  what makes two workers at one execution impossible, because `PickUp` takes
  only jobs that wait. `RowInv`: while no lock has lapsed, a run that has ended left a
  row that says so, hence what the main reads after the event, or after the
  watchdog, is settled, unless the job failed. `SettledAreDeleted` needs all four: the watchdog concludes from
  "the job is gone" that it ended, and the case in which a *stop* removed the job
  is excluded only because the entry had gone before.
- `AnswersAreSettled`, and `SuccessesStand` where `MaxStalledCount # 0` (Bull's default
  is 1). `HistoryInv` adds what each party may *know*
  (`Known`: the main takes an error only from a failed job; who has a job in a log had
  it as a worker), and, as long as the job did not stall (`RunOnce`), that one worker at
  most is at the execution and that a success is found only where no step that
  remains writes the row. With `MaxStalledCount = 0` a lapsed lock makes the job
  fail at once, under the worker that still runs it: the main may then save the error over a success,
  while the property excuses only a job that was put back.

`WorkflowExecute_proofs`, from `NodesAssumption`, `WorkflowsAssumption` (connections
between nodes, finitely many, none into another input of the trigger than the first),
`DestinationsAssumption`, `BoundsAssumption` and `NoDataAssumption`:

- What a run adds is a fold over a set of connections. Induction over data is out of
  reach as a theorem of the library, but not as an argument: `SmallestSubset` gives a
  minimal counterexample among the subsets of a finite set, from the well-foundedness
  of strict inclusion. `AddingStep` uses it to say what the fold is, one connection at a
  time, in the order of `LastToAdd`; `AddedTyped`, `AddedOnce` and `AddedSound` use it again
  to carry an invariant through the fold. `AddDoes` states `addNodeToBeExecuted()` once: a set is
  filled or begun, and it is then complete or waits.
- `EngineTypes`: `EngineInv` is the full type of the state (`Typed`) and
  that an execution which waits or has failed is `Standing`: before the
  node of its last run, which was made with what lies on top of the stack.
- `ResultsAreKept`: going on deletes a run at two places only. Where the execution is
  standing the run is the one at which it stands, which has sent nothing (`Idle`); where it is
  not, what a retry deletes is not the run of what lies on the stack, and it counts as `retracted`.
- `WaitersLackInputs`: `NoneReady` says that once the stack is empty, no waiting node
  could run with what it has; among the waiting nodes of a workflow without loops there is a first
  one (`FirstToWait`, a minimal set again), and that one lacks a required input.
- `ReceivedOnce`: `Placed` says that a token is in at most one of the stack, the sets that wait, the
  runs that *count* and what was skipped (`Alone`), and that it comes from a run that counts
  (`Known`), so that a new token is nowhere yet. The run at which an execution is standing does not
  count, since it will be repeated; this makes stopping, resuming and
  retrying *quiet* steps that move nothing. The difficult one is a retry that removes a
  run although the execution did not stand there: `NotRecordedYet` shows that then the
  run had received other data, and the retry counts as `retracted`.
- `NothingIsLost`: `Lossless` adds that a set that waits for a node with at most two
  inputs was sent, lacks one, and, unless it is the first, is the *second* thing sent
  to its input (`SetFits`). Hence a new set takes the index of an old one only when a
  third run sends to that input (`AddSound`). `Idle` says that a run to be repeated has
  sent nothing, so that removing it takes nothing back.

**Only model-checked**: the liveness properties, which are out of the prover's
reach: `NoStarvation`, `NewEventuallyRun`, `WaitingEventuallyResumed`,
`CapacityReturned`, `ShutdownCompletes`, `StaleLeaderStepsDown`,
`LeadershipPassesOn`, `WaitingIsResumed`, `StepdownClosesTriggers`, `LeadersRunTriggers`,
`EntriesAreAnswered` and `StoppingEnds`. They are checked on the instances of section 4 only.

## 6. What is not in the models

- In `RegularMode`: the content of executions and their progress while they run,
  deletion of executions that are not to be saved, error workflows, the status
  field of entries, response promises except that attaching one may throw,
  `removeAll()` and `shutdown(true)` (not reached from the main process), the
  limit on the time a shutdown may take (a forced exit is a `Crash`), retries of
  executions, and queue mode. Database writes are atomic.
- In `LeaderElection`: failing commands other than lost replies. Redis itself
  does not fail over.
- In `MultiMain`: what a pruning or recovery cycle does, hard and soft deletion as timers
  of their own. Shutdown handlers and the start of `stopProcess()` are one step.
- In `ActiveWorkflowManager`: workflows and trigger nodes beyond one, crons, pollers and
  webhooks, activation and deactivation by users (and so the command
  `remove-triggers-and-pollers`), changes of the license at run time, lost replies
  (`Reconnect`). Redis delivers each command to each main that listens, and commands are not
  debounced. The row that a takeover has queried is read together with the role, and an
  activation error that is not tried again (`Authorization`) is left out. The interval of `checkLeader()` is longer
  than the initialisation of a main.
- In `Scaling`: executions that wait and come back as another job, error
  workflows, webhook responses through job progress, the deletion by hooks that
  follows a recovery from logs, queue metrics, and a `workflowRun` that rejects
  (`job-processor.ts:147`), after which the job would stay in `runningJobs` and keep a
  worker from exiting. The watchdog exists only when
  `queueRecoveryInterval` is positive, as it is by default; the model assumes
  it. Redis does not lose jobs.
- In `WorkflowExecute`: execution order v0, pinned data, the attempts of `retryOnFail`
  (one step), the contents of items and of error outputs, `runPartialWorkflow()`. Data and
  source of an input are one token, so what becomes of the sources alone is not seen.
- Progress that is saved after each node (`save-execution-progress.ts`): the nodes
  of a run are one step in the models of executions.
- Everywhere: logging, telemetry, metrics, events for the UI.

**Not modelled, and how much that is.** The repository has some 845,000 lines of
implementation. About nine tenths are integrations (`nodes-base`,
`@n8n/nodes-langchain`) and the editor: request builders, descriptions of
parameters, components of the UI. They have no protocol of their own that a state
machine could state, and no share of the whole that a model of the core covers
can be large. What the models cover is to be measured against the files under
1.1 to 1.4.

## 7. Behaviours met

Three are recorded as runs that end in a violation: `double_run`, `stuck_follower` and
`crash_mark`; `findings` in `PROJECT.json` quotes what the repository says of each.
The models reproduce the following as well, but for the last three; each line
names the place and the property that one would state to see it, or the exemption in
a property that is checked. None of them is asserted by a run.

| place (`cli/src/`) | what happens | property that fails |
|---|---|---|
| `workflow-runner.ts:322` | an execution stopped between `add()` and `attachWorkflowExecution()` loses its entry, attaching throws, and the workflow runs on, known to nobody, who no longer waits either | `RunsCanBeStopped` without "somebody waits" |
| `concurrency/concurrency-queue.ts:53` | removing a queued execution lets another start although none ended | `LimitRespected` |
| `commands/start.ts:307`, `:312` | the server listens before the startup pass, which then also finds and runs again what this process has just accepted, although the comment at line 358 speaks of those "enqueued at the time of shutdown" | the startup pass finds no execution of this process |
| `executions/execution.service.ts:450` | a queued resume of a manual execution stays in the queue when stopped, since `remove()` is given the mode of the row (`concurrency/concurrency-control.service.ts:104`) | a canceled execution is not queued |
| `databases/repositories/execution.repository.ts:350` | an execution that was just let through is set to running after its row was canceled | canceled is final |
| `executions/execution.service.ts:443`, `:462` | in regular mode, too, a stop that read the row before the end overwrites success | success is final |
| `wait-tracker.ts:81` | while a resume is queued its row still has `waitTill`, so each poll arms a timer and queues it again | an execution has one item in the queue |
| `active-executions.ts:78` | `setRunning()` fails after `throttle()`: the capacity is never given back | named in `CapacityLostOnlyHere` |
| `workflow-runner.ts:248` | `updateStatus()` fails outside of `try`: the entry stays, and shutdown waits for it | `ShutdownCompletes` with `storage` among the faults |
| `services/orchestration/main/multi-main-setup.ee.ts:101`, `:108` | a main dies between SETNX and EXPIRE: its key never expires | `LeadershipPassesOn` without `expires` |
| `services/orchestration/main/multi-main-setup.ee.ts:55` | after a lapse, a stale leader that shuts down deletes its successor's key | `KeyNotTakenAway` with `MaxLapses = 1` |
| `services/pruning.service.ts:81`, `:56` | `stopPruning()` returns early because the role is already follower, so a former leader prunes on, and another takeover adds a second pair of timers; the comment before `leader-stepdown` says pruning stops | a settled follower has no pruning timer |
| `scaling/scaling.service.ts:328` | a recovery cycle under way at stepdown schedules the next one afterwards | a settled follower has no recovery timer |
| `commands/start.ts:250` | stepdown and takeover follow each other, and the removal of triggers ends after their addition: a leader without triggers | `LeadersRunTriggers` without `disordered` |
| `services/orchestration.service.ts:163` | after a lapse, a stale leader and its successor both hold the trigger until the former's next check | at most one main has the trigger |
| `workflow-runner.ts:465` | the watchdog takes any job that is gone for a success, also one that failed: the row stays new or running, or is deleted | `AnsweredIsSettled`, `OnlySettledDeleted` without their condition on failed jobs |
| `workflow-runner.ts:406` | a hook fails after `addJob()`: the main reports and saves an error, while the job is still run | named in `SuccessStands` |
| `workflow-execute-additional-data.ts:1062` | in queue mode an execution that waits counts as successful, since its data has no error and `waitTill` is not handed on (`workflow-runner.ts:515`); where successes are not saved the main deletes it before it is resumed. The hook of regular mode asks for `waitTill` (line 468) | `OnlySettledDeleted` without "waiting" |
| `scaling/job-processor.ts:161` | an abort that arrives before the job is registered is ignored, and the execution runs on with a canceled row | a stopped execution does not go on |
| `executions/execution.service.ts:483` | an execution that is stopped after `add()` and before `addJob()` is canceled in the database, then enqueued and run | the same |
| `scaling/scaling.service.ts:102` | a worker exits while a job is picked up but not registered; it stalls and is run by another worker | `ExitWaitsForRuns` for jobs that are starting |
| `wait-tracker.ts:148` | the entries of cleared timers stay, so a main that loses and regains leadership never arms them again, although line 77 speaks of "timers for each waiting execution" | named in `WaitingIsResumed` |
| `scaling/scaling.service.ts:366` | while the queue is empty, nothing that dangles is marked as crashed, although line 349 says so of all | every dangling execution is marked, with fair cycles |
| `executions/execution.service.ts:491` | in queue mode a stop writes canceled over a success that came in the meantime, although line 443 says "Only running or waiting executions can be stopped" | named in `SuccessStands` |
| `executions/execution.service.ts:179` | a retry of an execution that was canceled between two nodes deletes the last run when that went on after an error, although it will not be repeated; line 171 speaks of a run "that it can be replaced" | `ResultsStand` without `retracted` |
| `core/src/WorkflowExecute.ts:528` | the index of a new set of waiting data may be that of one that waits, so that of three runs into one input the third replaces the data of the second; line 534 says "so create a new entry" | `NothingLost` for more than two runs into one input, or, since a partial run of the first set frees its index, for two runs into each of three inputs |
| `core/src/WorkflowExecute.ts:1667` | waiting nodes are looked at only after a node has passed through the whole loop: when the last one returned nothing, was skipped or was the destination, they are left behind | `NobodyLeftWaiting` without `skipped = {}` |
| `executions/execution.service.ts:170` | a retry throws when the last node returned nothing, since it has no runs | a failed execution can be retried |
| `core/src/WorkflowExecute.ts:931` | resuming disables the node itself, so that every other item of it on the stack is passed through too | a node is disabled for the item that waited |
| `active-workflow-manager.ts:529` | a leader decides to add the trigger, loses leadership, removes what there is, and then starts the trigger, which runs in a follower for good, although `multi-main-setup.ee.ts:75` says "lost leadership - stop triggers" | `StepdownClosesTriggers` without `disordered` |
| `active-workflow-manager.ts:592` | writing the count of triggers fails after the trigger has started; the retry replaces the entry and starts a second one, although `orchestration.service.ts:163` speaks of triggers that "are not duplicated" | `TriggersCanBeClosed` without `disordered`, with two triggers |
| `active-workflow-manager.ts:639` | with several mains a retry publishes a command and is over; when the leader that receives it fails, too, it sets the workflow inactive (`handle-command-message-main.ts:113`), although line 623 says "it will keep on trying" | a queued activation leads to a trigger that runs |
| `core/src/ActiveWorkflows.ts:69` | an addition replaces the entry while a removal closes the triggers of the old one; the removal then deletes the new entry, so the new trigger, which may be about to start, is never closed | `TriggersCanBeClosed` without `disordered` |
| `core/src/ActiveWorkflows.ts:227` | a trigger that cannot be closed ends the removal and leaves the entry | the same |
| `core/src/WorkflowExecute.ts:841` | with three or more inputs, the sources of the inputs that came earlier are lost when a later one arrives | (the models keep data and source as one) |
| `core/src/WorkflowExecute.ts:1181` | the condition of the loop that retries a node with an error in its data is a constant, and the results of the retries are dropped | (within one step of the model) |
| `core/src/WorkflowExecute.ts:1732` | the sets of waiting data are ordered as strings, so that 10 comes before 2 | (beyond the bounds) |
