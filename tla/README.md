# Sentinel Guard: a TLA+ verification project

Sentinel Guard is a local network-security application: a desktop program (Tauri, `apps/desktop`
and `frontend`) and an elevated Windows service (`service/elevated`) over a set of Rust crates.
This project models the parts of the Rust code whose correctness depends on order: who acts when,
what fails in between, and what is still true afterwards. Every module is translated from the
source; `PROJECT.json` maps each definition to the lines it stands for.

## 1. Inventory

### Parts and how they interact

| part | state it keeps | operations | talks to |
|---|---|---|---|
| event bus (`crates/platform/src/event_bus`) | topics, subscriptions, a queue for each, dead letters | register_topic, subscribe, publish, poll, ack, fail_delivery, dispatch_next | every pipeline publishes on it, behind one mutex of the runtime container |
| pipeline (`crates/platform/src/pipeline`) | a DAG of stages, a plan, completed nodes | add_node, build_execution_plan, decide_ready | the capture pipelines run it stage by stage |
| metadata watch (`app_core/src/portable_source_readers.rs`, `capabilities/src/continuous_metadata_watch.rs`) | a cursor for each file, source states, counters | configure, enable, pause, tick | a file another program writes; ingest of the capture pipeline |
| local metadata proxy (`capabilities/src/local_proxy_metadata_provider.rs`) | a worker thread, a bounded channel, statistics behind a lock | start, status, drain, stop | clients on localhost; the capture pipeline |
| mutation authorization (`app_core/src/mutation_authorization.rs`) | three bounded maps: idempotency records, seen intents, execution records; a clock | evaluate, consume_execution_authorization, invalidate_session | called by the IPC runtime with the session and the ownership epoch |
| ETW trace session (`infrastructure/src/windows/etw_session.rs`) | a kernel trace, two threads, two bounded channels, atomic counters, a cancellation flag | start, drain, stop; the event callback | started and stopped by the lifecycle's control thread |
| ETW lifecycle (`app_core/src/etw_lifecycle.rs`) | a status, the control thread's handle and sender, the session adapter | activate, pause, resume, stop, drain, shutdown_join | gated and recorded by the runtime container |
| runtime container (`app_core/src/runtime_container.rs`) | all runtimes, the provider controller, the IP helper schedule, the shutdown coordinator, leases | some 200 commands, each under one lock | everything |
| service IPC (`service/elevated/src/runtime_ipc.rs`) | connection, session, rate limiter, replay protector | handshake, requests, connection_closed | evaluator, container |
| service host (`service/elevated/src/service_host.rs`) | the serving thread, the scheduler thread, a stop flag, the lifecycle it reports | run, request (stop), stop_and_join | pipe clients, service manager, container |
| native scheduler (`app_core/src/native_scheduler*.rs`) | schedules with due times, retries, quarantine, backpressure; samplers and their permissions | actions, tick, reconcile | sampler runtime, permissions, host task |
| host task (`apps/desktop/src/lib.rs`) | a thread with a wake signal, a slot for its handle, a published copy of the state | start, stop, pause, resume, wake, timer tick | native scheduler, frontend |
| desktop storage (`crates/storage`) | a writer lock file, session directories with a marker, a migrated database | bootstrap, cleanup, end_session, migrate | other launches of the application, only through the disk |
| plugin runtime, resolver, registry (`crates/platform`) | catalogues | register, resolve | container |
| detections, reports (`crates/capabilities`) | nothing beyond a batch | scoring, rendering | bus |
| desktop and frontend | caches of read models | commands, event streams | app_core |

### What is hard

* **Order of two threads.** A subscriber polls the bus and acknowledges after other callers changed
  the queue. The callback, the normalizer and the control thread of a trace share counters without a
  lock. The proxy's worker sends a batch and counts it later; a drain takes and uncounts. The scheduler
  thread of the service reads the clock and then waits for a container that a session may leave
  meanwhile. The desktop publishes snapshots after it has released the lock they were taken under.
* **Waiting for each other.** A stop joins a thread that may be sending into a channel nobody empties;
  a handler locks a mutex it holds; a stop request comes between the look at the flag and the wait.
* **Failure in the middle.** A publication is refused by one subscription after another took it. A
  Windows call is refused after a transient state was set. A process dies between two file operations.
  Records are ingested and the cursor is not yet committed. A shutdown stage fails.
* **Limits.** Queues, channels, maps, windows and retry budgets are bounded; each has its own rule for
  what goes.
* **Copies and things that outlive each other.** A consumed authorisation and the idempotency record
  that can hand it out again; a count over all sessions and a count of one; the permission a scheduler
  remembers and the one that was revoked.

`PROJECT.json` lists these under "hazards", each at its line with the properties that watch it.

### What makes each part correct

* Event bus: each delivery is in one place (queue, acknowledged, dead-lettered); an acknowledgement
  removes only what was handed out; critical events are never evicted; order per subscription;
  bounds; a subscription that is served settles what it has.
* Pipeline: a plan is a topological order of exactly the enabled nodes, or the dag has a cycle or a
  missing node; no stage runs before what it needs.
* Metadata watch: no line is lost, none is read twice without a failure, a tick moves on.
* Local proxy: every batch is handed on once and in order; counters drift by one at most; stop ends.
* Authorization: an approval is executed once, in time, in its session and epoch, and as approved.
* Trace session: events are accounted for; stop ends both threads; reported counters keep the
  contract's rules.
* Lifecycle: nothing is collected behind the status; one control thread; a shutdown leaves nothing
  running; an operation's answer and the state agree.
* Service host: cycles run only in the session that leased the schedule and an interval apart; a
  stopped host has left no thread, lease or lock; a stop ends.
* Native scheduler: only permitted samplers run, within their retry budget; every due sampler gets its
  turn. Host task: one at most, none when stopped, and it ends when unwanted.
* Desktop storage: one writer; a migration once; what a crash leaves can be reclaimed.

## 2. Modules

| module | what it is |
|---|---|
| `EventBus` | the bus, one action per method call |
| `DeliveryLedger` | what the bus promises: a delivery is made once, waits, and is settled once as acknowledged or dead |
| `Pipeline` | a dag built node by node, Kahn's algorithm step by step, runs of the plan |
| `TailReader` | a growing file, its writer, and the ticks that read it |
| `Positions` | sorted sets of numbers and the parts of a sequence they pick; used by `Pipeline` and `TailReader` (no state) |
| `LocalProxy` | the proxy's worker thread and the commands against it |
| `MutationAuthorization` | the evaluator with its maps, driven by sessions, epochs and a clock |
| `EtwSession` | the three threads of a trace session, one action per shared access |
| `EtwLifecycle` | gate, lifecycle runtime, control thread, adapter, pump, controller's copy |
| `IpHelperSchedule` | the schedule record of the container and its operations (no state of its own) |
| `ServiceHost` | serving thread, scheduler thread, stop requester and clients over `IpHelperSchedule` |
| `IpcLimits` | rate limiter and replay protector |
| `NativeScheduler` | schedules, samplers, permissions, ticks |
| `HostTask` | the desktop's timer task and the commands that start, wake and stop it |
| `DesktopStorage` | launches, crashes and exits of processes that share a disk |
| `*_proofs` | theorems and proofs about the module of that name; `NativeScheduler_proofs` is also about `HostTask`, `ServiceHost_proofs` also about `IpcLimits`; `SourceThreads_proofs` is about `EtwSession` and `LocalProxy`, `PlanAndTail_proofs` about `Positions`, `TailReader` and `Pipeline` |
| `MC*` | the instances TLC checks |

Several `MC` modules hold more than one component. Those share no state: a step of one needs the
others to be where they began, so that TLC explores the sum of the state spaces, one component in each
behaviour. Fairness is conditioned in the same way, so that a behaviour of one component owes nothing
for another that never moved. Where components do interact they are one module (`ServiceHost` over
`IpHelperSchedule`, the schedule with samplers and permissions, lifecycle with its adapter).

**EventBus.** `queues`, `subs` and the dead letters are the fields of the Rust struct; a delivery
carries its publication, lane and attempt. `Publish*` are the ways through `publish` (incompatible
version, no subscription, routed to all matching subscriptions with `Enqueue` for each, in the order
of the code). `Poll` gives a caller the front of a queue; `Ack` and `FailDelivery` may come any
number of steps later, for whatever the caller was once given. `DispatchNext` is the synchronous
form with every answer a handler can give. Methods are atomic because
`RuntimeEventBusHandle` (runtime_container.rs) takes one mutex around each. The reasons a handler
gives for a dead letter are one reason.

**MutationAuthorization.** `idem`, `seen` and `exec` are the three maps. `Decide` is the chain of
checks of `evaluate_at`; the checks that look only at the request and at the environment are one
nondeterministic `refused`. `Evaluate` is decide, record (denials too) and the bound, which removes
an arbitrary entry because `HashMap::keys().next()` does. `approvals` is history: which approvals
were given, how they were used and which of their records the bound removed. A request that fails
in `Consume` only counts and is a stuttering step.

**EtwSession.** The state of each thread is where it stands; a step is one access to something
shared. `Start`, `OpenTrace` and `StopTrace` may fail; `TraceEnds` is another process that stops the
session. `live_outcome` is read counter by counter (`ReadCounter`). `merged` and `rejected` in
`tally` are history for the accounting.

**EtwLifecycle.** An operation waits for the control thread's answer under the container's lock and
is one action. Each result the adapter can give is in a set (`AdapterStart`, `Halt`), with the
refusal by Windows always among them. `Finish` validates and records, `Fail` is the early return.
`Activate` covers spawning; `Stop` and `Shutdown` share `stop_internal`. Not modelled: the check of
the owner's epoch at the head of each operation, a failure of the read-model snapshot, a panic in a
start. `trace_session_created`, `provider_enabled`, `collection_started` and `consumer_started`
change together and are one field.

**Pipeline.** `AddNode` builds any dag, with dependencies listed twice, on unknown nodes or on itself.
The in-degrees, the ready queue and the order are the locals of `topological_order`, a step pops one
node. The reference is `NeededBy`, the least closed set, which the algorithm never computes.
`decide_ready` ignores dependencies; that stages still find their input rests on the plan's order.

**TailReader.** The file is a sequence of bytes that know which line they belong to and whether they
end it. A tick stats, opens, reads, parses, ingests and commits; the writer acts between the first
two. The commands of the source change its state between ticks. Left out: the watch folder, the
sampling loop over several sources, health and counters.

**LocalProxy.** The worker's points are the accesses to the channel and to the statistics; the main
thread's are the batches a drain takes, the lock, the flag, the snapshot and the join. A batch is its
number. After the join nobody else is there, so collecting, the drain that follows and the status are
one step. Reading and parsing a request is one step that makes a batch, rejects or panics.

**IpHelperSchedule, ServiceHost.** The schedule is a record with one operator for each operation of
the container, including the early return when a publication fails: the first of an enable or resume
leaves the lease without a timer, the second leaves the timer set. `host` is where the serving thread
stands in `run` and in a pipe session; `timer` where the scheduler thread does. `MutationCommand` takes
an outcome: a failure under the container's lock moves the host to the point where it waits for
itself (`Held`). `CompleteStage` and `FailStage` walk `Stages`; `DropRuntime` is what destructors
release. Panics of the scheduler thread poison the lock. A client that
connects and leaves before the pipe is waited on may make `ConnectNamedPipe` fail (`PipeFails`), and
`run` ends with that error. Of a pass of the scheduler thread only the IP helper's part is modelled, not
the pumps of the other providers before it. The clock is the monotonic clock of the
schedule.

**IpcLimits.** `reads` and `taken` are history; the window is that of `Instant`s.

**NativeScheduler.** Times are relative to the last tick, so that behaviours are unbounded and states
finite. `quick` counts the runs of a failing sampler without a whole interval in between. A tick is
one step (`TickRun` with its early returns as actions of their own); commands and permission changes
each end with the reconciliation that the code runs after them. Every publication of a tick may fail,
before its cycle is stored (`stored`) or after. The due times are on the clock that ticks set; the wait
of a plan is measured by the time since the host task started. `ahead` is the difference of the two, kept
for the last phase, when the clients are quiet and the timer alone acts: `PlanWait` is what the plan
would wait, `PlanRefused` the plan that is longer than `MaxWait` (3,600,000 ms) and ends the task,
`TimerTick` the tick that follows an accepted one. `hostLife` is the host's lifecycle in that phase.

**HostTask.** A change of the command state and its publication in the copy are two steps of either
thread. The task's points are where it plans, checks, ticks, waits and leaves; a stop waits for it with
a timeout. The controller changes its status and validates it afterwards (`Valid`): a refused command
or record stays in the controller and does not reach the read state. `host` is therefore the controller's
status and `kept` the one the command state last had from it, which is what snapshots are made of. Of the
schedule only three cases are kept; `NativeScheduler` has the rest. A tick by hand is taken to succeed.

**DesktopStorage.** A process is a program counter over its file operations and may die at each. Every
operation may fail, the removal of the lock file at a release among them (`ReleaseWriter`; the code
ignores its error), after which the file is `stranded`; `remove_dir_all` removes entries in any order. A migration commits with its record
or not at all (SQLite is external).

## 3. Runs

| run | result | instance | what it shows |
|---|---|---|---|
| `platform` | pass | bus: 2 subscriptions, 2 publications; pipeline: all dags over 3 nodes; file: 3 lines in up to 5 bytes, 4 bytes and 2 records a tick, one failed commit | accounting, acknowledgements, protected publications; right plans and dependencies first; no line lost or read twice, progress |
| `bus_overflow` | pass | 1 subscription, redefined at will, 3 publications | order, bounds, critical events, refinement of `DeliveryLedger`, every delivery settled |
| `application` | pass | lifecycle: 2 waiting batches, 3 events a session, 4 published; storage: 2 processes, 3 launches, 2 migrations; authorization: maps of one record, 2 references, 2 sessions, 2 epochs, time to live 2 | all orders of lifecycle operations and refusals; one writer, migrations once, leftovers; single use, time to live, nothing outlives its session |
| `etw_session` | pass | channels of 1, batches of up to 2, 3 events; proxy: a channel of 2, 4 connections, 5 commands | accounting, rate limit, rest after stop, stop completes; batches handed on once, counters, stop of the proxy ends |
| `native_scheduler` | pass | 2 samplers, interval 2, longest wait 2, retry delay 1, budget 1, a rate window of 1 cycle, 4 commands; host: 2 tasks, 3 commands, plans that fail | permitted runs, retries, turns for every sampler whatever pressure earlier cycles left, unless a tick fails or a plan is refused; one task, it ends, the copy catches up |
| `service_host` | pass | 2 connections, 4 requests, interval 2, 3 ticks; limits of 2 and 3 | cycles and leases, clean stops, stops end; the limiter's and the protector's bounds |
| `authorization_single_use` | violation | maps of 2 records | a consumed authorisation is handed out again |
| `etw_session_snapshot` | violation | as `etw_session` | a drained outcome breaks the contract's rules |
| `etw_lifecycle_resume` | violation | as `application` | a resume that succeeds answers with an error |
| `etw_lifecycle_refused` | violation | as `application` | a refused resume leaves a state nothing leads out of |
| `service_host_disconnect` | violation | 1 connection | a failed command leaves the serving thread waiting for itself |
| `host_task_start` | violation | 2 tasks, 3 commands, no failing plans | a start that finds a task on its way out starts nothing |

Several properties are conjunctions of named parts, each with its own comment in its module:
`InPublicationOrder` and `WithinDefinitions` (event bus), `LinesReadOnce` (tail reader),
`CountersFollowBatches` (local proxy), `OnceUnlessForgotten` and `UsesAsGranted` (authorisation),
`StatusIsTrue` (lifecycle), `LossesExplained` (trace session), `TasksMatchState` (host task) and
`LimitsExact` (IPC limits). The type invariants of `EtwSession`, `EtwLifecycle`, `DesktopStorage` and
`HostTask` are proved; those of the other modules state the domains of their variables.

Why the bounds are enough. The bus: eviction needs a full queue, an incoming event and one to go, so a
capacity of one and three publications have every case, including an eviction between a poll and its
acknowledgement. Pipeline: three nodes give chains, forks, joins, self-loops and cycles through a
disabled node. File: five bytes hold two lines and a half-written one, four bytes a tick cut the file
inside a line, and two records a tick leave lines behind. Authorization: with maps of one record every
second entry evicts, so all combinations of surviving records occur. Trace session: with a channel of
one, the second event can find it full, and the third tells a drop from a delay. Proxy: two batches in
the channel and a third connection meet it full; five commands are a start, a drain, a stop and a
second run. Lifecycle: two batches in the queue and more events reach the full queue, and two sessions
with published batches in the first reach the contract's comparison. Scheduler: two samplers of
different priority compete for a tick, and its states are finite without a bound on time; four commands
enable both, revoke one and enable again. The longest wait is one interval, as an hourly schedule has it
(the code's largest interval is its longest wait): every distance of the clocks above zero then refuses
some plan. A rate window of one cycle still reaches a pressure that defers samplers and one that is
saturated, since a cycle of two samplers can time out in half or wholly, and every cycle, a skipped one
too, replaces what the window holds; eight cycles make the pressure last longer. Host: two tasks let a start meet the task of an earlier one.
Service: two connections let a second session meet the lease of the first. Storage: three launches by
two processes let one clean up behind a crash while another is alive.

Fairness. `EventBus!FairSpec` assumes that the owner of a subscription keeps dispatching; nothing of
publishers or of the handler's answers. `EtwSession` assumes that the operating system runs its three
threads and that `ProcessTrace` returns once its handle is closed or its trace is stopped, as Windows
documents. `LocalProxy` assumes that the worker runs (its reads and writes have timeouts) and that a
command that has begun goes on. `ServiceHost` assumes that both threads run, that the wake connects and
that clients leave in the end; no connection, request or stop is forced. `NativeScheduler` assumes that
the host task goes on once the clients are quiet (`TimerStep`: a wait ends, the next plan is made);
`HostTask` that both threads run and that
waits end at their timeout. Nothing forces a command, an event, a failure or a crash anywhere.

Deadlock is checked where the system never rests (bus, trace session) and not in the runs whose
components come to rest when the clock, the commands or the processes have run out.

## 4. Findings

* `authorization_single_use`: the bound on the execution records may remove a consumed one; the
  idempotency record returns the approval for a repeated intent and the execution record is inserted
  as unused. What does hold (`SingleUseUnlessForgotten`) is single use as long as the record is kept.
* `etw_session_snapshot`: the counters of a live session are read one by one, `dropped` before its
  reasons, while the callback adds to the reason first.
* `etw_lifecycle_resume`: `published_batch_count` is of the runtime, `normalized_event_count` of the
  session; the contract compares them. After a session whose batches were published, resume, stop
  of a paused provider and activate answer with an error although they were carried out.
* `etw_lifecycle_refused`: pause, resume and stop leave a transient state when Windows refuses, and
  the gate admits nothing from there. Only a shutdown gets past it (`ShutdownStops` holds).
* `service_host_disconnect`: the error arm of the mutation handlers locks the container mutex while
  the handler's guard is alive. The serving thread never returns, the disconnect is never handled, the
  lease stays and a stop of the service does not end (`StopEnds` names this case).
* `host_task_start`: `ensure_started` takes a handle that is not finished for a task that runs; one
  that was cancelled or is leaving ignores the notification.

Behaviours that the models have and that no text of the repository contradicts, so that they are
exceptions in a property rather than findings:

* A stop request between the look at the flag and the creation of the pipe waits for the next client
  (`StopEnds`).
* The proxy's pending count may stay one too high for good, also after a stop (`PendingOffByOne`): a
  drain overtook the count of a batch. A worker that panicked takes the batches in its channel with it
  and leaves `capture_available` set.
* A file that was replaced and grew past the cursor before a tick looked is read from the middle; a
  line longer than the buffer, a buffer of blank lines or a byte that is not UTF-8 holds the source
  up for ever (`NoLineLost`, `TickMakesProgress`).
* The writer lock outlives an orderly exit of the installed mode, and a release whose `remove_file`
  fails, on the error path of a bootstrap or on a close; no launch gets past such a file
  (`WriterLockExact`). A second launch removes the session directory of a live one
  (`LeftoversReclaimable`).
* A task whose plans are always due never looks at its signal (`UnwantedTaskEnds`).
* The clock of the schedule is moved to the next due time by every wake and to any time by a manual
  tick, while a plan measures its wait by the time the task has run. A schedule of one hour and a single
  `WakeNow` make a wait of more than the 3,600,000 ms a plan may ask for; so can the ticks of a second
  sampler. The plan is refused, the task ends, and the host says Failed until it is started again. A
  tick whose publication fails leaves the host Degraded, with idle plans until it is started
  again. `DueSamplerRuns` names both, and that no plan is refused while the clock is not ahead.
* After a revocation the task's records are refused, because they say that a timer is active which the
  host no longer owns. The status they leave makes the next plan fail, so that a revoked host ends as
  Failed. Pausing or resuming a host whose task has left is answered with an error and changes the
  controller all the same; only a start or a stop leads out.
* A stop whose wake connects and leaves before the pipe is waited on may end `run` with the error of
  `ConnectNamedPipe` instead of an orderly stop.
* The rate limiter lets twice its limit through around the end of a window; mutation commands do not
  ask it (`RateLimiterSound`).

## 5. Proofs

TLC checks the instances of section 3; the theorems below hold for every value of the constants
that satisfies the modules' assumptions.

**`EtwLifecycle_proofs`** assumes `LifecycleAssumption`: the batch queue has room for at least one
batch, the other bounds are natural numbers. Its invariant is
`IInv == TypeOK /\ ThreadAgrees /\ StatesAgree /\ ShutdownStops`. `NoHiddenCollection` is not
inductive: from a state where the lifecycle says Paused and the thread is gone, a resume would do
anything. `ThreadAgrees` ties the handle, the thread and the status flag together; `StatesAgree` says
what every state that the container's gate lets an operation out of implies of the thread and the
adapter, and conversely that a session exists only while the lifecycle is Active. There is one lemma
for each operation, split along its error paths.

| theorem | property |
|---|---|
| `TypeCorrect` | `TypeOK` |
| `NoHidden` | `NoHiddenCollection`: nothing collects behind a status other than Active and Authorized |
| `SingleThread` | `OneControlThread` |
| `ActiveIsBacked` | `ActiveHasSession` |
| `StatusTrue` | `StatusIsTrue`: the two together, as the run checks them |
| `ShutdownComplete` | `ShutdownStops` |

**`SourceThreads_proofs`**, part 1, is about the trace session and assumes `CapacityAssumption`: capacities, batch size and rate are positive.
Its invariant is `IInv == TypeOK /\ HandsAgree /\ EventsAccounted /\ RateAgrees /\ StopAgrees /\
LeavingAgrees`.

* `EventsAccounted` is a sum over counters, channels and what a thread has in its hands. A flush that
  finds nothing pending, or an offer that returns, keeps the sum only because of what the normalizer's
  position says of `pending` and `offered`: `HandsAgree`. It also gives that a receive never makes a
  batch larger than `ETW_MAX_BATCH_SIZE`.
* `RateBounded` needs that what got through in a window is part of what the window counted.
* `LostOnlyWhenCancelled` is about the end of the normalizer. `LeavingAgrees` carries the reason why it
  is leaving through the last flush, the offer and the drop: the flag was set, or the consumer had
  ended and the channel was empty, and neither can be undone.
* `NothingAfterStop` and `StoppedCountersValid` need the order in which stop cancels, closes, and joins
  the two threads: `StopAgrees`. With both threads ended every term that could be between two counters
  is zero, and the inequalities of the contract follow from the sum. (While a session runs they do not
  hold: see the finding on `SnapshotValid`.)

| theorem | property |
|---|---|
| `TypeCorrect` | `TypeOK`, with the capacities of both channels |
| `Accounting` | `EventsAccounted` |
| `NoSilentLoss` | `LostOnlyWhenCancelled` |
| `NoneUnexplained` | `LossesExplained`: the two together, as the run checks them |
| `RateLimited` | `RateBounded` |
| `StoppedValid` | `StoppedCountersValid` |
| `AtRest` | `NothingAfterStop` (an action property) |

**`DesktopStorage_proofs`** assumes `DesktopStorageAssumption`: the bounds are natural numbers; the set
of processes is any set. Its invariant is `StorageInv == ProcTypes /\ DiskTypes /\ ModesFit /\
MarkedSessions /\ RecordsAgree /\ WriterLockExact /\ LeftoversReclaimable`. That one process owns the
lock needs only `create_new`; that the file is there exactly while one owns it or since one left it
behind, and that nobody owns it after that, needs the point of every process (`ModesFit`), through
releases that remove the file and releases that fail to. `MigrationsOnce` is about what took effect; `RecordsAgree` ties it to what is recorded,
from which the next bootstrap decides. `LeftoversReclaimable` needs that a process which writes data has
a marked session of its own (`MarkedSessions`), through the cleanups of others.

| theorem | property |
|---|---|
| `StorageInvariant` | the invariant itself |
| `WriterIsExclusive` | `WriterLockExact` |
| `MigrationsAreOnce` | `MigrationsOnce` |
| `DataIsReclaimable` | `LeftoversReclaimable` |

**`NativeScheduler_proofs`** has two parts. The one about the timer task assumes `HostTaskAssumption`;
its invariant is `HostInv == HostTypes /\ OwnedTask /\ QuietStop /\ StartedFirst /\ StoppedHasNoTask`.
`OneHostTask` is not inductive, because a start looks only at the slot: `OwnedTask` says that a task
which is alive is the one in the slot, or the one a stop has taken from it and waits for.
`StoppedHasNoTask` needs that a start on its way to spawn has left Stopped (`StartedFirst`) and that a
stop writes it only when nothing is alive (`QuietStop`).

The part about the schedule assumes `SchedulerConstants`: samplers are numbered and have
one of three priorities, the interval is positive and the retry delay no longer than it. Its invariant is `ScheduleInv == WorkInv /\ RetryInv`. `WorkInv` adds to
`RunningHasWork` that schedules are enabled only under a controller that runs or is paused, because a
resume asks no more than that. `RetriesWithinBudget` is about runs that came less than an interval after
the one before; `RetryInv` says, for every enabled schedule, why the next such run is paid for
(`Spaced`): the last run is an interval ago, or the due time lies an interval after it, or the retry
counter is already ahead of the quick runs. That holds for enabled schedules only, and enabling one
resets what it left behind.

| theorem | property |
|---|---|
| `HostInvariant`, `ScheduleInvariant` | the two invariants |
| `SingleHostTask` | `OneHostTask` |
| `StoppedIsQuiet` | `StoppedHasNoTask` |
| `TasksMatch` | `TasksMatchState`: the two together, as the run checks them |
| `RunningControllerHasWork` | `RunningHasWork` |
| `RetriesStayInBudget` | `RetriesWithinBudget` |
| `OnlyPermittedRun` | `RunsOnlyPermitted` (an action property) |

**`EventBus_proofs`** assumes that configurations, lanes and major versions are of their types
(`TopicAssumption`, `SubAssumption`, `LaneAssumption`, `MajorAssumption`) and that the number of
publications is bounded. Its invariant `BusInv` says of each subscription that what waits for it, what it
acknowledged and what was buried for it are disjoint and make up exactly what publish matched for it
(`Accounts`). `EveryDeliveryAccounted` speaks of made publications only, and would let a queue hold the
one to come. Accounts and order need each other: a publication is at one position of a queue, so taking
it off takes it out of the account; and what is appended was published last. Every operation is first
described by what it does to the accounts (`Publishes`, `Settles` or `Rests`); from that follow the
invariant, and the refinement of `DeliveryLedger`, whose fates are the accounts.

| theorem | property |
|---|---|
| `BusInvariant`, `TypeCorrect` | the invariant, and the types |
| `NoneLostNoneTwice` | `EveryDeliveryAccounted` |
| `OrderIsKept` | `InPublicationOrder` |
| `AcksAreOfHanded` | `AckedWasHandled` |
| `DefinitionsBind` | `WithinDefinitions` |
| `CriticalIsDelivered` | `CriticalLeavesOnlyHandled` (an action property) |
| `ProtectedIsTold` | `ProtectedAnswerIsTrue` (an action property) |
| `BusImplementsLedger` | `ImplementsLedger`: the safety part of `DeliveryLedger`, step by step |

**`MutationAuthorization_proofs`** assumes the policies' types with the rule of
`MutationCommandPolicy::validate` (what may be executed is single use), that the lifetime and the bound
of the maps are positive, and that "no key" is not a key. `evaluate_at` can make an execution record from
nothing but an idempotency record, so that single use is not inductive. `AuthInv` also says what the three
maps know: an idempotency record returns the approval of its own key, request and time (`RecordsMatch`),
an execution record is of its approval (`AuthorizationsMatch`), and whatever an approval of the connected
session left in a map is still there unless the bound took it out (`Remembered`).

| theorem | property |
|---|---|
| `AuthorizationInvariant`, `AuthorizationTypes` | the invariant, and the types |
| `AuthorizationsDieWithSession` | `OnlyLiveAuthorizations` |
| `SingleUseWhileRemembered` | `OnceUnlessForgotten` |
| `UsesAreGranted` | `UsesAsGranted` |

**`SourceThreads_proofs`**, part 2, is about the proxy and assumes `ProxyAssumption`. The properties speak of the moments between two
commands; `ProxyInv == ProxyTypes /\ BatchesKnown /\ Phases /\ DrainedCount /\ PendingCount` says what
holds in the middle of one. What was handed, is in hand and is in the channel is one sequence
(`BatchesKnown`), which drain and stop only cut differently; the pending count is compared with channel
and hand together, since a drain takes first and uncounts later, and is one lower while the worker stands
between its send and its count (`PendingCount`).

| theorem | property |
|---|---|
| `ProxyInvariant` | the invariant itself |
| `BatchesAreHandedOnce` | `BatchesHandedOnce` |
| `CountersAreRight` | `CountersFollowBatches` |

**`ServiceHost_proofs`** assumes `HostAssumption` and `IntervalAssumption` for the host, whose invariant
is `HostInv == TypeOK /\ Connections /\ Shutdown /\ Leases`: where the serving thread may stand with a
connection and a session, what each stage of a shutdown has done and that the scheduler thread is gone
before the first, and that a schedule under a lease is that of the session being served, next due an
interval after it last ran. A poisoned lock freezes the schedule with its lease; the lease and the session
are tied only while it is not.

For the dispatcher's limits it assumes `LimitsAssumption`. `CacheOf` compares the replay cache with the
history index by index. `LimiterOf` does the same for the rate limiter: a read that a window counts is
never older than the window, so the loop that pops old reads finds none and reads are forgotten only all
at once, when a window runs out. The reads of the window are therefore the last ones, those before them
are older than its start, and all but `RateLimit` of these by more than a window; any stretch of a
window's length meets at most two windows.

| theorem | property |
|---|---|
| `HostInvariant`, `HostTypesKept` | the invariant, and the types |
| `HostStopsClean` | `StoppedIsClean` |
| `CyclesStayInLease` | `CyclesKeepLease` (an action property) |
| `ReplayCacheExact` | `ReplayWindowExact` |
| `LimiterIsSound` | `RateLimiterSound` |
| `LimitsAreExact` | `LimitsExact`: the two together, as the run checks them |

**`PlanAndTail_proofs`** has three parts. The first says what `Ascending` and `Picked` return: `CHOOSE`
tells the provers nothing until there is something to choose, and the members of a finite set in
order of their rank (how many members are not above) are such a thing. An increasing enumeration also
leaves no member out, so what is picked keeps the order and loses nothing.

The second, about the tail reader, assumes `TailReaderAssumption`: the limits of a tick are positive,
the bounds natural numbers. Its invariant is `TailInv == TailTypes /\ LinesInOrder /\ TickAgrees /\
CursorAtEnd /\ PassedTaken /\ HandedBehind`. `NoRedelivery` is not inductive: that no line behind the
cursor was handed over says nothing of the next tick once the file is replaced. `HandedBehind` says
instead that what was handed over is older than all that is still to be read, which in a replaced file
is everything, and `LinesInOrder` that the file holds its lines in the order they were begun. A tick is
two steps with writers between them; `TickAgrees` carries what the first saw to the second. `PassedTaken`
and `CursorAtEnd` are `NoLineLost` without its condition on the source: a revoked one has lost its cursor.

The third, about the pipeline, assumes `PipeNodesAssumption`: the nodes are a finite set of numbers. Its
invariant is `PipeInv == PipeTypes /\ Validated /\ Sorting /\ Answered /\ Planned /\ Executed`. The loop
of `topological_order` keeps that a node's count is the number of its dependency entries (with those that
are listed twice) which are not yet ordered, and that the queue is exactly the nodes that wait for none
(`Sorting`); a node taken from the queue has therefore all its dependencies before it. If every node was
ordered, the nodes before one in the order are closed under dependencies and hold all it needs, so it
does not need itself. If not, no node that is left has a count of zero: each depends on another that is
left, and one of those whose set of needed nodes is smallest (the strict subset relation on a finite set
is well founded) needs itself, so `CycleDetected` is right. `Executed` says that a run has completed a
first part of the plan, which is why `decide_ready` may ignore dependencies.

| theorem | property |
|---|---|
| `TailInvariant`, `PipeInvariant` | the two invariants |
| `LinesAreReadOnce` | `LinesReadOnce` |
| `TicksMakeProgress` | `TickMakesProgress` (an action property) |
| `PlansAreRight` | `PlanIsRight` |
| `RunsFollowDependencies` | `DependenciesFirst` (an action property) |

The inductive invariants of the schedule, of the host, of the tail reader and of the pipeline were
checked by TLC, as invariants of the instances of section 3, before they were proved.

With these, every invariant and every safety property of a step that a passing run checks is proved.
Only model-checked are the liveness properties (`EveryDeliverySettled`, `StopCompletes`, `StopJoins`,
`StopEnds`, `DueSamplerRuns`, `UnwantedTaskEnds`, `CopyCatchesUp`), which need fairness and are out of
the prover's reach.

## 6. What is not modelled, and the plan

The map covers a few per cent of the repository's lines. Most of the rest has no behaviour that a state
machine would say anything about: contracts are data structures with validators and serialisation,
`read_commands.rs` and much of `runtime_container.rs` and `mutation_commands.rs` assemble read models
for one request, `portable_capture_lite.rs`, `static_plugin_runtime.rs` and the detections compute
scores and graphs over one batch in floating point, `apps/desktop/src/lib.rs` has one binding for each
command, and about half of each large file is tests. Widening the lines of a definition over such code
would claim a translation that is not there.

Not modelled for good: formatting, redaction and validation of strings; the detections; reports; the
bindings of the desktop application and the frontend; the plugin runtime, the response plans and
`event_streams`, which run on one thread and whose operations check one state and set another.
Counters are natural numbers: that the `u32` counters of a trace session wrap after 2^32 events, when the
contract's rules between them no longer hold, is out of the reach of the runs.

Plan, in this order:

1. A composition of `EtwSession` under `EtwLifecycle`'s adapter: that the session implements what the
   lifecycle assumes of it.
2. The event-log readers (`event_log_auth_remote.rs` and its three twins) with their bookmarks, and the
   DNS and authentication-log lifecycles.
3. The watch folder and the sampling loop over several sources; the retries of the service client.
