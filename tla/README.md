# A TLA+ model of exeggutor

exeggutor is a mesos framework: it keeps application manifests, queues them for
deployment, launches them on resource offers, follows their status, checks
their health and is meant to keep the number of instances within their SLA.
This directory holds TLA+ modules for its concurrent core, configurations with
which TLC checks them on small instances, and proofs for TLAPS.

Paths below are relative to `src/`.

## 1. The system

### 1.1 Inventory

| component | state | operations | where |
|---|---|---|---|
| task manager | none of its own: it writes the task store, the application store, the queue, the health register | SubmitApp, FulfillOffer, TaskXxx callbacks, TaskStopping, the loop `listenForHealthFailures`, Start, Stop | `tasks/default_task_manager.go` |
| framework scheduler | framework id, driver | StatusUpdate, ResourceOffers, the loop `listenForTasksToKill`, KillApp, KillComponent, KillComponentOnSlave, Start, Stop | `scheduler/scheduler.go` |
| task queue | a heap of ScheduledApps that remember their Position and Since | Enqueue, Dequeue, DequeueFirst, CountAppsForID | `tasks/queue/task_queue.go` |
| health checker | register, queue of checks by expiry, pool (work, updates, pending, waitForSlot), results, failures | Register, Unregister, three loops and a goroutine per check, Stop | `health/checker.go`, `health/queue.go` |
| SLA monitor | ticker, channel needsScaling | NeedsMoreInstances, CanDeployMoreInstances, the conformance loop | `health/sla/sla.go` |
| task store | deployments, in memory | Get, Save, Delete, Filter, RunningAppsCount | `store/tasks/task_store.go`, `store/in_memory_store.go` |
| application store | manifests, in LMDB | Get, Save, Delete, ForEach | `store/apps/app_store.go`, `store/mdb_store.go` |
| REST API | none | list, show, save, delete, deploy | `agora/api/` |
| message builder | none | BuildTaskInfo and the ports of an offer | `tasks/builders/builders.go` |
| framework id state | a cached zookeeper node | Get, Set, Start, Stop | `state/` |
| check over TCP, HTTP | the configuration of the check | Check, Update, Cancel | `health/check/` |
| server | the wiring; stops the parts in order | main | `agora/main.go`, `config.go` |

### 1.2 Who runs what

Five kinds of goroutine enter the task manager, and no method of it takes a
lock:

* the mesos driver's thread, one callback at a time (`StatusUpdate`,
  `ResourceOffers`);
* `listenForHealthFailures`, which receives from the health checker's unbuffered
  `failures` and sends to the unbuffered `tasksToKill`;
* `listenForTasksToKill`, which receives from it and calls KillApp, which calls
  back into the task manager;
* one goroutine for every REST request (save, delete, deploy);
* whoever uses the exported methods of Framework (KillApp, KillComponent, ...).

`updateStatus` is the centre: Get a deployment, set its status, Save the copy,
Get the application, ask the monitor, perhaps enqueue another instance,
register or unregister the health check. Each of these is a call to another
component and any other goroutine can run between two of them.

The health checker is a circle of goroutines: the dequeue loop pops an expired
check and sends it on `work`; the pool starts a worker for it; the worker sends
its outcome on `updates`; the pool forwards it to `results` and removes the check
from `pending`; the dispatcher pushes the check back into the queue and sends
failures on. Register and Unregister come from outside at any moment.

### 1.3 What is hard, and what correctness means

* **updateStatus on stale copies** (`default_task_manager.go` 343-352). A copy
  saved late must not revive a status that is no longer true. Holds for STARTED
  (`StartedIsAlive`), fails for STOPPED, in a way that
  `FinishedIsOverwritten` says exactly.
* **Check, then enqueue** (194, 203). Concurrent deploys exceed the maximum; by
  how much is `QueueOvershootBound`.
* **Save, then launch** (334, and `scheduler.go` 194). A launched task must have
  a deployment (`LaunchIsTracked`).
* **forgetTask against updateStatus** (379-389). A check must not be left in the
  register without a deployment (`RegisteredIsStored`), also when mesos repeats
  old reports after new ones.
* **The guard of FulfillOffer's loop** (308), evaluated on a nil item
  (`ProductionLaunchesNothing`). What the queue does when the guard is true, as
  with the monitor of the tests, is `QueueDrains`.
* **Two unbuffered channels in a row** (109, 117). The health loop must come back
  (`HealthLoopReturns`).
* **What travels over tasksToKill** (`scheduler.go` 251): an id where a name is expected
  (`UnhealthyKeepsRunning`).
* **Positions in a heap** (`task_queue.go` 142). DequeueFirst removes by the
  position the item remembers (`PositionsExact`, `HeapOrder`, `Refines`).
* **A check that circulates while tasks come and go** (`checker.go`): never in
  two places, never lost, counted exactly, never starved, and hard to get rid of
  (`NeverTwice`, `NeverLost`, `PendingExact`, `CheckedForever`,
  `LeavesOnlyFromQueue`).
* **Restart**: the task store is memory, the application store is not.
* **Shutdown** (`default_task_manager.go` 131, `checker.go` 189): channels are
  closed while goroutines may still send on them (`ProtectedChannels`); Stop is
  called from the loop whose progress it needs (`StopsOrSticks`, `StaysStuck`);
  the stores go after the loops of the task manager and of the SLA monitor, which
  read them (`StoresOutliveLoops`); the kill loop and the HTTP handlers are not
  waited for.
* **Ports in a fragmented offer** (`builders.go` 40-92). What is taken must be
  inside what is offered, tasks must not share it, and the deployment must name
  the port that the task was told (`GrantsDisjoint`, `PublicPortsDistinct`); what
  fits must be built (`PanicsOnExactFit`).
* **Iterating while others write** (`mdb_store.go` 157), errors in the middle of
  a transaction (78, 91), a process that ends between Put and Commit (81): a call
  must be atomic (`Refines` of `MdbStore`) and give back the write lock
  (`LockReleased`).

* **Counting while others write** (`sla.go` 106-162). The SLA loop ranges over a
  map that is in use, then reads the queue, so its count is of no single moment,
  and a task that is deleted and saved again meanwhile can be listed twice;
  it must still be one that a reader can act on (`CountsWithinRound`,
  `SweepWithinRound`), and a request that is not sent must come again
  (`GapIsRequested`).
* **An id that must outlive the process** (`scheduler.go` 122, 221, 259;
  `zookeeper_framework_id_state.go`). The tasks run under the framework id: a
  crash before it is stored, a store that fails silently, an HTTP goroutine that
  writes back what it read, a clean stop (`OrphansBound`, `ShownIsRegistered`,
  `StopIsFinal`).
* **What an answer of the API is worth** (`applications.go` 118-154): several
  components are saved one by one, errors of the store are ignored, ids are
  joined with a character that names may have (`SavedIsStored`, `NoSlaIsStored`,
  `OverwriteNeedsDash`, `DeleteOnce`, `ShownWasPosted`).

`PROJECT.json` lists every hazard with its line and the properties that cover
it.

## 2. The modules

| module | models | rests on |
|---|---|---|
| `SLAMonitor` | the two decisions of the monitor, as operators | - |
| `TaskManager` | task manager, framework callbacks, kill loop, clients, stores, restart | `SLAMonitor` |
| `MCTaskManager` | manifests for TLC | `TaskManager` |
| `TaskManagerProofs` | theorems about TaskManager | `TaskManager` |
| `TaskQueueSpec` | what the queue promises: the abstract specification | - |
| `TaskQueue` | the heap; refines `TaskQueueSpec` | `TaskQueueSpec` (INSTANCE) |
| `MCTaskQueue` | sizes for TLC | `TaskQueue` |
| `TaskQueueProofs` | theorems about TaskQueue | `TaskQueue` |
| `HealthChecker` | register, queue, dequeue loop, pool, workers, dispatcher | - |
| `HealthCheckerProofs` | theorems about HealthChecker | `HealthChecker` |
| `Shutdown` | how main stops task manager, checker, pool and monitor while all their loops run | - |
| `ShutdownProofs` | theorems about Shutdown | `Shutdown` |
| `MessageBuilder` | the ports of a slave: offer, fit, pick, grant, mapping | - |
| `MCMessageBuilder` | a slave and applications for TLC | `MessageBuilder` |
| `MessageBuilderProofs` | theorems about MessageBuilder | `MessageBuilder` |
| `TaskStore` | the map under the task store, with a range over it that others interrupt | - |
| `SLALoop` | the conformance loop of the monitor, against every write of the others | `TaskStore` |
| `MCSLALoop` | manifests for TLC | `SLALoop` |
| `FrameworkId` | the stored framework id, driver, HTTP goroutines, crashes, stops | - |
| `FrameworkIdProofs` | theorems about FrameworkId | `FrameworkId` |
| `Applications` | the handlers of the REST API: validate, convert, store, answer | - |
| `MCApplications` | bodies for TLC | `Applications` |
| `ApplicationsProofs` | theorems about Applications | `Applications` |
| `KVRequests` | the calls of a key/value store and what they read, as operators | - |
| `KVStore` | what a key/value store promises: the abstract specification | `KVRequests` |
| `MdbStore` | the store on LMDB; refines `KVStore` | `KVRequests`, `KVStore` (INSTANCE) |
| `MdbStoreProofs` | theorems about MdbStore | `MdbStore` |

Definitions whose comment begins with "Mutant:" are not part of the models.
They are plausible bugs: each, put in the place of the definition that follows
it, makes TLC refute the property `PROJECT.json` names.

### 2.1 TaskManager

`pc[t]` is the next step of the handler that goroutine `t` runs, and `task`,
`dep`, `app`, `count`, `todo` are its local variables. A handler is cut at each
call to a shared component, so one action is one such call with the local code
around it:

| code | actions |
|---|---|
| `updateStatus` | `Get` (with the caller), `Save`, `LookupApp`, `NeedsRunning`, `NeedsQueued`, then `CanRunning`, `CanQueued`, `Enqueue` when the SLA asks for it, then `UpdateChecks` |
| `scheduleAppForDeployment` | `CanRunning`, `CanQueued`, `Enqueue` |
| `StatusUpdate` | `StatusUpdate` (states that update), `StuckUpdate`, `ForgetUnregister`, `ForgetDelete`, `KillTask` (staging, starting) |
| `ResourceOffers`, `FulfillOffer` | `FulfillOffer`, `SaveDeployment`, `LaunchTasks`; `DeclineOffer` |
| `listenForHealthFailures` | `ReceiveFailure`, `MarkUnhealthy`, updateStatus, `TasksToKill` |
| `listenForTasksToKill`, `KillApp` | `KillAppOfTask` or `KillApp`, then `TaskStopping`, updateStatus, `KillTask`, `KillAppDone` |
| REST API, Framework | `SaveApp`, `DeleteApp`, `Deploy`, `KillComponent`, `KillComponentOnSlave` |
| the process dies | `Restart` |

What is abstracted:

* A manifest is a record of what decisions read; whether it gets a health check
  (`checkDisabled`: SLA, configuration, port) is its field `checked`; CPU, memory
  and ports of `fitsInOffer` are one `size`, since every one of them is compared
  with at-least.
* `SubmitApp` gets one component, as `Deploy` passes it. With several, the Go of
  this code lets all queued items point at the one loop variable; see section 6.
* Each call to a store is atomic. The map under the task store and the register
  have no lock: a data race on them is undefined and outside the model. So is a
  change between two elements that `FindTasksForApp` visits.
* The decoding of a missing deployment fails (required fields), so `Get` of a
  task that is not stored is an error: updateStatus ends.
* The task ids are handed out once each; `IdsUsedUp` marks the end of an
  instance.
* The cluster (`mesos`) is external: a task is launched, reported running, ends;
  every report can be repeated. With `Delivery = "unordered"` an old TASK_RUNNING
  can come after the end.
* The health checker is external here: it may report a failure of every task it
  was ever told to check, because one that is checked while it is unregistered
  stays on the circle (`LeavesOnlyFromQueue` of `HealthChecker`).

`Monitor` has two values. "simple" is the monitor `NewDefaultTaskManager` wires.
"noop" is the one of the tests (`health/test_utils/noop_sla_monitor.go`), which
answers yes to everything. Since the wired one never lets an offer be fulfilled,
everything past the queue is checked with the one of the tests, which also
allows more than the wired one would.

### 2.2 TaskQueue

The methods of `PrioQueue` are operators on a record of the array and of the
items' fields; `container/heap` is modelled from its use (external). `last`
records a call and its result so that the abstract specification can speak of
results. Each method of the queue holds its lock and is one action. The time
stamps come from a clock that moves or stands still between calls. The loops
`up` and `down` are recursive functions of the number of rounds
(`UpRound`, `DownRound`), so that they can be reasoned about.

Two guards are not in the methods but come from their callers. `Enqueue` takes an
item that is not in the array: `scheduleAppForDeployment`, its one caller, passes
a ScheduledApp it has just made. `Dequeue` needs an item: `heap.Pop` panics on an
empty array, and only tests call it.

`TaskQueueSpec` has a set instead of an array. `Dequeue` takes an item that none
precedes, `DequeueFirst` one that matches: which one is left open, for the code
does not take the first in order (section 4).
`Refines` maps `queued` to the elements of the array.

### 2.3 HealthChecker

A check is a pointer, identified by its task and a serial number; the state says
who holds it. Time is reduced to the order in which checks expire: `waiting`
checks have not, `due` ones have, first to expire first. Channels are bounded
sequences with the capacities of the code (`PoolSize`; `failures` has none). The
pool's removal loop (lines 86-90) shortens the slice it ranges over: `Removed`
computes it element by element on the shared array, with the panic. The mesos
driver's thread is the caller of Register and Unregister, the health loop of
Unregister; the kill loop finds no task to stop (section 4).

`waitForSlot` keeps whether a worker is blocked on it, not how many.

### 2.4 Shutdown

One variable per goroutine says which statement it is at: `main` (the goroutine
of `trapExit`), `loop` (`listenForHealthFailures`, which also runs the Stop of
checker and monitor), `killer`, `monitor`, `pool`, `dequeuer`, `dispatcher`. The
checks on the circle of 2.3 are counted by place instead of told apart: how they
are compared has no influence on who blocks. An unbuffered send and its receipt
are one action. `closed` collects the channels that are closed; a send on one of
them sets `panicked`, and so ends the process. What a handler does
between two channel operations is in the actions of `TaskManager`, and left out
here. The monitor's round of checks is any number of requests up to
`MaxChanges`.

### 2.5 MessageBuilder

The state is a slave: the running tasks with what they were granted and told,
and the ports that other frameworks hold. `Free` is what mesos offers, one set
for each of the slave's ports resources, as ranges that are as long as possible;
mesos is external. An offer belongs to the framework until it is answered, so
`FulfillOffer` is one action. Random choice is nondeterminism. The order of the
ranges in a resource is open, that of the resources is kept, because
`fitsInOffer` looks at the last and `GetPorts` at the first that will do. A range
never begins at port 0. When nothing was reserved and the application has ports,
a slice is indexed past its end: `IndexOutOfRange`.
An application without ports is granted the reversed range `<<b, b - 1>>`, as in
the code, which is empty in the model; what mesos says to it is not modelled.

### 2.6 MdbStore

`local[c]` is the call goroutine `c` makes: where it is, its request, the state
that its read transaction sees, the key its cursor is at, what it has found.
A method is cut at each call of LMDB, and each of them can fail: `startTxn`
(`BeginRead`, `BeginWrite`, `BeginFails`, and for a writer, which has the lock by
then, `Open` and `OpenFails` of DBIOpen), Get, the loops of `ForEach` and `Find`
(one key at a time; `CursorEnds`, `ReadFails`), Put, Del, `Abort`, `Commit`. LMDB
itself is external: one writer at a time, readers that keep the state in which
they began, atomic commits. `Restart` ends the process at any moment and starts
it again; the transaction of Start commits nothing that a call can see, and a
Start that fails, which main does not look at, is one after which every begin
fails. A reader takes no lock, so a DBIOpen that fails is its `BeginFails`.
`Contains` is a Get and `Size`, `Keys`, `ForEachKey` and `ForEachValue` are a
ForEach, of which they return less (`Contains` says no for an empty value, which
no serialised application is). A key is the number of its place in the order of
the store.

`KVStore` does every call in one step. `Refines` maps a read to the moment its
transaction begins and a write to its commit. A read can fail after that; the
abstract store allows it to have found a part (`Break`), since an iterator was
given it.

### 2.7 TaskStore and SLALoop

Go says what a range over a map that changes produces: what is there all the
time, once; what is added, perhaps. `due` holds what a range must still produce,
`seen` what it has; one entry is one step. A key that was deleted and saved again
is a new entry, so entries are counted (`born`). The race itself (the map has no
lock) stays outside.

`changeDeployCount` is cut into `NextApp` (the range of `taskStore.Filter`
begins), `Filter` for each entry and `changeDeployCount` (the queue's counts are
read under its lock and the request is made). `appStore.ForEach` is a read
transaction of LMDB, so `Tick` takes a copy of the applications. The other
goroutines are represented by every call they can make on the stores and the
queue (`Write`), in any order: more than the handlers of `TaskManager` do. The
loop starts with any content of the application store, which is persistent. In
the program as it is wired nothing is ever saved in the task store
(`ProductionIsIdle`); the module shows what the loop does once something is.
Its requests are received by `listenForHealthFailures` and dropped (lines
120-126), so `Send` has no effect outside.

The count belongs to no moment: an item that goes from the queue to the store
between the two reads is missed, one between `DequeueFirst` and Save is in
neither. `steady` and `ever` are history: what has counted for the application
ever since its turn began, and what has at some time. The properties put the
request between the two. `Standing`, what ought to count, is defined apart from
the operators that translate the code's own count. The list of tasks to kill is
a bag: its order does not matter, but a task can be in it more than once, one
time for each entry the range has produced of it, and Count is its length.

### 2.8 FrameworkId

The zookeeper node, the NodeCache that mirrors it, the connection and the mesos
master are external. The process starts (`StartState`: the error of
`fw.id.Start(true)` is ignored; `infoFromConfig`), registers (`Registered` by the
master, then the two steps of `Set` in the callback), launches tasks, and crashes
or stops. HTTP goroutines run `Get`, which ID calls up to three times, in four
steps: it looks at `current`, reads the cache and writes what it found to both.
A lost connection makes `cache.Set` fail, which `Set` does not look at; what the
cache holds then is left open. `Stop` is one step up to the end of the process.
The master's part: without an id it gives a new one, a known id is registered
again, one that was deregistered by `driver.Stop(false)` is refused, and a
deregistered framework's tasks end. `misses` is history: how many calls did not
reach zookeeper. The framework asks for no failover timeout, so after a crash the
master may end its tasks by itself; here it keeps them, which is the worst case
for orphans, and `OrphansBound` says nothing of how long they run.

### 2.9 Applications

A request is a goroutine. `Save` validates (`Valid`: what the validator sees; it
does not look into components) and then stores component by component, in any
order, in steps of their own; `Delete`, `Get` (ShowOne, and the answer of Deploy)
are one call of the store each, which is atomic (`MdbStoreProofs`) or fails, as
it can at any time: `SaveComponentFails`, which the handler does not notice,
`DeleteFails` and `GetFails`, which it answers with 500. A name is the
sequence of its parts between dashes, since the id of a component joins three
names with dashes. `ToAppManifest` and `FromAppManifest` keep the fields that
decide whether, where and as what a component is stored, and the two whose value
in the body is replaced (dist_url by the image's place in the docker index,
disk_space by 0); `Marshals` is the one required field that can be missing.
`posted` (the bodies that were accepted), `touched` (the ids that others wrote
during a Save) and `lost` (the components for which AppStore.Save returned an
error) are history. Requests that are not
JSON (400) and ListAll, which reads one snapshot, are left out.

## 3. The runs

`tlc -config <cfg> <module>`; `PROJECT.json` has the list.

| run | shows | instance |
|---|---|---|
| lifecycle | `TypeOK`, `StartedIsAlive`, `LaunchIsTracked`, `FinishedIsOverwritten` over every interleaving of driver, health loop, kill loop and one client | 2 tasks, 6 inputs, ordered reports |
| progress | `RegisteredIsStored`, `UnhealthyKeepsRunning` with reports out of order; `QueueDrains`, `HealthLoopReturns` | 2 tasks, 5 inputs |
| production | `QueueOvershootBound`, `ProductionLaunchesNothing` with the wired monitor | 3 clients, an application with an SLA and one without |
| heap | `PositionsExact`, `HeapOrder`, `Refines` | 6 items, 2 sizes, 2 instants |
| circle | `TypeOK`, `NeverTwice`, `NeverLost`, `PendingExact`, `LeavesOnlyFromQueue`, `CheckedForever` | 2 tasks, a pool of 1 |
| stop | `ProtectedChannels`, `StoresOutliveLoops`, `StopsOrSticks`, `StaysStuck` | 3 checks, a pool of 1, rounds of up to 2 requests |
| launch | `GrantsDisjoint`, `PublicPortsDistinct`, `PanicsOnExactFit` | 3 tasks, 7 ports in 2 resources, applications with 0, 1 and 2 ports |
| linear | `TypeOK`, `Refines` of the store on LMDB, `LockReleased` | 2 goroutines, 2 keys, 2 values |
| sla | `CountsWithinRound`, `SweepWithinRound`, `GapIsRequested` | 2 tasks, 4 writes of the others, an active and a disabled manifest |
| fwid | `OrphansBound`, `ShownIsRegistered`, `StopIsFinal` | 3 starts, 2 HTTP goroutines |
| api | `NoSlaIsStored`, `ShownWasPosted`, `SavedIsStored`, `OverwriteNeedsDash`, `DeleteOnce` | 2 clients, 4 bodies, 3 writing requests |
| panic | what a comment says and the code does not do (section 4) | 1 task that registers twice |

Every module has its `TypeOK`. It is checked where it says more than the types of
the variables: that no handler saves something nil (`TaskManager`), that a Pop
never meets an empty queue (`HealthChecker`), that one goroutine writes at a time
(`MdbStore`). Elsewhere it documents the variables.

**Bounds.** `MaxInputs` limits what the environment does: a failure that meets a
stale copy takes save, deploy, running, failure and one more report, which is
five, and six leaves one for a restart or a second client call. Two tasks let
the stale copy of one meet the handler of the other. Three clients are the
first number for which the bound of `QueueOvershootBound` differs from "one more
than the maximum". A heap needs six elements before `Remove` has to move an item
up: the last item has to come from another subtree than the gap. The two sizes
{1 CPU, 2 memory} and {2 CPU, 1 memory} show which of the two is compared first,
two instants whether the older goes first. In `HealthChecker` a pool of one makes
every channel full with one element, and two tasks are enough for one check to
wait on the other; `MaxChecks` is 1 where properties need that a task registers
once, and 2 where a second registration matters. `Shutdown` needs three checks to
fill a pool of one: one in `results`, one that the pool holds, one whose failure
the dispatcher holds. In `MessageBuilder` five ports in one resource let two
tasks of two ports fit, end, and leave gaps. In `MdbStore` two keys let a write
come between the two steps of a cursor, and two values show which state was
read. In `SLALoop` four writes let an item leave the queue and become a
deployment in the middle of a round, and both be undone in the next; in
`FrameworkId` three starts are a first registration, one that finds its id or
misses it, and one after a stop. In `Applications` three writing requests let
two clients write to one id and a third delete it; the bodies have two
components with the same id, two applications whose components share one, a
later version, an unknown type, an SLA and an empty name, and the store can fail
at every call. Deadlock is checked in the runs of
`TaskManager`, `TaskQueue`, `HealthChecker`, `MdbStore`, `SLALoop`, `FrameworkId` and `Applications`; the server of `Shutdown` is
meant to stop, and does so in one of several ways, and that of `MessageBuilder` stops
when it panics.

**Fairness.** In `TaskManager`, a goroutine that can run does (weak fairness of
its steps) and mesos keeps making offers (weak fairness of `FulfillOffer`).
Nothing is assumed of clients, status updates or failures. In `HealthChecker`,
time passes (`Expire`), every loop runs, and every check ends, because it has a
timeout. A worker that sends on a full channel is served some time: Go keeps
senders of a channel in a queue (strong fairness of `Check`). The pool's `select`
picks at random among the ready cases, so a case that is ready again and again is
taken (strong fairness of `ReceiveWork`, `ReceiveUpdate`). `Shutdown` assumes the
same of its goroutines, and of the two cases that a Stop waits for
(`ReceiveClosing`, `StopPool`); nothing makes the operator interrupt the server,
or an SLA be violated. In
`SLALoop` the ticker fires, the loop runs and its requests are received
(`HealthLoopReturns`); the others need not do anything. `MessageBuilder`,
`FrameworkId` and `Applications` have safety only. In `MdbStore` a goroutine that is in a call
and can run does: iterators end, and nothing is assumed of who gets the write
lock.

## 4. Disagreements between comments and code

One is a run that TLC ends with a counterexample, panic. The others are passing
runs, with a property that says exactly what the code does instead.

* **production.** FulfillOffer "tries to fullfil an offer with the biggest and
  oldest enqueued thing it can find", but its loop asks the monitor about the
  application of an item that is still nil. The wired monitor answers no: the
  queue is never read (`ProductionLaunchesNothing`). The tests replace the
  monitor. `ProductionIsIdle` proves it for every instance.
* **launch.** `fitsInOffer` accepts a range that is exactly as long as an
  application needs, `GetPorts` ("take it, this is inclusive") asks for a longer
  one. When the longest range of an offer is that long, nothing is reserved and
  the builder indexes an empty slice (`PanicsOnExactFit`).
* **stop.** Stop is to stop the task manager, "cleaning up any resources it
  might have required and owns". The health loop runs Stop of the checker and no longer receives
  failures. A dispatcher that has one to send waits for it, the pool waits for
  the dispatcher and Stop for the pool. `StopsOrSticks` shows that this, and a
  monitor with a request to send, are the only two ways to get stuck, and
  `StaysStuck` that there is no way out of them: Stop never returns.
* **progress.** What travels over `TasksToKill`, "tasks that should be killed",
  is the id of a task, and the kill loop hands it to KillApp, which takes the
  name of an application: it never stops a task (`UnhealthyKeepsRunning`, proved
  as `UnhealthyAreNotKilled`).
* **lifecycle.** TaskFinished is to "move task into finished state", but
  TaskStopping of KillApp, or UNHEALTHY of the health loop, read before a task
  finished or after, replaces STOPPED (`FinishedIsOverwritten`: always, but never
  with a status that counts as running). By the same steps a forgotten deployment
  comes back, and a task that KillApp finds between its Save and its launch is
  launched after it was killed.
* **circle.** Unregister "unregisters and stops a health check": one that is not
  in the queue at that moment goes back there. A check leaves the circle only
  from the queue (`LeavesOnlyFromQueue`) and is made again and again until it
  does (`CheckedForever`).
* **api.** Save "returns 200 when the item is created", and an application with
  an SLA is never created: `ApplicationSLA` requires `unhealthy_at`, which
  ToAppManifest does not set, and Save ignores the error of the store
  (`NoSlaIsStored`). The same goes for any other error of the store: 200 means
  that a component is stored only as far as `SavedIsStored` says, unless its
  AppStore.Save failed. Delete "returns 204 when the doesn't exist" in a test on the
  store in memory; on LMDB, which main wires, it answers 500 (`DeleteOnce`).
* **panic.** A task that registers again while its old check is in progress gets
  a second check; when both are in `pending`, the removal loop slices past the
  end.

Three more that the models show in passing: DequeueFirst takes the first match in
the order of the heap's array, which is not the order of the queue, so not
always the biggest (`TaskQueueSpec` allows any match for this reason); `Enqueue` "enqueues an item if it
hasn't been queued already" without looking; HealthCheckConcurrency, "the number
of health check workers", does not limit them.

## 5. Proofs

Each module whose name ends in `Proofs` is checked by `tlapm <module>.tla`. The
theorems about the task manager hold for any number of clients, task
ids, applications and offers, under the named assumptions of `TaskManager`:
clients and task ids are finite sets, the clients differ from the three other
goroutines, manifests are well formed and no SLA allows more than
`MaxInstances`. Both monitors and both deliveries are covered.

| theorem | property | argument |
|---|---|---|
| `TypeCorrect` | `TypeOK` | `TypeOK` is not inductive: Save stores `dep[t]` and Enqueue queues `app[t]`, which may be nil by their type. `LocalsOK` says at which steps they are not. |
| `RegisteredAreStored` | `RegisteredIsStored` | `DriverInv` |
| `StartedAreAlive` | `StartedIsAlive` | `DriverInv` |
| `LaunchesAreTracked` | `LaunchIsTracked` | `DriverInv`, part `Building` |
| `FinishedAreOverwritten` | `FinishedIsOverwritten` | `DriverInv`, `SavesOwnStatus` and `StoppedHasEnded` |
| `UnhealthyAreNotKilled` | `UnhealthyKeepsRunning` | inductive together with `LocalsOK`: what the kill loop receives is a task id, and `FoundByName` finds nothing under it |
| `ProductionIsIdle` | `ProductionLaunchesNothing` | `ProductionInv` |
| `OvershootIsBounded` | `QueueOvershootBound` | `ProductionInv`, `OvershootInv` |

`DriverInv` says what the driver's thread knows between two of its steps: only
it makes copies with status STARTED, so no other goroutine can bring STARTED
back; only it deletes, so what it has saved is stored when it registers; it
unregisters before it deletes; what it saves as STARTED is running, with ordered
reports, because it handles no other report in between. The lemma
`UndisturbedKeeps` then deals with all steps of the other goroutines at once:
each leaves the driver's thread `Undisturbed`.

For `FinishedIsOverwritten` that is not enough: `SavesOwnStatus` says which
statuses each thread can be about to save (the health loop and KillApp only
UNHEALTHY and STOPPING), and `StoppedHasEnded` that a task whose deployment is
STOPPED has ended, so that an ordered TASK_RUNNING can no longer be in the
driver's hands. `Writers` and `Savers` find the steps that write a deployment
and those by which a thread comes to its Save or goes on from it.

`ProductionInv` says that with the wired monitor all goroutines but the clients
are idle for ever. So only clients enqueue, which `OvershootStep` needs: a client
that passes CanDeployMoreInstances has seen fewer than the maximum in the queue,
and at most the other clients have passed it and not enqueued yet.

About `MessageBuilder`, for every slave whose ports are positive numbers, every
set of applications and any number of tasks: `TypeCorrect` (`TypeOK`),
`GrantsAreDisjoint` (`GrantsDisjoint`) and `PublicPortsAreDistinct`
(`PublicPortsDistinct`). The invariant `Inv` adds `Built`, that a task's
environment and mapping are those that BuildTaskInfo computed from its grant.
The lemma `PickIsInside` is the arithmetic of makePortRange; from it follows that
what is taken is free (`TakenIsFree`), hence disjoint from all other grants.
`PanicsOnlyOnExactFit` (`PanicsOnExactFit`) rests on `NothingIsLarger`: GetPorts
takes the first resource with a range longer than what is asked for, so when it
finds too few ports no range is longer; as the offer fits, one is just as long.

About `TaskQueue`, for any items, manifests and length: `PositionsAreExact`
(`PositionsExact`), `ArrayIsHeap` (`HeapOrder`) and `HeapImplementsQueue`
(`Refines`). `LoopExists` and `LoopEnds` say that a loop, a recursive function over
its rounds, has a course and comes to its end when its rounds lower a measure, by
induction through the smallest counterexample (`Induction`), as the library's
induction theorems cannot be instantiated here. The invariants of the two loops,
`AllButUp` and `AllButDown`, are `HeapOrder` but for the item that is moved.
`Before` is a strict weak order (`BeforeOrder`), which is all that is used of it.
`QueueAssumption` says that items are finite and sizes and the clock are numbers.

About `MdbStore`, for any goroutines, keys that are positive numbers and values:
`TypeCorrect` (`TypeOK`) and `ImplementsKVStore` (`Refines`). The invariant adds
to the types `ReadOK`, that what a cursor has passed was found, or does not
match; and `WriteOK`, that the writer sees what is committed and its own change,
which needs that no other goroutine can commit meanwhile. `CursorMoves`,
`CursorAtEnd`, `FindsFirst` and `FindsNothing` are what the loops compute;
`RefStep` has one step per action, and in it a read, a write, a failure, a
return or a stutter of `KVStore`.

About `FrameworkId`, for any number of starts and HTTP goroutines:
`OrphansAreBounded` (`OrphansBound`),
`RegisteredIsShown` (`ShownIsRegistered`) and `StopsAreFinal` (`StopIsFinal`).
`OrphansBound` is not inductive: it says nothing of the ids that goroutines and
the cache still hold and may write to the node. `Paid` counts all ids in play:
all but one are paid for by a miss, and all of them when a new id is `Due`.
Only `Registered` makes an id known, and only when one is due. `Seen` says that
without a miss the cache, the late Gets and the driver have the node's id.

About `HealthChecker`, for any tasks, registrations and any pool: `TypeCorrect`
(`TypeOK`), `LeavesByRemove` (`LeavesOnlyFromQueue`) and `OnePlace`, the part of
`NeverTwice` that does not speak of the pool's slice; and, when each task
registers once, `RegisteredIsOnCircle` (`NeverLost`), `OneHolder` (`NeverTwice`),
`PendingIsExact` (`PendingExact`) and `PoolSurvivesOnce`, that the panic which the
run `panic` shows needs a task that registers again. `Held` says which goroutine holds a check
at which step. `OnStep` is the core of both: a step hands a check on, or it is
the Register that makes it or the Remove that takes it away. For `NeverLost` the
invariant adds `AllMade`, that whatever travels or is reported was made by
Register, and `Unremoved`, that a call which is about to remove has
unregistered its task first; with a second registration that is not enough, as
the removal can then take the newer check.
`Apart` adds that the ten holders of a check are disjoint and that nothing is
twice in a queue or channel; a step is `Moving` a check from one holder to
another, or brings one (`Coming`) or takes one (`Leaving`), and each keeps it
(`ApartStep`). `Sized` adds the remaining types and the channels' capacities.
`Counted` says that pending is what the workers and the pool hold. Its core is
the pool's loop, which deletes from the slice it ranges over and goes on to the
end of the old one: by induction on the rounds (`Pass`, `RemovedRuns`), a slice
that holds an id once loses exactly that check (`RemovedIsCut`). With
two checks of one id it slices past the end, and the theorems need the
hypothesis `MaxChecks = 1`.

About `Shutdown`, for any number of checks, any pool and any number of requests:
`ChannelsAreProtected`, `StoresAreLast` and `StuckForGood` (`StaysStuck`). The
invariant orders the goroutines: how far main is says how far the loop is, that
says how far pool and monitor are, and all together what can have been closed.

About `Applications`, for any clients, bodies and number of requests:
`TypeCorrect` (`TypeOK`), `SlaIsNeverStored` (`NoSlaIsStored`), `ShownWerePosted`
(`ShownWasPosted`), `SavedAreStored` (`SavedIsStored`), `OverwritesNeedDashes`
(`OverwriteNeedsDash`) and `DeletesOnce` (`DeleteOnce`). Of the bodies it is
assumed that a string has a part at least, as the empty string is one empty part
(`PostsAssumption`), and of the bound that it is a number (`RequestsAssumption`).
`ShownWasPosted` needs to know where manifests come from: `Origin` says that
what is stored, still to be saved or shown was converted from a body that is in
`posted`, which only Save extends, after validation (`OriginNext`).
`SavedIsStored` speaks of the last step of a Save only; `StoredSoFar` says
at each of its steps what of the body is stored already, lost, or touched: a
failure keeps it because it enters `lost`, and a write by another goroutine
because it marks the id as touched (`OthersStored`).
`AsWritten` says that each manifest is stored under its own id; two manifests
whose names have one part each and whose ids agree then agree in all three names
(`NoDashNoClash`).

Only model-checked: liveness (`QueueDrains`, `HealthLoopReturns`,
`CheckedForever`, `StopsOrSticks`, `LockReleased`, `GapIsRequested`), which is out
of the prover's reach, and `CountsWithinRound` and `SweepWithinRound` of
`SLALoop`, the one component without proofs: every other safety invariant and
action property that a passing run checks is a theorem.

## 6. Not modelled, and the plan

Done in this order, the most important behaviour first: the task manager and
what calls it (`SLAMonitor`, `TaskManager`), its proofs, the queue with its
abstract specification (`TaskQueueSpec`, `TaskQueue`), the health checker, how
the server stops, the ports of a slave and the proofs about them, the store on
LMDB and the proof that it is atomic, the SLA loop over the task store, the
framework id, the applications resource of the API.

Next, in this order:

1. Proofs: `CountsWithinRound` and `SweepWithinRound` of `SLALoop`; that no item
   of `TaskQueueSpec` is lost.
2. `SubmitApp` with several components: the Go of this code takes the address of
   its loop variable, so all queued items point at the last one. The REST API
   submits one component at a time, so no caller is affected today.
3. A task store whose Save fails, after which an item that FulfillOffer has taken
   is gone from the queue. The store in memory does not fail.
4. A Start that fails: of the framework, of LMDB (`mdb_store.go` 230 aborts a
   transaction that is nil), and of main, which exits.

Not modelled: durations are stored in nanoseconds in fields the checker reads as
milliseconds (`converters.go` 116), which nothing reads while no SLA can be
stored; LMDB's limit on the file's size; the update of a check's configuration
while a worker uses it, which is a data race.

Left out for good: network input and output of checks, LMDB and zookeeper
themselves, JSON, protobuf and HTTP plumbing, logging, generated code. A data
race on a Go map is undefined behaviour, and no nondeterminism in these models
stands for it.
