---------------------------- MODULE TaskManager ----------------------------
(***************************************************************************)
(* The task manager (tasks/default_task_manager.go) together with the      *)
(* threads that call into it: the mesos driver's callbacks and the kill    *)
(* loop (scheduler/scheduler.go), the loop that listens for failed health  *)
(* checks, and the goroutines of the REST API and of the operators that    *)
(* save, delete, deploy and kill applications.                             *)
(*                                                                         *)
(* No method of the task manager takes a lock.  Every handler is cut at    *)
(* each of its calls to the task store, the application store, the queue   *)
(* and the health checker: pc[t] names the next one.  The queue has a lock *)
(* and the application store transactions; the task store is a plain map,  *)
(* whose calls are taken to happen one at a time.                          *)
(***************************************************************************)
EXTENDS SLAMonitor, FiniteSets

CONSTANTS
    Clients,        \* goroutines that call the REST API and the Framework
    TaskIds,        \* the ids the IDGenerator hands out
    Apps,           \* the application manifests that can be saved
    Offers,         \* the sizes of the offers mesos makes
    Monitor,        \* "simple" (as New wires it) or "noop" (as the tests do)
    Delivery,       \* "ordered" or "unordered": the reports on one task
    MaxInstances,   \* no SLA of Apps allows more instances than this
    MaxInputs       \* bound: calls, status updates, failures and restarts

Threads == Clients \cup {"driver", "health", "killer"}

AppIds == {m.id : m \in Apps}
AppNames == {m.name : m \in Apps}
Components == {m.component : m \in Apps}
Manifests == [id : AppIds, name : AppNames, component : Components,
              active : BOOLEAN, hasSla : BOOLEAN, min : Nat, max : Nat,
              checked : BOOLEAN, size : Nat]

NoTask == "no task"

ASSUME ThreadsAssumption ==
    /\ IsFiniteSet(Clients) /\ Clients # {}
    /\ Clients \cap {"driver", "health", "killer"} = {}
ASSUME TasksAssumption ==
    /\ IsFiniteSet(TaskIds)
    /\ NoTask \notin TaskIds
ASSUME AppsAssumption ==
    /\ Apps \subseteq Manifests
    /\ "" \notin AppIds
ASSUME BoundsAssumption ==
    /\ Offers \subseteq Nat
    /\ MaxInputs \in Nat
    /\ MaxInstances \in Nat
    /\ \A m \in Apps : m.max <= MaxInstances
ASSUME MonitorAssumption ==
    /\ Monitor \in {"simple", "noop"}
    /\ Delivery \in {"ordered", "unordered"}

-----------------------------------------------------------------------------
VARIABLES
    appStore,   \* persistent: id -> manifest, NilApp when missing
    taskStore,  \* in memory: task id -> deployment, NilDeployment when missing
    queue,      \* the ScheduledApps waiting for an offer
    enqueued,   \* how many ScheduledApps have been made
    register,   \* the tasks in the health checker's register
    tracked,    \* the tasks the health checker was ever told to check
    mesos,      \* what the cluster knows of each task id
    killed,     \* the tasks driver.KillTask was called for
    inputs,     \* how many inputs the environment has given
    pc,         \* thread -> the next step of its handler
    task,       \* thread -> the task id it works on
    dep,        \* thread -> its copy of the deployment (deploying)
    app,        \* thread -> its copy of the application
    count,      \* thread -> the running instances it has counted
    todo        \* thread -> the tasks KillApp has still to stop

stores == <<appStore, taskStore, queue, enqueued>>
checks == <<register, tracked>>
cluster == <<mesos, killed>>
locals == <<pc, task, dep, app, count, todo>>
vars == <<appStore, taskStore, queue, enqueued, register, tracked,
          mesos, killed, inputs, pc, task, dep, app, count, todo>>

Statuses == {"DEPLOYING", "STARTED", "STOPPING", "STOPPED", "FAILED",
             "UNHEALTHY"}
Deployments == [appId : AppIds, status : Statuses]

(* What the getters return on a nil *protocol.Deployment.                  *)
NilDeployment == [appId |-> "", status |-> "ABSENT"]

ScheduledApps == [n : Nat, app : Apps]
Labels == {"idle", "save", "app", "needsRunning", "needsQueued",
           "canRunning", "canQueued", "enqueue", "checks", "unregister",
           "delete", "deploy", "launch", "get", "notify", "find",
           "stopping", "kill"}

(* What the cluster knows: an id not handed out yet, one put in a TaskInfo *)
(* (built), and the life of the task once it is launched.                  *)
TaskLife == {"none", "built", "staging", "running", "ended"}

TypeOK ==
    /\ appStore \in [AppIds -> Apps \cup {NilApp}]
    /\ taskStore \in [TaskIds -> Deployments \cup {NilDeployment}]
    /\ queue \subseteq ScheduledApps
    /\ enqueued \in Nat
    /\ register \subseteq TaskIds
    /\ tracked \subseteq TaskIds
    /\ mesos \in [TaskIds -> TaskLife]
    /\ killed \subseteq TaskIds
    /\ inputs \in Nat
    /\ pc \in [Threads -> Labels]
    /\ task \in [Threads -> TaskIds \cup {NoTask}]
    /\ dep \in [Threads -> Deployments \cup {NilDeployment}]
    /\ app \in [Threads -> Apps \cup {NilApp}]
    /\ count \in [Threads -> Nat]
    /\ todo \in [Threads -> SUBSET TaskIds]

Init ==
    /\ appStore = [a \in AppIds |-> NilApp]
    /\ taskStore = [t \in TaskIds |-> NilDeployment]
    /\ queue = {}
    /\ enqueued = 0
    /\ register = {}
    /\ tracked = {}
    /\ mesos = [t \in TaskIds |-> "none"]
    /\ killed = {}
    /\ inputs = 0
    /\ pc = [t \in Threads |-> "idle"]
    /\ task = [t \in Threads |-> NoTask]
    /\ dep = [t \in Threads |-> NilDeployment]
    /\ app = [t \in Threads |-> NilApp]
    /\ count = [t \in Threads |-> 0]
    /\ todo = [t \in Threads |-> {}]

-----------------------------------------------------------------------------
(* The stores and the monitor, as the handlers read them.                  *)

Stored(id) == taskStore[id] # NilDeployment

RunningAppsCount(a) ==
    Cardinality({id \in TaskIds : taskStore[id].appId = a
                                  /\ taskStore[id].status = "STARTED"})

QueuedApps(a) == {i \in queue : i.app.id = a}
CountAppsForID(a) == Cardinality(QueuedApps(a))

NeedsMore(m, running, queued) ==
    Monitor = "noop" \/ NeedsMoreInstances(m, running, queued)

CanDeploy(m, running, queued) ==
    Monitor = "noop" \/ CanDeployMoreInstances(m, running, queued)

(* Mutant: the name of the application is not looked at.                   *)
FindTasksForAnyApp(name) ==
    {id \in TaskIds : Stored(id) /\ appStore[taskStore[id].appId] # NilApp}

(* FindTasksForApp and FindTasksForComponent: every stored deployment      *)
(* whose application is (still) in the application store under that name.  *)
FindTasksForApp(name) ==
    {id \in TaskIds : Stored(id) /\ appStore[taskStore[id].appId] # NilApp
                      /\ appStore[taskStore[id].appId].name = name}

FindTasksForComponent(name, component) ==
    {id \in FindTasksForApp(name) :
        appStore[taskStore[id].appId].component = component}

(* Mutant: an offer of exactly the size that is needed does not fit.       *)
FitsStrictly(m, offer) == m.size < offer

Fits(m, offer) == m.size <= offer

-----------------------------------------------------------------------------
(* Helpers of the steps.                                                   *)

Input == inputs < MaxInputs /\ inputs' = inputs + 1

Goto(t, label) == pc' = [pc EXCEPT ![t] = label]

(* The handler of thread t forgets its copies and goes on at label.        *)
Leave(t, label) ==
    /\ Goto(t, label)
    /\ dep' = [dep EXCEPT ![t] = NilDeployment]
    /\ app' = [app EXCEPT ![t] = NilApp]
    /\ count' = [count EXCEPT ![t] = 0]

(* Where updateStatus returns to: the driver's callback ends, the health   *)
(* loop sends the task to the kill loop, KillApp calls driver.KillTask.    *)
Caller(t) == CASE t = "driver" -> "idle"
               [] t = "health" -> "notify"
               [] OTHER        -> "kill"

(* The driver keeps no task between two callbacks.                         *)
Release(t) == task' = [task EXCEPT ![t] = IF t = "driver" THEN NoTask ELSE @]

-----------------------------------------------------------------------------
(* updateStatus (lines 342-377): get, save, look the application up,       *)
(* reschedule when the SLA asks for it, then (un)register the check.       *)

(* Mutant: the error of taskStore.Get is not looked at.                    *)
GetUnchecked(t, id, status) ==
    /\ task' = [task EXCEPT ![t] = id]
    /\ dep' = [dep EXCEPT ![t] = [taskStore[id] EXCEPT !.status = status]]
    /\ Goto(t, "save")
    /\ UNCHANGED <<app, count>>

(* taskStore.Get of a task that is stored, with the status replaced in the *)
(* copy.  The callers handle the task that is not stored (an error).       *)
Get(t, id, status) ==
    /\ Stored(id)
    /\ task' = [task EXCEPT ![t] = id]
    /\ dep' = [dep EXCEPT ![t] = [taskStore[id] EXCEPT !.status = status]]
    /\ Goto(t, "save")
    /\ UNCHANGED <<app, count>>

Save(t) ==
    /\ pc[t] = "save"
    /\ taskStore' = [taskStore EXCEPT ![task[t]] = dep[t]]
    /\ Goto(t, "app")
    /\ UNCHANGED <<appStore, queue, enqueued, checks, cluster, inputs,
                   task, dep, app, count, todo>>

(* appStore.Get: an application that was deleted ends the update.          *)
LookupApp(t) ==
    /\ pc[t] = "app"
    /\ IF appStore[dep[t].appId] = NilApp
       THEN Leave(t, Caller(t)) /\ Release(t)
       ELSE /\ app' = [app EXCEPT ![t] = appStore[dep[t].appId]]
            /\ Goto(t, "needsRunning")
            /\ UNCHANGED <<task, dep, count>>
    /\ UNCHANGED <<stores, checks, cluster, inputs, todo>>

(* NeedsMoreInstances counts the running instances first ...               *)
NeedsRunning(t) ==
    /\ pc[t] = "needsRunning"
    /\ count' = [count EXCEPT ![t] = RunningAppsCount(app[t].id)]
    /\ Goto(t, "needsQueued")
    /\ UNCHANGED <<stores, checks, cluster, inputs, task, dep, app, todo>>

(* ... and the queued ones after that, and decides.                        *)
NeedsQueued(t) ==
    /\ pc[t] = "needsQueued"
    /\ Goto(t, IF NeedsMore(app[t], count[t], CountAppsForID(app[t].id))
               THEN "canRunning" ELSE "checks")
    /\ count' = [count EXCEPT ![t] = 0]
    /\ UNCHANGED <<stores, checks, cluster, inputs, task, dep, app, todo>>

(* healtchecks.Register for a STARTED task whose manifest has a check      *)
(* (Register does nothing without one), Unregister for any other status.   *)
UpdateChecks(t) ==
    /\ pc[t] = "checks"
    /\ IF dep[t].status = "STARTED"
       THEN /\ register' = register \cup {x \in {task[t]} : app[t].checked}
            /\ tracked' = tracked \cup {x \in {task[t]} : app[t].checked}
       ELSE register' = register \ {task[t]} /\ UNCHANGED tracked
    /\ Leave(t, Caller(t))
    /\ Release(t)
    /\ UNCHANGED <<stores, cluster, inputs, todo>>

-----------------------------------------------------------------------------
(* scheduleAppForDeployment (lines 192-204), called by SubmitApp and by    *)
(* updateStatus: CanDeployMoreInstances, then Enqueue.                     *)

(* SubmitApp has nothing left to do; updateStatus goes on to the checks.   *)
Scheduled(t) ==
    IF t \in Clients /\ task[t] = NoTask
    THEN Leave(t, "idle")
    ELSE Goto(t, "checks") /\ count' = [count EXCEPT ![t] = 0]
         /\ UNCHANGED <<dep, app>>

CanRunning(t) ==
    /\ pc[t] = "canRunning"
    /\ count' = [count EXCEPT ![t] = RunningAppsCount(app[t].id)]
    /\ Goto(t, "canQueued")
    /\ UNCHANGED <<stores, checks, cluster, inputs, task, dep, app, todo>>

CanQueued(t) ==
    /\ pc[t] = "canQueued"
    /\ IF CanDeploy(app[t], count[t], CountAppsForID(app[t].id))
       THEN Goto(t, "enqueue") /\ UNCHANGED <<dep, app, count>>
       ELSE Scheduled(t)
    /\ UNCHANGED <<stores, checks, cluster, inputs, task, todo>>

Enqueue(t) ==
    /\ pc[t] = "enqueue"
    /\ queue' = queue \cup {[n |-> enqueued, app |-> app[t]]}
    /\ enqueued' = enqueued + 1
    /\ Scheduled(t)
    /\ UNCHANGED <<appStore, taskStore, checks, cluster, inputs, task, todo>>

-----------------------------------------------------------------------------
(* The mesos driver's callbacks, one at a time (scheduler.go 143-201).     *)

(* The TaskXxx handler of each task state that updates a deployment.       *)
StatusFor(state) ==
    CASE state = "TASK_RUNNING"                     -> "STARTED"
      [] state \in {"TASK_FAILED", "TASK_LOST"}     -> "FAILED"
      [] state \in {"TASK_FINISHED", "TASK_KILLED"} -> "STOPPED"

Launched(id) == mesos[id] \in {"staging", "running", "ended"}

(* Mesos reports a state of a launched task, each any number of times; an  *)
(* older state can be reported after a newer one unless ordered.           *)
Reported(id, state) ==
    /\ Launched(id)
    /\ Delivery = "ordered" /\ state = "TASK_RUNNING" => mesos[id] # "ended"
    /\ mesos' = [mesos EXCEPT ![id] =
                    IF state = "TASK_RUNNING" /\ @ # "ended"
                    THEN "running" ELSE "ended"]

StatusUpdate(id, state) ==
    /\ pc["driver"] = "idle"
    /\ Input
    /\ Reported(id, state)
    /\ \/ Get("driver", id, StatusFor(state))
       \/ ~Stored(id) /\ UNCHANGED <<pc, task, dep, app, count>>
    /\ UNCHANGED <<stores, checks, killed, todo>>

(* TASK_STAGING and TASK_STARTING: forgetTask, then driver.KillTask.       *)
StuckUpdate(id) ==
    /\ pc["driver"] = "idle"
    /\ Input
    /\ Launched(id)
    /\ Delivery = "ordered" => mesos[id] = "staging"
    /\ task' = [task EXCEPT !["driver"] = id]
    /\ Goto("driver", "unregister")
    /\ UNCHANGED <<stores, checks, cluster, dep, app, count, todo>>

(* Mutant: forgetTask does not unregister the health check.                *)
ForgetKeepsCheck ==
    /\ pc["driver"] = "unregister"
    /\ Goto("driver", "delete")
    /\ UNCHANGED <<stores, checks, cluster, inputs, task, dep, app, count,
                   todo>>

ForgetUnregister ==
    /\ pc["driver"] = "unregister"
    /\ register' = register \ {task["driver"]}
    /\ Goto("driver", "delete")
    /\ UNCHANGED <<stores, tracked, cluster, inputs, task, dep, app, count,
                   todo>>

ForgetDelete ==
    /\ pc["driver"] = "delete"
    /\ taskStore' = [taskStore EXCEPT ![task["driver"]] = NilDeployment]
    /\ Goto("driver", "kill")
    /\ UNCHANGED <<appStore, queue, enqueued, checks, cluster, inputs, task,
                   dep, app, count, todo>>

(* FulfillOffer (300-340).  The loop's guard asks the monitor about an     *)
(* item that is still nil; its body runs at most once.                     *)
MayFulfill == CanDeploy(NilApp, RunningAppsCount(NilApp.id),
                        CountAppsForID(NilApp.id))

(* DequeueFirst takes one of the fitting items: see TaskQueueSpec.  The    *)
(* item gets a fresh task id in buildTaskInfo.                             *)
FulfillOffer(offer) ==
    /\ pc["driver"] = "idle"
    /\ MayFulfill
    /\ \E i \in queue, id \in TaskIds :
          /\ Fits(i.app, offer)
          /\ mesos[id] = "none"
          /\ queue' = queue \ {i}
          /\ mesos' = [mesos EXCEPT ![id] = "built"]
          /\ task' = [task EXCEPT !["driver"] = id]
          /\ app' = [app EXCEPT !["driver"] = i.app]
    /\ Goto("driver", "deploy")
    /\ UNCHANGED <<appStore, taskStore, enqueued, checks, killed, inputs,
                   dep, count, todo>>

(* Bound: the generator never runs out of ids, an instance of TaskIds can. *)
IdsUsedUp == \A id \in TaskIds : mesos[id] # "none"

(* driver.DeclineOffer: the guard is false, or nothing in the queue fits.  *)
DeclineOffer(offer) ==
    /\ pc["driver"] = "idle"
    /\ ~MayFulfill \/ IdsUsedUp \/ \A i \in queue : ~Fits(i.app, offer)
    /\ UNCHANGED vars

(* Mutant: FulfillOffer returns the task although Save has failed.         *)
SaveDeploymentFails ==
    /\ pc["driver"] = "deploy"
    /\ Goto("driver", "launch")
    /\ UNCHANGED <<stores, checks, cluster, inputs, task, dep, app, count,
                   todo>>

SaveDeployment ==
    /\ pc["driver"] = "deploy"
    /\ taskStore' = [taskStore EXCEPT ![task["driver"]] =
                        [appId |-> app["driver"].id, status |-> "DEPLOYING"]]
    /\ Goto("driver", "launch")
    /\ UNCHANGED <<appStore, queue, enqueued, checks, cluster, inputs, task,
                   dep, app, count, todo>>

LaunchTasks ==
    /\ pc["driver"] = "launch"
    /\ mesos' = [mesos EXCEPT ![task["driver"]] = "staging"]
    /\ Leave("driver", "idle")
    /\ Release("driver")
    /\ UNCHANGED <<stores, checks, killed, inputs, todo>>

-----------------------------------------------------------------------------
(* listenForHealthFailures (106-141).  The health checker (external here,  *)
(* see HealthChecker) reports a failure of any task it was ever told to    *)
(* check: one that is being checked when it is unregistered stays checked. *)

ReceiveFailure(id) ==
    /\ pc["health"] = "idle"
    /\ Input
    /\ id \in tracked
    /\ IF Stored(id)
       THEN Goto("health", "get") /\ task' = [task EXCEPT !["health"] = id]
       ELSE UNCHANGED <<pc, task>>
    /\ UNCHANGED <<stores, checks, cluster, dep, app, count, todo>>

(* Mutant: the copy is saved without its new status.                       *)
MarkUnhealthyStale ==
    /\ pc["health"] = "get"
    /\ \/ Get("health", task["health"], taskStore[task["health"]].status)
       \/ /\ ~Stored(task["health"])
          /\ Goto("health", "notify")
          /\ UNCHANGED <<task, dep, app, count>>
    /\ UNCHANGED <<stores, checks, cluster, inputs, todo>>

(* updateStatus gets the deployment again; it may be gone by now, and the  *)
(* loop ignores the error.                                                 *)
MarkUnhealthy ==
    /\ pc["health"] = "get"
    /\ \/ Get("health", task["health"], "UNHEALTHY")
       \/ /\ ~Stored(task["health"])
          /\ Goto("health", "notify")
          /\ UNCHANGED <<task, dep, app, count>>
    /\ UNCHANGED <<stores, checks, cluster, inputs, todo>>

(* tasksToKill is not buffered: the kill loop has to be ready to receive.  *)
TasksToKill ==
    /\ pc["health"] = "notify"
    /\ pc["killer"] = "idle"
    /\ pc' = [pc EXCEPT !["health"] = "idle", !["killer"] = "find"]
    /\ task' = [task EXCEPT !["health"] = NoTask,
                            !["killer"] = task["health"]]
    /\ UNCHANGED <<stores, checks, cluster, inputs, dep, app, count, todo>>

-----------------------------------------------------------------------------
(* KillApp (scheduler.go 71-84): called by listenForTasksToKill with the   *)
(* id of a task as the name of an application, and by clients.             *)

KillAppOfTask ==
    /\ pc["killer"] = "find"
    /\ todo' = [todo EXCEPT !["killer"] = FindTasksForApp(task["killer"])]
    /\ Goto("killer", "stopping")
    /\ UNCHANGED <<stores, checks, cluster, inputs, task, dep, app, count>>

KillApp(c, name) ==
    /\ pc[c] = "idle"
    /\ Input
    /\ FindTasksForApp(name) # {}
    /\ todo' = [todo EXCEPT ![c] = FindTasksForApp(name)]
    /\ Goto(c, "stopping")
    /\ UNCHANGED <<stores, checks, cluster, task, dep, app, count>>

(* TaskStopping of the next task; an error of its Get is ignored.          *)
TaskStopping(t) ==
    /\ pc[t] = "stopping"
    /\ \E id \in todo[t] :
          /\ todo' = [todo EXCEPT ![t] = @ \ {id}]
          /\ \/ Get(t, id, "STOPPING")
             \/ /\ ~Stored(id)
                /\ task' = [task EXCEPT ![t] = id]
                /\ Goto(t, "kill")
                /\ UNCHANGED <<dep, app, count>>
    /\ UNCHANGED <<stores, checks, cluster, inputs>>

(* Mutant: the kill loop ends after the first task it has received.        *)
KillAppDoneOnce(t) ==
    /\ pc[t] = "stopping"
    /\ todo[t] = {}
    /\ t \in Clients
    /\ Goto(t, "idle")
    /\ task' = [task EXCEPT ![t] = NoTask]
    /\ UNCHANGED <<stores, checks, cluster, inputs, dep, app, count, todo>>

KillAppDone(t) ==
    /\ pc[t] = "stopping"
    /\ todo[t] = {}
    /\ Goto(t, "idle")
    /\ task' = [task EXCEPT ![t] = NoTask]
    /\ UNCHANGED <<stores, checks, cluster, inputs, dep, app, count, todo>>

(* driver.KillTask, by KillApp's loop and by the driver's StuckUpdate.     *)
KillTask(t) ==
    /\ pc[t] = "kill"
    /\ killed' = killed \cup {task[t]}
    /\ Goto(t, IF t = "driver" THEN "idle" ELSE "stopping")
    /\ Release(t)
    /\ UNCHANGED <<stores, checks, mesos, inputs, dep, app, count, todo>>

-----------------------------------------------------------------------------
(* The other calls of the clients (agora/api/applications.go 118-177).     *)

SaveApp(c, m) ==
    /\ pc[c] = "idle"
    /\ Input
    /\ appStore' = [appStore EXCEPT ![m.id] = m]
    /\ UNCHANGED <<taskStore, queue, enqueued, checks, cluster, locals>>

DeleteApp(c, a) ==
    /\ pc[c] = "idle"
    /\ Input
    /\ appStore[a] # NilApp
    /\ appStore' = [appStore EXCEPT ![a] = NilApp]
    /\ UNCHANGED <<taskStore, queue, enqueued, checks, cluster, locals>>

(* Deploy gets the application and submits it: scheduleAppForDeployment.   *)
Deploy(c, a) ==
    /\ pc[c] = "idle"
    /\ Input
    /\ appStore[a] # NilApp
    /\ app' = [app EXCEPT ![c] = appStore[a]]
    /\ Goto(c, "canRunning")
    /\ UNCHANGED <<stores, checks, cluster, task, dep, count, todo>>

(* KillComponent and KillComponentOnSlave change no state of their own:    *)
(* they only call driver.KillTask for what they find.                      *)
KillComponent(c, name, component) ==
    /\ pc[c] = "idle"
    /\ Input
    /\ killed' = killed \cup FindTasksForComponent(name, component)
    /\ UNCHANGED <<stores, checks, mesos, locals>>

KillComponentOnSlave(c, id) ==
    /\ pc[c] = "idle"
    /\ Input
    /\ Stored(id)
    /\ killed' = killed \cup {id}
    /\ UNCHANGED <<stores, checks, mesos, locals>>

(* The process dies and starts again: only the application store and the   *)
(* cluster survive; the task store, the queue and the checks are memory.   *)
Restart ==
    /\ Input
    /\ taskStore' = [t \in TaskIds |-> NilDeployment]
    /\ queue' = {}
    /\ register' = {}
    /\ tracked' = {}
    /\ pc' = [t \in Threads |-> "idle"]
    /\ task' = [t \in Threads |-> NoTask]
    /\ dep' = [t \in Threads |-> NilDeployment]
    /\ app' = [t \in Threads |-> NilApp]
    /\ count' = [t \in Threads |-> 0]
    /\ todo' = [t \in Threads |-> {}]
    /\ UNCHANGED <<appStore, enqueued, cluster>>

-----------------------------------------------------------------------------
UpdateStatus(t) ==
    \/ Save(t) \/ LookupApp(t) \/ NeedsRunning(t) \/ NeedsQueued(t)
    \/ CanRunning(t) \/ CanQueued(t) \/ Enqueue(t) \/ UpdateChecks(t)

(* The steps any thread can be at, whichever handler it runs.              *)
ThreadStep(t) ==
    UpdateStatus(t) \/ TaskStopping(t) \/ KillAppDone(t) \/ KillTask(t)

DriverStep ==
    ForgetUnregister \/ ForgetDelete \/ SaveDeployment \/ LaunchTasks

DriverInput ==
    \/ \E id \in TaskIds :
          \/ \E state \in {"TASK_RUNNING", "TASK_FAILED", "TASK_LOST",
                           "TASK_FINISHED", "TASK_KILLED"} :
                StatusUpdate(id, state)
          \/ StuckUpdate(id)
    \/ \E offer \in Offers : FulfillOffer(offer) \/ DeclineOffer(offer)

ClientInput(c) ==
    \/ \E m \in Apps : SaveApp(c, m)
    \/ \E a \in AppIds : DeleteApp(c, a) \/ Deploy(c, a)
    \/ \E name \in AppNames : KillApp(c, name)
    \/ \E name \in AppNames, component \in Components :
          KillComponent(c, name, component)
    \/ \E id \in TaskIds : KillComponentOnSlave(c, id)

Next ==
    \/ \E t \in Threads : ThreadStep(t)
    \/ DriverInput \/ DriverStep
    \/ \E id \in TaskIds : ReceiveFailure(id)
    \/ MarkUnhealthy \/ TasksToKill \/ KillAppOfTask
    \/ \E c \in Clients : ClientInput(c)
    \/ Restart

(* Every goroutine that can run does run, and mesos keeps making offers.   *)
Fairness ==
    /\ \A t \in Threads : WF_vars(ThreadStep(t))
    /\ WF_vars(DriverStep)
    /\ WF_vars(\E offer \in Offers : FulfillOffer(offer))
    /\ WF_vars(MarkUnhealthy)
    /\ WF_vars(TasksToKill)
    /\ WF_vars(KillAppOfTask)

Spec == Init /\ [][Next]_vars
FairSpec == Spec /\ Fairness

-----------------------------------------------------------------------------
(* Safety.                                                                 *)

(* The health checker checks only tasks that the task store knows, so the  *)
(* failure of a registered check always finds its deployment: forgetTask   *)
(* unregisters before it deletes, and only the driver's thread, which also *)
(* runs forgetTask, ever registers.                                        *)
RegisteredIsStored == \A id \in register : Stored(id)

(* A deployment counts as running for the SLA only while its task does:    *)
(* no stale copy of the health loop or of KillApp brings STARTED back once *)
(* the driver's thread has saved that the task ended.                      *)
StartedIsAlive ==
    Delivery = "ordered" => \A id \in TaskIds :
        taskStore[id].status = "STARTED" =>
            \/ mesos[id] = "running"
            \/ /\ task["driver"] = id
               /\ pc["driver"] = "save"
               /\ dep["driver"].status \in {"STOPPED", "FAILED"}

(* FulfillOffer saves the deployment before the task is launched, and      *)
(* nothing takes it away in between: a launched task has a deployment that *)
(* its first status update will find.                                      *)
LaunchIsTracked ==
    [][\A id \in TaskIds :
          mesos[id] = "built" /\ mesos'[id] = "staging" => Stored(id)]_vars

(* The threads that have passed CanDeployMoreInstances for application a   *)
(* and have not enqueued yet.                                              *)
Committed(a) == {t \in Threads : pc[t] = "enqueue" /\ app[t].id = a}

SlaBound(a) == \A m \in Apps : m.id = a => m.hasSla

(* scheduleAppForDeployment checks and enqueues without a lock.  The queue *)
(* of an application with an SLA can exceed its maximum, but never by more *)
(* than one entry for each further client that deploys at the same time.   *)
QueueOvershootBound ==
    Monitor = "simple" =>
        \A a \in AppIds : SlaBound(a) =>
            CountAppsForID(a) + Cardinality(Committed(a))
                <= MaxInstances + Cardinality(Clients) - 1

(* TasksToKill is "a channel over which tasks that should be killed are     *)
(* received", and the kill loop passes what it receives to KillApp, which  *)
(* looks for an application of that name.  Task ids are generated: as long *)
(* as no application is named like one, the loop never stops or kills any  *)
(* task, and an unhealthy task keeps running.                              *)
UnhealthyKeepsRunning ==
    AppNames \cap TaskIds = {} =>
        /\ todo["killer"] = {}
        /\ pc["killer"] \in {"idle", "find", "stopping"}

(* TaskFinished is to "move task into finished state", and updateStatus    *)
(* lets any status follow any other.  The health loop and KillApp do not   *)
(* leave a finished task alone, also when they read the deployment before  *)
(* it finished: their save always replaces STOPPED, and never with a       *)
(* status that counts as running.                                          *)
FinishedIsOverwritten ==
    [][Delivery = "ordered" => \A id \in TaskIds :
          taskStore[id].status = "STOPPED" =>
              /\ (\E t \in Threads \ {"driver"} :
                     task[t] = id /\ pc[t] = "save" /\ pc'[t] = "app")
                    <=> taskStore'[id].status \in {"UNHEALTHY", "STOPPING"}
              /\ taskStore'[id].status \notin {"STARTED", "DEPLOYING"}]_vars

(* With the monitor that New wires, the guard of FulfillOffer's loop asks  *)
(* about a nil application and is always false: no task is ever built.     *)
ProductionLaunchesNothing ==
    Monitor = "simple" => \A id \in TaskIds : mesos[id] = "none"

-----------------------------------------------------------------------------
(* Liveness.                                                               *)

(* What FulfillOffer promises: while offers keep coming that are large     *)
(* enough, everything in the queue is launched, as far as the instance has *)
(* task ids for it.                                                        *)
QueueDrains == queue # {} ~> queue = {} \/ IdsUsedUp

(* The health loop gets back to receiving failures: it is never stuck      *)
(* sending a task to a kill loop that does not receive.                    *)
HealthLoopReturns == pc["health"] # "idle" ~> pc["health"] = "idle"

=============================================================================
