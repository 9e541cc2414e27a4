------------------------- MODULE TaskManagerProofs -------------------------
(***************************************************************************)
(* Theorems about the task manager, for every value of the constants.      *)
(***************************************************************************)
EXTENDS TaskManager, FiniteSetTheorems, TLAPS

(* What a thread's program counter says of its local variables: a handler  *)
(* works on a task, holds a deployment or has found an application by the  *)
(* time a step relies on it.                                               *)
LocalsOK ==
    \A t \in Threads :
        /\ pc[t] \notin {"idle", "canRunning", "canQueued", "enqueue",
                          "stopping"} => task[t] \in TaskIds
        /\ pc[t] \in {"save", "app"} => dep[t] \in Deployments
        /\ pc[t] \in {"needsRunning", "needsQueued", "canRunning",
                       "canQueued", "enqueue", "deploy"} => app[t] \in Apps
        /\ pc[t] \in {"canRunning", "canQueued", "enqueue"}
               => t \in Clients \/ task[t] \in TaskIds
        /\ t = "driver" => pc[t] # "stopping"

(* TypeOK alone is not inductive: Save stores dep[t] and Enqueue queues    *)
(* app[t], so it takes LocalsOK to know that they are not nil.             *)
TypeInv == TypeOK /\ LocalsOK

(* RunningAppsCount counts a finite set.                                   *)
LEMMA CountsAreNat ==
    ASSUME TypeOK, NEW a
    PROVE  RunningAppsCount(a) \in Nat
<1>1. IsFiniteSet({id \in TaskIds : taskStore[id].appId = a
                                    /\ taskStore[id].status = "STARTED"})
  BY TasksAssumption, FS_Subset
<1>2. QED  BY <1>1, FS_CardinalityType DEF RunningAppsCount

(* The missing deployment is told apart from the stored ones by its        *)
(* status. It is a lemma of constants so that the steps need not expand    *)
(* both record types.                                                      *)
LEMMA NilIsNoDeployment ==
    /\ NilDeployment.status = "ABSENT"
    /\ \A d \in Deployments : d # NilDeployment /\ d.status # "ABSENT"
<1>1. NilDeployment.status = "ABSENT"
  BY DEF NilDeployment
<1>2. \A d \in Deployments : d.status # "ABSENT"
  BY DEF Deployments, Statuses
<1>3. QED  BY <1>1, <1>2

(* updateStatus changes the status of its copy and nothing else.           *)
LEMMA StatusReplaced ==
    \A d \in Deployments, status \in Statuses :
        /\ [d EXCEPT !.status = status] \in Deployments
        /\ [d EXCEPT !.status = status].status = status
  BY DEF Deployments

(* FindTasksForApp returns tasks.                                          *)
LEMMA FoundTasks == \A name : FindTasksForApp(name) \in SUBSET TaskIds
  BY DEF FindTasksForApp

(* Every action preserves the type invariant: one step per action.         *)
LEMMA TypeStep == TypeInv /\ [Next]_vars => TypeInv'
<1> SUFFICES ASSUME TypeInv, [Next]_vars PROVE TypeInv'
  OBVIOUS
<1> USE DEF TypeInv, TypeOK, LocalsOK, Labels, stores, checks, cluster
<1>1. ASSUME NEW t \in Threads, Save(t) PROVE TypeInv'
  BY <1>1 DEF Save, Goto
<1>2. ASSUME NEW t \in Threads, LookupApp(t) PROVE TypeInv'
  <2> USE DEF LookupApp
  <2>1. CASE appStore[dep[t].appId] = NilApp
    BY <1>2, <2>1 DEF Goto, Leave, Release, Caller, Threads
  <2>2. CASE appStore[dep[t].appId] # NilApp
    <3>1. appStore[dep[t].appId] \in Apps
      BY <1>2, <2>2 DEF Deployments
    <3>2. QED BY <1>2, <2>2, <3>1 DEF Goto
  <2> QED BY <2>1, <2>2
<1>3. ASSUME NEW t \in Threads, NeedsRunning(t) PROVE TypeInv'
  BY <1>3, CountsAreNat DEF NeedsRunning, Goto
<1>4. ASSUME NEW t \in Threads, NeedsQueued(t) PROVE TypeInv'
  BY <1>4 DEF NeedsQueued, Goto
<1>5. ASSUME NEW t \in Threads, CanRunning(t) PROVE TypeInv'
  BY <1>5, CountsAreNat DEF CanRunning, Goto
<1>6. ASSUME NEW t \in Threads, CanQueued(t) PROVE TypeInv'
  <2>1. CASE t \in Clients /\ task[t] = NoTask
    BY <1>6, <2>1 DEF CanQueued, Goto, Scheduled, Leave
  <2>2. CASE ~(t \in Clients /\ task[t] = NoTask)
    BY <1>6, <2>2 DEF CanQueued, Goto, Scheduled
  <2> QED BY <2>1, <2>2
<1>7. ASSUME NEW t \in Threads, Enqueue(t) PROVE TypeInv'
  <2>0. [n |-> enqueued, app |-> app[t]] \in ScheduledApps
    BY <1>7 DEF Enqueue, ScheduledApps
  <2>1. CASE t \in Clients /\ task[t] = NoTask
    BY <1>7, <2>0, <2>1 DEF Enqueue, Goto, Scheduled, Leave
  <2>2. CASE ~(t \in Clients /\ task[t] = NoTask)
    BY <1>7, <2>0, <2>2 DEF Enqueue, Goto, Scheduled
  <2> QED BY <2>1, <2>2
<1>8. ASSUME NEW t \in Threads, UpdateChecks(t) PROVE TypeInv'
  <2>1. task[t] \in TaskIds /\ Caller(t) \in {"idle", "notify", "kill"}
    BY <1>8 DEF UpdateChecks, Caller
  <2>2. register' \subseteq TaskIds /\ tracked' \subseteq TaskIds
    BY <1>8, <2>1 DEF UpdateChecks
  <2>3. CASE t = "driver"
    BY <1>8, <2>2, <2>3 DEF UpdateChecks, Leave, Goto, Caller, Release
  <2>4. CASE t # "driver"
    <3>1. task' = [task EXCEPT ![t] = task[t]]
      BY <1>8, <2>4 DEF UpdateChecks, Release
    <3>2. QED
      BY <1>8, <2>1, <2>2, <3>1 DEF UpdateChecks, Leave, Goto
  <2> QED BY <2>3, <2>4
<1>9. ASSUME NEW t \in Threads, TaskStopping(t) PROVE TypeInv'
  <2>1. PICK id \in todo[t] :
          /\ todo' = [todo EXCEPT ![t] = @ \ {id}]
          /\ \/ Get(t, id, "STOPPING")
             \/ /\ ~Stored(id)
                /\ task' = [task EXCEPT ![t] = id]
                /\ Goto(t, "kill")
                /\ UNCHANGED <<dep, app, count>>
    BY <1>9 DEF TaskStopping
  <2>2. id \in TaskIds BY <1>9
  <2>3. CASE Get(t, id, "STOPPING")
    <3>1. [taskStore[id] EXCEPT !.status = "STOPPING"] \in Deployments
      BY <2>2, <2>3 DEF Get, Stored, Deployments, Statuses
    <3>2. QED BY <1>9, <2>1, <2>2, <2>3, <3>1 DEF Get, Goto, TaskStopping
  <2>4. CASE ~Stored(id)
    BY <1>9, <2>1, <2>2, <2>4 DEF Goto, TaskStopping, Get
  <2> QED BY <2>1, <2>3, <2>4
<1>10. ASSUME NEW t \in Threads, KillAppDone(t) PROVE TypeInv'
  BY <1>10 DEF KillAppDone, Goto
<1>11. ASSUME NEW t \in Threads, KillTask(t) PROVE TypeInv'
  BY <1>11 DEF KillTask, Goto, Release
<1>12. ASSUME ForgetUnregister PROVE TypeInv'
  BY <1>12 DEF ForgetUnregister, Goto
<1>13. ASSUME ForgetDelete PROVE TypeInv'
  BY <1>13 DEF ForgetDelete, Goto
<1>14. ASSUME SaveDeployment PROVE TypeInv'
  <2>1. app["driver"] \in Apps
    BY <1>14 DEF SaveDeployment, Threads
  <2>2. [appId |-> app["driver"].id, status |-> "DEPLOYING"] \in Deployments
    BY <2>1 DEF Deployments, Statuses, AppIds
  <2>3. QED
    BY <1>14, <2>2 DEF SaveDeployment, Goto
<1>15. ASSUME LaunchTasks PROVE TypeInv'
  BY <1>15 DEF LaunchTasks, Goto, Leave, Release, TaskLife
<1>16. ASSUME NEW id \in TaskIds, NEW state, StatusUpdate(id, state),
              StatusFor(state) \in Statuses
       PROVE  TypeInv'
  <2>1. mesos' \in [TaskIds -> TaskLife] /\ inputs' \in Nat
    BY <1>16 DEF StatusUpdate, Reported, TaskLife, Input
  <2>2. CASE Get("driver", id, StatusFor(state))
    <3>1. [taskStore[id] EXCEPT !.status = StatusFor(state)] \in Deployments
      BY <1>16, <2>2 DEF Get, Stored, Deployments
    <3>2. QED
      BY <1>16, <2>1, <2>2, <3>1 DEF StatusUpdate, Get, Goto, Threads
  <2>3. CASE UNCHANGED <<pc, task, dep, app, count>>
    BY <1>16, <2>1, <2>3 DEF StatusUpdate
  <2>4. QED  BY <1>16, <2>2, <2>3 DEF StatusUpdate
<1>17. ASSUME NEW id \in TaskIds, StuckUpdate(id) PROVE TypeInv'
  <2>1. task' \in [Threads -> TaskIds \cup {NoTask}]
    BY <1>17 DEF StuckUpdate
  <2>2. inputs' \in Nat
    BY <1>17 DEF StuckUpdate, Input
  <2>3. QED
    BY <1>17, <2>1, <2>2 DEF StuckUpdate, Goto, Threads
<1>18. ASSUME NEW offer \in Offers, FulfillOffer(offer) PROVE TypeInv'
  <2>1. PICK i \in queue, id \in TaskIds :
          /\ queue' = queue \ {i}
          /\ mesos' = [mesos EXCEPT ![id] = "built"]
          /\ task' = [task EXCEPT !["driver"] = id]
          /\ app' = [app EXCEPT !["driver"] = i.app]
    BY <1>18 DEF FulfillOffer
  <2>2. i.app \in Apps
    BY DEF ScheduledApps
  <2>3. QED
    BY <1>18, <2>1, <2>2 DEF FulfillOffer, Goto, TaskLife, Threads
<1>19. ASSUME NEW id \in TaskIds, ReceiveFailure(id) PROVE TypeInv'
  BY <1>19 DEF ReceiveFailure, Goto, Input
<1>20. ASSUME MarkUnhealthy PROVE TypeInv'
  <2>1. CASE Get("health", task["health"], "UNHEALTHY")
    <3>1. task["health"] \in TaskIds
      BY <1>20 DEF MarkUnhealthy, Threads
    <3>2. [taskStore[task["health"]] EXCEPT !.status = "UNHEALTHY"]
              \in Deployments
      BY <2>1, <3>1 DEF Get, Stored, Deployments, Statuses
    <3>3. QED
      BY <1>20, <2>1, <3>1, <3>2 DEF MarkUnhealthy, Get, Goto
  <2>2. CASE ~Stored(task["health"])
    BY <1>20, <2>2 DEF MarkUnhealthy, Get, Goto
  <2>3. QED  BY <1>20, <2>1, <2>2 DEF MarkUnhealthy
<1>21. ASSUME TasksToKill PROVE TypeInv'
  BY <1>21 DEF TasksToKill, Threads
<1>22. ASSUME KillAppOfTask PROVE TypeInv'
  BY <1>22, FoundTasks DEF KillAppOfTask, Goto, Threads
<1>23. ASSUME NEW c \in Clients, NEW name, KillApp(c, name) PROVE TypeInv'
  BY <1>23, FoundTasks, ThreadsAssumption DEF KillApp, Goto, Input, Threads
<1>24. ASSUME NEW c \in Clients, NEW m \in Apps, SaveApp(c, m) PROVE TypeInv'
  <2>1. m.id \in AppIds
    BY DEF AppIds
  <2>2. appStore' \in [AppIds -> Apps \cup {NilApp}]
    BY <1>24, <2>1 DEF SaveApp
  <2>3. QED
    BY <1>24, <2>2 DEF SaveApp, Input, locals
<1>25. ASSUME NEW c \in Clients, NEW a \in AppIds, DeleteApp(c, a)
       PROVE  TypeInv'
  BY <1>25 DEF DeleteApp, Input, locals
<1>26. ASSUME NEW c \in Clients, NEW a \in AppIds, Deploy(c, a)
       PROVE  TypeInv'
  BY <1>26 DEF Deploy, Input, Goto, Threads
<1>27. ASSUME NEW c \in Clients, NEW name, NEW component,
              KillComponent(c, name, component)
       PROVE  TypeInv'
  BY <1>27 DEF KillComponent, FindTasksForComponent, FindTasksForApp,
               Input, locals
<1>28. ASSUME NEW c \in Clients, NEW id \in TaskIds,
              KillComponentOnSlave(c, id)
       PROVE  TypeInv'
  BY <1>28 DEF KillComponentOnSlave, Input, locals
<1>29. ASSUME Restart PROVE TypeInv'
  BY <1>29 DEF Restart, Input
<1>30. CASE UNCHANGED vars
  BY <1>30 DEF vars
<1>31. QED
  BY <1>1, <1>2, <1>3, <1>4, <1>5, <1>6, <1>7, <1>8, <1>9, <1>10, <1>11,
     <1>12, <1>13, <1>14, <1>15, <1>16, <1>17, <1>18, <1>19, <1>20, <1>21,
     <1>22, <1>23, <1>24, <1>25, <1>26, <1>27, <1>28, <1>29, <1>30
     DEF Next, ThreadStep, UpdateStatus, DriverStep, DriverInput, ClientInput,
         DeclineOffer, StatusFor, Statuses

-----------------------------------------------------------------------------
(* Only TASK_RUNNING, a callback of the driver, makes a copy with status   *)
(* STARTED: the health loop and KillApp save other statuses.               *)
OnlyDriverStarts ==
    \A t \in Threads \ {"driver"} : dep[t].status # "STARTED"

(* The steps of updateStatus that come after its Save.                     *)
AfterSave == {"app", "needsRunning", "needsQueued", "canRunning",
              "canQueued", "enqueue", "checks"}

(* When the driver's thread reaches Register, the deployment that it has   *)
(* saved is still stored: only the driver's own thread deletes.            *)
DriverHasSaved ==
    pc["driver"] \in AfterSave /\ dep["driver"].status = "STARTED"
        => Stored(task["driver"])

(* forgetTask has unregistered the task when it deletes the deployment.    *)
ForgetsUnregistered ==
    pc["driver"] = "delete" => task["driver"] \notin register

(* FulfillOffer works on a task id of its own, and has saved its           *)
(* deployment before it launches the task.                                 *)
Building ==
    /\ pc["driver"] \in {"deploy", "launch"} => mesos[task["driver"]] = "built"
    /\ pc["driver"] = "launch" => Stored(task["driver"])

(* With ordered reports, what TASK_RUNNING saves is true when it is saved: *)
(* the driver's thread handles no other report in between.                 *)
SavesAlive ==
    Delivery = "ordered" /\ pc["driver"] = "save"
                         /\ dep["driver"].status = "STARTED"
        => mesos[task["driver"]] = "running"

(* The inductive invariant behind the first three safety properties. All   *)
(* of it is about what the driver's thread knows between two of its steps. *)
DriverInv ==
    /\ RegisteredIsStored
    /\ OnlyDriverStarts
    /\ DriverHasSaved
    /\ ForgetsUnregistered
    /\ Building
    /\ SavesAlive
    /\ StartedIsAlive

(* What a step of any other thread leaves the driver's thread with.        *)
Undisturbed ==
    /\ pc'["driver"] = pc["driver"]
    /\ task'["driver"] = task["driver"]
    /\ dep'["driver"] = dep["driver"]
    /\ mesos' = mesos
    /\ register' \subseteq register
    /\ \A id \in TaskIds :
          /\ Stored(id) => Stored(id)'
          /\ taskStore'[id].status = "STARTED"
                => taskStore[id].status = "STARTED"
    /\ OnlyDriverStarts'

(* A step that leaves the driver's thread undisturbed keeps the invariant. *)
LEMMA UndisturbedKeeps ==
    ASSUME TypeInv, TypeInv', DriverInv, Undisturbed
    PROVE  DriverInv'
<1>1. pc["driver"] \notin {"idle", "canRunning", "canQueued", "enqueue",
                           "stopping"} => task["driver"] \in TaskIds
  BY DEF TypeInv, LocalsOK, Threads
<1>2. pc["driver"] \in {"canRunning", "canQueued", "enqueue"}
        => task["driver"] \in TaskIds
  BY ThreadsAssumption DEF TypeInv, LocalsOK, Threads
<1>3. RegisteredIsStored'
  BY DEF TypeInv, TypeOK, DriverInv, RegisteredIsStored, Undisturbed
<1>4. DriverHasSaved'
  BY <1>1, <1>2 DEF DriverInv, DriverHasSaved, AfterSave, Undisturbed
<1>5. ForgetsUnregistered'
  BY DEF DriverInv, ForgetsUnregistered, Undisturbed
<1>6. Building'
  BY <1>1 DEF DriverInv, Building, Undisturbed
<1>7. SavesAlive'
  BY DEF DriverInv, SavesAlive, Undisturbed
<1>8. StartedIsAlive'
  BY DEF DriverInv, StartedIsAlive, Undisturbed
<1>9. QED
  BY <1>3, <1>4, <1>5, <1>6, <1>7, <1>8 DEF DriverInv, Undisturbed

(* A step of updateStatus or KillApp by a thread other than the driver's   *)
(* leaves it undisturbed: it saves, and never deletes, a deployment, and   *)
(* never as STARTED.                                                       *)
LEMMA OthersUndisturbed ==
    ASSUME TypeInv, TypeInv', DriverInv,
           NEW t \in Threads, t # "driver", ThreadStep(t)
    PROVE  Undisturbed
<1> USE DEF TypeInv, TypeOK, DriverInv
<1>1. "driver" \in Threads
  BY DEF Threads
<1>2. ASSUME NEW label, Leave(t, label)
      PROVE  /\ pc'["driver"] = pc["driver"]
             /\ dep'["driver"] = dep["driver"]
             /\ OnlyDriverStarts'
  BY <1>1, <1>2 DEF Leave, Goto, OnlyDriverStarts, NilDeployment
<1>3. ASSUME Release(t) PROVE task'["driver"] = task["driver"]
  BY <1>1, <1>3 DEF Release
<1>4. ASSUME Scheduled(t)
      PROVE  /\ pc'["driver"] = pc["driver"]
             /\ dep'["driver"] = dep["driver"]
             /\ OnlyDriverStarts'
  BY <1>1, <1>2, <1>4 DEF Scheduled, Goto, OnlyDriverStarts
<1>5. CASE Save(t)
  <2>1. dep[t] # NilDeployment /\ dep[t].status # "STARTED"
    BY <1>5, NilIsNoDeployment DEF LocalsOK, Save, OnlyDriverStarts
  <2>2. \A id \in TaskIds :
          /\ Stored(id) => Stored(id)'
          /\ taskStore'[id].status = "STARTED"
                => taskStore[id].status = "STARTED"
    <3> SUFFICES ASSUME NEW id \in TaskIds
                 PROVE  /\ Stored(id) => taskStore'[id] # NilDeployment
                        /\ taskStore'[id].status = "STARTED"
                              => taskStore[id].status = "STARTED"
      BY DEF Stored
    <3>1. taskStore' = [taskStore EXCEPT ![task[t]] = dep[t]]
      BY <1>5 DEF Save
    <3>2. CASE id = task[t]
      BY <2>1, <3>1, <3>2
    <3>3. CASE id # task[t]
      BY <3>1, <3>3 DEF Stored
    <3>4. QED  BY <3>2, <3>3
  <2>3. QED
    BY <1>1, <1>5, <2>2
       DEF Save, Undisturbed, Goto, OnlyDriverStarts, checks, cluster
<1> USE DEF Undisturbed, Stored, stores, checks, cluster
<1>6. CASE LookupApp(t)
  <2>1. CASE appStore[dep[t].appId] = NilApp
    BY <1>2, <1>3, <1>6, <2>1 DEF LookupApp
  <2>2. CASE appStore[dep[t].appId] # NilApp
    BY <1>1, <1>6, <2>2 DEF LookupApp, Goto, OnlyDriverStarts
  <2>3. QED  BY <2>1, <2>2
<1>7. CASE NeedsRunning(t) \/ NeedsQueued(t) \/ CanRunning(t)
  BY <1>1, <1>7 DEF NeedsRunning, NeedsQueued, CanRunning, Goto,
                    OnlyDriverStarts
<1>8. CASE CanQueued(t)
  BY <1>1, <1>4, <1>8 DEF CanQueued, Goto, OnlyDriverStarts
<1>9. CASE Enqueue(t)
  BY <1>4, <1>9 DEF Enqueue
<1>10. CASE UpdateChecks(t)
  <2>1. register' \subseteq register
    BY <1>10 DEF UpdateChecks, OnlyDriverStarts
  <2>2. QED
    BY <1>2, <1>3, <1>10, <2>1 DEF UpdateChecks
<1>11. CASE TaskStopping(t)
  <2>1. PICK id \in TaskIds :
          \/ Get(t, id, "STOPPING")
          \/ /\ task' = [task EXCEPT ![t] = id]
             /\ Goto(t, "kill")
             /\ UNCHANGED dep
    BY <1>11 DEF TaskStopping
  <2>2. CASE Get(t, id, "STOPPING")
    <3>1. [taskStore[id] EXCEPT !.status = "STOPPING"].status # "STARTED"
      BY <2>2, StatusReplaced DEF Get, Statuses
    <3>2. OnlyDriverStarts'
      <4>1. dep' = [dep EXCEPT ![t] =
                       [taskStore[id] EXCEPT !.status = "STOPPING"]]
        BY <2>2 DEF Get
      <4>2. QED  BY <3>1, <4>1 DEF OnlyDriverStarts
    <3>3. QED
      BY <1>1, <1>11, <2>2, <3>2 DEF TaskStopping, Get, Goto
  <2>3. CASE UNCHANGED dep /\ task' = [task EXCEPT ![t] = id]
                           /\ Goto(t, "kill")
    BY <1>1, <1>11, <2>3 DEF TaskStopping, Goto, OnlyDriverStarts
  <2>4. QED  BY <2>1, <2>2, <2>3
<1>12. CASE KillAppDone(t) \/ KillTask(t)
  BY <1>1, <1>3, <1>12 DEF KillAppDone, KillTask, Goto, OnlyDriverStarts
<1>13. QED
  BY <1>5, <1>6, <1>7, <1>8, <1>9, <1>10, <1>11, <1>12
     DEF ThreadStep, UpdateStatus

(* So do the steps of the health loop, the kill loop and the clients.      *)
LEMMA InputsUndisturbed ==
    ASSUME TypeInv, TypeInv', DriverInv,
           \/ \E id \in TaskIds : ReceiveFailure(id)
           \/ MarkUnhealthy \/ TasksToKill \/ KillAppOfTask
           \/ \E c \in Clients : ClientInput(c)
           \/ UNCHANGED vars
    PROVE  Undisturbed
<1> USE DEF TypeInv, TypeOK, DriverInv, Undisturbed, Stored,
            stores, checks, cluster
<1>1. "driver" \in Threads /\ "health" \in Threads
  BY DEF Threads
<1>2. ASSUME NEW id \in TaskIds, ReceiveFailure(id) PROVE Undisturbed
  BY <1>1, <1>2 DEF ReceiveFailure, Goto, OnlyDriverStarts
<1>3. CASE MarkUnhealthy
  <2>1. CASE Get("health", task["health"], "UNHEALTHY")
    <3>1. [taskStore[task["health"]] EXCEPT !.status = "UNHEALTHY"].status
            # "STARTED"
      <4>1. task["health"] \in TaskIds
        BY <1>1, <1>3 DEF MarkUnhealthy, LocalsOK
      <4>2. QED
        BY <2>1, <4>1, StatusReplaced DEF Get, Statuses
    <3>2. dep' = [dep EXCEPT !["health"] =
                     [taskStore[task["health"]] EXCEPT !.status = "UNHEALTHY"]]
      BY <2>1 DEF Get
    <3>3. OnlyDriverStarts'
      BY <3>1, <3>2 DEF OnlyDriverStarts
    <3>4. QED
      BY <1>1, <1>3, <2>1, <3>2, <3>3 DEF MarkUnhealthy, Get, Goto
  <2>2. CASE ~Stored(task["health"])
    BY <1>1, <1>3, <2>2 DEF MarkUnhealthy, Get, Goto, OnlyDriverStarts
  <2>3. QED  BY <1>3, <2>1, <2>2 DEF MarkUnhealthy
<1>4. CASE TasksToKill
  BY <1>1, <1>4 DEF TasksToKill, OnlyDriverStarts
<1>5. CASE KillAppOfTask
  BY <1>1, <1>5 DEF KillAppOfTask, Goto, OnlyDriverStarts
<1>6. ASSUME NEW c \in Clients, ClientInput(c) PROVE Undisturbed
  <2>1. c # "driver"
    BY ThreadsAssumption
  <2>2. ASSUME NEW m \in Apps, SaveApp(c, m) PROVE Undisturbed
    BY <2>2 DEF SaveApp, locals, OnlyDriverStarts
  <2>3. ASSUME NEW a \in AppIds, DeleteApp(c, a) PROVE Undisturbed
    BY <2>3 DEF DeleteApp, locals, OnlyDriverStarts
  <2>4. ASSUME NEW a \in AppIds, Deploy(c, a) PROVE Undisturbed
    BY <1>1, <2>1, <2>4 DEF Deploy, Goto, OnlyDriverStarts
  <2>5. ASSUME NEW name \in AppNames, KillApp(c, name) PROVE Undisturbed
    BY <1>1, <2>1, <2>5 DEF KillApp, Goto, OnlyDriverStarts
  <2>6. ASSUME NEW name \in AppNames, NEW component \in Components,
               KillComponent(c, name, component)
        PROVE  Undisturbed
    BY <2>6 DEF KillComponent, locals, OnlyDriverStarts
  <2>7. ASSUME NEW id \in TaskIds, KillComponentOnSlave(c, id)
        PROVE  Undisturbed
    BY <2>7 DEF KillComponentOnSlave, locals, OnlyDriverStarts
  <2>8. QED
    BY <1>6, <2>2, <2>3, <2>4, <2>5, <2>6, <2>7 DEF ClientInput
<1>7. CASE UNCHANGED vars
  BY <1>7 DEF vars, OnlyDriverStarts
<1>8. QED  BY <1>2, <1>3, <1>4, <1>5, <1>6, <1>7

(* updateStatus, run by the driver's thread, keeps the invariant.          *)
LEMMA DriverThreadKeeps ==
    ASSUME TypeInv, TypeInv', DriverInv, ThreadStep("driver")
    PROVE  DriverInv'
<1> USE DEF TypeInv, TypeOK, DriverInv, RegisteredIsStored, OnlyDriverStarts,
            DriverHasSaved, AfterSave, ForgetsUnregistered, Building,
            SavesAlive, StartedIsAlive, Stored, stores, checks, cluster, Goto
<1>1. "driver" \in Threads /\ "driver" \notin Clients
  BY ThreadsAssumption DEF Threads
<1>2. CASE Save("driver")
  <2>1. /\ task["driver"] \in TaskIds
        /\ dep["driver"] # NilDeployment
    BY <1>1, <1>2, NilIsNoDeployment DEF LocalsOK, Save
  <2>2. QED
    BY <1>1, <1>2, <2>1 DEF Save
<1>3. CASE LookupApp("driver")
  BY <1>1, <1>3, NilIsNoDeployment DEF LookupApp, Leave, Release, Caller
<1>4. CASE NeedsRunning("driver") \/ NeedsQueued("driver")
           \/ CanRunning("driver")
  BY <1>1, <1>4 DEF NeedsRunning, NeedsQueued, CanRunning
<1>5. CASE CanQueued("driver")
  BY <1>1, <1>5 DEF CanQueued, Scheduled
<1>6. CASE Enqueue("driver")
  BY <1>1, <1>6 DEF Enqueue, Scheduled
<1>7. CASE UpdateChecks("driver")
  <2>1. RegisteredIsStored'
    BY <1>7 DEF UpdateChecks
  <2>2. QED
    BY <1>1, <1>7, <2>1 DEF UpdateChecks, Leave, Release, Caller
<1>8. CASE TaskStopping("driver")
  BY <1>1, <1>8 DEF TaskStopping, LocalsOK
<1>9. CASE KillAppDone("driver") \/ KillTask("driver")
  BY <1>1, <1>9 DEF KillAppDone, KillTask, Release
<1>10. QED
  BY <1>2, <1>3, <1>4, <1>5, <1>6, <1>7, <1>8, <1>9
     DEF ThreadStep, UpdateStatus

(* So do the driver's other callbacks, and a restart.                      *)
LEMMA DriverCallbackKeeps ==
    ASSUME TypeInv, TypeInv', DriverInv, DriverStep \/ DriverInput \/ Restart
    PROVE  DriverInv'
<1> USE DEF TypeInv, TypeOK, DriverInv, RegisteredIsStored, OnlyDriverStarts,
            DriverHasSaved, AfterSave, ForgetsUnregistered, Building,
            SavesAlive, StartedIsAlive, Stored, stores, checks, cluster, Goto
<1>1. "driver" \in Threads
  BY DEF Threads
<1>2. CASE ForgetUnregister
  BY <1>1, <1>2 DEF ForgetUnregister
<1>3. CASE ForgetDelete
  BY <1>1, <1>3, NilIsNoDeployment DEF ForgetDelete, LocalsOK
<1>4. CASE SaveDeployment
  <2>1. /\ task["driver"] \in TaskIds
        /\ taskStore'[task["driver"]].status = "DEPLOYING"
    BY <1>1, <1>4 DEF SaveDeployment, LocalsOK
  <2>2. taskStore'[task["driver"]] # NilDeployment
    BY <2>1, NilIsNoDeployment
  <2>3. QED
    BY <1>1, <1>4, <2>1, <2>2 DEF SaveDeployment
<1>5. CASE LaunchTasks
  BY <1>1, <1>5 DEF LaunchTasks, Leave, Release
<1>6. ASSUME NEW id \in TaskIds,
             NEW state \in {"TASK_RUNNING", "TASK_FAILED", "TASK_LOST",
                            "TASK_FINISHED", "TASK_KILLED"},
             StatusUpdate(id, state)
      PROVE  DriverInv'
  <2>1. StatusFor(state) \in {"STARTED", "FAILED", "STOPPED"}
    BY DEF StatusFor
  <2>2. StatusFor(state) = "STARTED" <=> state = "TASK_RUNNING"
    BY DEF StatusFor
  <2>3. /\ mesos'[id] \in {"running", "ended"}
        /\ Delivery = "ordered" /\ state = "TASK_RUNNING"
              => mesos'[id] = "running"
        /\ \A x \in TaskIds : x # id => mesos'[x] = mesos[x]
        /\ mesos'[id] # "running"
              => state # "TASK_RUNNING" \/ Delivery # "ordered"
    BY <1>6 DEF StatusUpdate, Reported, Launched
  <2>4. CASE Get("driver", id, StatusFor(state))
    <3>1. dep' = [dep EXCEPT !["driver"] =
                     [taskStore[id] EXCEPT !.status = StatusFor(state)]]
      BY <2>4 DEF Get
    <3>2. dep'["driver"].status = StatusFor(state)
      BY <1>1, <2>1, <2>4, <3>1, StatusReplaced DEF Get, Statuses
    <3>3. /\ pc' = [pc EXCEPT !["driver"] = "save"]
          /\ task' = [task EXCEPT !["driver"] = id]
      BY <2>4 DEF Get
    <3>4. QED
      BY <1>1, <1>6, <2>1, <2>2, <2>3, <3>1, <3>2, <3>3 DEF StatusUpdate
  <2>5. CASE ~Stored(id) /\ UNCHANGED <<pc, task, dep, app, count>>
    BY <1>1, <1>6, <2>3, <2>5, NilIsNoDeployment DEF StatusUpdate
  <2>6. QED
    BY <1>6, <2>4, <2>5 DEF StatusUpdate
<1>7. ASSUME NEW id \in TaskIds, StuckUpdate(id) PROVE DriverInv'
  BY <1>1, <1>7 DEF StuckUpdate
<1>8. ASSUME NEW offer \in Offers, FulfillOffer(offer) PROVE DriverInv'
  <2>1. PICK id \in TaskIds :
          /\ mesos[id] = "none"
          /\ mesos' = [mesos EXCEPT ![id] = "built"]
          /\ task' = [task EXCEPT !["driver"] = id]
    BY <1>8 DEF FulfillOffer
  <2>2. QED
    BY <1>1, <1>8, <2>1 DEF FulfillOffer
<1>9. ASSUME NEW offer \in Offers, DeclineOffer(offer) PROVE DriverInv'
  BY <1>9 DEF DeclineOffer, vars
<1>10. CASE Restart
  BY <1>1, <1>10, NilIsNoDeployment DEF Restart
<1>11. QED
  BY <1>2, <1>3, <1>4, <1>5, <1>6, <1>7, <1>8, <1>9, <1>10
     DEF DriverStep, DriverInput

(* Every step keeps the invariant.                                         *)
LEMMA DriverInvStep ==
    TypeInv /\ TypeInv' /\ DriverInv /\ [Next]_vars => DriverInv'
<1> SUFFICES ASSUME TypeInv, TypeInv', DriverInv, [Next]_vars PROVE DriverInv'
  OBVIOUS
<1>1. ASSUME NEW t \in Threads, ThreadStep(t) PROVE DriverInv'
  BY <1>1, DriverThreadKeeps, OthersUndisturbed, UndisturbedKeeps
<1>2. CASE DriverStep \/ DriverInput \/ Restart
  BY <1>2, DriverCallbackKeeps
<1>3. CASE \/ \E id \in TaskIds : ReceiveFailure(id)
           \/ MarkUnhealthy \/ TasksToKill \/ KillAppOfTask
           \/ \E c \in Clients : ClientInput(c)
           \/ UNCHANGED vars
  BY <1>3, InputsUndisturbed, UndisturbedKeeps
<1>4. QED  BY <1>1, <1>2, <1>3 DEF Next

(* Type correctness of the task manager's state, for any number of         *)
(* threads, tasks and applications.                                        *)
THEOREM TypeCorrect == Spec => []TypeOK
<1>1. Init => TypeInv
  BY DEF Init, TypeInv, TypeOK, LocalsOK, Labels, TaskLife
<1>2. TypeInv => TypeOK
  BY DEF TypeInv
<1>3. QED  BY <1>1, <1>2, TypeStep, PTL DEF Spec

(* The invariant holds in every reachable state.                           *)
LEMMA DriverInvariant == Spec => [](TypeInv /\ DriverInv)
<1>1. Init => TypeInv
  BY DEF Init, TypeInv, TypeOK, LocalsOK, Labels, TaskLife
<1>2. Init => DriverInv
  BY NilIsNoDeployment
     DEF Init, DriverInv, RegisteredIsStored, OnlyDriverStarts, Threads,
         DriverHasSaved, AfterSave, ForgetsUnregistered, Building, SavesAlive,
         StartedIsAlive
<1>3. QED  BY <1>1, <1>2, TypeStep, DriverInvStep, PTL DEF Spec

(* Whatever the order of reports, failures and kills, every task in the    *)
(* health checker's register has a deployment in the task store            *)
(* (updateStatus 342-377, forgetTask 379-389).                             *)
THEOREM RegisteredAreStored == Spec => []RegisteredIsStored
<1>1. DriverInv => RegisteredIsStored
  BY DEF DriverInv
<1>2. QED  BY <1>1, DriverInvariant, PTL

(* When mesos reports the states of a task in order, a deployment is       *)
(* STARTED only while its task runs: the unlocked read and write of        *)
(* updateStatus by the health loop and by KillApp cannot bring STARTED     *)
(* back.                                                                   *)
THEOREM StartedAreAlive == Spec => []StartedIsAlive
<1>1. DriverInv => StartedIsAlive
  BY DEF DriverInv
<1>2. QED  BY <1>1, DriverInvariant, PTL

(* No task is launched without a deployment in the task store              *)
(* (FulfillOffer 300-340 saves it first).                                  *)
THEOREM LaunchesAreTracked == Spec => LaunchIsTracked
<1> DEFINE Tracked == \A id \in TaskIds :
              mesos[id] = "built" /\ mesos'[id] = "staging" => Stored(id)
<1>1. TypeInv /\ DriverInv /\ [Next]_vars => [Tracked]_vars
  <2> SUFFICES ASSUME TypeInv, DriverInv, [Next]_vars,
                      NEW id \in TaskIds, mesos[id] = "built",
                      mesos'[id] = "staging"
               PROVE  Stored(id)
    OBVIOUS
  <2> USE DEF TypeInv, TypeOK
  <2>1. CASE mesos' = mesos
    BY <2>1
  <2>2. CASE LaunchTasks
    BY <2>2 DEF LaunchTasks, DriverInv, Building
  <2>3. ASSUME NEW x \in TaskIds, NEW state, StatusUpdate(x, state)
        PROVE  FALSE
    BY <2>3 DEF StatusUpdate, Reported, Launched
  <2>4. ASSUME NEW offer \in Offers, FulfillOffer(offer) PROVE FALSE
    BY <2>4 DEF FulfillOffer
  <2>5. ASSUME NEW t \in Threads, ThreadStep(t) PROVE mesos' = mesos
    BY <2>5 DEF ThreadStep, UpdateStatus, Save, LookupApp, NeedsRunning,
       NeedsQueued, CanRunning, CanQueued, Enqueue, UpdateChecks,
       TaskStopping, KillAppDone, KillTask, cluster
  <2>6. ASSUME NEW c \in Clients, ClientInput(c) PROVE mesos' = mesos
    BY <2>6 DEF ClientInput, SaveApp, DeleteApp, Deploy, KillApp,
       KillComponent, KillComponentOnSlave, cluster
  <2>7. QED
    BY <2>1, <2>2, <2>3, <2>4, <2>5, <2>6
       DEF Next, DriverStep, DriverInput, ForgetUnregister, ForgetDelete,
           SaveDeployment, StuckUpdate, DeclineOffer, ReceiveFailure,
           MarkUnhealthy, TasksToKill, KillAppOfTask, Restart, cluster, vars
<1>2. QED  BY <1>1, DriverInvariant, PTL DEF Spec, LaunchIsTracked

-----------------------------------------------------------------------------
(* Who writes the task store: the Save of updateStatus, and the driver's   *)
(* thread when it deploys or forgets a task.                               *)
LEMMA Writers ==
    ASSUME [Next]_vars
    PROVE  \/ taskStore' = taskStore
           \/ \E t \in Threads : Save(t)
           \/ ForgetDelete \/ SaveDeployment \/ Restart
<1> USE DEF stores
<1>1. ASSUME NEW t \in Threads, ThreadStep(t)
      PROVE  taskStore' = taskStore \/ Save(t)
  BY <1>1 DEF ThreadStep, UpdateStatus, LookupApp, NeedsRunning, NeedsQueued,
     CanRunning, CanQueued, Enqueue, UpdateChecks, TaskStopping, KillAppDone,
     KillTask
<1>2. CASE DriverStep \/ DriverInput
  BY <1>2 DEF DriverStep, DriverInput, ForgetUnregister, LaunchTasks,
     StatusUpdate, StuckUpdate, FulfillOffer, DeclineOffer, vars
<1>3. ASSUME NEW c \in Clients, ClientInput(c)  PROVE  taskStore' = taskStore
  BY <1>3 DEF ClientInput, SaveApp, DeleteApp, Deploy, KillApp,
     KillComponent, KillComponentOnSlave
<1>4. QED
  BY <1>1, <1>2, <1>3
     DEF Next, ReceiveFailure, MarkUnhealthy, TasksToKill, KillAppOfTask, vars

(* What a step of thread u leaves alone.                                   *)
Only(u) ==
    \A t \in Threads \ {u} :
        pc'[t] = pc[t] /\ task'[t] = task[t] /\ dep'[t] = dep[t]

(* A thread comes to Save by a Get, with a status of its own.              *)
Reports == {"TASK_RUNNING", "TASK_FAILED", "TASK_LOST", "TASK_FINISHED",
            "TASK_KILLED"}
Overwriting == {"UNHEALTHY", "STOPPING"}
Fetches(t) ==
    \/ /\ t = "driver"
       /\ \E id \in TaskIds, state \in Reports :
             StatusUpdate(id, state) /\ Get(t, id, StatusFor(state))
    \/ /\ t # "driver"
       /\ \E id \in TaskIds, status \in Overwriting : Get(t, id, status)

(* A step is one thread's, or the rendezvous of health and kill loop; and  *)
(* nobody comes to Save or goes on from it in any other way.               *)
Moves(u) ==
    /\ Only(u)
    /\ pc'[u] = "save" =>
          \/ pc[u] = "save" /\ task'[u] = task[u] /\ dep'[u] = dep[u]
          \/ Fetches(u)
    /\ pc[u] = "save" /\ pc'[u] = "app" => Save(u)

LEMMA ThreadMoves ==
    ASSUME TypeInv, NEW u \in Threads, ThreadStep(u)
    PROVE  Moves(u)
<1> USE DEF TypeInv, TypeOK, Goto
<1>1. ASSUME NEW label, label # "save", Goto(u, label),
             \/ UNCHANGED <<task, dep>>
             \/ Release(u)
             \/ \E x : task' = [task EXCEPT ![u] = x],
             \/ UNCHANGED dep
             \/ \E x : dep' = [dep EXCEPT ![u] = x]
      PROVE  Only(u) /\ pc'[u] = label
  BY <1>1 DEF Only, Release
<1>2. ASSUME Scheduled(u), UNCHANGED task
      PROVE  Only(u) /\ pc'[u] \in {"idle", "checks"}
  BY <1>2 DEF Scheduled, Leave, Only
<1>3. CASE Save(u)
  BY <1>3 DEF Save, Moves, Only
<1>4. CASE LookupApp(u)
  <2>1. Caller(u) \in {"idle", "notify", "kill"}
    BY DEF Caller
  <2>2. CASE appStore[dep[u].appId] = NilApp
    BY <1>4, <2>1, <2>2 DEF LookupApp, Leave, Release, Moves, Only
  <2>3. CASE appStore[dep[u].appId] # NilApp
    BY <1>4, <2>3 DEF LookupApp, Moves, Only
  <2>4. QED  BY <2>2, <2>3
<1>5. CASE NeedsRunning(u) \/ NeedsQueued(u) \/ CanRunning(u)
  BY <1>5 DEF NeedsRunning, NeedsQueued, CanRunning, Moves, Only
<1>6. CASE CanQueued(u)
  BY <1>2, <1>6 DEF CanQueued, Moves, Only
<1>7. CASE Enqueue(u)
  BY <1>2, <1>7 DEF Enqueue, Moves
<1>8. CASE UpdateChecks(u)
  <2>1. Caller(u) \in {"idle", "notify", "kill"}
    BY DEF Caller
  <2>2. QED
    BY <1>8, <2>1 DEF UpdateChecks, Leave, Release, Moves, Only
<1>9. CASE TaskStopping(u)
  <2>1. PICK id \in TaskIds :
          \/ Get(u, id, "STOPPING")
          \/ /\ task' = [task EXCEPT ![u] = id]
             /\ Goto(u, "kill")
             /\ UNCHANGED dep
    BY <1>9 DEF TaskStopping
  <2>2. u # "driver" /\ pc[u] = "stopping"
    BY <1>9 DEF TaskStopping, LocalsOK
  <2>3. CASE Get(u, id, "STOPPING")
    <3>1. Only(u)
      BY <2>3 DEF Get, Only
    <3>2. Fetches(u)
      BY <2>2, <2>3 DEF Fetches, Overwriting
    <3>3. QED  BY <2>2, <3>1, <3>2 DEF Moves
  <2>4. CASE /\ task' = [task EXCEPT ![u] = id]
             /\ Goto(u, "kill")
             /\ UNCHANGED dep
    BY <2>2, <2>4 DEF Moves, Only
  <2>5. QED  BY <2>1, <2>3, <2>4
<1>10. CASE KillAppDone(u) \/ KillTask(u)
  BY <1>10 DEF KillAppDone, KillTask, Release, Moves, Only
<1>11. QED
  BY <1>3, <1>4, <1>5, <1>6, <1>7, <1>8, <1>9, <1>10
     DEF ThreadStep, UpdateStatus

LEMMA DriverMoves ==
    ASSUME TypeInv, DriverStep \/ DriverInput
    PROVE  Moves("driver")
<1> USE DEF TypeInv, TypeOK, Goto
<1>1. "driver" \in Threads
  BY DEF Threads
<1>2. CASE ForgetUnregister \/ ForgetDelete \/ SaveDeployment
  BY <1>1, <1>2
     DEF ForgetUnregister, ForgetDelete, SaveDeployment, Moves, Only
<1>3. CASE LaunchTasks
  BY <1>1, <1>3 DEF LaunchTasks, Leave, Release, Moves, Only
<1>4. ASSUME NEW id \in TaskIds, NEW state \in Reports,
             StatusUpdate(id, state)
      PROVE  Moves("driver")
  <2>1. CASE Get("driver", id, StatusFor(state))
    <3>1. Only("driver") /\ Fetches("driver")
      BY <1>4, <2>1 DEF Get, Only, Fetches
    <3>2. QED  BY <1>4, <3>1 DEF Moves, StatusUpdate
  <2>2. CASE UNCHANGED <<pc, task, dep, app, count>>
    BY <1>4, <2>2 DEF StatusUpdate, Moves, Only
  <2>3. QED  BY <1>4, <2>1, <2>2 DEF StatusUpdate
<1>5. ASSUME NEW id \in TaskIds, StuckUpdate(id)  PROVE  Moves("driver")
  BY <1>1, <1>5 DEF StuckUpdate, Moves, Only
<1>6. ASSUME NEW offer \in Offers, FulfillOffer(offer)
      PROVE  Moves("driver")
  <2>1. PICK id \in TaskIds : task' = [task EXCEPT !["driver"] = id]
    BY <1>6 DEF FulfillOffer
  <2>2. QED  BY <1>1, <1>6, <2>1 DEF FulfillOffer, Moves, Only
<1>7. ASSUME NEW offer \in Offers, DeclineOffer(offer)
      PROVE  Moves("driver")
  BY <1>7 DEF DeclineOffer, vars, Moves, Only
<1>8. QED
  BY <1>2, <1>3, <1>4, <1>5, <1>6, <1>7
     DEF DriverStep, DriverInput, Reports

LEMMA LoopsMove ==
    ASSUME TypeInv, NEW t \in Threads,
           \/ \E id \in TaskIds : ReceiveFailure(id)
           \/ MarkUnhealthy \/ TasksToKill \/ KillAppOfTask
           \/ \E c \in Clients : ClientInput(c)
           \/ Restart \/ UNCHANGED vars
    PROVE  \/ pc'[t] = pc[t] /\ task'[t] = task[t] /\ dep'[t] = dep[t]
           \/ pc'[t] \notin {"save", "app"}
           \/ t # "driver" /\ pc[t] # "save" /\ Fetches(t)
<1> USE DEF TypeInv, TypeOK, Goto
<1> DEFINE Q == \/ pc'[t] = pc[t] /\ task'[t] = task[t] /\ dep'[t] = dep[t]
                \/ pc'[t] \notin {"save", "app"}
                \/ t # "driver" /\ pc[t] # "save" /\ Fetches(t)
<1>1. ASSUME NEW id \in TaskIds, ReceiveFailure(id)  PROVE  Q
  BY <1>1 DEF ReceiveFailure
<1>2. CASE MarkUnhealthy
  <2>1. "health" \in Threads /\ pc["health"] = "get"
    BY <1>2 DEF MarkUnhealthy, Threads
  <2>2. task["health"] \in TaskIds
    BY <2>1 DEF LocalsOK
  <2>3. CASE t = "health"
    <3>1. CASE Get("health", task["health"], "UNHEALTHY")
      <4>1. Fetches(t)
        BY <2>2, <2>3, <3>1 DEF Fetches, Overwriting
      <4>2. QED  BY <2>1, <2>3, <4>1
    <3>2. CASE Goto("health", "notify")
      BY <2>1, <2>3, <3>2
    <3>3. QED  BY <1>2, <3>1, <3>2 DEF MarkUnhealthy
  <2>4. CASE t # "health"
    BY <1>2, <2>1, <2>4 DEF MarkUnhealthy, Get
  <2>5. QED  BY <2>3, <2>4
<1>3. CASE TasksToKill
  BY <1>3 DEF TasksToKill
<1>4. CASE KillAppOfTask
  BY <1>4 DEF KillAppOfTask
<1>5. ASSUME NEW c \in Clients, ClientInput(c)  PROVE  Q
  BY <1>5 DEF ClientInput, SaveApp, DeleteApp, Deploy, KillApp,
     KillComponent, KillComponentOnSlave, locals
<1>6. CASE Restart
  BY <1>6 DEF Restart
<1>7. CASE UNCHANGED vars
  BY <1>7 DEF vars
<1>8. QED  BY <1>1, <1>2, <1>3, <1>4, <1>5, <1>6, <1>7

LEMMA Savers ==
    ASSUME TypeInv, [Next]_vars, NEW t \in Threads
    PROVE  /\ pc'[t] = "save" =>
                 \/ pc[t] = "save" /\ task'[t] = task[t] /\ dep'[t] = dep[t]
                 \/ Fetches(t)
           /\ pc[t] = "save" /\ pc'[t] = "app" => Save(t)
<1>1. ASSUME NEW u \in Threads, Moves(u)
      PROVE  /\ pc'[t] = "save" =>
                 \/ pc[t] = "save" /\ task'[t] = task[t] /\ dep'[t] = dep[t]
                 \/ Fetches(t)
             /\ pc[t] = "save" /\ pc'[t] = "app" => Save(t)
  BY <1>1 DEF Moves, Only
<1>2. "driver" \in Threads
  BY DEF Threads
<1>3. ASSUME NEW u \in Threads, ThreadStep(u)  PROVE  Moves(u)
  BY <1>3, ThreadMoves
<1>4. CASE DriverStep \/ DriverInput
  BY <1>1, <1>2, <1>4, DriverMoves
<1>5. CASE \/ \E id \in TaskIds : ReceiveFailure(id)
           \/ MarkUnhealthy \/ TasksToKill \/ KillAppOfTask
           \/ \E c \in Clients : ClientInput(c)
           \/ Restart \/ UNCHANGED vars
  BY <1>5, LoopsMove
<1>6. QED  BY <1>1, <1>3, <1>4, <1>5 DEF Next

(* What a task has ended with, mesos does not take back while it reports   *)
(* in order, and the id is not given to another task.                      *)
LEMMA EndedStays ==
    ASSUME TypeInv, DriverInv, [Next]_vars, Delivery = "ordered",
           NEW id \in TaskIds, mesos[id] = "ended"
    PROVE  mesos'[id] = "ended"
<1> USE DEF TypeInv, TypeOK
<1>1. CASE mesos' = mesos
  BY <1>1
<1>2. CASE LaunchTasks
  <2>1. "driver" \in Threads /\ pc["driver"] = "launch"
    BY <1>2 DEF LaunchTasks, Threads
  <2>2. task["driver"] # id
    BY <2>1 DEF DriverInv, Building
  <2>3. QED  BY <1>2, <2>2 DEF LaunchTasks
<1>3. ASSUME NEW x \in TaskIds, NEW state, StatusUpdate(x, state)
      PROVE  mesos'[id] = "ended"
  BY <1>3 DEF StatusUpdate, Reported
<1>4. ASSUME NEW offer \in Offers, FulfillOffer(offer)
      PROVE  mesos'[id] = "ended"
  BY <1>4 DEF FulfillOffer
<1>5. ASSUME NEW t \in Threads, ThreadStep(t)  PROVE  mesos' = mesos
  BY <1>5 DEF ThreadStep, UpdateStatus, Save, LookupApp, NeedsRunning,
     NeedsQueued, CanRunning, CanQueued, Enqueue, UpdateChecks,
     TaskStopping, KillAppDone, KillTask, cluster
<1>6. ASSUME NEW c \in Clients, ClientInput(c)  PROVE  mesos' = mesos
  BY <1>6 DEF ClientInput, SaveApp, DeleteApp, Deploy, KillApp,
     KillComponent, KillComponentOnSlave, cluster
<1>7. QED
  BY <1>1, <1>2, <1>3, <1>4, <1>5, <1>6
     DEF Next, DriverStep, DriverInput, ForgetUnregister, ForgetDelete,
         SaveDeployment, StuckUpdate, DeclineOffer, ReceiveFailure,
         MarkUnhealthy, TasksToKill, KillAppOfTask, Restart, cluster, vars

(* Which statuses the threads are about to save, and what STOPPED says of  *)
(* the task.                                                               *)
SavesOwnStatus ==
    /\ \A t \in Threads \ {"driver"} :
          pc[t] = "save" => dep[t].status \in Overwriting
    /\ pc["driver"] = "save" =>
          dep["driver"].status \in {"STARTED", "FAILED", "STOPPED"}

StoppedHasEnded ==
    Delivery = "ordered" =>
        /\ \A id \in TaskIds :
              taskStore[id].status = "STOPPED" => mesos[id] = "ended"
        /\ pc["driver"] = "save" /\ dep["driver"].status = "STOPPED"
              => mesos[task["driver"]] = "ended"

(* A Get makes a copy with the status it was called with.                  *)
LEMMA Fetched ==
    ASSUME TypeInv, NEW t \in Threads, NEW id \in TaskIds,
           NEW status \in Statuses, Get(t, id, status)
    PROVE  dep'[t].status = status /\ task'[t] = id
<1>1. taskStore[id] \in Deployments
  BY DEF TypeInv, TypeOK, Get, Stored
<1>2. [taskStore[id] EXCEPT !.status = status].status = status
  BY <1>1, StatusReplaced
<1>3. dep' = [dep EXCEPT ![t] = [taskStore[id] EXCEPT !.status = status]]
  BY DEF Get
<1>4. task' = [task EXCEPT ![t] = id]
  BY DEF Get
<1>5. QED  BY <1>2, <1>3, <1>4 DEF TypeInv, TypeOK

LEMMA SavesOwnStatusStep ==
    ASSUME TypeInv, SavesOwnStatus, [Next]_vars
    PROVE  SavesOwnStatus'
<1>1. ASSUME NEW t \in Threads \ {"driver"}, pc'[t] = "save"
      PROVE  dep'[t].status \in Overwriting
  <2>1. CASE pc[t] = "save" /\ dep'[t] = dep[t]
    BY <2>1 DEF SavesOwnStatus
  <2>2. CASE Fetches(t)
    <3>1. PICK id \in TaskIds, status \in Overwriting : Get(t, id, status)
      BY <2>2 DEF Fetches
    <3>2. status \in Statuses
      BY DEF Overwriting, Statuses
    <3>3. QED  BY <3>1, <3>2, Fetched
  <2>3. QED  BY <1>1, <2>1, <2>2, Savers
<1>2. "driver" \in Threads
  BY DEF Threads
<1>3. ASSUME pc'["driver"] = "save"
      PROVE  dep'["driver"].status \in {"STARTED", "FAILED", "STOPPED"}
  <2>1. CASE pc["driver"] = "save" /\ dep'["driver"] = dep["driver"]
    BY <2>1 DEF SavesOwnStatus
  <2>2. CASE Fetches("driver")
    <3>1. PICK id \in TaskIds, state \in Reports :
                  Get("driver", id, StatusFor(state))
      BY <2>2 DEF Fetches
    <3>2. StatusFor(state) \in {"STARTED", "FAILED", "STOPPED"}
      BY DEF StatusFor, Reports
    <3>3. StatusFor(state) \in Statuses
      BY <3>2 DEF Statuses
    <3>4. QED  BY <1>2, <3>1, <3>2, <3>3, Fetched
  <2>3. QED  BY <1>2, <1>3, <2>1, <2>2, Savers
<1>4. QED  BY <1>1, <1>3 DEF SavesOwnStatus

LEMMA StoppedHasEndedStep ==
    ASSUME TypeInv, DriverInv, SavesOwnStatus, StoppedHasEnded, [Next]_vars
    PROVE  StoppedHasEnded'
<1> SUFFICES ASSUME Delivery = "ordered"
             PROVE  /\ \A id \in TaskIds :
                          taskStore'[id].status = "STOPPED"
                             => mesos'[id] = "ended"
                    /\ pc'["driver"] = "save"
                          /\ dep'["driver"].status = "STOPPED"
                          => mesos'[task'["driver"]] = "ended"
  BY DEF StoppedHasEnded
<1>1. "driver" \in Threads
  BY DEF Threads
<1>2. ASSUME NEW id \in TaskIds, taskStore'[id].status = "STOPPED"
      PROVE  mesos'[id] = "ended"
  <2>1. ASSUME taskStore[id].status = "STOPPED"  PROVE  mesos'[id] = "ended"
    BY <2>1, EndedStays DEF StoppedHasEnded
  <2>2. ASSUME NEW t \in Threads, Save(t)  PROVE  mesos'[id] = "ended"
    <3>1. taskStore' = [taskStore EXCEPT ![task[t]] = dep[t]]
          /\ pc[t] = "save"
      BY <2>2 DEF Save
    <3>2. CASE task[t] # id
      BY <1>2, <2>1, <3>1, <3>2 DEF TypeInv, TypeOK
    <3>3. CASE task[t] = id
      <4>1. dep[t].status = "STOPPED"
        BY <1>2, <3>1, <3>3 DEF TypeInv, TypeOK
      <4>2. t = "driver"
        BY <3>1, <4>1 DEF SavesOwnStatus, Overwriting
      <4>3. mesos[id] = "ended"
        BY <3>1, <3>3, <4>1, <4>2 DEF StoppedHasEnded
      <4>4. QED  BY <4>3, EndedStays
    <3>4. QED  BY <3>2, <3>3
  <2>3. CASE ForgetDelete
    BY <1>2, <2>1, <2>3, NilIsNoDeployment DEF ForgetDelete, TypeInv, TypeOK
  <2>4. CASE SaveDeployment
    <3>1. taskStore' = [taskStore EXCEPT ![task["driver"]] =
                         [appId |-> app["driver"].id, status |-> "DEPLOYING"]]
      BY <2>4 DEF SaveDeployment
    <3>2. taskStore'[id].status = "DEPLOYING" \/ taskStore'[id] = taskStore[id]
      BY <3>1 DEF TypeInv, TypeOK
    <3>3. QED  BY <1>2, <2>1, <3>2
  <2>5. CASE Restart
    BY <1>2, <2>5, NilIsNoDeployment DEF Restart
  <2>6. CASE taskStore' = taskStore
    BY <1>2, <2>1, <2>6
  <2>7. QED  BY <2>2, <2>3, <2>4, <2>5, <2>6, Writers
<1>3. ASSUME pc'["driver"] = "save", dep'["driver"].status = "STOPPED"
      PROVE  mesos'[task'["driver"]] = "ended"
  <2>1. CASE /\ pc["driver"] = "save" /\ task'["driver"] = task["driver"]
             /\ dep'["driver"] = dep["driver"]
    <3>1. task["driver"] \in TaskIds
      BY <1>1, <2>1 DEF TypeInv, LocalsOK
    <3>2. mesos[task["driver"]] = "ended"
      BY <1>3, <2>1 DEF StoppedHasEnded
    <3>3. QED  BY <2>1, <3>1, <3>2, EndedStays
  <2>2. CASE Fetches("driver")
    <3>1. PICK id \in TaskIds, state \in Reports :
                  /\ StatusUpdate(id, state)
                  /\ Get("driver", id, StatusFor(state))
      BY <2>2 DEF Fetches
    <3>2. StatusFor(state) \in Statuses
      BY DEF StatusFor, Statuses, Reports
    <3>3. StatusFor(state) = "STOPPED" /\ task'["driver"] = id
      BY <1>1, <1>3, <3>1, <3>2, Fetched
    <3>4. state # "TASK_RUNNING"
      BY <3>3 DEF StatusFor
    <3>5. QED
      BY <3>1, <3>3, <3>4 DEF StatusUpdate, Reported, TypeInv, TypeOK
  <2>3. QED  BY <1>1, <1>3, <2>1, <2>2, Savers
<1>4. QED  BY <1>2, <1>3

LEMMA FinishedInvariant ==
    Spec => [](TypeInv /\ DriverInv /\ SavesOwnStatus /\ StoppedHasEnded)
<1>1. Init => SavesOwnStatus /\ StoppedHasEnded
  BY NilIsNoDeployment DEF Init, SavesOwnStatus, StoppedHasEnded, Threads
<1>2. TypeInv /\ DriverInv /\ SavesOwnStatus /\ StoppedHasEnded /\ [Next]_vars
        => SavesOwnStatus' /\ StoppedHasEnded'
  BY SavesOwnStatusStep, StoppedHasEndedStep
<1>3. QED  BY <1>1, <1>2, DriverInvariant, PTL DEF Spec

(* updateStatus (342-377) puts any status in the place of any other. With  *)
(* ordered reports the driver's thread never brings a finished task back,  *)
(* and what replaces STOPPED is either its own report or the stale save of *)
(* the health loop or KillApp, which always does.                          *)
THEOREM FinishedAreOverwritten == Spec => FinishedIsOverwritten
<1> DEFINE Stale(id) == \E t \in Threads \ {"driver"} :
                           task[t] = id /\ pc[t] = "save" /\ pc'[t] = "app"
<1> DEFINE Over == Delivery = "ordered" => \A id \in TaskIds :
              taskStore[id].status = "STOPPED" =>
                  /\ (\E t \in Threads \ {"driver"} :
                         task[t] = id /\ pc[t] = "save" /\ pc'[t] = "app")
                        <=> taskStore'[id].status \in {"UNHEALTHY", "STOPPING"}
                  /\ taskStore'[id].status \notin {"STARTED", "DEPLOYING"}
<1>1. ASSUME TypeInv, DriverInv, SavesOwnStatus, StoppedHasEnded,
             [Next]_vars, Delivery = "ordered", NEW id \in TaskIds,
             taskStore[id].status = "STOPPED"
      PROVE  /\ Stale(id)
                   <=> taskStore'[id].status \in {"UNHEALTHY", "STOPPING"}
             /\ taskStore'[id].status \notin {"STARTED", "DEPLOYING"}
  <2>1. mesos[id] = "ended" /\ "driver" \in Threads
    BY <1>1 DEF StoppedHasEnded, Threads
  <2>2. ASSUME Stale(id)
        PROVE  taskStore'[id].status \in {"UNHEALTHY", "STOPPING"}
    <3>1. PICK t \in Threads \ {"driver"} :
                  task[t] = id /\ pc[t] = "save" /\ pc'[t] = "app"
      BY <2>2
    <3>2. Save(t)
      BY <1>1, <3>1, Savers
    <3>3. taskStore'[id] = dep[t]
      BY <1>1, <3>1, <3>2 DEF Save, TypeInv, TypeOK
    <3>4. QED  BY <1>1, <3>1, <3>3 DEF SavesOwnStatus, Overwriting
  <2> HIDE DEF Stale
  <2>3. ASSUME NEW t \in Threads, Save(t)
        PROVE  /\ taskStore'[id].status \in {"UNHEALTHY", "STOPPING"}
                     => Stale(id)
               /\ taskStore'[id].status \notin {"STARTED", "DEPLOYING"}
    <3>1. /\ taskStore' = [taskStore EXCEPT ![task[t]] = dep[t]]
          /\ pc[t] = "save" /\ pc'[t] = "app"
      BY <1>1, <2>3 DEF Save, Goto, TypeInv, TypeOK
    <3>2. CASE task[t] # id
      BY <1>1, <3>1, <3>2 DEF TypeInv, TypeOK
    <3>3. CASE task[t] = id
      <4>1. taskStore'[id] = dep[t]
        BY <1>1, <3>1, <3>3 DEF TypeInv, TypeOK
      <4>2. CASE t = "driver"
        <5>1. dep[t].status \in {"STARTED", "FAILED", "STOPPED"}
          BY <1>1, <3>1, <4>2 DEF SavesOwnStatus
        <5>2. dep[t].status # "STARTED"
          BY <1>1, <2>1, <3>1, <3>3, <4>2 DEF DriverInv, SavesAlive
        <5>3. QED  BY <4>1, <5>1, <5>2
      <4>3. CASE t # "driver"
        <5>1. Stale(id)
          BY <3>1, <3>3, <4>3 DEF Stale
        <5>2. dep[t].status \in Overwriting
          BY <1>1, <3>1, <4>3 DEF SavesOwnStatus
        <5>3. QED  BY <4>1, <5>1, <5>2 DEF Overwriting
      <4>4. QED  BY <4>2, <4>3
    <3>4. QED  BY <3>2, <3>3
  <2>4. ASSUME ForgetDelete \/ Restart
        PROVE  taskStore'[id].status \in {"STOPPED", "ABSENT"}
    BY <1>1, <2>4, NilIsNoDeployment
       DEF ForgetDelete, Restart, TypeInv, TypeOK
  <2>5. ASSUME SaveDeployment  PROVE  taskStore'[id] = taskStore[id]
    <3>1. mesos[task["driver"]] = "built"
      BY <1>1, <2>5 DEF SaveDeployment, DriverInv, Building
    <3>2. task["driver"] # id
      BY <2>1, <3>1
    <3>3. QED  BY <1>1, <2>5, <3>2 DEF SaveDeployment, TypeInv, TypeOK
  <2>6. QED  BY <1>1, <2>2, <2>3, <2>4, <2>5, Writers
<1>2. TypeInv /\ DriverInv /\ SavesOwnStatus /\ StoppedHasEnded /\ [Next]_vars
        => Over
  BY <1>1
<1>3. QED  BY <1>2, FinishedInvariant, PTL DEF Spec, FinishedIsOverwritten

-----------------------------------------------------------------------------
(* FindTasksForApp returns only tasks of an application of that name.      *)
LEMMA FoundByName ==
    ASSUME TypeOK, NEW name, name \notin AppNames
    PROVE  FindTasksForApp(name) = {}
<1>1. ASSUME NEW id \in TaskIds, Stored(id),
             appStore[taskStore[id].appId] # NilApp
      PROVE  appStore[taskStore[id].appId].name \in AppNames
  <2>1. taskStore[id].appId \in AppIds
    BY <1>1 DEF TypeOK, Stored, Deployments
  <2>2. appStore[taskStore[id].appId] \in Apps
    BY <1>1, <2>1 DEF TypeOK
  <2>3. QED  BY <2>2 DEF AppNames
<1>2. QED  BY <1>1 DEF FindTasksForApp

(* Every step keeps the kill loop without a task: what it receives is a    *)
(* task id, which names no application.                                    *)
LEMMA KillLoopStep ==
    TypeInv /\ UnhealthyKeepsRunning /\ [Next]_vars => UnhealthyKeepsRunning'
<1> SUFFICES ASSUME TypeInv, UnhealthyKeepsRunning, [Next]_vars,
                    AppNames \cap TaskIds = {}
             PROVE  /\ todo'["killer"] = {}
                    /\ pc'["killer"] \in {"idle", "find", "stopping"}
  BY DEF UnhealthyKeepsRunning
<1> DEFINE Idle == /\ todo'["killer"] = {}
                   /\ pc'["killer"] \in {"idle", "find", "stopping"}
<1>1. "killer" \in Threads \ (Clients \cup {"driver", "health"})
  BY ThreadsAssumption DEF Threads
<1>2. /\ todo["killer"] = {}
      /\ pc["killer"] \in {"idle", "find", "stopping"}
  BY DEF UnhealthyKeepsRunning
<1>3. ASSUME todo'["killer"] = todo["killer"], pc'["killer"] = pc["killer"]
      PROVE  Idle
  BY <1>2, <1>3
<1>4. ASSUME NEW t \in Threads, t # "killer", NEW label,
             Goto(t, label) \/ Leave(t, label)
      PROVE  pc'["killer"] = pc["killer"]
  BY <1>1, <1>4 DEF Goto, Leave, TypeInv, TypeOK
<1>5. ASSUME NEW t \in Threads, ThreadStep(t) PROVE Idle
  <2>1. CASE t = "killer"
    <3>1. KillAppDone(t)
      BY <1>2, <1>5, <2>1
         DEF ThreadStep, UpdateStatus, Save, LookupApp, NeedsRunning,
             NeedsQueued, CanRunning, CanQueued, Enqueue, UpdateChecks,
             TaskStopping, KillTask
    <3>2. QED
      BY <1>2, <2>1, <3>1 DEF KillAppDone, Goto, TypeInv, TypeOK
  <2>2. CASE t # "killer"
    <3>1. todo'["killer"] = todo["killer"]
      BY <1>1, <1>5, <2>2
         DEF ThreadStep, UpdateStatus, Save, LookupApp, NeedsRunning,
             NeedsQueued, CanRunning, CanQueued, Enqueue, UpdateChecks,
             TaskStopping, KillAppDone, KillTask, TypeInv, TypeOK
    <3>2. \E label : Goto(t, label) \/ Leave(t, label)
      BY <1>5 DEF ThreadStep, UpdateStatus, Save, LookupApp, NeedsRunning,
             NeedsQueued, CanRunning, CanQueued, Enqueue, UpdateChecks,
             TaskStopping, KillAppDone, KillTask, Scheduled, Get
    <3>3. QED  BY <1>3, <1>4, <2>2, <3>1, <3>2
  <2>3. QED  BY <2>1, <2>2
<1>6. CASE DriverStep \/ DriverInput
  <2>1. todo'["killer"] = todo["killer"]
    BY <1>6 DEF DriverStep, DriverInput, ForgetUnregister, ForgetDelete,
       SaveDeployment, LaunchTasks, StatusUpdate, StuckUpdate, FulfillOffer,
       DeclineOffer, vars
  <2>2. pc' = pc \/ \E label : Goto("driver", label) \/ Leave("driver", label)
    BY <1>6 DEF DriverStep, DriverInput, ForgetUnregister, ForgetDelete,
       SaveDeployment, LaunchTasks, StatusUpdate, StuckUpdate, FulfillOffer,
       DeclineOffer, Get, vars
  <2>3. QED  BY <1>3, <1>4, <2>1, <2>2 DEF Threads
<1>7. ASSUME NEW id \in TaskIds, ReceiveFailure(id) PROVE Idle
  BY <1>3, <1>4, <1>7 DEF ReceiveFailure, Threads
<1>8. CASE MarkUnhealthy
  BY <1>3, <1>4, <1>8 DEF MarkUnhealthy, Get, Threads
<1>9. CASE TasksToKill
  BY <1>1, <1>2, <1>9 DEF TasksToKill, TypeInv, TypeOK
<1>10. CASE KillAppOfTask
  <2>1. task["killer"] \in TaskIds
    BY <1>1, <1>10 DEF KillAppOfTask, TypeInv, LocalsOK
  <2>2. FindTasksForApp(task["killer"]) = {}
    BY <2>1, FoundByName DEF TypeInv
  <2>3. QED
    BY <1>1, <1>10, <2>2 DEF KillAppOfTask, Goto, TypeInv, TypeOK
<1>11. ASSUME NEW c \in Clients, ClientInput(c) PROVE Idle
  <2>1. c \in Threads /\ c # "killer"
    BY <1>1 DEF Threads
  <2>2. todo'["killer"] = todo["killer"]
    BY <1>1, <1>11, <2>1
       DEF ClientInput, SaveApp, DeleteApp, Deploy, KillApp, KillComponent,
           KillComponentOnSlave, locals, TypeInv, TypeOK
  <2>3. pc' = pc \/ \E label : Goto(c, label)
    BY <1>11 DEF ClientInput, SaveApp, DeleteApp, Deploy, KillApp,
       KillComponent, KillComponentOnSlave, locals
  <2>4. QED  BY <1>3, <1>4, <2>1, <2>2, <2>3
<1>12. CASE Restart
  BY <1>1, <1>12 DEF Restart
<1>13. CASE UNCHANGED vars
  BY <1>3, <1>13 DEF vars
<1>14. QED
  BY <1>5, <1>6, <1>7, <1>8, <1>9, <1>10, <1>11, <1>12, <1>13 DEF Next

(* As long as no application is named like a task id, an unhealthy task is *)
(* never stopped: the kill loop (scheduler.go 248-254) has nothing to do   *)
(* for any task it receives, whatever else runs.                           *)
THEOREM UnhealthyAreNotKilled == Spec => []UnhealthyKeepsRunning
<1>1. Init => TypeInv /\ UnhealthyKeepsRunning
  BY DEF Init, TypeInv, TypeOK, LocalsOK, Labels, TaskLife, Threads,
         UnhealthyKeepsRunning
<1>2. QED  BY <1>1, TypeStep, KillLoopStep, PTL DEF Spec

-----------------------------------------------------------------------------
(* With the monitor that New wires nothing gets past the queue: no task,   *)
(* no deployment, no check, and so every thread but the clients is idle.   *)
ProductionInv ==
    Monitor = "simple" =>
        /\ \A id \in TaskIds : taskStore[id] = NilDeployment
                               /\ mesos[id] = "none"
        /\ tracked = {}
        /\ \A t \in Threads \ Clients : pc[t] = "idle"
        /\ \A c \in Clients :
              /\ pc[c] \in {"idle", "canRunning", "canQueued", "enqueue"}
              /\ task[c] = NoTask

(* The guard of FulfillOffer's loop asks about a nil application, which is *)
(* not active.                                                             *)
LEMMA ProductionFulfillsNothing == Monitor = "simple" => ~MayFulfill
  BY DEF MayFulfill, CanDeploy, CanDeployMoreInstances, NilApp

(* Every step keeps ProductionInv.                                         *)
LEMMA ProductionStep ==
    TypeInv /\ ProductionInv /\ [Next]_vars => ProductionInv'
<1> SUFFICES ASSUME TypeInv, ProductionInv, [Next]_vars, Monitor = "simple"
             PROVE  ProductionInv'
  BY DEF ProductionInv
<1> USE DEF TypeInv, TypeOK, ProductionInv, stores, checks, cluster, Goto
<1>1. {"driver", "health", "killer"} \subseteq Threads \ Clients
  BY ThreadsAssumption DEF Threads
<1>2. \A name : FindTasksForApp(name) = {}
  BY DEF FindTasksForApp, Stored
<1>3. ASSUME NEW t \in Threads, ThreadStep(t) PROVE ProductionInv'
  <2>1. t \in Clients /\ (CanRunning(t) \/ CanQueued(t) \/ Enqueue(t))
    BY <1>3 DEF ThreadStep, UpdateStatus, Save, LookupApp, NeedsRunning,
       NeedsQueued, CanRunning, CanQueued, Enqueue, UpdateChecks,
       TaskStopping, KillAppDone, KillTask
  <2>2. \E label \in {"idle", "canQueued", "enqueue"} :
          pc' = [pc EXCEPT ![t] = label]
    BY <2>1 DEF CanRunning, CanQueued, Enqueue, Scheduled, Leave
  <2>3. UNCHANGED <<taskStore, mesos, tracked, task>>
    BY <2>1 DEF CanRunning, CanQueued, Enqueue
  <2>4. QED  BY <2>1, <2>2, <2>3
<1>4. CASE DriverStep
  BY <1>1, <1>4 DEF DriverStep, ForgetUnregister, ForgetDelete,
                    SaveDeployment, LaunchTasks
<1>5. CASE DriverInput
  BY <1>5, ProductionFulfillsNothing
     DEF DriverInput, StatusUpdate, Reported, Launched, StuckUpdate,
         FulfillOffer, DeclineOffer, vars
<1>6. CASE \/ \E id \in TaskIds : ReceiveFailure(id)
           \/ MarkUnhealthy \/ TasksToKill \/ KillAppOfTask
  BY <1>1, <1>6 DEF ReceiveFailure, MarkUnhealthy, TasksToKill, KillAppOfTask
<1>7. ASSUME NEW c \in Clients, ClientInput(c) PROVE ProductionInv'
  <2>1. ASSUME NEW a \in AppIds, Deploy(c, a) PROVE ProductionInv'
    BY <2>1 DEF Deploy
  <2>2. QED
    BY <1>2, <1>7, <2>1
       DEF ClientInput, SaveApp, DeleteApp, KillApp, KillComponent,
           KillComponentOnSlave, locals
<1>8. CASE Restart
  BY <1>8 DEF Restart, Threads
<1>9. CASE UNCHANGED vars
  BY <1>9 DEF vars
<1>10. QED
  BY <1>3, <1>4, <1>5, <1>6, <1>7, <1>8, <1>9 DEF Next

(* As it is wired, the program never launches a task, whatever is deployed *)
(* and whatever mesos offers (FulfillOffer 308, CanDeployMoreInstances     *)
(* 195-205).                                                               *)
THEOREM ProductionIsIdle == Spec => []ProductionLaunchesNothing
<1>1. Init => TypeInv /\ ProductionInv
  BY DEF Init, TypeInv, TypeOK, LocalsOK, Labels, TaskLife, ProductionInv,
         Threads
<1>2. ProductionInv => ProductionLaunchesNothing
  BY DEF ProductionInv, ProductionLaunchesNothing
<1>3. QED  BY <1>1, <1>2, TypeStep, ProductionStep, PTL DEF Spec

-----------------------------------------------------------------------------
(* The bound counts the queue's entries, so the queue has to be finite.    *)
OvershootInv == IsFiniteSet(queue) /\ QueueOvershootBound

(* The sets whose elements the bound counts are finite.                    *)
LEMMA CountedSets ==
    ASSUME IsFiniteSet(queue), NEW a
    PROVE  /\ IsFiniteSet(QueuedApps(a)) /\ CountAppsForID(a) \in Nat
           /\ IsFiniteSet(Committed(a)) /\ Cardinality(Committed(a)) \in Nat
           /\ IsFiniteSet(Threads)
<1>1. IsFiniteSet(QueuedApps(a))
  BY FS_Subset DEF QueuedApps
<1>2. IsFiniteSet({"driver", "health", "killer"})
  <2>1. IsFiniteSet({"driver"} \cup {"health"})
    BY FS_Singleton, FS_Union
  <2>2. IsFiniteSet({"driver"} \cup {"health"} \cup {"killer"})
    BY <2>1, FS_Singleton, FS_Union
  <2>3. {"driver", "health", "killer"}
          = {"driver"} \cup {"health"} \cup {"killer"}
    OBVIOUS
  <2>4. QED  BY <2>2, <2>3
<1>3. IsFiniteSet(Threads)
  BY <1>2, ThreadsAssumption, FS_Union DEF Threads
<1>4. IsFiniteSet(Committed(a))
  BY <1>3, FS_Subset DEF Committed
<1>5. QED
  BY <1>1, <1>3, <1>4, FS_CardinalityType DEF CountAppsForID

(* Every step keeps the bound. A client that decides to enqueue has seen   *)
(* fewer than MaxInstances entries, and at most the other clients have     *)
(* decided the same and not enqueued yet; an Enqueue turns a decision into *)
(* an entry.                                                               *)
LEMMA OvershootStep ==
    TypeInv /\ TypeInv' /\ ProductionInv /\ ProductionInv' /\ OvershootInv
        /\ [Next]_vars /\ Monitor = "simple" => OvershootInv'
<1> SUFFICES ASSUME TypeInv, TypeInv', ProductionInv, ProductionInv',
                    OvershootInv, [Next]_vars, Monitor = "simple"
             PROVE  OvershootInv'
  OBVIOUS
<1> USE DEF TypeInv, TypeOK
<1> DEFINE N == Cardinality(Clients)
<1>1. N \in Nat
  BY ThreadsAssumption, FS_CardinalityType
<1>2. ASSUME queue' \subseteq queue,
             \A t \in Threads : pc'[t] = "enqueue"
                => pc[t] = "enqueue" /\ app'[t] = app[t]
      PROVE  OvershootInv'
  <2>1. IsFiniteSet(queue')
    BY <1>2, FS_Subset DEF OvershootInv
  <2>2. ASSUME NEW a \in AppIds, SlaBound(a)
        PROVE  CountAppsForID(a)' + Cardinality(Committed(a)')
                   <= MaxInstances + N - 1
    <3>1. QueuedApps(a)' \subseteq QueuedApps(a)
      BY <1>2 DEF QueuedApps
    <3>2. Committed(a)' \subseteq Committed(a)
      BY <1>2 DEF Committed
    <3>3. /\ CountAppsForID(a)' <= CountAppsForID(a)
          /\ Cardinality(Committed(a)') <= Cardinality(Committed(a))
      BY <3>1, <3>2, CountedSets, FS_Subset DEF OvershootInv, CountAppsForID
    <3>4. CountAppsForID(a) + Cardinality(Committed(a)) <= MaxInstances + N - 1
      BY <2>2 DEF OvershootInv, QueueOvershootBound
    <3>5. /\ CountAppsForID(a) \in Nat /\ Cardinality(Committed(a)) \in Nat
          /\ CountAppsForID(a)' \in Nat /\ Cardinality(Committed(a)') \in Nat
      <4>1. IsFiniteSet(QueuedApps(a)') /\ IsFiniteSet(Committed(a)')
        BY <3>1, <3>2, CountedSets, FS_Subset DEF OvershootInv
      <4>2. QED
        BY <4>1, CountedSets, FS_CardinalityType
           DEF OvershootInv, CountAppsForID
    <3>6. QED  BY <1>1, <3>3, <3>4, <3>5, BoundsAssumption
  <2>3. QED
    BY <2>1, <2>2 DEF OvershootInv, QueueOvershootBound, SlaBound
<1>3. ASSUME NEW t \in Clients, CanQueued(t) PROVE OvershootInv'
  <2>1. CASE pc'[t] # "enqueue"
    BY <1>2, <1>3, <2>1
       DEF CanQueued, Scheduled, Leave, Goto, stores, Threads
  <2>2. CASE pc'[t] = "enqueue"
    <3>1. /\ queue' = queue /\ app' = app
          /\ pc' = [pc EXCEPT ![t] = "enqueue"]
          /\ CanDeploy(app[t], count[t], CountAppsForID(app[t].id))
      BY <1>3, <2>2 DEF CanQueued, Scheduled, Leave, Goto, stores, Threads
    <3>2. app[t] \in Apps /\ count[t] \in Nat
      BY <1>3 DEF CanQueued, LocalsOK, Threads
    <3>3. ASSUME NEW a \in AppIds, SlaBound(a)
          PROVE  CountAppsForID(a)' + Cardinality(Committed(a)')
                     <= MaxInstances + N - 1
      <4>1. CountAppsForID(a)' = CountAppsForID(a)
        BY <3>1 DEF CountAppsForID, QueuedApps
      <4>2. CASE a # app[t].id
        <5>1. Committed(a)' = Committed(a)
          BY <1>3, <3>1, <4>2 DEF Committed, CanQueued
        <5>2. QED
          BY <3>3, <4>1, <5>1 DEF OvershootInv, QueueOvershootBound
      <4>3. CASE a = app[t].id
        <5>1. count[t] + CountAppsForID(a) < app[t].max
          <6>1. app[t].hasSla
            BY <3>2, <3>3, <4>3 DEF SlaBound
          <6>2. CanDeployMoreInstances(app[t], count[t], CountAppsForID(a))
            BY <3>1, <4>3 DEF CanDeploy
          <6>3. QED
            BY <6>1, <6>2 DEF CanDeployMoreInstances
        <5>2. app[t].max <= MaxInstances /\ app[t].max \in Nat
          BY <3>2, BoundsAssumption, AppsAssumption DEF Manifests
        <5>3. Committed(a)' \subseteq Clients
          BY DEF Committed, ProductionInv
        <5>4. /\ Cardinality(Committed(a)') <= N
              /\ Cardinality(Committed(a)') \in Nat
          BY <5>3, ThreadsAssumption, FS_Subset, FS_CardinalityType
        <5>5. CountAppsForID(a) \in Nat
          BY CountedSets DEF OvershootInv
        <5>6. QED
          BY <1>1, <3>2, <4>1, <5>1, <5>2, <5>4, <5>5, BoundsAssumption
      <4>4. QED  BY <4>2, <4>3
    <3>4. QED
      BY <3>1, <3>3 DEF OvershootInv, QueueOvershootBound, SlaBound
  <2>3. QED  BY <2>1, <2>2
<1>4. ASSUME NEW t \in Clients, Enqueue(t) PROVE OvershootInv'
  <2> DEFINE item == [n |-> enqueued, app |-> app[t]]
  <2>1. /\ queue' = queue \cup {item}
        /\ pc[t] = "enqueue" /\ pc' = [pc EXCEPT ![t] = "idle"]
        /\ app' = [app EXCEPT ![t] = NilApp]
    BY <1>4 DEF Enqueue, Scheduled, Leave, Goto, ProductionInv
  <2>2. IsFiniteSet(queue')
    BY <2>1, FS_AddElement DEF OvershootInv
  <2>3. ASSUME NEW a \in AppIds, SlaBound(a)
        PROVE  CountAppsForID(a)' + Cardinality(Committed(a)')
                   <= MaxInstances + N - 1
    <3>1. CountAppsForID(a) + Cardinality(Committed(a)) <= MaxInstances + N - 1
      BY <2>3 DEF OvershootInv, QueueOvershootBound
    <3>2. Committed(a)' = Committed(a) \ {t}
      BY <2>1 DEF Committed, Threads
    <3>3. CASE a # app[t].id
      <4>1. QueuedApps(a)' = QueuedApps(a)
        BY <2>1, <3>3 DEF QueuedApps
      <4>2. Committed(a)' = Committed(a)
        BY <3>2, <3>3 DEF Committed
      <4>3. CountAppsForID(a)' = CountAppsForID(a)
        BY <4>1 DEF CountAppsForID
      <4>4. QED
        BY <3>1, <4>2, <4>3
    <3>4. CASE a = app[t].id
      <4>1. QueuedApps(a)' = QueuedApps(a) \cup {item} /\ t \in Committed(a)
        BY <2>1, <3>4 DEF QueuedApps, Committed, Threads
      <4>2. IsFiniteSet(QueuedApps(a)) /\ IsFiniteSet(Committed(a))
        BY CountedSets DEF OvershootInv
      <4>3. ASSUME NEW x
            PROVE  Cardinality(QueuedApps(a) \cup {x}) \in
                     {Cardinality(QueuedApps(a)),
                      Cardinality(QueuedApps(a)) + 1}
        BY <4>2, FS_AddElement
      <4>4. CountAppsForID(a)' \in {CountAppsForID(a), CountAppsForID(a) + 1}
        BY <4>1, <4>3 DEF CountAppsForID
      <4>5. Cardinality(Committed(a)') = Cardinality(Committed(a)) - 1
        <5>1. Cardinality(Committed(a) \ {t}) = Cardinality(Committed(a)) - 1
          BY <4>1, <4>2, FS_RemoveElement
        <5>2. QED  BY <3>2, <5>1
      <4>6. CountAppsForID(a) \in Nat /\ Cardinality(Committed(a)) \in Nat
        BY CountedSets DEF OvershootInv
      <4>7. QED
        BY <1>1, <3>1, <4>4, <4>5, <4>6, BoundsAssumption
    <3>5. QED  BY <3>3, <3>4
  <2>4. QED
    BY <2>2, <2>3 DEF OvershootInv, QueueOvershootBound, SlaBound
<1>5. ASSUME NEW t \in Threads, ThreadStep(t) PROVE OvershootInv'
  <2>1. t \in Clients /\ (CanRunning(t) \/ CanQueued(t) \/ Enqueue(t))
    BY <1>5 DEF ProductionInv, ThreadStep, UpdateStatus, Save, LookupApp,
       NeedsRunning, NeedsQueued, CanRunning, CanQueued, Enqueue,
       UpdateChecks, TaskStopping, KillAppDone, KillTask
  <2>2. CASE CanRunning(t)
    BY <1>2, <2>2 DEF CanRunning, Goto, stores
  <2>3. QED  BY <1>3, <1>4, <2>1, <2>2
<1>6. CASE DriverStep \/ MarkUnhealthy \/ TasksToKill \/ KillAppOfTask
           \/ \E id \in TaskIds : ReceiveFailure(id)
  BY <1>6, ThreadsAssumption
     DEF ProductionInv, Threads, DriverStep, ForgetUnregister, ForgetDelete,
         SaveDeployment, LaunchTasks, MarkUnhealthy, TasksToKill,
         KillAppOfTask, ReceiveFailure
<1>7. CASE DriverInput \/ UNCHANGED vars
  <2>1. UNCHANGED vars
    BY <1>7, ProductionFulfillsNothing
       DEF ProductionInv, DriverInput, StatusUpdate, Reported, Launched,
           StuckUpdate, FulfillOffer, DeclineOffer
  <2>2. QED  BY <1>2, <2>1 DEF vars
<1>8. ASSUME NEW c \in Clients, ClientInput(c) PROVE OvershootInv'
  <2>1. ASSUME NEW a \in AppIds, Deploy(c, a) PROVE OvershootInv'
    BY <1>2, <2>1 DEF Deploy, Goto, stores, Threads
  <2>2. \A name : FindTasksForApp(name) = {}
    BY DEF ProductionInv, FindTasksForApp, Stored
  <2>3. QED
    BY <1>2, <1>8, <2>1, <2>2
       DEF ClientInput, SaveApp, DeleteApp, KillApp, KillComponent,
           KillComponentOnSlave, locals, stores
<1>9. CASE Restart
  BY <1>2, <1>9 DEF Restart
<1>10. QED
  BY <1>5, <1>6, <1>7, <1>8, <1>9 DEF Next

(* For any number of concurrent clients, the check and the Enqueue of      *)
(* scheduleAppForDeployment (192-204) let an application's queue exceed    *)
(* its maximum by less than the number of clients.                         *)
THEOREM OvershootIsBounded == Spec => []QueueOvershootBound
<1> DEFINE I == Monitor = "simple" => OvershootInv
<1>1. Init => TypeInv /\ ProductionInv
  BY DEF Init, TypeInv, TypeOK, LocalsOK, Labels, TaskLife, ProductionInv,
         Threads
<1>2. Init => I
  <2> SUFFICES ASSUME Init PROVE OvershootInv
    OBVIOUS
  <2>1. queue = {} /\ IsFiniteSet(queue)
    BY FS_EmptySet DEF Init
  <2>2. ASSUME NEW a \in AppIds, SlaBound(a)
        PROVE  CountAppsForID(a) + Cardinality(Committed(a))
                   <= MaxInstances + Cardinality(Clients) - 1
    <3>1. QueuedApps(a) = {} /\ Committed(a) = {}
      BY <2>1 DEF QueuedApps, Committed, Init
    <3>2. CountAppsForID(a) = 0 /\ Cardinality(Committed(a)) = 0
      BY <3>1, FS_EmptySet DEF CountAppsForID
    <3>3. Cardinality(Clients) \in Nat /\ Cardinality(Clients) # 0
      BY ThreadsAssumption, FS_EmptySet, FS_CardinalityType
    <3>4. QED  BY <3>2, <3>3, BoundsAssumption
  <2>3. QED  BY <2>1, <2>2 DEF OvershootInv, QueueOvershootBound
<1>3. TypeInv /\ TypeInv' /\ ProductionInv /\ ProductionInv' /\ I
        /\ [Next]_vars => I'
  BY OvershootStep
<1>4. I => QueueOvershootBound
  BY DEF OvershootInv, QueueOvershootBound
<1>5. QED
  BY <1>1, <1>2, <1>3, <1>4, TypeStep, ProductionStep, PTL DEF Spec

=============================================================================
