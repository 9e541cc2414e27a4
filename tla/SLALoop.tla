------------------------------ MODULE SLALoop -------------------------------
(***************************************************************************)
(* The conformance loop of the SLA monitor (health/sla/sla.go): at every   *)
(* tick it goes over the applications, counts the deployments of each in   *)
(* the task store and then its entries in the queue, and after that sends  *)
(* its requests over needsScaling.                                         *)
(*                                                                         *)
(* No lock spans these reads.  The other goroutines are represented by     *)
(* every call they can make on the stores and the queue, at any moment.    *)
(***************************************************************************)
EXTENDS TaskStore, Bags

CONSTANTS
    Apps,       \* the manifests that can be saved
    MaxWrites   \* bound: the calls of the other goroutines

VARIABLES
    apps,       \* the manifests in the application store
    queue,      \* the ScheduledApps in the task queue
    writes,     \* how many calls the others have made
    phase,      \* where the loop is
    left,       \* the applications this round has still to look at
    item,       \* the application it looks at
    found,      \* the deployments of item that Filter has returned so far
    changes,    \* the requests of this round that are not sent yet
    steady,     \* history: what counted for item ever since it is item
    ever        \* history: what counted for item at some time since then

store == <<data, born, due, seen>>
world == <<data, born, apps, queue, writes>>
history == <<steady, ever>>
vars == <<data, born, due, seen, apps, queue, writes, phase, left, item,
          found, changes, steady, ever>>

AppIds == {m.id : m \in Apps}
NoApp == [id |-> "", active |-> FALSE, hasSla |-> FALSE, min |-> 0, max |-> 0]
Phases == {"wait", "apps", "filter", "send"}

ASSUME LoopAssumption ==
    /\ AppIds \subseteq StoredApps
    /\ MaxWrites \in Nat
    /\ Apps \subseteq [id : AppIds, active : BOOLEAN, hasSla : BOOLEAN,
                       min : Nat, max : Nat]

(* One manifest for an id.                                                 *)
OnePerId(S) == \A m, x \in S : m.id = x.id => m = x

(* The application store is persistent: it may hold anything at a start.   *)
Init ==
    /\ StoreInit
    /\ apps \in {S \in SUBSET Apps : OnePerId(S)}
    /\ queue = {}
    /\ writes = 0
    /\ phase = "wait"
    /\ left = {}
    /\ item = NoApp
    /\ found = {}
    /\ changes = {}
    /\ steady = {}
    /\ ever = {}

-----------------------------------------------------------------------------
(* What stands for an application: its deployments that are up, being      *)
(* deployed or unhealthy and, for an active one, what is queued for it.    *)
(* Defined apart from the code's own count, to compare the two.            *)
UpTasks(m) ==
    {<<k, born[k]>> : k \in {k \in Keys :
        /\ data[k].appId = m.id
        /\ data[k].status \in {"STARTED", "DEPLOYING", "UNHEALTHY"}}}

Standing(m) ==
    UpTasks(m) \cup
    {<<"queued", i.n>> : i \in {i \in queue : m.active /\ i.app = m.id}}

-----------------------------------------------------------------------------
(* The other goroutines: the calls of the task manager's handlers and of   *)
(* the REST API.  An item of the queue becomes a deployment in two calls,  *)
(* DequeueFirst and Save, and in between it is counted nowhere.            *)

SaveTask(k, d) ==
    Save(k, d) /\ UNCHANGED <<apps, queue>>

DeleteTask(k) ==
    k \in Keys /\ Delete(k) /\ UNCHANGED <<apps, queue>>

Enqueue(a) ==
    /\ queue' = queue \cup {[n |-> writes, app |-> a]}
    /\ UNCHANGED <<store, apps>>

DequeueFirst(i) ==
    queue' = queue \ {i} /\ UNCHANGED <<store, apps>>

SaveApp(m) ==
    /\ apps' = {x \in apps : x.id # m.id} \cup {m}
    /\ UNCHANGED <<store, queue>>

DeleteApp(m) ==
    apps' = apps \ {m} /\ UNCHANGED <<store, queue>>

Write ==
    \/ \E k \in TaskIds :
          DeleteTask(k) \/ \E d \in Deployments : SaveTask(k, d)
    \/ \E a \in StoredApps : Enqueue(a)
    \/ \E i \in queue : DequeueFirst(i)
    \/ \E m \in Apps : SaveApp(m)
    \/ \E m \in apps : DeleteApp(m)

Others ==
    /\ writes < MaxWrites
    /\ writes' = writes + 1
    /\ Write
    /\ UNCHANGED <<phase, left, item, found, changes>>
    /\ steady' = steady \cap Standing(item)'
    /\ ever' = IF phase = "filter" THEN ever \cup Standing(item)' ELSE ever

-----------------------------------------------------------------------------
(* The loop.                                                               *)

(* The ticker fires; appStore.ForEach reads one snapshot of the store.     *)
Tick ==
    /\ phase = "wait"
    /\ phase' = "apps"
    /\ left' = apps
    /\ UNCHANGED <<store, apps, queue, writes, item, found, changes, history>>

NextApp(m) ==
    /\ phase = "apps"
    /\ m \in left
    /\ phase' = "filter"
    /\ left' = left \ {m}
    /\ item' = m
    /\ found' = {}
    /\ Range
    /\ steady' = Standing(m)
    /\ ever' = Standing(m)
    /\ UNCHANGED <<apps, queue, writes, changes>>

(* taskStore.Filter: the deployments of item, as they are when the range   *)
(* gets to them.                                                           *)
Filter(k) ==
    /\ phase = "filter"
    /\ Produce(k)
    /\ found' = found \cup
          {d \in {[task |-> k, born |-> born[k], status |-> data[k].status]} :
              data[k].appId = item.id}
    /\ UNCHANGED <<apps, queue, writes, phase, left, item, changes, history>>

(* Mutant: a task that is being deployed does not count yet.               *)
CountsOnceStarted(status) == status \in {"STARTED", "UNHEALTHY"}

countsAsRunningForActive(status) ==
    status \in {"STARTED", "DEPLOYING", "UNHEALTHY"}

(* Mutant: a task that has ended is swept up as well.                      *)
StopsTheStopped(status) == status \notin {"ABSENT", "STOPPING", "DISABLING"}

shouldStopForInactive(status) ==
    status \notin {"ABSENT", "FAILED", "STOPPED", "STOPPING", "DISABLING"}

(* CountsForApps, under the queue's lock, looked up for item.              *)
QueuedCount(m) == Cardinality({i \in queue : i.app = m.id})

(* tasks is a list whose order does not matter: a bag.                     *)
Request(m, count, tasks) == [app |-> m, count |-> count, tasks |-> tasks]

(* The request changeDeployCount makes for application m, if any.          *)
ChangeFor(m, total, sweep) ==
    CASE ~m.active ->
            {Request(m, -BagCardinality(sweep), sweep)}
      [] m.active /\ m.hasSla /\ total < m.min ->
            {Request(m, m.min - total, EmptyBag)}
      [] m.active /\ m.hasSla /\ total >= m.min /\ total > m.max ->
            {Request(m, m.max - total, EmptyBag)}
      [] OTHER -> {}

Total ==
    Cardinality({d \in found : countsAsRunningForActive(d.status)})
        + QueuedCount(item)

(* A task that the range produces twice is listed twice.                   *)
ToKill ==
    LET listed == {d \in found : shouldStopForInactive(d.status)}
    IN  [k \in {d.task : d \in listed} |->
            Cardinality({d \in listed : d.task = k})]

changeDeployCount ==
    /\ phase = "filter"
    /\ RangeDone
    /\ changes' = changes \cup ChangeFor(item, Total, ToKill)
    /\ phase' = "apps"
    /\ item' = NoApp
    /\ found' = {}
    /\ steady' = {}
    /\ ever' = {}
    /\ UNCHANGED <<store, apps, queue, writes, left>>

ForEachDone ==
    /\ phase = "apps"
    /\ left = {}
    /\ phase' = "send"
    /\ UNCHANGED <<store, apps, queue, writes, left, item, found, changes,
                   history>>

(* Mutant: the round ends with requests that were not received.            *)
RoundDropsRequests ==
    /\ phase = "send"
    /\ changes' = {}
    /\ phase' = "wait"
    /\ UNCHANGED <<store, apps, queue, writes, left, item, found, history>>

(* needsScaling is not buffered; the health loop of the task manager       *)
(* receives, and drops what it receives.                                   *)
Send(r) ==
    /\ phase = "send"
    /\ r \in changes
    /\ changes' = changes \ {r}
    /\ UNCHANGED <<store, apps, queue, writes, phase, left, item, found,
                   history>>

RoundDone ==
    /\ phase = "send"
    /\ changes = {}
    /\ phase' = "wait"
    /\ UNCHANGED <<store, apps, queue, writes, left, item, found, changes,
                   history>>

Loop ==
    \/ Tick
    \/ \E m \in left : NextApp(m)
    \/ \E k \in TaskIds : Filter(k)
    \/ changeDeployCount
    \/ ForEachDone
    \/ \E r \in changes : Send(r)
    \/ RoundDone

Next == Others \/ Loop

(* The ticker keeps ticking, the goroutine of the loop runs when it can,   *)
(* and the health loop keeps receiving (HealthLoopReturns).                *)
Fairness == WF_vars(Loop)

Spec == Init /\ [][Next]_vars
FairSpec == Spec /\ Fairness

-----------------------------------------------------------------------------
TypeOK ==
    /\ StoreTypeOK
    /\ apps \subseteq Apps /\ OnePerId(apps)
    /\ queue \subseteq [n : Nat, app : StoredApps]
    /\ writes \in Nat
    /\ phase \in Phases
    /\ left \subseteq Apps
    /\ item \in Apps \cup {NoApp}
    /\ found \subseteq [task : TaskIds, born : Nat, status : StoredStatuses]
    /\ \A r \in changes :
          /\ r.app \in Apps /\ r.count \in Int
          /\ IsABag(r.tasks) /\ BagToSet(r.tasks) \subseteq TaskIds

(* What changeDeployCount (109-160) has counted for an application is the  *)
(* number of no single moment, but it is never less than what stood for    *)
(* the application all the time, nor more than what stood for it at some   *)
(* time: a request to scale up never asks for more than is missing from    *)
(* what stood throughout, one to scale down never for more than there was  *)
(* in all, and no request means that the one was not above the maximum and *)
(* the other not below the minimum.                                        *)
CountsWithinRound ==
    [][changeDeployCount /\ item.active /\ item.hasSla /\ item.min <= item.max
         => LET asked == {r.count : r \in ChangeFor(item, Total, ToKill)}
                low == Cardinality(steady)
                high == Cardinality(ever)
            IN  /\ \A c \in asked : c > 0 => low + c <= item.min
                /\ \A c \in asked : c < 0 => high + c >= item.max
                /\ high < item.min => \E c \in asked : high + c >= item.min
                /\ low > item.max => \E c \in asked : low + c <= item.max]_vars

(* The sweep of a disabled application (146-158) lists a task once for     *)
(* every entry of it that was up throughout, and at most once for every    *)
(* entry that was up at some time: all that stay up are listed, none that  *)
(* never was, and one that is deleted and saved again during the range can *)
(* be listed twice.  Count has the same bounds.                            *)
SweepWithinRound ==
    [][changeDeployCount /\ item # NoApp /\ ~item.active
         => \E r \in changes' :
               /\ r.app = item
               /\ -r.count \in Cardinality(steady)..Cardinality(ever)
               /\ \A k \in TaskIds :
                     CopiesIn(k, r.tasks) \in
                        Cardinality({i \in steady : i[1] = k})
                            ..Cardinality({i \in ever : i[1] = k})]_vars

(* How far application m is from its SLA.                                  *)
Gap(m) ==
    LET standing == Cardinality(Standing(m))
    IN  CASE standing < m.min -> m.min - standing
          [] standing >= m.min /\ standing > m.max -> m.max - standing
          [] OTHER -> 0

(* ScaleUpOrDown (202-204): "Whenever a deployment needs to be changed     *)
(* because of a SLA rule this channel will receive a ChangeDeployCount     *)
(* message": an application that stays short of its minimum, or above its  *)
(* maximum, is asked for again and again, with the right count.            *)
GapIsRequested ==
    \A m \in {m \in Apps : m.active /\ m.hasSla} :
        \A n \in -2..2 \ {0} :
            <>[](m \in apps /\ Gap(m) = n)
                => []<><<Send(Request(m, n, EmptyBag))>>_vars

=============================================================================
