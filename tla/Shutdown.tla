------------------------------ MODULE Shutdown ------------------------------
(***************************************************************************)
(* How the server stops (agora/main.go, trapExit): Stop of the task        *)
(* manager, of the health checker and its pool, of the SLA monitor, and    *)
(* the goroutines that are still running meanwhile.  A send on a channel   *)
(* that is closed panics.                                                  *)
(*                                                                         *)
(* The checks are those of HealthChecker, counted instead of told apart.   *)
(***************************************************************************)
EXTENDS Integers

CONSTANTS
    Checks,         \* how many health checks are registered
    PoolSize,       \* Config.FrameworkInfo.HealthCheckConcurrency
    MaxChanges      \* how many requests one round of the SLA loop can make

ASSUME ShutdownAssumption ==
    Checks \in Nat /\ MaxChanges \in Nat /\ PoolSize \in Nat \ {0}

VARIABLES
    main,       \* the goroutine of trapExit, in DefaultTaskManager.Stop
    loop,       \* listenForHealthFailures
    killer,     \* listenForTasksToKill
    monitor,    \* the goroutine of simpleSLAMonitor
    changes,    \* the requests it still has to send
    pool,       \* the goroutine of workerPool; it holds an update in "forward"
    dequeuer,   \* dequeueLoop; it holds a check in "send"
    dispatcher, \* dispatchResultsLoop
    queued, work, checking, updates, results,   \* how many checks are there
    closed,     \* the channels that have been closed
    panicked    \* the closed channel that was sent on, or "no"

control == <<main, loop, killer>>
slaVars == <<monitor, changes>>
circle == <<pool, dequeuer, dispatcher, queued, work, checking, updates,
            results>>
vars == <<control, slaVars, circle, closed, panicked>>

Channels == {"tasksToKill", "work", "updates", "failures", "results"}

TypeOK ==
    /\ main \in {"serving", "closing", "await", "close", "framework",
                 "stores", "exited"}
    /\ loop \in {"select", "notify", "stopPool", "awaitPool",
                 "closeFailures", "closeResults", "stopSla", "awaitSla",
                 "reply", "done"}
    /\ killer \in {"receive", "kill", "done"}
    /\ monitor \in {"wait", "send", "reply", "done"}
    /\ changes \in 0..MaxChanges
    /\ pool \in {"select", "forward", "closing", "reply", "closeWork", "done"}
    /\ dequeuer \in {"look", "send"}
    /\ dispatcher \in {"receive", "fail", "done"}
    /\ queued \in 0..Checks
    /\ checking \in 0..Checks
    /\ work \in 0..PoolSize
    /\ updates \in 0..PoolSize
    /\ results \in 0..PoolSize
    /\ closed \subseteq Channels
    /\ panicked \in Channels \cup {"no"}

(* Everything has been started, and the checks are queued.                 *)
Init ==
    /\ main = "serving"
    /\ loop = "select"
    /\ killer = "receive"
    /\ monitor = "wait"
    /\ changes = 0
    /\ pool = "select"
    /\ dequeuer = "look"
    /\ dispatcher = "receive"
    /\ queued = Checks
    /\ work = 0 /\ checking = 0 /\ updates = 0 /\ results = 0
    /\ closed = {}
    /\ panicked = "no"

-----------------------------------------------------------------------------
(* The goroutine of trapExit: task manager, framework, stores, exit.       *)

(* Mutant: Stop closes what it owns before it stops the loop.              *)
InterruptCloses ==
    /\ main = "serving"
    /\ main' = "close"
    /\ UNCHANGED <<loop, killer, slaVars, circle, closed, panicked>>

Interrupt ==
    /\ main = "serving"
    /\ main' = "closing"
    /\ UNCHANGED <<loop, killer, slaVars, circle, closed, panicked>>

(* closing is not buffered: the loop has to be at its select.              *)
ReceiveClosing ==
    /\ main = "closing" /\ loop = "select"
    /\ main' = "await" /\ loop' = "stopPool"
    /\ UNCHANGED <<killer, slaVars, circle, closed, panicked>>

Reply ==
    /\ main = "await" /\ loop = "reply"
    /\ main' = "close" /\ loop' = "done"
    /\ UNCHANGED <<killer, slaVars, circle, closed, panicked>>

CloseTasksToKill ==
    /\ main = "close"
    /\ main' = "framework"
    /\ closed' = closed \cup {"tasksToKill"}
    /\ UNCHANGED <<loop, killer, slaVars, circle, panicked>>

StopFramework ==
    /\ main = "framework"
    /\ main' = "stores"
    /\ UNCHANGED <<loop, killer, slaVars, circle, closed, panicked>>

StopStores ==
    /\ main = "stores"
    /\ main' = "exited"
    /\ UNCHANGED <<loop, killer, slaVars, circle, closed, panicked>>

-----------------------------------------------------------------------------
(* listenForHealthFailures and listenForTasksToKill.                       *)

(* The failure of a task with a deployment goes on to the kill loop.       *)
ReceiveFailure ==
    /\ loop = "select" /\ dispatcher = "fail"
    /\ dispatcher' = "receive"
    /\ loop' \in {"select", "notify"}
    /\ UNCHANGED <<main, killer, slaVars, pool, dequeuer, queued, work,
                   checking, updates, results, closed, panicked>>

(* A request of the SLA monitor is received, and nothing done with it.     *)
ReceiveScaling ==
    /\ loop = "select" /\ monitor = "send"
    /\ changes' = changes - 1
    /\ monitor' = IF changes = 1 THEN "wait" ELSE "send"
    /\ UNCHANGED <<control, circle, closed, panicked>>

Notify ==
    /\ loop = "notify"
    /\ \/ /\ "tasksToKill" \in closed
          /\ panicked' = "tasksToKill"
          /\ UNCHANGED <<loop, killer>>
       \/ /\ "tasksToKill" \notin closed /\ killer = "receive"
          /\ loop' = "select" /\ killer' = "kill"
          /\ UNCHANGED panicked
    /\ UNCHANGED <<main, slaVars, circle, closed>>

KillApp ==
    /\ killer = "kill"
    /\ killer' = "receive"
    /\ UNCHANGED <<main, loop, slaVars, circle, closed, panicked>>

KillLoopEnds ==
    /\ killer = "receive" /\ "tasksToKill" \in closed
    /\ killer' = "done"
    /\ UNCHANGED <<main, loop, slaVars, circle, closed, panicked>>

(* HealthChecker.Stop: the pool first, the channels after it ...           *)
StopPool ==
    /\ loop = "stopPool" /\ pool = "select"
    /\ loop' = "awaitPool" /\ pool' = "closing"
    /\ UNCHANGED <<main, killer, slaVars, dequeuer, dispatcher, queued, work,
                   checking, updates, results, closed, panicked>>

CloseFailures ==
    /\ loop = "closeFailures"
    /\ loop' = "closeResults"
    /\ closed' = closed \cup {"failures"}
    /\ UNCHANGED <<main, killer, slaVars, circle, panicked>>

(* Mutant: the loop answers without stopping the SLA monitor.              *)
CloseResultsLast ==
    /\ loop = "closeResults"
    /\ loop' = "reply"
    /\ closed' = closed \cup {"results"}
    /\ UNCHANGED <<main, killer, slaVars, circle, panicked>>

CloseResults ==
    /\ loop = "closeResults"
    /\ loop' = "stopSla"
    /\ closed' = closed \cup {"results"}
    /\ UNCHANGED <<main, killer, slaVars, circle, panicked>>

(* ... then the monitor, whose goroutine has to be at its select.          *)
StopSla ==
    /\ loop = "stopSla" /\ monitor = "wait"
    /\ loop' = "awaitSla" /\ monitor' = "reply"
    /\ UNCHANGED <<main, killer, changes, circle, closed, panicked>>

ReplySla ==
    /\ loop = "awaitSla" /\ monitor = "reply"
    /\ loop' = "reply" /\ monitor' = "done"
    /\ UNCHANGED <<main, killer, changes, circle, closed, panicked>>

(* checkSLAConformance, once a minute: some requests, or none.             *)
CheckSLAConformance(n) ==
    /\ monitor = "wait"
    /\ changes' = n
    /\ monitor' = IF n = 0 THEN "wait" ELSE "send"
    /\ UNCHANGED <<control, circle, closed, panicked>>

-----------------------------------------------------------------------------
(* The pool's goroutine and the workers.                                   *)

(* closed <- nil comes between the two channels.                           *)
CloseUpdates ==
    /\ pool = "closing"
    /\ pool' = "reply"
    /\ closed' = closed \cup {"updates"}
    /\ UNCHANGED <<control, slaVars, dequeuer, dispatcher, queued, work,
                   checking, updates, results, panicked>>

(* Mutant: the pool closes its channels without an answer.                 *)
ReplyPoolForgotten ==
    /\ pool = "reply" /\ loop = "awaitPool"
    /\ pool' = "closeWork"
    /\ UNCHANGED <<control, slaVars, dequeuer, dispatcher, queued, work,
                   checking, updates, results, closed, panicked>>

ReplyPool ==
    /\ pool = "reply" /\ loop = "awaitPool"
    /\ pool' = "closeWork" /\ loop' = "closeFailures"
    /\ UNCHANGED <<main, killer, slaVars, dequeuer, dispatcher, queued, work,
                   checking, updates, results, closed, panicked>>

CloseWork ==
    /\ pool = "closeWork"
    /\ pool' = "done"
    /\ closed' = closed \cup {"work"}
    /\ UNCHANGED <<control, slaVars, dequeuer, dispatcher, queued, work,
                   checking, updates, results, panicked>>

ReceiveWork ==
    /\ pool = "select" /\ work > 0
    /\ work' = work - 1
    /\ checking' = checking + 1
    /\ UNCHANGED <<control, slaVars, pool, dequeuer, dispatcher, queued,
                   updates, results, closed, panicked>>

(* A worker's check ends, because it is cancelled or for another reason.   *)
Check ==
    /\ checking > 0
    /\ \/ /\ "updates" \in closed
          /\ panicked' = "updates"
          /\ UNCHANGED <<checking, updates>>
       \/ /\ "updates" \notin closed /\ updates < PoolSize
          /\ checking' = checking - 1 /\ updates' = updates + 1
          /\ UNCHANGED panicked
    /\ UNCHANGED <<control, slaVars, pool, dequeuer, dispatcher, queued, work,
                   results, closed>>

ReceiveUpdate ==
    /\ pool = "select" /\ updates > 0
    /\ updates' = updates - 1
    /\ pool' = "forward"
    /\ UNCHANGED <<control, slaVars, dequeuer, dispatcher, queued, work,
                   checking, results, closed, panicked>>

(* Mutant: a result that finds the channel full is dropped.                *)
ForwardDrops ==
    /\ pool = "forward" /\ "results" \notin closed
    /\ results' = IF results < PoolSize THEN results + 1 ELSE results
    /\ pool' = "select"
    /\ UNCHANGED <<control, slaVars, dequeuer, dispatcher, queued, work,
                   checking, updates, closed, panicked>>

Forward ==
    /\ pool = "forward"
    /\ \/ /\ "results" \in closed
          /\ panicked' = "results"
          /\ UNCHANGED <<pool, results>>
       \/ /\ "results" \notin closed /\ results < PoolSize
          /\ results' = results + 1 /\ pool' = "select"
          /\ UNCHANGED panicked
    /\ UNCHANGED <<control, slaVars, dequeuer, dispatcher, queued, work,
                   checking, updates, closed>>

-----------------------------------------------------------------------------
(* dequeueLoop and dispatchResultsLoop.                                    *)

(* A check has expired.                                                    *)
Dequeue ==
    /\ dequeuer = "look" /\ queued > 0
    /\ queued' = queued - 1
    /\ dequeuer' = "send"
    /\ UNCHANGED <<control, slaVars, pool, dispatcher, work, checking, updates,
                   results, closed, panicked>>

SendWork ==
    /\ dequeuer = "send"
    /\ \/ /\ "work" \in closed
          /\ panicked' = "work"
          /\ UNCHANGED <<dequeuer, work>>
       \/ /\ "work" \notin closed /\ work < PoolSize
          /\ work' = work + 1 /\ dequeuer' = "look"
          /\ UNCHANGED panicked
    /\ UNCHANGED <<control, slaVars, pool, dispatcher, queued, checking,
                   updates, results, closed>>

ReceiveResult ==
    /\ dispatcher = "receive" /\ results > 0
    /\ results' = results - 1
    /\ queued' = queued + 1
    /\ dispatcher' \in {"receive", "fail"}
    /\ UNCHANGED <<control, slaVars, pool, dequeuer, work, checking, updates,
                   closed, panicked>>

FailOnClosed ==
    /\ dispatcher = "fail" /\ "failures" \in closed
    /\ panicked' = "failures"
    /\ UNCHANGED <<control, slaVars, circle, closed>>

DispatcherEnds ==
    /\ dispatcher = "receive" /\ results = 0 /\ "results" \in closed
    /\ dispatcher' = "done"
    /\ UNCHANGED <<control, slaVars, pool, dequeuer, queued, work, checking,
                   updates, results, closed, panicked>>

-----------------------------------------------------------------------------
MainStep == CloseTasksToKill \/ StopFramework \/ StopStores
LoopStep ==
    \/ Notify \/ CloseFailures \/ CloseResults
    \/ StopSla \/ ReplySla \/ ReplyPool \/ Reply
KillerStep == KillApp \/ KillLoopEnds
PoolStep == CloseUpdates \/ CloseWork \/ Forward
CheckerStep ==
    Check \/ Dequeue \/ SendWork \/ ReceiveResult \/ FailOnClosed
        \/ DispatcherEnds

Step ==
    \/ Interrupt \/ ReceiveClosing \/ MainStep
    \/ ReceiveFailure \/ ReceiveScaling \/ LoopStep \/ KillerStep
    \/ \E n \in 0..MaxChanges : CheckSLAConformance(n)
    \/ StopPool \/ ReceiveWork \/ ReceiveUpdate \/ PoolStep \/ CheckerStep

(* A panic, like os.Exit, ends the process.                                *)
Next == panicked = "no" /\ main # "exited" /\ Step

(* Goroutines that can run do, and select picks among its ready cases at   *)
(* random.  Nothing makes the server stop, or the SLA be violated.         *)
Fairness ==
    /\ WF_vars(MainStep) /\ WF_vars(LoopStep) /\ WF_vars(KillerStep)
    /\ WF_vars(PoolStep) /\ WF_vars(CheckerStep)
    /\ SF_vars(ReceiveClosing) /\ SF_vars(StopPool)

Spec == Init /\ [][Next]_vars
FairSpec == Spec /\ Fairness

-----------------------------------------------------------------------------
(* The order of Stop protects two channels: tasksToKill is closed after    *)
(* the only loop that sends on it has answered, and results after the pool *)
(* has.                                                                    *)
ProtectedChannels == panicked \notin {"tasksToKill", "results"}

(* When Stop closes the stores, and main the framework, the task manager's *)
(* loop and the SLA monitor's, which read them, have ended.  The kill loop *)
(* and the handlers of HTTP requests are not waited for.                   *)
StoresOutliveLoops ==
    main \in {"close", "framework", "stores", "exited"}
        => loop = "done" /\ monitor = "done"

(* The two ways in which Stop gets stuck: the monitor sends a request to   *)
(* the loop that waits for the monitor; the pool forwards a result to a    *)
(* dispatcher that reports a failure to the loop that waits for the pool.  *)
SlaStuck == loop = "stopSla" /\ monitor = "send"
PoolStuck ==
    /\ loop = "stopPool" /\ dispatcher = "fail"
    /\ pool = "forward" /\ results = PoolSize

(* There is no third way: otherwise the server exits, or a send on one of  *)
(* the channels that are closed too early panics.                          *)
StopsOrSticks ==
    main = "closing" ~>
        main = "exited" \/ panicked # "no" \/ SlaStuck \/ PoolStuck

(* Neither resolves itself: Stop does not return, and what a comment says  *)
(* ("Stop stops this task manager, cleaning up any resources it might have *)
(* required and owns") does not happen.                                    *)
StaysStuck ==
    [][(SlaStuck => SlaStuck') /\ (PoolStuck => PoolStuck')]_vars

=============================================================================
