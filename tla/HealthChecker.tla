--------------------------- MODULE HealthChecker ---------------------------
(***************************************************************************)
(* The health checker (health/checker.go, health/queue.go): the register,  *)
(* the queue of checks by expiry, the loop that dequeues them, the pool    *)
(* that runs each in a goroutine of its own, and the loop that dispatches  *)
(* the results, puts the check back in the queue and reports failures to   *)
(* the task manager.                                                       *)
(*                                                                         *)
(* A check is a pointer that travels round this circle, so the state says  *)
(* who holds it.  Time is abstracted to the order in which checks expire.  *)
(***************************************************************************)
EXTENDS Integers, FiniteSets, Sequences

CONSTANTS
    Tasks,          \* the ids of the tasks with a health check
    PoolSize,       \* Config.FrameworkInfo.HealthCheckConcurrency
    MaxChecks       \* bound: how often Register makes a check for one task

ASSUME PoolAssumption == PoolSize \in Nat \ {0}
ASSUME ChecksAssumption == MaxChecks \in Nat

(* The goroutines that call Register and Unregister: the mesos driver's    *)
(* and the one that listens for failures.  The kill loop would, but finds  *)
(* no task to stop (UnhealthyKeepsRunning of TaskManager).                 *)
Callers == {"driver", "health"}

Checks == Tasks \X (1..MaxChecks)
GetID(i) == i[1]

(* The nil pointer: it is no check.                                        *)
None == <<"none", 0>>

Codes == {"HEALTHY", "DOWN"}
Outcomes == [item : Checks, code : Codes]
NoOutcome == [item |-> None, code |-> None]

VARIABLES
    register,   \* HealthChecker.register: task -> its check or None
    made,       \* task -> how many checks Register has made for it
    waiting,    \* queue: the checks that have not expired
    due,        \* queue: the expired ones, the first to expire first
    call,       \* caller -> the next step of its call
    arg,        \* caller -> the task its call is about
    dequeuer,   \* dequeueLoop: "look", "pop", "send" or "sleep"
    hand,       \* dequeueLoop: the check it sends to the pool
    work,       \* workerPool.work, buffered
    pool,       \* the pool's goroutine: "select", "forward" or "panicked"
    pending,    \* the pool's slice of checks in progress
    slot,       \* waitForSlot: "nil", "open", "awaited" (a sender blocks)
    checking,   \* the checks a worker runs
    updates,    \* workerPool.updates, buffered
    held,       \* the update the pool forwards
    results,    \* HealthChecker.results, buffered
    dispatcher, \* dispatchResultsLoop: "receive", "push" or "fail"
    outcome     \* dispatchResultsLoop: the result it handles

queueVars == <<waiting, due>>
callVars == <<register, made, call, arg>>
dequeueVars == <<dequeuer, hand>>
poolVars == <<pool, pending, slot, held>>
poolSide == <<work, poolVars, checking, updates, results>>
dispatchVars == <<dispatcher, outcome>>
vars == <<register, made, waiting, due, call, arg, dequeuer, hand, work, pool,
          pending, slot, checking, updates, held, results,
          dispatcher, outcome>>

Elements(s) == {s[k] : k \in DOMAIN s}
ItemsOf(s) == {s[k].item : k \in DOMAIN s}

TypeOK ==
    /\ register \in [Tasks -> Checks \cup {None}]
    /\ made \in [Tasks -> 0..MaxChecks]
    /\ waiting \subseteq Checks
    /\ due \in Seq(Checks)
    /\ call \in [Callers -> {"idle", "push", "remove", "handle"}]
    /\ arg \in [Callers -> Tasks \cup {None}]
    /\ dequeuer \in {"look", "pop", "send", "sleep"}
    /\ hand \in Checks \cup {None}
    /\ work \in Seq(Checks) /\ Len(work) <= PoolSize
    /\ pool \in {"select", "forward", "panicked"}
    /\ pending \in Seq(Checks)
    /\ slot \in {"nil", "open", "awaited"}
    /\ checking \subseteq Checks
    /\ updates \in Seq(Outcomes) /\ Len(updates) <= PoolSize
    /\ held \in Outcomes \cup {NoOutcome}
    /\ results \in Seq(Outcomes) /\ Len(results) <= PoolSize
    /\ dispatcher \in {"receive", "push", "fail"}
    /\ outcome \in Outcomes \cup {NoOutcome}

Init ==
    /\ register = [t \in Tasks |-> None]
    /\ made = [t \in Tasks |-> 0]
    /\ waiting = {}
    /\ due = <<>>
    /\ call = [c \in Callers |-> "idle"]
    /\ arg = [c \in Callers |-> None]
    /\ dequeuer = "look"
    /\ hand = None
    /\ work = <<>>
    /\ pool = "select"
    /\ pending = <<>>
    /\ slot = "nil"
    /\ checking = {}
    /\ updates = <<>>
    /\ held = NoOutcome
    /\ results = <<>>
    /\ dispatcher = "receive"
    /\ outcome = NoOutcome

-----------------------------------------------------------------------------
(* Register and Unregister: the register is a plain map, the queue has its *)
(* own lock, so each is two steps.                                         *)

Return(c) ==
    /\ call' = [call EXCEPT ![c] = "idle"]
    /\ arg' = [arg EXCEPT ![c] = None]

Calls(c, step, t) ==
    /\ call' = [call EXCEPT ![c] = step]
    /\ arg' = [arg EXCEPT ![c] = t]

(* Only the driver's callback for TASK_RUNNING registers.                  *)
Register(t) ==
    /\ call["driver"] = "idle"
    /\ register[t] = None
    /\ made[t] < MaxChecks
    /\ made' = [made EXCEPT ![t] = @ + 1]
    /\ register' = [register EXCEPT ![t] = <<t, made[t] + 1>>]
    /\ Calls("driver", "push", t)
    /\ UNCHANGED <<queueVars, dequeueVars, poolSide, dispatchVars>>

RegisterPush ==
    /\ call["driver"] = "push"
    /\ waiting' = waiting \cup {<<arg["driver"], made[arg["driver"]]>>}
    /\ Return("driver")
    /\ UNCHANGED <<register, made, due, dequeueVars, poolSide, dispatchVars>>

(* A task that is registered only gets the new configuration.              *)
RegisterAgain(t) ==
    /\ call["driver"] = "idle"
    /\ register[t] # None
    /\ UNCHANGED vars

Unregister(c, t) ==
    /\ \/ c = "driver" /\ call[c] = "idle"
       \/ c = "health" /\ call[c] = "handle" /\ arg[c] = t
    /\ register' = [register EXCEPT ![t] = None]
    /\ Calls(c, "remove", t)
    /\ UNCHANGED <<made, queueVars, dequeueVars, poolSide, dispatchVars>>

(* healthCheckQueue.Remove: a check of the task, if the queue has one.     *)
Remove(c) ==
    /\ call[c] = "remove"
    /\ \/ /\ \A i \in waiting \cup Elements(due) : GetID(i) # arg[c]
          /\ UNCHANGED queueVars
       \/ \E i \in waiting :
             /\ GetID(i) = arg[c]
             /\ waiting' = waiting \ {i}
             /\ UNCHANGED due
       \/ \E k \in DOMAIN due :
             /\ GetID(due[k]) = arg[c]
             /\ due' = SubSeq(due, 1, k - 1) \o SubSeq(due, k + 1, Len(due))
             /\ UNCHANGED waiting
    /\ Return(c)
    /\ UNCHANGED <<register, made, dequeueVars, poolSide, dispatchVars>>

-----------------------------------------------------------------------------
(* healthCheckQueue and dequeueLoop.                                       *)

(* Time passes and a check expires: ExpiresAt is no longer after now, what *)
(* Pop asks (queue.go 92-95).  Which of those that wait is next is left    *)
(* open; it goes behind the ones that expired before it.                   *)
Expire(i) ==
    /\ i \in waiting
    /\ waiting' = waiting \ {i}
    /\ due' = Append(due, i)
    /\ UNCHANGED <<callVars, dequeueVars, poolSide, dispatchVars>>

LookAtQueue ==
    /\ dequeuer = "look"
    /\ dequeuer' = IF waiting = {} /\ due = <<>> THEN "sleep" ELSE "pop"
    /\ UNCHANGED <<callVars, queueVars, hand, poolSide, dispatchVars>>

(* Mutant: Pop does not expect an empty queue.                             *)
PopQueueUnguarded ==
    /\ dequeuer = "pop"
    /\ IF due = <<>> /\ waiting # {}
       THEN dequeuer' = "sleep" /\ UNCHANGED <<hand, due>>
       ELSE /\ dequeuer' = "send"
            /\ hand' = IF due = <<>> THEN None ELSE Head(due)
            /\ due' = IF due = <<>> THEN due ELSE Tail(due)
    /\ UNCHANGED <<callVars, waiting, poolSide, dispatchVars>>

(* Mutant: Pop looks at the first check and leaves it in the queue.        *)
PopQueuePeeks ==
    /\ dequeuer = "pop"
    /\ IF due = <<>>
       THEN dequeuer' = "sleep" /\ UNCHANGED hand
       ELSE dequeuer' = "send" /\ hand' = Head(due)
    /\ UNCHANGED <<callVars, queueVars, poolSide, dispatchVars>>

(* Mutant: Less compares the wrong way, the last to expire comes first.    *)
PopQueueNewest ==
    /\ dequeuer = "pop"
    /\ IF due = <<>>
       THEN dequeuer' = "sleep" /\ UNCHANGED <<hand, due>>
       ELSE /\ dequeuer' = "send"
            /\ hand' = due[Len(due)]
            /\ due' = SubSeq(due, 1, Len(due) - 1)
    /\ UNCHANGED <<callVars, waiting, poolSide, dispatchVars>>

(* Pop takes the first check when it has expired.  The queue can be empty  *)
(* by now: Remove can come between Len and Pop.                            *)
PopQueue ==
    /\ dequeuer = "pop"
    /\ IF due = <<>>
       THEN dequeuer' = "sleep" /\ UNCHANGED <<hand, due>>
       ELSE /\ dequeuer' = "send"
            /\ hand' = Head(due)
            /\ due' = Tail(due)
    /\ UNCHANGED <<callVars, waiting, poolSide, dispatchVars>>

Wake ==
    /\ dequeuer = "sleep"
    /\ dequeuer' = "look"
    /\ UNCHANGED <<callVars, queueVars, hand, poolSide, dispatchVars>>

SendWork ==
    /\ dequeuer = "send"
    /\ Len(work) < PoolSize
    /\ work' = Append(work, hand)
    /\ hand' = None
    /\ dequeuer' = "look"
    /\ UNCHANGED <<callVars, queueVars, poolVars, checking, updates, results,
                   dispatchVars>>

-----------------------------------------------------------------------------
(* workerPool.                                                             *)

(* A worker is started for every check that arrives: waitForSlot does not  *)
(* hold the next one back.  A new channel forgets who sends on the old.    *)
ReceiveWork ==
    /\ pool = "select"
    /\ work # <<>>
    /\ work' = Tail(work)
    /\ pending' = Append(pending, Head(work))
    /\ slot' = IF Len(pending') = PoolSize THEN "open" ELSE slot
    /\ checking' = checking \cup {Head(work)}
    /\ UNCHANGED <<callVars, queueVars, dequeueVars, pool, updates, held,
                   results, dispatchVars>>

(* A worker's check ends, it sends the update, and then, when waitForSlot  *)
(* is not nil, sends on that.  Nothing but SlotFree depends on when.       *)
Check(i, code) ==
    /\ i \in checking
    /\ Len(updates) < PoolSize
    /\ checking' = checking \ {i}
    /\ updates' = Append(updates, [item |-> i, code |-> code])
    /\ slot' = IF slot = "nil" THEN "nil" ELSE "awaited"
    /\ UNCHANGED <<callVars, queueVars, dequeueVars, work, pool, pending, held,
                   results, dispatchVars>>

(* The pool receives from one worker; any other that sends blocks forever. *)
SlotFree ==
    /\ pool = "select"
    /\ slot = "awaited"
    /\ slot' = "nil"
    /\ UNCHANGED <<callVars, queueVars, dequeueVars, work, pool, pending,
                   checking, updates, held, results, dispatchVars>>

ReceiveUpdate ==
    /\ pool = "select"
    /\ updates # <<>>
    /\ held' = Head(updates)
    /\ updates' = Tail(updates)
    /\ pool' = "forward"
    /\ UNCHANGED <<callVars, queueVars, dequeueVars, work, pending, slot,
                   checking, results, dispatchVars>>

(* Mutant: the shortened slice is not assigned back to pending.            *)
RemovedNothing(s, id) == [array |-> s, len |-> Len(s), ok |-> TRUE]

(* The loop that removes the checks with this id from pending.  It ranges  *)
(* over the slice as it was, whose array the removals shift; slicing past  *)
(* the end of the shortened slice panics.                                  *)
Removed(s, id) ==
    LET sweep[k \in 0..Len(s)] ==
          IF k = 0 THEN [array |-> s, len |-> Len(s), ok |-> TRUE]
          ELSE LET r == sweep[k - 1] IN
               IF ~r.ok \/ GetID(r.array[k]) # id THEN r
               ELSE IF k > r.len THEN [r EXCEPT !.ok = FALSE]
               ELSE [array |-> [j \in 1..Len(s) |->
                                  IF j >= k /\ j < r.len THEN r.array[j + 1]
                                  ELSE r.array[j]],
                     len |-> r.len - 1,
                     ok |-> TRUE]
    IN sweep[Len(s)]

Forward ==
    /\ pool = "forward"
    /\ Len(results) < PoolSize
    /\ results' = Append(results, held)
    /\ held' = NoOutcome
    /\ LET r == Removed(pending, GetID(held.item)) IN
       /\ pending' = SubSeq(r.array, 1, r.len)
       /\ pool' = IF r.ok THEN "select" ELSE "panicked"
    /\ UNCHANGED <<callVars, queueVars, dequeueVars, work, slot, checking,
                   updates, dispatchVars>>

-----------------------------------------------------------------------------
(* dispatchResultsLoop, and what the task manager does with a failure.     *)

ReceiveResult ==
    /\ dispatcher = "receive"
    /\ results # <<>>
    /\ outcome' = Head(results)
    /\ results' = Tail(results)
    /\ dispatcher' = "push"
    /\ UNCHANGED <<callVars, queueVars, dequeueVars, work, poolVars, checking,
                   updates>>

(* Mutant: only a healthy check goes back to the queue.                    *)
PushResultHealthy ==
    /\ dispatcher = "push"
    /\ IF outcome.code = "HEALTHY"
       THEN /\ waiting' = waiting \cup {outcome.item}
            /\ dispatcher' = "receive" /\ outcome' = NoOutcome
       ELSE dispatcher' = "fail" /\ UNCHANGED <<waiting, outcome>>
    /\ UNCHANGED <<callVars, due, dequeueVars, poolSide>>

(* The check gets its next expiry and goes back to the queue.              *)
PushResult ==
    /\ dispatcher = "push"
    /\ waiting' = waiting \cup {outcome.item}
    /\ IF outcome.code = "HEALTHY"
       THEN dispatcher' = "receive" /\ outcome' = NoOutcome
       ELSE dispatcher' = "fail" /\ UNCHANGED outcome
    /\ UNCHANGED <<callVars, due, dequeueVars, poolSide>>

(* failures is not buffered: listenForHealthFailures has to receive.       *)
SendFailure ==
    /\ dispatcher = "fail"
    /\ call["health"] = "idle"
    /\ Calls("health", "handle", GetID(outcome.item))
    /\ dispatcher' = "receive"
    /\ outcome' = NoOutcome
    /\ UNCHANGED <<register, made, queueVars, dequeueVars, poolSide>>

(* The manager's update fails (no deployment, no application): it does not *)
(* unregister the task.                                                    *)
IgnoreFailure ==
    /\ call["health"] = "handle"
    /\ Return("health")
    /\ UNCHANGED <<register, made, queueVars, dequeueVars, poolSide,
                   dispatchVars>>

-----------------------------------------------------------------------------
CallerStep(c) ==
    \/ c = "driver" /\ RegisterPush
    \/ Remove(c)
    \/ c = "health" /\ (IgnoreFailure \/ \E t \in Tasks : Unregister(c, t))

DequeueStep == LookAtQueue \/ PopQueue \/ Wake \/ SendWork

DispatchStep == ReceiveResult \/ PushResult \/ SendFailure

Step ==
    \/ \E t \in Tasks :
          Register(t) \/ RegisterAgain(t) \/ Unregister("driver", t)
    \/ \E c \in Callers : CallerStep(c)
    \/ \E i \in Checks : Expire(i) \/ \E code \in Codes : Check(i, code)
    \/ DequeueStep \/ DispatchStep
    \/ ReceiveWork \/ SlotFree \/ ReceiveUpdate \/ Forward

(* A panic ends the process.                                               *)
Next == pool # "panicked" /\ Step

(* Time passes, every check ends (it has a timeout), goroutines that can   *)
(* run do; select picks among its ready cases at random, and a channel     *)
(* serves the senders that block on it in their order.                     *)
Fairness ==
    /\ \A i \in Checks : WF_vars(Expire(i))
    /\ \A i \in Checks : SF_vars(\E code \in Codes : Check(i, code))
    /\ \A c \in Callers : WF_vars(CallerStep(c))
    /\ WF_vars(DequeueStep)
    /\ WF_vars(DispatchStep)
    /\ SF_vars(ReceiveWork)
    /\ SF_vars(ReceiveUpdate)
    /\ WF_vars(Forward)

Spec == Init /\ [][Next]_vars
FairSpec == Spec /\ Fairness

-----------------------------------------------------------------------------
(* Who can hold a check.  After PushResult the dispatcher only reports.    *)
Pushed ==
    {<<arg[c], made[arg[c]]>> : c \in {d \in Callers : call[d] = "push"}}
Dispatched == {o.item : o \in {x \in {outcome} : dispatcher = "push"}}

Holders ==
    <<Pushed, waiting, Elements(due), {hand}, Elements(work), checking,
      ItemsOf(updates), {held.item}, ItemsOf(results), Dispatched>>

OnCircle(i) == \E p \in DOMAIN Holders : i \in Holders[p]

Distinct(s) == Cardinality(Elements(s)) = Len(s)

(* A check travels as one pointer through five goroutines and four         *)
(* channels and is never duplicated: no task is checked by two workers     *)
(* because of one registration.                                            *)
NeverTwice ==
    /\ \A p, q \in DOMAIN Holders :
          p # q => Holders[p] \cap Holders[q] \subseteq {None}
    /\ Distinct(due) /\ Distinct(work) /\ Distinct(pending)

(* The check of a registered task is always somewhere on its circle.  It   *)
(* holds of tasks that register once; for others Unregister, which first   *)
(* deletes the register's entry and then removes from the queue whatever   *)
(* has the id, can take a newer check with it.                             *)
NeverLost ==
    \A t \in Tasks : register[t] # None => OnCircle(register[t])

(* pending is what the pool counts against its size: exactly the checks    *)
(* that a worker runs or whose update has not been forwarded.              *)
PendingExact ==
    Elements(pending) =
        checking \cup ItemsOf(updates) \cup ({held.item} \ {None})

(* "Unregister unregisters and stops a health check" does not hold: it     *)
(* reaches only the queue.  A check that a worker, the pool or a channel   *)
(* holds at that moment stays on the circle, with no entry in the register *)
(* that leads to it: a check leaves by the removal from the queue alone.   *)
LeavesOnlyFromQueue ==
    [][\A i \in Checks : OnCircle(i) /\ ~OnCircle(i)' =>
          /\ i \in waiting \cup Elements(due)
          /\ \E c \in Callers : call[c] = "remove" /\ arg[c] = GetID(i)]_vars

(* A check on the circle is made again and again until it leaves, whatever *)
(* its results and those of the others are: that of a registered task, and *)
(* also the one that Unregister has missed.                                *)
CheckedForever ==
    \A i \in Checks : []<>(~OnCircle(i) \/ i \in checking)

-----------------------------------------------------------------------------
(* What a comment of the code says, and the code does not do.              *)

(* The health checker "can also cancel and remove a healthcheck", and goes *)
(* on with the others: the pool does not panic over a removed check.       *)
PoolSurvives == pool # "panicked"

=============================================================================
