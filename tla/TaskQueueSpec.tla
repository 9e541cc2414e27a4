--------------------------- MODULE TaskQueueSpec ---------------------------
(***************************************************************************)
(* What the task queue promises to the task manager, without its heap      *)
(* (tasks/queue/task_queue.go, interface TaskQueue): a set of items, of    *)
(* which Dequeue takes one that no other precedes, and DequeueFirst one    *)
(* that matches the predicate, or nothing when none does.                  *)
(***************************************************************************)
EXTENDS Integers

CONSTANTS Items,    \* the ScheduledApp pointers
          Apps      \* the manifests they can carry: [cpus, mem]

VARIABLES queued,   \* the items in the queue
          app,      \* item -> the manifest it carries
          since,    \* item -> when it was enqueued, -1 outside the queue
          last      \* the last call: its name, predicate and result

vars == <<queued, app, since, last>>

None == "none"
Call(op, matching, item) == [op |-> op, matching |-> matching, item |-> item]

(* byCPU, byMemorySecondary and leastRecent: most CPU first, then most     *)
(* memory, then the one that waits longest.                                *)
Precedes(i, j) ==
    \/ app[i].cpus > app[j].cpus
    \/ app[i].cpus = app[j].cpus /\ app[i].mem > app[j].mem
    \/ app[i].cpus = app[j].cpus /\ app[i].mem = app[j].mem
       /\ since[i] < since[j]

Init ==
    /\ queued = {}
    /\ app \in [Items -> Apps]
    /\ since = [i \in Items |-> -1]
    /\ last = Call("New", {}, None)

(* The clock of the queue never runs backwards.                            *)
Enqueue(i, m) ==
    /\ i \notin queued
    /\ queued' = queued \cup {i}
    /\ app' = [app EXCEPT ![i] = m]
    /\ since' = [since EXCEPT ![i] = since'[i]]
    /\ since'[i] \in Nat
    /\ \A j \in queued : since[j] <= since'[i]
    /\ last' = Call("Enqueue", {}, i)

Take(i) ==
    /\ queued' = queued \ {i}
    /\ since' = [since EXCEPT ![i] = -1]
    /\ UNCHANGED app

Dequeue ==
    \E i \in queued : /\ \A j \in queued : ~Precedes(j, i)
                      /\ Take(i)
                      /\ last' = Call("Dequeue", {}, i)

DequeueFirst(matching) ==
    \/ \E i \in queued \cap matching :
          Take(i) /\ last' = Call("DequeueFirst", matching, i)
    \/ /\ queued \cap matching = {}
       /\ last' = Call("DequeueFirst", matching, None)
       /\ UNCHANGED <<queued, app, since>>

Next ==
    \/ \E i \in Items, m \in Apps : Enqueue(i, m)
    \/ Dequeue
    \/ \E matching \in SUBSET Items : DequeueFirst(matching)

Spec == Init /\ [][Next]_vars

=============================================================================
