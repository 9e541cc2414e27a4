----------------------------- MODULE TaskQueue -----------------------------
(***************************************************************************)
(* The task queue (tasks/queue/task_queue.go): a priority queue on Go's    *)
(* container/heap.  Every operation but Len holds the queue's lock, so it  *)
(* is one action.  Indices are Go's plus one; Position keeps Go's value.   *)
(***************************************************************************)
EXTENDS Integers, SequencesExt

CONSTANTS
    Items,          \* the ScheduledApp pointers callers enqueue
    Apps,           \* the manifests they can carry: [cpus, mem]
    MaxClock        \* bound: how far the clock runs

(* GetCpus and GetMem are float64; only their order matters.               *)
ASSUME QueueAssumption ==
    /\ IsFiniteSet(Items)
    /\ MaxClock \in Nat
    /\ Apps \subseteq [cpus : Int, mem : Int]

VARIABLES
    pq,             \* the heap's array
    position,       \* item -> ScheduledApp.Position
    since,          \* item -> ScheduledApp.Since
    app,            \* item -> *ScheduledApp.App
    clock,          \* what time.Now() returns
    last            \* the last call: its name, predicate and result

vars == <<pq, position, since, app, clock, last>>

None == "none"
Call(op, matching, item) == [op |-> op, matching |-> matching, item |-> item]

TypeOK ==
    /\ pq \in Seq(Items)
    /\ position \in [Items -> -1..(Len(pq) - 1)]
    /\ since \in [Items -> -1..MaxClock]
    /\ app \in [Items -> Apps]
    /\ clock \in 0..MaxClock
    /\ last \in [op : {"New", "Enqueue", "Dequeue", "DequeueFirst"},
                matching : SUBSET Items, item : Items \cup {None}]

-----------------------------------------------------------------------------
(* The methods of PrioQueue, on a heap h and the fields of its items.      *)

heap == [pq |-> pq, position |-> position, since |-> since, app |-> app]

(* Mutant: memory is compared before CPU.                                  *)
BeforeByMemory(h, l, r) ==
    \/ h.app[l].mem > h.app[r].mem
    \/ h.app[l].mem = h.app[r].mem /\ h.app[l].cpus > h.app[r].cpus
    \/ /\ h.app[l].cpus = h.app[r].cpus /\ h.app[l].mem = h.app[r].mem
       /\ h.since[l] < h.since[r]

(* byCPU, byMemorySecondary and leastRecent, on two items.                 *)
Before(h, l, r) ==
    \/ h.app[l].cpus > h.app[r].cpus
    \/ h.app[l].cpus = h.app[r].cpus /\ h.app[l].mem > h.app[r].mem
    \/ /\ h.app[l].cpus = h.app[r].cpus /\ h.app[l].mem = h.app[r].mem
       /\ h.since[l] < h.since[r]

Less(h, i, j) == Before(h, h.pq[i], h.pq[j])

(* Mutant: only one of the two items learns its new position.              *)
SwapOnePosition(h, i, j) ==
    LET l == h.pq[i] r == h.pq[j] IN
    [h EXCEPT !.pq = [@ EXCEPT ![i] = r, ![j] = l],
              !.position[r] = i - 1]

Swap(h, i, j) ==
    LET l == h.pq[i] r == h.pq[j] IN
    [h EXCEPT !.pq = [@ EXCEPT ![i] = r, ![j] = l],
              !.position = [[@ EXCEPT ![r] = i - 1] EXCEPT ![l] = j - 1]]

Push(h, i) ==
    [h EXCEPT !.pq = Append(@, i),
              !.position[i] = Len(h.pq),
              !.since[i] = clock]

Pop(h) ==
    [h EXCEPT !.pq = Front(@),
              !.position[Last(h.pq)] = -1,
              !.since[Last(h.pq)] = -1]

(* container/heap: sift the element at i up, or down within the first n.   *)
(* Both are loops, and a round that breaks out of one changes nothing:     *)
(* sift[k] is the heap and the index after k rounds.                       *)
Sift(h, i) == [heap |-> h, at |-> i]

UpRound(s) ==
    LET parent == s.at \div 2 IN
    IF s.at = 1 \/ ~Less(s.heap, s.at, parent) THEN s
    ELSE Sift(Swap(s.heap, s.at, parent), parent)

Up(h, i) ==
    LET sift[k \in Nat] == IF k = 0 THEN Sift(h, i) ELSE UpRound(sift[k - 1])
    IN  sift[i].heap

DownRound(s, n) ==
    LET left == 2 * s.at
        child == IF left < n /\ ~Less(s.heap, left, left + 1) THEN left + 1
                 ELSE left
    IN IF left > n \/ ~Less(s.heap, child, s.at) THEN s
       ELSE Sift(Swap(s.heap, s.at, child), child)

Down(h, i, n) ==
    LET sift[k \in Nat] ==
            IF k = 0 THEN Sift(h, i) ELSE DownRound(sift[k - 1], n)
    IN  sift[n].heap

HeapPush(h, i) == LET g == Push(h, i) IN Up(g, Len(g.pq))

HeapPop(h) == LET n == Len(h.pq) IN Pop(Down(Swap(h, 1, n), 1, n - 1))

(* Mutant: the element moved into the gap is sifted down only.             *)
HeapRemoveDownOnly(h, i) ==
    LET n == Len(h.pq) IN
    Pop(IF i = n THEN h ELSE Down(Swap(h, i, n), i, n - 1))

HeapRemove(h, i) ==
    LET n == Len(h.pq) IN
    Pop(IF i = n THEN h ELSE Up(Down(Swap(h, i, n), i, n - 1), i))

-----------------------------------------------------------------------------
Become(h) ==
    /\ pq' = h.pq
    /\ position' = h.position
    /\ since' = h.since
    /\ app' = h.app

Init ==
    /\ pq = <<>>
    /\ position = [i \in Items |-> -1]
    /\ since = [i \in Items |-> -1]
    /\ app \in [Items -> Apps]
    /\ clock = 0
    /\ last = Call("New", {}, None)

(* time.Now() moves on between calls, or not: its resolution is finite.    *)
Tick ==
    /\ clock < MaxClock
    /\ clock' = clock + 1
    /\ UNCHANGED <<pq, position, since, app, last>>

(* The one caller (scheduleAppForDeployment) passes a ScheduledApp that it *)
(* has just made around manifest m, so never one that is queued.           *)
Enqueue(i, m) ==
    /\ i \notin ToSet(pq)
    /\ Become(HeapPush([heap EXCEPT !.app[i] = m], i))
    /\ last' = Call("Enqueue", {}, i)
    /\ UNCHANGED clock

(* On an empty queue heap.Pop panics.  Only the tests call Dequeue, and    *)
(* never then; FulfillOffer uses DequeueFirst, which can find nothing.     *)
Dequeue ==
    /\ pq # <<>>
    /\ last' = Call("Dequeue", {}, pq[1])
    /\ Become(HeapPop(heap))
    /\ UNCHANGED clock

(* Where the loop over the array finds the first item that matches.        *)
First(matching) ==
    CHOOSE k \in DOMAIN pq : /\ pq[k] \in matching
                             /\ \A j \in 1..(k - 1) : pq[j] \notin matching

(* The first item of the array that matches is returned; what is removed   *)
(* is the element at that item's Position.                                 *)
DequeueFirst(matching) ==
    /\ IF ToSet(pq) \cap matching = {}
       THEN /\ last' = Call("DequeueFirst", matching, None)
            /\ UNCHANGED <<pq, position, since, app>>
       ELSE LET found == pq[First(matching)] IN
            /\ last' = Call("DequeueFirst", matching, found)
            /\ Become(HeapRemove(heap, position[found] + 1))
    /\ UNCHANGED clock

(* The predicate of DequeueFirst is asked about queued items only.         *)
Next ==
    \/ Tick
    \/ \E i \in Items, m \in Apps : Enqueue(i, m)
    \/ Dequeue
    \/ \E matching \in SUBSET ToSet(pq) : DequeueFirst(matching)

Spec == Init /\ [][Next]_vars

-----------------------------------------------------------------------------
(* No item is before its parent, so pq[1] is the one Dequeue is meant to   *)
(* take; Remove's sift down and up restore this from any position.         *)
HeapOrder == \A k \in 2..Len(pq) : ~Less(heap, k, k \div 2)

(* Every queued item knows where it is: DequeueFirst relies on Position to *)
(* remove the very item it returns.                                        *)
PositionsExact ==
    /\ \A k \in DOMAIN pq : position[pq[k]] = k - 1
    /\ \A i \in Items : i \notin ToSet(pq) => position[i] = -1

(* The heap implements the abstract queue.                                 *)
Abstract == INSTANCE TaskQueueSpec WITH queued <- ToSet(pq)
Refines == Abstract!Spec

=============================================================================
