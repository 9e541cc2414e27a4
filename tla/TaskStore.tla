----------------------------- MODULE TaskStore ------------------------------
(***************************************************************************)
(* The task store (store/tasks/task_store.go) over the map that New gives  *)
(* it (store/in_memory_store.go).  There is no lock: while one goroutine   *)
(* ranges over the map, others save and delete.  A single access to the    *)
(* map is taken to be atomic; a range is one step for each entry, and it   *)
(* guarantees what the Go language does: an entry that is there from the   *)
(* start is produced unless it is removed first, one that is added during  *)
(* the range may or may not be, and none is produced twice unless it was   *)
(* removed and added again.                                                *)
(***************************************************************************)
EXTENDS FiniteSets, Integers

CONSTANTS
    TaskIds,        \* the keys
    StoredApps,     \* the application ids the deployments name
    StoredStatuses  \* the statuses they are saved with

VARIABLES
    data,   \* key -> deployment, Nothing when there is no entry
    born,   \* key -> how many entries it has had (tells them apart)
    due,    \* the entries the range under way must still produce
    seen    \* the entries it has produced

Deployments == [appId : StoredApps, status : StoredStatuses]
Nothing == [appId |-> "", status |-> "ABSENT"]

ASSUME StoreAssumption ==
    /\ IsFiniteSet(TaskIds)
    /\ "" \notin StoredApps

Keys == {k \in TaskIds : data[k] # Nothing}

StoreTypeOK ==
    /\ data \in [TaskIds -> Deployments \cup {Nothing}]
    /\ born \in [TaskIds -> Nat]
    /\ due \subseteq Keys
    /\ seen \subseteq Keys

StoreInit ==
    /\ data = [k \in TaskIds |-> Nothing]
    /\ born = [k \in TaskIds |-> 0]
    /\ due = {}
    /\ seen = {}

(* Save overwrites the entry, or adds one.                                 *)
Save(k, d) ==
    /\ data' = [data EXCEPT ![k] = d]
    /\ born' = [born EXCEPT ![k] = IF k \in Keys THEN @ ELSE @ + 1]
    /\ UNCHANGED <<due, seen>>

(* Deleting a key that is missing is no error and changes nothing.         *)
Delete(k) ==
    /\ data' = [data EXCEPT ![k] = Nothing]
    /\ due' = due \ {k}
    /\ seen' = seen \ {k}
    /\ UNCHANGED born

(* ForEach: range over the map, one entry at a time, in any order.         *)
Range ==
    /\ due' = Keys
    /\ seen' = {}
    /\ UNCHANGED <<data, born>>

Produce(k) ==
    /\ k \in Keys \ seen
    /\ due' = due \ {k}
    /\ seen' = seen \cup {k}
    /\ UNCHANGED <<data, born>>

RangeDone == due = {}

=============================================================================
