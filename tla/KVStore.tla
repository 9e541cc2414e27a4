------------------------------ MODULE KVStore -------------------------------
(***************************************************************************)
(* What a key/value store promises to goroutines that call it concurrently *)
(* (store/store.go, interface KVStore): every call takes effect, or fails  *)
(* without one, at one moment between its start and its end; one that      *)
(* iterates sees the store as it was at one moment.                        *)
(***************************************************************************)
EXTENDS KVRequests

CONSTANTS Clients       \* the goroutines that call the store

VARIABLES store,        \* what is stored
          calls         \* client -> its call

vars == <<store, calls>>

Idle == [state |-> "idle"]
Called(r) == [state |-> "called", req |-> r]
Done(r, ok, found) ==
    [state |-> "done", req |-> r, ok |-> ok, found |-> found]

Init ==
    /\ store = Nothing
    /\ calls = [c \in Clients |-> Idle]

Invoke(c, r) ==
    /\ calls[c] = Idle
    /\ calls' = [calls EXCEPT ![c] = Called(r)]
    /\ UNCHANGED store

Read(c) ==
    /\ calls[c].state = "called" /\ IsRead(calls[c].req)
    /\ calls' = [calls EXCEPT ![c] = Done(@.req, TRUE, Found(store, @.req))]
    /\ UNCHANGED store

Set(c) ==
    /\ calls[c].state = "called" /\ calls[c].req.op = "Set"
    /\ store' = Update(store, calls[c].req.key, calls[c].req.value)
    /\ calls' = [calls EXCEPT ![c] = Done(@.req, TRUE, Nothing)]

Delete(c) ==
    /\ calls[c].state = "called" /\ calls[c].req.op = "Delete"
    /\ calls[c].req.key \in DOMAIN store
    /\ store' = Remove(store, calls[c].req.key)
    /\ calls' = [calls EXCEPT ![c] = Done(@.req, TRUE, Nothing)]

(* Nothing is changed by a call that fails.                                *)
Fail(c) ==
    /\ calls[c].state = "called"
    /\ calls' = [calls EXCEPT ![c] = Done(@.req, FALSE, Nothing)]
    /\ UNCHANGED store

(* A read may fail half-way, when it has found a part already.             *)
Break(c, ks) ==
    /\ calls[c].state = "done" /\ IsRead(calls[c].req)
    /\ calls' = [calls EXCEPT ![c] = Done(@.req, FALSE, Only(@.found, ks))]
    /\ UNCHANGED store

Return(c) ==
    /\ calls[c].state = "done"
    /\ calls' = [calls EXCEPT ![c] = Idle]
    /\ UNCHANGED store

(* The process ends; what is stored stays.                                 *)
Crash ==
    /\ calls' = [c \in Clients |-> Idle]
    /\ UNCHANGED store

Next ==
    \/ \E c \in Clients :
          \/ \E r \in Requests : Invoke(c, r)
          \/ Read(c) \/ Set(c) \/ Delete(c) \/ Fail(c)
          \/ \E ks \in SUBSET Keys : Break(c, ks)
          \/ Return(c)
    \/ Crash

Spec == Init /\ [][Next]_vars

=============================================================================
