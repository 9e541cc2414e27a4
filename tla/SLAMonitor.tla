----------------------------- MODULE SLAMonitor -----------------------------
(***************************************************************************)
(* The decisions of the SLA monitor (health/sla/sla.go).  Both are pure    *)
(* functions of an application manifest and of two counts the monitor      *)
(* reads from other components: the deployments of the application whose   *)
(* status is STARTED (task store) and its entries in the task queue.       *)
(*                                                                         *)
(* A manifest is a record with the fields the decisions read:              *)
(*   id, active, hasSla (GetSla() /= nil), min and max (instances).        *)
(***************************************************************************)
EXTENDS Integers

(* What the protobuf getters return on a nil *protocol.Application.        *)
NilApp == [id |-> "", name |-> "", component |-> "", active |-> FALSE,
           hasSla |-> FALSE, min |-> 0, max |-> 0, checked |-> FALSE,
           size |-> 0]

(* An active application with an SLA that is below its minimum.            *)
NeedsMoreInstances(app, running, queued) ==
    /\ app.active
    /\ app.hasSla
    /\ running + queued < app.min

(* Mutant: the maximum itself still allows one more.                       *)
CanDeployAtMaximum(app, running, queued) ==
    /\ app.active
    /\ app.hasSla => running + queued <= app.max

(* Mutant: an application need not be active.                              *)
CanDeployInactive(app, running, queued) ==
    app.hasSla => running + queued < app.max

(* An active application without an SLA, or one below its maximum.         *)
CanDeployMoreInstances(app, running, queued) ==
    /\ app.active
    /\ app.hasSla => running + queued < app.max

=============================================================================
