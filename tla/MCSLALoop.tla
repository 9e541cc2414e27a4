----------------------------- MODULE MCSLALoop ------------------------------
(* A small instance of SLALoop for TLC.                                    *)
EXTENDS SLALoop, TLC

(* A component with an SLA of exactly one instance, in two versions of its *)
(* manifest, active and disabled.                                          *)
Web(active) ==
    [id |-> "web", active |-> active, hasSla |-> TRUE, min |-> 1, max |-> 1]
Manifests == {Web(TRUE), Web(FALSE)}

(* Deployments and queued items of another component come between.         *)
Ids == {"web", "db"}
=============================================================================
