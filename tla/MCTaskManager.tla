--------------------------- MODULE MCTaskManager ---------------------------
(* Small instances of TaskManager for TLC.                                 *)
EXTENDS TaskManager, TLC

Manifest(id, hasSla, min, max, checked) ==
    [id |-> id, name |-> "shop", component |-> "web", active |-> TRUE,
     hasSla |-> hasSla, min |-> min, max |-> max, checked |-> checked,
     size |-> 1]

(* One component with a health check and an SLA of 1 to 2 instances.       *)
CheckedApp == {Manifest("web", TRUE, 1, 2, TRUE)}

(* One component of which one instance may run.                            *)
SingleApp == {Manifest("web", TRUE, 1, 1, FALSE)}

(* A component with an SLA and one without.                                *)
TwoApps == {Manifest("web", TRUE, 1, 2, FALSE),
            [Manifest("db", FALSE, 0, 0, FALSE) EXCEPT !.component = "db"]}

Symmetry == Permutations(Clients) \cup Permutations(TaskIds)
=============================================================================
