--------------------------- MODULE MCApplications ---------------------------
(* A small instance of Applications for TLC.                               *)
EXTENDS Applications, TLC

Comp(name, version, type, sla) ==
    [name |-> name, version |-> <<version>>, type |-> type, active |-> TRUE,
     distUrl |-> <<name>>, diskSpace |-> 1, sla |-> sla]

Body(name, components) == [name |-> name, components |-> components]

(* "shop" with two components that were left without a name, and so have   *)
(* one id; with a later one, an "api" that has an SLA, and a component     *)
(* that gets the id of the one of the application "shop-web"; a body       *)
(* without a name.                                                         *)
Bodies ==
    {Body(<<"shop">>, {Comp(<<"">>, "v1", "TASK", FALSE),
                       Comp(<<"">>, "v1", "job", FALSE)}),
     Body(<<"shop">>, {Comp(<<"">>, "v2", "SERVICE", FALSE),
                       Comp(<<"api">>, "v2", "SERVICE", TRUE),
                       Comp(<<"web", "db">>, "v1", "SERVICE", FALSE)}),
     Body(<<"shop", "web">>, {Comp(<<"db">>, "v1", "SERVICE", FALSE)}),
     Body(<<"">>, {Comp(<<"web">>, "v1", "SERVICE", FALSE)})}

Names == {<<"shop">>, <<"shop", "web">>}

Symmetry == Permutations(Clients)
=============================================================================
