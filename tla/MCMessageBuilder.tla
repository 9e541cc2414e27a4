-------------------------- MODULE MCMessageBuilder --------------------------
(***************************************************************************)
(* A slave with seven ports in two resources, and applications with none,  *)
(* one and two ports.                                                      *)
(***************************************************************************)
EXTENDS MessageBuilder, TLC

CONSTANTS worker, web, plain

MCResources == <<1..5, 7..8>>
MCPortsOf == (worker :> <<>>) @@ (web :> <<80, 81>>) @@ (plain :> <<1>>)

(* Tasks differ in nothing but their name.                                 *)
Symmetry == Permutations(TaskIds)

=============================================================================
