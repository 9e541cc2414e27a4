---------------------------- MODULE MCTaskQueue ----------------------------
(* Small instances of TaskQueue for TLC.                                   *)
EXTENDS TaskQueue

Size(cpus, mem) == [cpus |-> cpus, mem |-> mem]

(* Manifests that differ in memory only, and in CPU.                       *)
Sizes == {Size(1, 1), Size(1, 2), Size(2, 1)}

(* More CPU and less memory: which of the two decides is seen.             *)
TwoSizes == {Size(1, 2), Size(2, 1)}

Symmetry == Permutations(Items)
=============================================================================
