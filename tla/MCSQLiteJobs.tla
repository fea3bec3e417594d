---------------------------- MODULE MCSQLiteJobs ----------------------------
(***************************************************************************)
(* A reducer with two partitions and a GRAPH_BUILD job, two processes that *)
(* were started with the same --worker-id.                                 *)
(***************************************************************************)
EXTENDS SQLiteJobs, TLC

CONSTANTS reducer, p1, p2, single

MCPartsOf == [j \in Jobs |-> IF j = reducer THEN Jobs \cap {p1, p2} ELSE {}]
MCIdOf    == [w \in Workers |-> CHOOSE i \in WorkerIds : TRUE]

\* The two partitions differ in nothing, nor do the processes.
Symmetry == Permutations(Jobs \cap {p1, p2}) \cup Permutations(Workers)
=============================================================================
