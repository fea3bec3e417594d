----------------------------- MODULE MCAwsJobs -----------------------------
(***************************************************************************)
(* A reducer with up to two partitions; processes that were started with   *)
(* the same --worker-id.                                                   *)
(***************************************************************************)
EXTENDS AwsJobs, TLC

CONSTANTS reducer, p1, p2

MCPartsOf == [j \in Jobs |-> IF j = reducer THEN Jobs \cap {p1, p2} ELSE {}]
MCIdOf    == [w \in Workers |-> CHOOSE i \in WorkerIds : TRUE]

\* The two partitions differ in nothing, nor do processes of the same kind.
Symmetry == Permutations(Jobs \cap {p1, p2}) \cup Permutations(Workers)
                \cup Permutations(Reconcilers)
=============================================================================
