---------------------------- MODULE MCMemoryJobs ----------------------------
(***************************************************************************)
(* A few jobs without partitions and two threads with one worker_id.       *)
(***************************************************************************)
EXTENDS MemoryJobs, TLC

MCPartsOf == [j \in Jobs |-> {}]
MCIdOf    == [w \in Workers |-> CHOOSE i \in WorkerIds : TRUE]

\* Jobs differ in nothing, nor do the threads.
Symmetry == Permutations(Jobs) \cup Permutations(Workers)
=============================================================================
