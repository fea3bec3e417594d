------------------------------ MODULE JobTypes ------------------------------
(***************************************************************************)
(* The jobs of a small deployment and the vocabulary every job repository  *)
(* shares: graphword/trabajos/jobs.py.                                     *)
(***************************************************************************)
EXTENDS Integers

CONSTANTS
    Jobs,           \* the ids of the jobs that may ever be created
    PartsOf,        \* PartsOf[j]: the partition jobs reducer j depends on, {} for other kinds
    MaxAttempts,    \* max_attempts
    Null            \* an absent column: SQL NULL, Python None

\* A job that is not stored yet has no row; "ABSENT" stands for that.
Statuses == {"ABSENT", "PENDING", "RUNNING", "SUCCEEDED", "FAILED"}
Terminal == {"SUCCEEDED", "FAILED"}

\* create_partitioned_build gives every partition job a fresh uuid4, so a
\* partition belongs to one reducer and is never a reducer itself.
ASSUME JobsAssumption ==
    /\ MaxAttempts \in Nat \ {0}
    /\ PartsOf \in [Jobs -> SUBSET Jobs]
    /\ \A j \in Jobs : \A c \in PartsOf[j] : PartsOf[c] = {}
    /\ \A j, k \in Jobs : PartsOf[j] \cap PartsOf[k] # {} => j = k

\* The jobs a client submits: everything that is not another job's partition.
Roots == {j \in Jobs : \A k \in Jobs : j \notin PartsOf[k]}

\* The rows one submission writes.
Submission(r) == {r} \cup PartsOf[r]

\* A claim is known by its job and the number of its token (a fresh uuid4).
\* A worker saves at most one graph per claim, so the claim names the graph too.
Claims == [job : Jobs, token : Nat]
=============================================================================
