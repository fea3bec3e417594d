---------------------------- MODULE JobContract ----------------------------
(***************************************************************************)
(* What every job repository of GraphWord promises, whatever stores the    *)
(* jobs: the JobRepository and PartitionedBuildRepository protocols of     *)
(* graphword/trabajos/jobs.py, as seen through get().                      *)
(*                                                                         *)
(* The contract says nothing of workers, tokens, leases, queues or time.   *)
(* It says which moves a job may make and what the moves of a reducer and  *)
(* of its partitions owe to one another.  One repository call may move     *)
(* several jobs (claim_next recovers every expired job and then reserves   *)
(* one), so in a step of the contract each job makes one move or none.     *)
(***************************************************************************)
EXTENDS JobTypes

VARIABLES status, attempts, result

contractVars == <<status, attempts, result>>

ContractType ==
    /\ status \in [Jobs -> Statuses]
    /\ attempts \in [Jobs -> 0..MaxAttempts]
    /\ result \in [Jobs -> Claims \cup {Null}]

ContractInit ==
    /\ status = [j \in Jobs |-> "ABSENT"]
    /\ attempts = [j \in Jobs |-> 0]
    /\ result = [j \in Jobs |-> Null]

-----------------------------------------------------------------------------
(* The moves of one job.                                                   *)

KeepsCounts(j) == attempts'[j] = attempts[j] /\ result'[j] = result[j]

Keeps(j) == status'[j] = status[j] /\ KeepsCounts(j)

Stored(j) ==
    status[j] = "ABSENT" /\ status'[j] = "PENDING" /\ KeepsCounts(j)

\* The job was waiting, or its reservation ran out and the call that recovers
\* it reserves it again.  Either way its partitions are confirmed.
Reserved(j) ==
    /\ status[j] \in {"PENDING", "RUNNING"} /\ status'[j] = "RUNNING"
    /\ \A c \in PartsOf[j] : status[c] = "SUCCEEDED"
    /\ attempts[j] < MaxAttempts /\ attempts'[j] = attempts[j] + 1
    /\ result'[j] = result[j]

\* The result is recorded once, and it names a graph built for this job.
Completed(j) ==
    /\ status[j] = "RUNNING" /\ status'[j] = "SUCCEEDED"
    /\ result[j] = Null /\ result'[j] \in {r \in Claims : r.job = j}
    /\ attempts'[j] = attempts[j]

Returned(j) ==
    /\ status[j] = "RUNNING" /\ status'[j] = "PENDING"
    /\ attempts[j] < MaxAttempts
    /\ KeepsCounts(j)

\* A job is given up when its attempts are spent, or, for a reducer that waits,
\* when one of its partitions has been given up.
GivenUp(j) ==
    /\ \/ status[j] = "RUNNING" /\ attempts[j] = MaxAttempts
       \/ status[j] = "PENDING" /\ \E c \in PartsOf[j] : status'[c] = "FAILED"
    /\ status'[j] = "FAILED"
    /\ KeepsCounts(j)

Move(j) ==
    Stored(j) \/ Reserved(j) \/ Completed(j) \/ Returned(j) \/ GivenUp(j)

\* A reducer is stored together with its partitions.
StoredTogether ==
    \A j \in Jobs : \A c \in PartsOf[j] :
        status'[c] = "ABSENT" <=> status'[j] = "ABSENT"

ContractNext ==
    /\ ContractType'
    /\ \A j \in Jobs : Keeps(j) \/ Move(j)
    /\ StoredTogether

ContractSpec == ContractInit /\ [][ContractNext]_contractVars
=============================================================================
