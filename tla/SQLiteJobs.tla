----------------------------- MODULE SQLiteJobs -----------------------------
(***************************************************************************)
(* The local deployment: API processes and worker processes that share one *)
(* SQLite file.                                                            *)
(*                                                                         *)
(*   almacenamiento/sqlite_storage.py   the jobs and graphs tables         *)
(*   trabajos/worker_cli.py             the polling loop, and its death    *)
(*   module GraphWorker                 run_once and its renewal thread    *)
(*                                                                         *)
(* Every method of SQLiteJobRepository is one transaction under BEGIN      *)
(* IMMEDIATE, so it is one action here.  What interleaves are the steps of *)
(* run_once, the renewals of its heartbeat thread, the other workers, the  *)
(* API, crashes and the clock.                                             *)
(*                                                                         *)
(* Each column of table jobs is a function of the job id.  Left out: error *)
(* texts, updated_at and kinds of payload.  Time is relative: lease[j] is  *)
(* lease_expires_at - now in ticks, so that "lease_expires_at <= now" is   *)
(* lease[j] = 0 and no bound on the clock is needed.                       *)
(***************************************************************************)
EXTENDS GraphWorker, FiniteSets

CONSTANT LeaseTicks     \* --lease-seconds, in ticks of the model's clock

ASSUME LeaseAssumption == LeaseTicks \in Nat \ {0}

VARIABLES
    attempts, created, owner, token, lease, \* with status and result, table jobs
    stamps,     \* how many created_at have been read from the clock
    issued      \* issued[j]: how many tokens the token factory made for j

columns == <<status, attempts, created, owner, token, lease, result>>
vars    == <<columns, graphs, stamps, issued, processes>>

\* One step more than every worker has: complete() has committed, and the get()
\* it closes with is still to return.
Steps == {"idle", "build", "save", "join", "unwind", "publish", "confirm",
          "failing", "down"}

TypeOK ==
    /\ status \in [Jobs -> Statuses]
    /\ attempts \in [Jobs -> Nat]
    /\ created \in [Jobs -> Nat]
    /\ owner \in [Jobs -> WorkerIds \cup {Null}]
    /\ token \in [Jobs -> Nat \cup {Null}]
    /\ lease \in [Jobs -> 0..LeaseTicks \cup {Null}]
    /\ result \in [Jobs -> Claims \cup {Null}]
    /\ graphs \subseteq GraphRows
    /\ stamps \in Nat
    /\ issued \in [Jobs -> Nat]
    /\ pc \in [Workers -> Steps]
    /\ claim \in [Workers -> Claims \cup {NoClaim}]
    /\ built \in [Workers -> SUBSET Jobs]
    /\ beat \in [Workers -> Beats]

Init ==
    /\ status = [j \in Jobs |-> "ABSENT"]
    /\ attempts = [j \in Jobs |-> 0]
    /\ created = [j \in Jobs |-> 0]
    /\ owner = [j \in Jobs |-> Null]
    /\ token = [j \in Jobs |-> Null]
    /\ lease = [j \in Jobs |-> Null]
    /\ result = [j \in Jobs |-> Null]
    /\ stamps = 0
    /\ issued = [j \in Jobs |-> 0]
    /\ ProcessesInit

-----------------------------------------------------------------------------
(* The API: create and create_partitioned_build.                           *)

\* created_at is read from the clock before the transaction begins, so two
\* submissions may be stored in the other order.
ReadClock(r) ==
    /\ status[r] = "ABSENT" /\ created[r] = 0
    /\ stamps' = stamps + 1
    /\ created' = [j \in Jobs |->
                      IF j \in Submission(r) THEN stamps' ELSE created[j]]
    /\ UNCHANGED <<status, attempts, owner, token, lease, result, graphs,
                   issued, processes>>

\* One transaction stores the reducer, its partitions and the dependencies.  A
\* repeated key finds the submission and changes nothing, so r is stored once.
Store(r) ==
    /\ status[r] = "ABSENT" /\ created[r] > 0
    /\ status' = [j \in Jobs |->
                     IF j \in Submission(r) THEN "PENDING" ELSE status[j]]
    /\ UNCHANGED <<attempts, created, owner, token, lease, result, graphs,
                   stamps, issued, processes>>

-----------------------------------------------------------------------------
(* claim_next.                                                             *)

Expired == {j \in Jobs : status[j] = "RUNNING" /\ lease[j] = 0}

\* Faults: the last attempt is never used; attempts are never counted.
AfterAttempt_LastLost(j) == IF attempts[j] + 1 < MaxAttempts THEN "PENDING" ELSE "FAILED"
AfterAttempt_Forever(j) == "PENDING"

\* A row goes back to the queue while it has attempts left.
AfterAttempt(j) == IF attempts[j] < MaxAttempts THEN "PENDING" ELSE "FAILED"

\* Fault: failures are not propagated to the reducer.
Propagated_No(st) == st

\* _propagate_failures: a waiting reducer of a failed partition fails.
Propagated(st) ==
    [j \in Jobs |-> IF st[j] = "PENDING" /\ \E c \in PartsOf[j] : st[c] = "FAILED"
                    THEN "FAILED" ELSE st[j]]

\* The statuses after the expired reservations are recovered.
Recovered ==
    Propagated([j \in Jobs |-> IF j \in Expired THEN AfterAttempt(j) ELSE status[j]])

\* Fault: dependencies are not looked at.
Ready_Alone(st) == {j \in Jobs : st[j] = "PENDING"}

Ready(st) ==
    {j \in Jobs : st[j] = "PENDING" /\ \A c \in PartsOf[j] : st[c] = "SUCCEEDED"}

\* ORDER BY created_at, job_id: rows of one submission share created_at and
\* their job_id is random, so any of them may come first.
Oldest(S) == {j \in S : \A k \in S : created[j] <= created[k]}

Cleared(column, S) == [j \in Jobs |-> IF j \in S THEN Null ELSE column[j]]

\* Nothing can be reserved; the recovery is committed all the same.
ClaimNothing(w) ==
    /\ pc[w] = "idle"
    /\ Ready(Recovered) = {}
    /\ status' = Recovered
    /\ owner' = Cleared(owner, Expired)
    /\ token' = Cleared(token, Expired)
    /\ lease' = Cleared(lease, Expired)
    /\ UNCHANGED <<attempts, created, result, graphs, stamps, issued, processes>>

\* The oldest ready job is reserved, and the heartbeat thread starts.
ClaimJob(w, j) ==
    /\ pc[w] = "idle"
    /\ j \in Oldest(Ready(Recovered))
    /\ status' = [Recovered EXCEPT ![j] = "RUNNING"]
    /\ attempts' = [attempts EXCEPT ![j] = @ + 1]
    /\ issued' = [issued EXCEPT ![j] = @ + 1]
    /\ owner' = [Cleared(owner, Expired) EXCEPT ![j] = IdOf[w]]
    /\ token' = [Cleared(token, Expired) EXCEPT ![j] = issued'[j]]
    /\ lease' = [Cleared(lease, Expired) EXCEPT ![j] = LeaseTicks]
    /\ Begins(w, [job |-> j, token |-> issued'[j]])
    /\ UNCHANGED <<created, result, graphs, stamps>>

-----------------------------------------------------------------------------
(* The reservation as the repository sees it: _require_active.             *)

\* Faults: the token, or the lease, is not compared.
Holds_ByName(w) ==
    LET j == claim[w].job IN
    status[j] = "RUNNING" /\ owner[j] = IdOf[w] /\ lease[j] # Null /\ lease[j] > 0

Holds_Untimed(w) ==
    LET j == claim[w].job IN
    status[j] = "RUNNING" /\ owner[j] = IdOf[w] /\ token[j] = claim[w].token

Holds(w) ==
    LET j == claim[w].job IN
    /\ status[j] = "RUNNING"
    /\ owner[j] = IdOf[w]
    /\ token[j] = claim[w].token
    /\ lease[j] # Null /\ lease[j] > 0

\* renew(), from the heartbeat thread.  A stale claim ends the thread and is
\* remembered; a thread that was told to stop ends after this call.
Renew(w) ==
    /\ pc[w] \in Beating /\ beat[w] = "on"
    /\ \/ /\ Holds(w)
          /\ lease' = [lease EXCEPT ![claim[w].job] = LeaseTicks]
          /\ beat' = [beat EXCEPT ![w] = IF pc[w] \in Stopping THEN "off" ELSE "on"]
       \/ /\ ~ Holds(w)
          /\ beat' = [beat EXCEPT ![w] = "failed"]
          /\ UNCHANGED lease
    /\ UNCHANGED <<status, attempts, created, owner, token, result, graphs,
                   stamps, issued, pc, claim, built>>

\* renew() raises without reaching the table: database is locked.
RenewError(w) ==
    /\ pc[w] \in Beating /\ beat[w] = "on"
    /\ beat' = [beat EXCEPT ![w] = "failed"]
    /\ UNCHANGED <<columns, graphs, stamps, issued, pc, claim, built>>

-----------------------------------------------------------------------------
(* run_once, after the claim.                                              *)

Quiet == UNCHANGED <<columns, stamps, issued>>

Build(w)     == BuildGraph(w) /\ Quiet
BodyError(w) == BodyRaises(w) /\ Quiet
Save(w)      == SaveGraph(w) /\ Quiet
Join(w)      == JoinBeat(w) /\ Quiet
Unwind(w)    == Unwinds(w) /\ Quiet

\* Fault: complete() does not look at the lease.
Complete_Late(w) ==
    LET j == claim[w].job IN
    /\ pc[w] = "publish"
    /\ \/ /\ Holds_Untimed(w)
          /\ status' = [status EXCEPT ![j] = "SUCCEEDED"]
          /\ result' = [result EXCEPT ![j] = claim[w]]
          /\ owner' = Cleared(owner, {j})
          /\ token' = Cleared(token, {j})
          /\ lease' = Cleared(lease, {j})
          /\ Goes(w, "confirm")
          /\ UNCHANGED <<claim, built, beat>>
       \/ /\ ~ Holds_Untimed(w)
          /\ Forgets(w, "idle")
          /\ UNCHANGED <<status, result, owner, token, lease>>
    /\ UNCHANGED <<attempts, created, graphs, stamps, issued>>

\* complete(): the row is closed under this claim, or the claim is stale and
\* run_once drops the result without a word.
Complete(w) ==
    LET j == claim[w].job IN
    /\ pc[w] = "publish"
    /\ \/ /\ Holds(w)
          /\ status' = [status EXCEPT ![j] = "SUCCEEDED"]
          /\ result' = [result EXCEPT ![j] = claim[w]]
          /\ owner' = Cleared(owner, {j})
          /\ token' = Cleared(token, {j})
          /\ lease' = Cleared(lease, {j})
          /\ Goes(w, "confirm")
          /\ UNCHANGED <<claim, built, beat>>
       \/ /\ ~ Holds(w)
          /\ Forgets(w, "idle")
          /\ UNCHANGED <<status, result, owner, token, lease>>
    /\ UNCHANGED <<attempts, created, graphs, stamps, issued>>

\* The transaction of complete() is rolled back, or it is committed and the
\* get() that follows it raises.  The handler cannot tell one from the other.
CompleteError(w) ==
    /\ pc[w] \in {"publish", "confirm"}
    /\ Goes(w, "failing")
    /\ UNCHANGED <<columns, graphs, stamps, issued, claim, built, beat>>

Confirm(w) ==
    /\ pc[w] = "confirm"
    /\ Forgets(w, "idle")
    /\ UNCHANGED <<columns, graphs, stamps, issued>>

\* fail(retryable=True): back to the queue or given up, and a reducer that
\* waits for a job given up fails in the same transaction.
Fail(w) ==
    LET j == claim[w].job IN
    /\ pc[w] = "failing"
    /\ \/ /\ Holds(w)
          /\ status' = Propagated([status EXCEPT ![j] = AfterAttempt(j)])
          /\ owner' = Cleared(owner, {j})
          /\ token' = Cleared(token, {j})
          /\ lease' = Cleared(lease, {j})
       \/ /\ ~ Holds(w)
          /\ UNCHANGED <<status, owner, token, lease>>
    /\ Forgets(w, "idle")
    /\ UNCHANGED <<attempts, created, result, graphs, stamps, issued>>

-----------------------------------------------------------------------------
(* Processes and time.                                                     *)

Crash(w)   == Dies(w) /\ Quiet
Restart(w) == Starts(w) /\ Quiet

\* One tick of the clock every process reads.
Tick ==
    /\ \E j \in Jobs : lease[j] # Null /\ lease[j] > 0
    /\ lease' = [j \in Jobs |->
                    IF lease[j] # Null /\ lease[j] > 0 THEN lease[j] - 1 ELSE lease[j]]
    /\ UNCHANGED <<status, attempts, created, owner, token, result, graphs,
                   stamps, issued, processes>>

\* The main thread of a worker, errors included.
Claim(w) == ClaimNothing(w) \/ \E j \in Jobs : ClaimJob(w, j)
Body(w)  == Build(w) \/ BodyError(w) \/ Save(w) \/ Join(w) \/ Unwind(w)
Finish(w) == Complete(w) \/ CompleteError(w) \/ Confirm(w) \/ Fail(w)
Run(w)   == Claim(w) \/ Body(w) \/ Finish(w)

Next ==
    \/ \E r \in Roots : ReadClock(r) \/ Store(r)
    \/ \E w \in Workers : Run(w) \/ Renew(w) \/ RenewError(w)
    \/ \E w \in Workers : Crash(w) \/ Restart(w)
    \/ Tick

Spec == Init /\ [][Next]_vars

-----------------------------------------------------------------------------
(* Safety.                                                                 *)

\* Two processes never both pass _require_active for one job, whatever their
\* worker_id: a lapsed claim cannot come back beside the claim that replaced it.
OneHolder ==
    \A v, w \in Workers :
        /\ v # w
        /\ Working(v) /\ Working(w)
        /\ claim[v].job = claim[w].job
        => ~ (Holds(v) /\ Holds(w))

\* The result of a job is the graph its LAST reservation built: what a worker
\* that lost its lease has saved is never published over or instead of it.
LastClaimPublishes ==
    \A j \in Jobs :
        result[j] # Null => result[j] = [job |-> j, token |-> issued[j]]

\* No transaction leaves a reducer waiting for a partition already given up.
NoVainWait ==
    \A j \in Jobs : status[j] = "PENDING" =>
        \A c \in PartsOf[j] : status[c] # "FAILED"

\* A job is given up only after all its attempts, or for a partition that was.
GivenUpForCause ==
    \A j \in Jobs : status[j] = "FAILED" =>
        \/ attempts[j] = MaxAttempts
        \/ \E c \in PartsOf[j] : status[c] = "FAILED"

Row(j) == <<status[j], attempts[j], owner[j], token[j], lease[j], result[j]>>

\* A reservation whose lease has run out is neither renewed nor completed nor failed,
\* also if nobody has recovered it yet: the row changes in claim_next and nowhere else,
\* which ends that reservation and publishes nothing.
LapsedStaysLapsed ==
    [][\A j \in Jobs : lease[j] = 0 =>
          IF \E w \in Workers : Claim(w)
            THEN /\ lease'[j] = Null \/ token'[j] # token[j]
                 /\ result'[j] = result[j]
            ELSE UNCHANGED Row(j)]_vars

\* A worker that failed one renewal does not publish under that claim.
FailedBeatVetoes == [][NoPublishAfterFailedBeat]_vars

-----------------------------------------------------------------------------
(* Refinement and liveness.                                                *)

Contract == INSTANCE JobContract

\* What get() shows of this repository follows the contract.
KeepsContract == Contract!ContractSpec

\* Time passes.  A worker that is alive goes on: worker_cli polls in a loop, a
\* build is a finite computation, every database call ends or raises.  Nothing
\* is assumed of the API, of renewals, of crashes or of restarts.
FairSpec ==
    /\ Spec
    /\ WF_vars(Tick)
    /\ \A w \in Workers : WF_vars(Run(w))

\* Every job stored ends, whoever crashes, as long as one worker keeps polling.
EveryJobSettles ==
    \A j \in Jobs : status[j] # "ABSENT" ~> status[j] \in Terminal
=============================================================================
