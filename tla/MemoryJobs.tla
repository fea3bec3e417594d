----------------------------- MODULE MemoryJobs -----------------------------
(***************************************************************************)
(* InMemoryJobRepository of trabajos/jobs.py: the jobs of one process,     *)
(* shared by the threads of the API and of its workers.                    *)
(*                                                                         *)
(* Every method runs under one lock and is one action.  Jobs wait in a     *)
(* deque, and the order of the deque is the order of the reservations.     *)
(* There are no partitioned builds, and nothing survives the process, so   *)
(* there are no crashes either: what remains are leases that run out, the  *)
(* renewal threads and errors in the computation.                          *)
(***************************************************************************)
EXTENDS GraphWorker, FiniteSets, Sequences

CONSTANT LeaseTicks     \* lease_seconds, in ticks of the model's clock

ASSUME MemoryAssumption ==
    /\ LeaseTicks \in Nat \ {0}
    /\ \A j \in Jobs : PartsOf[j] = {}
    /\ IsFiniteSet(Jobs)

VARIABLES
    attempts, owner, token, lease,  \* with status and result, the records
    pending     \* the deque of job ids

columns == <<status, attempts, owner, token, lease, result>>
vars    == <<columns, graphs, pending, processes>>

Steps == {"idle", "build", "save", "join", "unwind", "publish", "failing"}

TypeOK ==
    /\ status \in [Jobs -> Statuses]
    /\ attempts \in [Jobs -> 0..MaxAttempts]
    /\ owner \in [Jobs -> WorkerIds \cup {Null}]
    /\ token \in [Jobs -> Nat \cup {Null}]
    /\ lease \in [Jobs -> 0..LeaseTicks \cup {Null}]
    /\ result \in [Jobs -> Claims \cup {Null}]
    /\ graphs \subseteq GraphRows
    /\ pending \in Seq(Jobs)
    /\ pc \in [Workers -> Steps]
    /\ claim \in [Workers -> Claims \cup {NoClaim}]
    /\ built \in [Workers -> SUBSET Jobs]
    /\ beat \in [Workers -> Beats \ {"renewing"}]

Init ==
    /\ status = [j \in Jobs |-> "ABSENT"]
    /\ attempts = [j \in Jobs |-> 0]
    /\ owner = [j \in Jobs |-> Null]
    /\ token = [j \in Jobs |-> Null]
    /\ lease = [j \in Jobs |-> Null]
    /\ result = [j \in Jobs |-> Null]
    /\ pending = <<>>
    /\ ProcessesInit

\* Any order in which the members of S may be appended: job ids are random.
InSomeOrder(S) ==
    {s \in [1..Cardinality(S) -> S] : \A j \in S : \E i \in DOMAIN s : s[i] = j}

Cleared(column, S) == [j \in Jobs |-> IF j \in S THEN Null ELSE column[j]]

-----------------------------------------------------------------------------
\* create: a repeated key finds the record and changes nothing.
Create(j) ==
    /\ status[j] = "ABSENT"
    /\ status' = [status EXCEPT ![j] = "PENDING"]
    /\ pending' = Append(pending, j)
    /\ UNCHANGED <<attempts, owner, token, lease, result, graphs, processes>>

Expired == {j \in Jobs : status[j] = "RUNNING" /\ lease[j] = 0}

\* Fault: a job with no attempts left goes back to the deque.
AfterAttempt_Forever(j) == "PENDING"

\* A record goes back to the deque while it has attempts left.
AfterAttempt(j) == IF attempts[j] < MaxAttempts THEN "PENDING" ELSE "FAILED"

\* _recover_expired: the statuses after it.
Recovered == [j \in Jobs |-> IF j \in Expired THEN AfterAttempt(j) ELSE status[j]]

\* The expired jobs that wait again.
Waiting == {j \in Expired : AfterAttempt(j) = "PENDING"}

\* Fault: what is recovered enters the deque before what waits.
Queues_Front == {s \o pending : s \in InSomeOrder(Waiting)}

\* Fault: every expired job enters the deque, also those given up.
Queues_All == {pending \o s : s \in InSomeOrder(Expired)}

\* The deque after _recover_expired, in one of the orders of the ids.
Queues == {pending \o s : s \in InSomeOrder(Waiting)}

\* What popping until a PENDING job comes out leaves: <<>>, or it and the rest.
Popped(queue) ==
    LET live == {i \in 1..Len(queue) : Recovered[queue[i]] = "PENDING"}
    IN  IF live = {} THEN <<>>
        ELSE SubSeq(queue, CHOOSE i \in live : \A k \in live : i <= k, Len(queue))

\* claim_next.
ClaimNothing(w) ==
    /\ pc[w] = "idle"
    /\ \E queue \in Queues : Popped(queue) = <<>>
    /\ pending' = <<>>
    /\ status' = Recovered
    /\ owner' = Cleared(owner, Expired)
    /\ token' = Cleared(token, Expired)
    /\ lease' = Cleared(lease, Expired)
    /\ UNCHANGED <<attempts, result, graphs, processes>>

ClaimJob(w) ==
    /\ pc[w] = "idle"
    /\ \E queue \in Queues :
          /\ Popped(queue) # <<>>
          /\ pending' = Tail(Popped(queue))
          /\ LET j == Head(Popped(queue)) IN
              /\ status' = [Recovered EXCEPT ![j] = "RUNNING"]
              /\ attempts' = [attempts EXCEPT ![j] = @ + 1]
              /\ owner' = [Cleared(owner, Expired) EXCEPT ![j] = IdOf[w]]
              /\ token' = [Cleared(token, Expired) EXCEPT ![j] = attempts'[j]]
              /\ lease' = [Cleared(lease, Expired) EXCEPT ![j] = LeaseTicks]
              /\ Begins(w, [job |-> j, token |-> attempts'[j]])
    /\ UNCHANGED <<result, graphs>>

-----------------------------------------------------------------------------
\* Fault: the token is not compared.
Holds_ByName(w) ==
    LET j == claim[w].job IN
    status[j] = "RUNNING" /\ owner[j] = IdOf[w] /\ lease[j] # Null /\ lease[j] > 0

\* _active_record.
Holds(w) ==
    LET j == claim[w].job IN
    /\ status[j] = "RUNNING"
    /\ owner[j] = IdOf[w]
    /\ token[j] = claim[w].token
    /\ lease[j] # Null /\ lease[j] > 0

\* renew, from the thread; a stale claim ends it.
Renew(w) ==
    /\ pc[w] \in Beating /\ beat[w] = "on"
    /\ \/ /\ Holds(w)
          /\ lease' = [lease EXCEPT ![claim[w].job] = LeaseTicks]
          /\ beat' = [beat EXCEPT ![w] = IF pc[w] \in Stopping THEN "off" ELSE "on"]
       \/ /\ ~ Holds(w)
          /\ beat' = [beat EXCEPT ![w] = "failed"]
          /\ UNCHANGED lease
    /\ UNCHANGED <<status, attempts, owner, token, result, graphs, pending, pc,
                   claim, built>>

Quiet == UNCHANGED <<columns, pending>>

Build(w)     == BuildGraph(w) /\ Quiet
BodyError(w) == BodyRaises(w) /\ Quiet
Save(w)      == SaveGraph(w) /\ Quiet
Join(w)      == JoinBeat(w) /\ Quiet
Unwind(w)    == Unwinds(w) /\ Quiet

\* complete: the record is closed, or the claim is stale and run_once drops the
\* result.
Complete(w) ==
    LET j == claim[w].job IN
    /\ pc[w] = "publish"
    /\ \/ /\ Holds(w)
          /\ status' = [status EXCEPT ![j] = "SUCCEEDED"]
          /\ result' = [result EXCEPT ![j] = claim[w]]
          /\ owner' = Cleared(owner, {j})
          /\ token' = Cleared(token, {j})
          /\ lease' = Cleared(lease, {j})
       \/ /\ ~ Holds(w)
          /\ UNCHANGED <<status, result, owner, token, lease>>
    /\ Forgets(w, "idle")
    /\ UNCHANGED <<attempts, graphs, pending>>

\* fail(retryable=True).
Fail(w) ==
    LET j == claim[w].job IN
    /\ pc[w] = "failing"
    /\ \/ /\ Holds(w)
          /\ status' = [status EXCEPT ![j] = AfterAttempt(j)]
          /\ pending' = IF AfterAttempt(j) = "PENDING" THEN Append(pending, j) ELSE pending
          /\ owner' = Cleared(owner, {j})
          /\ token' = Cleared(token, {j})
          /\ lease' = Cleared(lease, {j})
       \/ /\ ~ Holds(w)
          /\ UNCHANGED <<status, owner, token, lease, pending>>
    /\ Forgets(w, "idle")
    /\ UNCHANGED <<attempts, result, graphs>>

\* One tick of the clock.
Tick ==
    /\ \E j \in Jobs : lease[j] # Null /\ lease[j] > 0
    /\ lease' = [j \in Jobs |->
                    IF lease[j] # Null /\ lease[j] > 0 THEN lease[j] - 1 ELSE lease[j]]
    /\ UNCHANGED <<status, attempts, owner, token, result, graphs, pending,
                   processes>>

Run(w) == \/ ClaimNothing(w) \/ ClaimJob(w)
          \/ Build(w) \/ BodyError(w) \/ Save(w) \/ Join(w) \/ Unwind(w)
          \/ Complete(w) \/ Fail(w)

Next ==
    \/ \E j \in Jobs : Create(j)
    \/ \E w \in Workers : Run(w) \/ Renew(w)
    \/ Tick

Spec == Init /\ [][Next]_vars

-----------------------------------------------------------------------------
\* The deque holds the jobs that wait, each once, and no other: a job is neither
\* forgotten nor reserved twice, and no entry is ever passed over.
QueueExact ==
    /\ {pending[i] : i \in 1..Len(pending)} = {j \in Jobs : status[j] = "PENDING"}
    /\ \A i, k \in 1..Len(pending) : i # k => pending[i] # pending[k]

\* Two threads never both pass _active_record for one job.
OneHolder ==
    \A v, w \in Workers :
        /\ v # w
        /\ Working(v) /\ Working(w)
        /\ claim[v].job = claim[w].job
        => ~ (Holds(v) /\ Holds(w))

\* b is ahead of a in the deque.
Ahead(b, a) ==
    \E i, k \in 1..Len(pending) : i < k /\ pending[i] = b /\ pending[k] = a

\* Nobody overtakes: while a job waits, no job that was not ahead of it is
\* reserved or gets ahead, also not one whose lease ran out or that is tried again.
NoOvertaking ==
    [][\A a, b \in Jobs :
          status[a] = "PENDING" /\ status'[a] = "PENDING" /\ ~ Ahead(b, a)
              => attempts'[b] = attempts[b] /\ ~ Ahead(b, a)']_vars

Contract == INSTANCE JobContract

\* What get() shows of this repository follows the contract, as in the others.
KeepsContract == Contract!ContractSpec
=============================================================================
