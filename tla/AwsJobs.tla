------------------------------ MODULE AwsJobs ------------------------------
(***************************************************************************)
(* The AWS deployment: jobs in a DynamoDB table, messages in an SQS queue, *)
(* graphs in S3, workers on EC2 instances and one or more reconcilers.     *)
(*                                                                         *)
(*   almacenamiento/aws_storage.py   AWSJobRepository, S3GraphRepository   *)
(*   trabajos/aws_worker.py          the two endless loops                 *)
(*   module GraphWorker              run_once and its renewal thread       *)
(*                                                                         *)
(* "DynamoDB is authoritative; SQS messages are disposable hints."  There  *)
(* are no transactions over several calls here: every change of a row is a *)
(* consistent read followed, any time later, by a put conditioned on the   *)
(* revision that was read.  Instead of counting revisions the model keeps  *)
(* the set of readers whose row nobody has replaced since.                 *)
(*                                                                         *)
(* A call may fail, and a put may be applied while its caller is told that *)
(* it failed: the answer was lost, or the client retried and met its own   *)
(* first attempt.  Left out: error texts, dates, S3 objects of the input   *)
(* words, and the receipts of messages (a worker has one while it renews). *)
(***************************************************************************)
EXTENDS GraphWorker, FiniteSets

CONSTANTS
    LeaseTicks,     \* --lease-seconds, in ticks of the model's clock
    Reconcilers     \* one for each row a reconcile call may have in its hands:
                    \* a call reads a page of rows and handles them in turn

ASSUME AwsAssumption ==
    /\ LeaseTicks \in Nat \ {0}
    /\ Reconcilers \cap Workers = {}
    /\ Null \notin Statuses

VARIABLES
    attempts, owner, token, lease,  \* with status and result, the table
    queue,      \* the jobs with at least one message in SQS
    hand,       \* hand[r]: the row a reconciler read, as it was then
    fresh       \* the readers whose row nobody has replaced since they read it

columns == <<status, attempts, owner, token, lease, result>>
vars    == <<columns, graphs, queue, hand, fresh, processes>>

\* More steps than every worker has:
\*   claiming    claim_next read a ready row and is about to replace it
\*   publishing  complete() read the row and is about to replace it
\*   returning   fail() read the row and is about to replace it
Steps == {"idle", "claiming", "build", "save", "join", "unwind", "publish",
          "publishing", "failing", "returning", "down"}

\* What claim_next wants before it has reserved anything: there is no token yet.
Wanted == [job : Jobs, token : {Null}]

Rows == [job : Jobs, status : Statuses]
NoRow == [job |-> Null, status |-> Null]

TypeOK ==
    /\ status \in [Jobs -> Statuses]
    /\ attempts \in [Jobs -> Nat]
    /\ owner \in [Jobs -> WorkerIds \cup {Null}]
    /\ token \in [Jobs -> Nat \cup {Null}]
    /\ lease \in [Jobs -> 0..LeaseTicks \cup {Null}]
    /\ result \in [Jobs -> Claims \cup {Null}]
    /\ graphs \subseteq GraphRows
    /\ queue \subseteq Jobs
    /\ hand \in [Reconcilers -> Rows \cup {NoRow}]
    /\ fresh \subseteq Workers \cup Reconcilers
    /\ pc \in [Workers -> Steps]
    /\ claim \in [Workers -> Claims \cup Wanted \cup {NoClaim}]
    /\ built \in [Workers -> SUBSET Jobs]
    /\ beat \in [Workers -> Beats]

Init ==
    /\ status = [j \in Jobs |-> "ABSENT"]
    /\ attempts = [j \in Jobs |-> 0]
    /\ owner = [j \in Jobs |-> Null]
    /\ token = [j \in Jobs |-> Null]
    /\ lease = [j \in Jobs |-> Null]
    /\ result = [j \in Jobs |-> Null]
    /\ queue = {}
    /\ hand = [r \in Reconcilers |-> NoRow]
    /\ fresh = {}
    /\ ProcessesInit

-----------------------------------------------------------------------------
(* Reading and replacing a row.                                            *)

\* The job whose row a reader has read.
RowOf(t) == IF t \in Workers THEN claim[t].job ELSE hand[t].job

Reads(t) == fresh' = fresh \cup {t}

\* The read was useless: an error, or nothing to replace.
Drops(t) == fresh' = fresh \ {t}

\* Fault: the put has no condition.
Current_Always(t) == TRUE

\* ConditionExpression "revision = :r": nobody replaced the row since t read it.
Current(t) == t \in fresh

\* The put is applied, and everyone else who read the row is stale.
Replaces(t) == Current(t) /\ fresh' = {s \in fresh : RowOf(s) # RowOf(t)}

\* delete_message takes away one message of the job, perhaps not the last, and
\* may fail.
Acknowledges(j) == queue' \in {queue, queue \ {j}}

-----------------------------------------------------------------------------
(* The API: create and create_partitioned_build.                           *)

\* The rows of a submission are put in one transaction, on condition that they
\* do not exist; a repeated key finds them.  No message is sent.
Store(r) ==
    /\ status[r] = "ABSENT"
    /\ status' = [j \in Jobs |->
                     IF j \in Submission(r) THEN "PENDING" ELSE status[j]]
    /\ UNCHANGED <<attempts, owner, token, lease, result, graphs, queue, hand,
                   fresh, processes>>

-----------------------------------------------------------------------------
(* claim_next.                                                             *)

\* _ready reads the dependencies one at a time; SUCCEEDED is for ever, so one
\* step reads them all.
Ready(j) == status[j] = "PENDING" /\ \A c \in PartsOf[j] : status[c] = "SUCCEEDED"

\* A message about a job that has ended is deleted.  One about a job that is
\* not ready is left to reappear, which changes nothing.
Dismiss(w, j) ==
    /\ pc[w] = "idle" /\ j \in queue
    /\ status[j] \in Terminal
    /\ Acknowledges(j)
    /\ UNCHANGED <<columns, graphs, hand, fresh, processes>>

\* A message is received and its job is ready.  It stays in the queue: its
\* visibility timeout may end, and a standard queue may deliver it twice.
Receive(w, j) ==
    /\ pc[w] = "idle" /\ j \in queue
    /\ Ready(j)
    /\ Goes(w, "claiming")
    /\ claim' = [claim EXCEPT ![w] = [job |-> j, token |-> Null]]
    /\ Reads(w)
    /\ UNCHANGED <<columns, graphs, queue, hand, built, beat>>

\* The row is reserved under a token only this put can store, so attempts
\* numbers the tokens.  The clock was read before the put, and the lease is cut
\* to whole seconds: what is left of it by now may be anything.  A worker that
\* is not told of its success, or cannot read the words, leaves a reservation
\* behind that nobody holds.
Reserve(w) ==
    LET j == claim[w].job IN
    /\ pc[w] = "claiming"
    /\ Replaces(w)
    /\ status' = [status EXCEPT ![j] = "RUNNING"]
    /\ attempts' = [attempts EXCEPT ![j] = @ + 1]
    /\ token' = [token EXCEPT ![j] = attempts'[j]]
    /\ owner' = [owner EXCEPT ![j] = IdOf[w]]
    /\ \E left \in 0..LeaseTicks : lease' = [lease EXCEPT ![j] = left]
    /\ Begins(w, [job |-> j, token |-> attempts'[j]]) \/ Forgets(w, "idle")
    /\ UNCHANGED <<result, graphs, queue, hand>>

\* The put is refused or fails: nothing was claimed.
ReserveFails(w) ==
    /\ pc[w] = "claiming"
    /\ Drops(w)
    /\ Forgets(w, "idle")
    /\ UNCHANGED <<columns, graphs, queue, hand>>

-----------------------------------------------------------------------------
(* The reservation as its holder sees it.                                  *)

\* Fault: the token is not compared.
Holds_ByName(w) ==
    LET j == claim[w].job IN
    status[j] = "RUNNING" /\ owner[j] = IdOf[w] /\ lease[j] # Null /\ lease[j] > 0

Holds(w) ==
    LET j == claim[w].job IN
    /\ status[j] = "RUNNING"
    /\ token[j] = claim[w].token
    /\ owner[j] = IdOf[w]
    /\ lease[j] # Null /\ lease[j] > 0

\* renew() reads the row; a stale claim, or an error, ends the thread.
RenewRead(w) ==
    /\ pc[w] \in Beating /\ beat[w] = "on"
    /\ \/ /\ Holds(w)
          /\ beat' = [beat EXCEPT ![w] = "renewing"]
          /\ Reads(w)
       \/ /\ beat' = [beat EXCEPT ![w] = "failed"]
          /\ UNCHANGED fresh
    /\ UNCHANGED <<columns, graphs, queue, hand, pc, claim, built>>

\* renew() replaces it, perhaps after the old lease ran out.  The thread goes
\* on, or was told to stop, or is not told of its success.
RenewWrite(w) ==
    /\ beat[w] = "renewing"
    /\ Replaces(w)
    /\ \E left \in 0..LeaseTicks : lease' = [lease EXCEPT ![claim[w].job] = left]
    /\ beat' \in {[beat EXCEPT ![w] = IF pc[w] \in Stopping THEN "off" ELSE "on"],
                  [beat EXCEPT ![w] = "failed"]}
    /\ UNCHANGED <<status, attempts, owner, token, result, graphs, queue, hand,
                   pc, claim, built>>

\* change_message_visibility or the put fails.
RenewFails(w) ==
    /\ beat[w] = "renewing"
    /\ Drops(w)
    /\ beat' = [beat EXCEPT ![w] = "failed"]
    /\ UNCHANGED <<columns, graphs, queue, hand, pc, claim, built>>

-----------------------------------------------------------------------------
(* run_once, after the claim.                                              *)

Quiet == UNCHANGED <<columns, queue, hand, fresh>>

Build(w)     == BuildGraph(w) /\ Quiet
BodyError(w) == BodyRaises(w) /\ Quiet
Save(w)      == SaveGraph(w) /\ Quiet
Join(w)      == JoinBeat(w) /\ Quiet
Unwind(w)    == Unwinds(w) /\ Quiet

\* S3 stored the graph and the worker is told that it did not.
SaveUntold(w) ==
    /\ pc[w] = "save"
    /\ graphs' = graphs \cup {[id |-> claim[w], holds |-> built[w]]}
    /\ Goes(w, "unwind")
    /\ UNCHANGED <<columns, queue, hand, fresh, claim, built, beat>>

\* _finish, for complete() and for fail(), reads the row; a stale claim is
\* dropped without a word.
FinishRead(w) ==
    /\ pc[w] \in {"publish", "failing"}
    /\ \/ /\ Holds(w)
          /\ Goes(w, IF pc[w] = "publish" THEN "publishing" ELSE "returning")
          /\ Reads(w)
          /\ UNCHANGED <<claim, built, beat>>
       \/ /\ ~ Holds(w)
          /\ Forgets(w, "idle")
          /\ UNCHANGED fresh
    /\ UNCHANGED <<columns, graphs, queue, hand>>

\* complete() records the result and deletes the message.  A worker that is not
\* told of its success goes to the handler, or takes itself for stale.
Publish(w) ==
    LET j == claim[w].job IN
    /\ pc[w] = "publishing"
    /\ Replaces(w)
    /\ status' = [status EXCEPT ![j] = "SUCCEEDED"]
    /\ result' = [result EXCEPT ![j] = claim[w]]
    /\ \/ Forgets(w, "idle") /\ Acknowledges(j)
       \/ Goes(w, "failing") /\ UNCHANGED <<claim, built, beat, queue>>
    /\ UNCHANGED <<attempts, owner, token, lease, graphs, hand>>

\* A call of complete() raises: the handler tries fail().
PublishFails(w) ==
    /\ pc[w] \in {"publish", "publishing"}
    /\ Drops(w)
    /\ Goes(w, "failing")
    /\ UNCHANGED <<columns, graphs, queue, hand, claim, built, beat>>

\* Fault: the last attempt is never used.
AfterAttempt_LastLost(j) == IF attempts[j] + 1 < MaxAttempts THEN "PENDING" ELSE "FAILED"

\* A row goes back to the queue while it has attempts left.
AfterAttempt(j) == IF attempts[j] < MaxAttempts THEN "PENDING" ELSE "FAILED"

\* fail(retryable=True) gives the job back or up, and deletes the message even
\* so: that the job runs again is up to a reconciler.
Return(w) ==
    LET j == claim[w].job IN
    /\ pc[w] = "returning"
    /\ Replaces(w)
    /\ status' = [status EXCEPT ![j] = AfterAttempt(j)]
    /\ result' = [result EXCEPT ![j] = Null]
    /\ Acknowledges(j)
    /\ Forgets(w, "idle")
    /\ UNCHANGED <<attempts, owner, token, lease, graphs, hand>>

\* A claim that is stale by now, or an error in fail() or complete(): run_once
\* returns or raises, and either way the loop of aws_worker goes on.
FinishFails(w) ==
    /\ \/ pc[w] = "publishing" /\ ~ Current(w)
       \/ pc[w] \in {"failing", "returning"}
    /\ Drops(w)
    /\ Forgets(w, "idle")
    /\ UNCHANGED <<columns, graphs, queue, hand>>

-----------------------------------------------------------------------------
(* reconcile.                                                              *)

LetsGo(r) == hand' = [hand EXCEPT ![r] = NoRow]

\* Fault: only reservations that ran out are looked at.
Scan_Lapsed(r, j) ==
    /\ hand[r] = NoRow
    /\ status[j] = "RUNNING" /\ lease[j] = 0
    /\ hand' = [hand EXCEPT ![r] = [job |-> j, status |-> status[j]]]
    /\ Reads(r)
    /\ UNCHANGED <<columns, graphs, queue, processes>>

\* A row that needs attention is read.  A row read RUNNING whose lease runs out
\* before it is handled counts as read then: if it changed, its put is refused.
Scan(r, j) ==
    /\ hand[r] = NoRow
    /\ status[j] = "PENDING" \/ (status[j] = "RUNNING" /\ lease[j] = 0)
    /\ hand' = [hand EXCEPT ![r] = [job |-> j, status |-> status[j]]]
    /\ Reads(r)
    /\ UNCHANGED <<columns, graphs, queue, processes>>

\* The reservation ran out.  The call goes on with the row it has put, unless it
\* is done with it or is not told of its success.
Expire(r) ==
    LET j == hand[r].job IN
    /\ hand[r].status = "RUNNING"
    /\ status' = [status EXCEPT ![j] = AfterAttempt(j)]
    /\ \/ LetsGo(r) /\ Replaces(r)
       \/ /\ status'[j] = "PENDING"
          /\ hand' = [hand EXCEPT ![r].status = "PENDING"]
          /\ Current(r)
          /\ fresh' = {s \in fresh : RowOf(s) # j} \cup {r}
    /\ UNCHANGED <<attempts, owner, token, lease, result, graphs, queue,
                   processes>>

\* The reducer waits for a partition that has been given up.
GiveUp(r) ==
    LET j == hand[r].job IN
    /\ hand[r].status = "PENDING"
    /\ \E c \in PartsOf[j] : status[c] = "FAILED"
    /\ Replaces(r)
    /\ status' = [status EXCEPT ![j] = "FAILED"]
    /\ LetsGo(r)
    /\ UNCHANGED <<attempts, owner, token, lease, result, graphs, queue,
                   processes>>

\* A job that was read PENDING, and is ready, is announced again.
Announce(r) ==
    LET j == hand[r].job IN
    /\ hand[r].status = "PENDING"
    /\ \A c \in PartsOf[j] : status[c] = "SUCCEEDED"
    /\ queue' = queue \cup {j}
    /\ LetsGo(r)
    /\ Drops(r)
    /\ UNCHANGED <<columns, graphs, processes>>

\* Nothing to do, a put that is refused, an error, or the end of the process.
Skip(r) ==
    /\ hand[r] # NoRow
    /\ LetsGo(r)
    /\ Drops(r)
    /\ UNCHANGED <<columns, graphs, queue, processes>>

-----------------------------------------------------------------------------
(* Processes, time and messages.                                           *)

Crash(w)   == Dies(w) /\ Drops(w) /\ UNCHANGED <<columns, queue, hand>>
Restart(w) == Starts(w) /\ Quiet

\* One tick of the clock every process reads.
Tick ==
    /\ \E j \in Jobs : lease[j] # Null /\ lease[j] > 0
    /\ lease' = [j \in Jobs |->
                    IF lease[j] # Null /\ lease[j] > 0 THEN lease[j] - 1 ELSE lease[j]]
    /\ UNCHANGED <<status, attempts, owner, token, result, graphs, queue, hand,
                   fresh, processes>>

\* The last message of a job goes to the dead letters after five deliveries, or
\* is never delivered.
Lose(j) ==
    /\ j \in queue
    /\ queue' = queue \ {j}
    /\ UNCHANGED <<columns, graphs, hand, fresh, processes>>

\* What a worker does once it has read a message, errors included.
Claiming(w) == Reserve(w) \/ ReserveFails(w)
Body(w)   == Build(w) \/ BodyError(w) \/ Save(w) \/ SaveUntold(w) \/ Join(w) \/ Unwind(w)
Finish(w) == FinishRead(w) \/ Publish(w) \/ PublishFails(w) \/ Return(w) \/ FinishFails(w)
Work(w)   == Claiming(w) \/ Body(w) \/ Finish(w)
Renewal(w) == RenewWrite(w) \/ RenewFails(w)

Next ==
    \/ \E r \in Roots : Store(r)
    \/ \E w \in Workers, j \in Jobs : Dismiss(w, j) \/ Receive(w, j)
    \/ \E w \in Workers : Work(w) \/ RenewRead(w) \/ Renewal(w)
    \/ \E r \in Reconcilers, j \in Jobs : Scan(r, j)
    \/ \E r \in Reconcilers : Expire(r) \/ GiveUp(r) \/ Announce(r) \/ Skip(r)
    \/ \E w \in Workers : Crash(w) \/ Restart(w)
    \/ \E j \in Jobs : Lose(j)
    \/ Tick

Spec == Init /\ [][Next]_vars

-----------------------------------------------------------------------------
(* Safety.                                                                 *)

\* Two processes never both pass the check of renew() and _finish for one job,
\* though they share a worker_id: receiving one message twice makes two of them
\* try to reserve the job, and only one can.
OneHolder ==
    \A v, w \in Workers :
        /\ v # w
        /\ Working(v) /\ Working(w)
        /\ claim[v].job = claim[w].job
        => ~ (Holds(v) /\ Holds(w))

\* The result of a job is the graph its last reservation built, whatever late
\* puts, duplicated messages and recovered leases there were.
LastClaimPublishes ==
    \A j \in Jobs :
        result[j] # Null => result[j] = [job |-> j, token |-> attempts[j]]

\* A job is given up only after all its attempts, or for a partition that was.
GivenUpForCause ==
    \A j \in Jobs : status[j] = "FAILED" =>
        \/ attempts[j] = MaxAttempts
        \/ \E c \in PartsOf[j] : status[c] = "FAILED"

\* A reservation is taken from its worker only once its lease has run out, even
\* when a renewal lands between a reconciler's scan and its put.
OnlyLapsedAreTaken ==
    [][\A j \in Jobs :
          status[j] = "RUNNING" /\ status'[j] \in {"PENDING", "FAILED"} =>
              \/ lease[j] = 0
              \/ \E w \in Workers :
                    pc[w] = "returning" /\ claim[w] = [job |-> j, token |-> token[j]]]_vars

\* A worker that failed one renewal does not publish under that claim.
FailedBeatVetoes == [][NoPublishAfterFailedBeat]_vars

-----------------------------------------------------------------------------
(* Refinement and liveness.                                                *)

Contract == INSTANCE JobContract

\* What get() shows of this repository follows the contract, as in SQLite.
KeepsContract == Contract!ContractSpec

\* Time passes; every process that is alive goes on; AWS does not fail for ever:
\* a call that is tried again and again is applied some day, every row is scanned
\* again and again by a reconciler, and a message that is sent again and again is
\* received by a worker that nothing stops.
FairSpec ==
    /\ Spec
    /\ WF_vars(Tick)
    /\ \A w \in Workers : WF_vars(Work(w)) /\ WF_vars(Renewal(w))
    /\ \A w \in Reliable :
        /\ \A j \in Jobs : SF_vars(Receive(w, j))
        /\ SF_vars(Reserve(w))
    /\ \A r \in Reconcilers :
        /\ \A j \in Jobs : SF_vars(Scan(r, j))
        /\ WF_vars(Skip(r))
        /\ SF_vars(Expire(r)) /\ SF_vars(GiveUp(r)) /\ SF_vars(Announce(r))

\* Every job stored ends, though no message of it was ever sent at submission,
\* or all of them were lost.
EveryJobSettles ==
    \A j \in Jobs : status[j] # "ABSENT" ~> status[j] \in Terminal
=============================================================================
