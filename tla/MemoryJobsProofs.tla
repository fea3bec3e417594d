-------------------------- MODULE MemoryJobsProofs --------------------------
(***************************************************************************)
(* The safety of the in-memory repository, for any number of jobs,         *)
(* threads, attempts and ticks.                                            *)
(*                                                                         *)
(* At the heart is the deque.  As it holds exactly the jobs that wait      *)
(* (QueueExact), recovery appends jobs that are not in it, claim_next      *)
(* never has to pass over an entry (QueueFacts), and the job it reserves   *)
(* is the one nobody is ahead of (NoOvertakingHolds).                      *)
(***************************************************************************)
EXTENDS MemoryJobs, FiniteSetTheorems, TLAPS

\* A thread has a claim exactly while run_once is under way.
ClaimShape ==
    \A w \in Workers :
        /\ Working(w) => claim[w] \in Claims
        /\ ~ Working(w) => claim[w] = NoClaim
        /\ pc[w] \notin Beating => beat[w] = "off"

\* The fields of a reservation are filled in a RUNNING record and in no other.
RecordShape ==
    \A j \in Jobs :
        /\ IF status[j] = "RUNNING"
           THEN owner[j] # Null /\ token[j] = attempts[j] /\ lease[j] # Null
           ELSE owner[j] = Null /\ token[j] = Null /\ lease[j] = Null
        /\ status[j] # "SUCCEEDED" => result[j] = Null

\* A job that waits has an attempt left, and one that was never reserved has them all.
AttemptsCounted ==
    \A j \in Jobs :
        /\ status[j] = "PENDING" => attempts[j] < MaxAttempts
        /\ status[j] = "ABSENT" => attempts[j] = 0

\* A claim in the hands of a thread was issued, and to no other thread.
ClaimsUnique ==
    \A w \in Workers : Working(w) =>
        /\ claim[w].token <= attempts[claim[w].job]
        /\ \A v \in Workers : Working(v) /\ claim[v] = claim[w] => v = w

IInv ==
    TypeOK /\ ClaimShape /\ RecordShape /\ AttemptsCounted /\ ClaimsUnique /\ QueueExact


-----------------------------------------------------------------------------
(* claim_next.                                                             *)

\* The members of a finite set in some order: each once, and nothing else.
LEMMA InOrder ==
    ASSUME NEW S \in SUBSET Jobs, NEW s \in InSomeOrder(S)
    PROVE  /\ s \in Seq(S)
           /\ \A j \in S : \E i \in 1..Len(s) : s[i] = j
           /\ \A i, k \in 1..Len(s) : i # k => s[i] # s[k]
           /\ Len(s) = 0 <=> S = {}
<1> DEFINE n == Cardinality(S)
<1>1. IsFiniteSet(S) /\ n \in Nat
    BY MemoryAssumption, FS_Subset, FS_CardinalityType
<1>2. n = 0 <=> S = {}
    BY <1>1, FS_EmptySet
<1>3. IsFiniteSet(1..n) /\ Cardinality(1..n) = n
    BY <1>1, FS_Interval
<1>4. s \in [1..n -> S] /\ \A j \in S : \E i \in 1..n : s[i] = j
    BY DEF InSomeOrder
<1>5. s \in Surjection(1..n, S)
    BY <1>4 DEF Surjection
<1>6. s \in Injection(1..n, S)
    BY <1>1, <1>3, <1>5, FS_Surjection
<1>7. \A i, k \in 1..n : i # k => s[i] # s[k]
    BY <1>4, <1>6 DEF Injection, IsInjective
<1> HIDE DEF n
<1>8. s \in Seq(S) /\ Len(s) = n
    BY <1>1, <1>4
<1>. QED
    BY <1>2, <1>4, <1>7, <1>8

\* What _recover_expired does to each record, and which of them wait again.
LEMMA RecoveredFacts ==
    ASSUME TypeOK
    PROVE  /\ Recovered \in [Jobs -> Statuses]
           /\ Waiting = {j \in Expired : attempts[j] < MaxAttempts}
           /\ \A j \in Jobs :
                /\ j \notin Expired => Recovered[j] = status[j]
                /\ j \in Waiting => Recovered[j] = "PENDING"
                /\ j \in Expired \ Waiting => Recovered[j] = "FAILED"
    BY DEF TypeOK, Statuses, Recovered, Waiting, AfterAttempt, Expired

\* After the recovery the deque is as exact as before: it begins with what was
\* in it, and no entry has to be passed over.
LEMMA QueueFacts ==
    ASSUME TypeOK, QueueExact, NEW queue \in Queues
    PROVE  /\ queue \in Seq(Jobs)
           /\ Len(pending) <= Len(queue)
           /\ \A i \in 1..Len(pending) : queue[i] = pending[i]
           /\ \A i \in 1..Len(queue) : i > Len(pending) => queue[i] \in Waiting
           /\ \A j \in Jobs :
                Recovered[j] = "PENDING" <=> \E i \in 1..Len(queue) : queue[i] = j
           /\ \A i, k \in 1..Len(queue) : i # k => queue[i] # queue[k]
           /\ Popped(queue) = queue
<1>1. PICK s \in InSomeOrder(Waiting) : queue = pending \o s
    BY DEF Queues
<1>2. Waiting \subseteq Expired /\ Expired \subseteq Jobs
    BY DEF Waiting, Expired
<1>3. /\ s \in Seq(Waiting)
      /\ \A j \in Waiting : \E i \in 1..Len(s) : s[i] = j
      /\ \A i, k \in 1..Len(s) : i # k => s[i] # s[k]
    BY <1>2, InOrder
<1>4. \A j \in Waiting : status[j] = "RUNNING"
    BY DEF Waiting, Expired
<1>5. /\ pending \in Seq(Jobs)
      /\ \A i \in 1..Len(pending) : pending[i] \in Jobs /\ status[pending[i]] = "PENDING"
      /\ \A j \in Jobs : status[j] = "PENDING" => \E i \in 1..Len(pending) : pending[i] = j
      /\ \A i, k \in 1..Len(pending) : i # k => pending[i] # pending[k]
    BY DEF TypeOK, QueueExact
<1> DEFINE m == Len(pending)
<1> DEFINE n == Len(s)
<1>6. s \in Seq(Jobs) /\ n \in Nat /\ m \in Nat
    BY <1>2, <1>3, <1>5
<1>7. /\ queue \in Seq(Jobs) /\ Len(queue) = m + n
      /\ \A i \in 1..m : queue[i] = pending[i]
      /\ \A i \in 1..(m + n) : i > m => i - m \in 1..n /\ queue[i] = s[i - m]
    BY <1>1, <1>5, <1>6
<1>8. \A i \in 1..n : m + i \in 1..(m + n) /\ queue[m + i] = s[i]
    BY <1>1, <1>5, <1>6
<1>9. \A i \in 1..n : s[i] \in Waiting
    BY <1>3
<1> HIDE DEF m, n
<1>10. \A i \in 1..(m + n) : i > m => queue[i] \in Waiting
    BY <1>7, <1>9
<1>11. ASSUME NEW j \in Jobs
       PROVE  Recovered[j] = "PENDING" <=> \E i \in 1..(m + n) : queue[i] = j
  <2>1. CASE j \in Waiting
    <3>1. PICK i \in 1..n : s[i] = j
      BY <1>3, <2>1 DEF n
    <3>. QED
      BY <1>8, <2>1, <3>1, RecoveredFacts
  <2>2. CASE j \in Expired \ Waiting
    <3>1. Recovered[j] # "PENDING" /\ status[j] # "PENDING"
      BY <2>2, RecoveredFacts DEF Expired
    <3>2. ASSUME NEW i \in 1..(m + n), queue[i] = j
          PROVE  FALSE
      <4>1. CASE i > m
        BY <1>10, <2>2, <3>2, <4>1
      <4>2. CASE i <= m
        BY <1>5, <1>6, <1>7, <3>1, <3>2, <4>2 DEF m
      <4>. QED
        BY <1>6, <4>1, <4>2
    <3>. QED
      BY <3>1, <3>2
  <2>3. CASE j \notin Expired
    <3>1. Recovered[j] = status[j] /\ j \notin Waiting
      BY <1>2, <2>3, RecoveredFacts
    <3>2. CASE status[j] = "PENDING"
      <4>1. PICK i \in 1..m : pending[i] = j
        BY <1>5, <3>2 DEF m
      <4>. QED
        BY <1>6, <1>7, <3>1, <3>2, <4>1
    <3>3. CASE status[j] # "PENDING"
      <4>1. ASSUME NEW i \in 1..(m + n), queue[i] = j
            PROVE  FALSE
        BY <1>5, <1>6, <1>7, <1>10, <3>1, <3>3, <4>1 DEF m
      <4>. QED
        BY <3>1, <3>3, <4>1
    <3>. QED
      BY <3>2, <3>3
  <2>. QED
    BY <1>2, <2>1, <2>2, <2>3
<1>12. ASSUME NEW i \in 1..(m + n), NEW k \in 1..(m + n), i < k
       PROVE  queue[i] # queue[k]
  <2>1. CASE k <= m
    BY <1>5, <1>6, <1>7, <1>12, <2>1 DEF m
  <2>2. CASE i <= m /\ m < k
    <3>1. status[queue[i]] = "PENDING" /\ queue[k] \in Waiting
      BY <1>5, <1>6, <1>7, <1>10, <2>2 DEF m
    <3>. QED
      BY <1>4, <3>1
  <2>3. CASE m < i
    <3>1. i - m \in 1..n /\ k - m \in 1..n /\ i - m # k - m
      BY <1>6, <1>7, <1>12, <2>3
    <3>2. queue[i] = s[i - m] /\ queue[k] = s[k - m]
      BY <1>6, <1>7, <1>12, <2>3
    <3>. QED
      BY <1>3, <3>1, <3>2 DEF n
  <2>. QED
    BY <1>6, <2>1, <2>2, <2>3
<1>13. \A i, k \in 1..(m + n) : i # k => queue[i] # queue[k]
    BY <1>6, <1>12
<1>14. Popped(queue) = queue
  <2>1. \A i \in 1..Len(queue) : Recovered[queue[i]] = "PENDING"
    BY <1>6, <1>7, <1>11
  <2>2. {i \in 1..Len(queue) : Recovered[queue[i]] = "PENDING"} = 1..Len(queue)
    BY <2>1
  <2>3. CASE queue = <<>>
    BY <2>2, <2>3 DEF Popped
  <2>4. CASE queue # <<>>
    <3>1. Len(queue) \in Nat /\ Len(queue) >= 1
      BY <1>7, <2>4
    <3>2. (CHOOSE i \in 1..Len(queue) : \A k \in 1..Len(queue) : i <= k) = 1
      BY <3>1
    <3>3. 1..Len(queue) # {}
      BY <3>1
    <3>4. Popped(queue) = SubSeq(queue, 1, Len(queue))
      BY <2>2, <3>2, <3>3 DEF Popped
    <3>. QED
      BY <1>7, <3>4
  <2>. QED
    BY <2>3, <2>4
<1>15. Len(queue) = m + n /\ Len(pending) = m /\ m <= m + n
    BY <1>6, <1>7 DEF m
<1>. QED
    BY <1>7, <1>10, <1>11, <1>13, <1>14, <1>15

\* What claim_next does when nothing waits: only the recovery, of jobs that are
\* given up.
LEMMA NothingFacts ==
    ASSUME IInv, NEW w \in Workers, ClaimNothing(w)
    PROVE  /\ pending = <<>> /\ pending' = <<>>
           /\ \A j \in Jobs : Recovered[j] # "PENDING"
           /\ status' = Recovered
<1>. USE DEF IInv
<1>1. PICK queue \in Queues : Popped(queue) = <<>>
    BY DEF ClaimNothing
<1>2. queue = <<>>
    BY <1>1, QueueFacts
<1>3. Len(queue) = 0 /\ Len(pending) = 0
    BY <1>2, QueueFacts DEF TypeOK
<1>4. \A j \in Jobs : Recovered[j] # "PENDING"
    BY <1>3, QueueFacts
<1>. QED
    BY <1>3, <1>4 DEF ClaimNothing, TypeOK

\* What claim_next does otherwise: it reserves the first job of the deque, which
\* has an attempt left.
LEMMA ClaimFacts ==
    ASSUME IInv, NEW w \in Workers, ClaimJob(w)
    PROVE  \E queue \in Queues : \E j \in Jobs :
              /\ queue # <<>> /\ j = queue[1] /\ pending' = Tail(queue)
              /\ Recovered[j] = "PENDING" /\ status[j] \in {"PENDING", "RUNNING"}
              /\ attempts[j] \in Nat /\ attempts[j] < MaxAttempts
              /\ status' = [Recovered EXCEPT ![j] = "RUNNING"]
              /\ attempts' = [attempts EXCEPT ![j] = attempts[j] + 1]
              /\ owner' = [Cleared(owner, Expired) EXCEPT ![j] = IdOf[w]]
              /\ token' = [Cleared(token, Expired) EXCEPT ![j] = attempts[j] + 1]
              /\ lease' = [Cleared(lease, Expired) EXCEPT ![j] = LeaseTicks]
              /\ Begins(w, [job |-> j, token |-> attempts[j] + 1])
              /\ UNCHANGED <<result, graphs>>
<1>. USE DEF IInv
<1>1. PICK queue \in Queues :
          /\ Popped(queue) # <<>>
          /\ pending' = Tail(Popped(queue))
          /\ LET j == Head(Popped(queue)) IN
              /\ status' = [Recovered EXCEPT ![j] = "RUNNING"]
              /\ attempts' = [attempts EXCEPT ![j] = @ + 1]
              /\ owner' = [Cleared(owner, Expired) EXCEPT ![j] = IdOf[w]]
              /\ token' = [Cleared(token, Expired) EXCEPT ![j] = attempts'[j]]
              /\ lease' = [Cleared(lease, Expired) EXCEPT ![j] = LeaseTicks]
              /\ Begins(w, [job |-> j, token |-> attempts'[j]])
    BY DEF ClaimJob
<1>2. Popped(queue) = queue /\ queue \in Seq(Jobs)
    BY QueueFacts
<1>3. queue # <<>> /\ pending' = Tail(queue) /\ 1 \in 1..Len(queue)
    BY <1>1, <1>2
<1> DEFINE j == queue[1]
<1>4. j \in Jobs /\ j = Head(queue)
    BY <1>2, <1>3
<1>5. Recovered[j] = "PENDING"
    BY <1>3, <1>4, QueueFacts
<1>6. status[j] \in {"PENDING", "RUNNING"} /\ attempts[j] < MaxAttempts
  <2>1. CASE j \in Expired
    BY <1>5, <2>1, RecoveredFacts DEF Expired
  <2>2. CASE j \notin Expired
    BY <1>4, <1>5, <2>2, RecoveredFacts DEF AttemptsCounted
  <2>. QED
    BY <2>1, <2>2
<1>7. attempts[j] \in Nat /\ attempts \in [Jobs -> 0..MaxAttempts]
    BY <1>4, JobsAssumption DEF TypeOK
<1> HIDE DEF j
<1>8. attempts' = [attempts EXCEPT ![j] = attempts[j] + 1]
    BY <1>1, <1>2, <1>4
<1>9. attempts'[j] = attempts[j] + 1
    BY <1>4, <1>7, <1>8
<1>10. /\ status' = [Recovered EXCEPT ![j] = "RUNNING"]
       /\ owner' = [Cleared(owner, Expired) EXCEPT ![j] = IdOf[w]]
       /\ token' = [Cleared(token, Expired) EXCEPT ![j] = attempts[j] + 1]
       /\ lease' = [Cleared(lease, Expired) EXCEPT ![j] = LeaseTicks]
       /\ Begins(w, [job |-> j, token |-> attempts[j] + 1])
    BY <1>1, <1>2, <1>4, <1>9
<1>11. UNCHANGED <<result, graphs>>
    BY DEF ClaimJob
<1>12. j = queue[1]
    BY DEF j
<1>. QED
    BY <1>3, <1>4, <1>5, <1>6, <1>7, <1>8, <1>10, <1>11, <1>12

-----------------------------------------------------------------------------
(* The invariant.                                                          *)

LEMMA InvariantInit == Init => IInv
    BY JobsAssumption, WorkersAssumption, MemoryAssumption
    DEF Init, ProcessesInit, IInv, TypeOK, ClaimShape, RecordShape, AttemptsCounted,
        ClaimsUnique, QueueExact, Working, Statuses, Steps, Beats, Beating

\* The steps that touch the records or the deque.
LEMMA TableSteps ==
    ASSUME [Next]_vars
    PROVE  \/ \E j \in Jobs : Create(j)
           \/ \E w \in Workers : ClaimNothing(w) \/ ClaimJob(w)
           \/ \E w \in Workers : Holds(w) /\ (Renew(w) \/ Complete(w) \/ Fail(w))
           \/ Tick
           \/ UNCHANGED <<columns, pending>>
<1>1. ASSUME NEW w \in Workers,
             Build(w) \/ BodyError(w) \/ Save(w) \/ Join(w) \/ Unwind(w)
      PROVE  UNCHANGED <<columns, pending>>
    BY <1>1 DEF Build, BodyError, Save, Join, Unwind, Quiet
<1>2. ASSUME NEW w \in Workers, Complete(w) \/ Fail(w) \/ Renew(w), ~ Holds(w)
      PROVE  UNCHANGED <<columns, pending>>
    BY <1>2 DEF Complete, Fail, Renew, columns
<1>3. UNCHANGED vars => UNCHANGED <<columns, pending>>
    BY DEF vars
<1>. QED
    BY <1>1, <1>2, <1>3 DEF Next, Run

\* The thread that acts on its reservation has a claim in its hands.
LEMMA HolderFacts ==
    ASSUME IInv, NEW w \in Workers, Renew(w) \/ Complete(w) \/ Fail(w)
    PROVE  Working(w) /\ claim[w] \in Claims /\ claim[w].job \in Jobs
    BY DEF IInv, ClaimShape, Working, Renew, Complete, Fail, Beating, Claims

\* The fields of a reservation keep their types when some are emptied.
LEMMA ClearedFacts ==
    ASSUME TypeOK, NEW S
    PROVE  /\ Cleared(owner, S) \in [Jobs -> WorkerIds \cup {Null}]
           /\ Cleared(token, S) \in [Jobs -> Nat \cup {Null}]
           /\ Cleared(lease, S) \in [Jobs -> 0..LeaseTicks \cup {Null}]
    BY DEF Cleared, TypeOK

LEMMA TypeStep == IInv /\ [Next]_vars => TypeOK'
<1> SUFFICES ASSUME IInv, [Next]_vars
             PROVE  TypeOK'
    OBVIOUS
<1>. USE WorkersAssumption, MemoryAssumption
     DEF TypeOK, Statuses, Steps, Beats, columns, processes
<1>0. TypeOK
    BY DEF IInv
<1>1. ASSUME NEW j \in Jobs, Create(j)
      PROVE  TypeOK'
    BY <1>0, <1>1 DEF Create
<1>2. ASSUME NEW w \in Workers, ClaimNothing(w)
      PROVE  TypeOK'
  <2>1. Recovered \in [Jobs -> Statuses]
    BY <1>0, RecoveredFacts
  <2>. QED
    BY <1>0, <1>2, <2>1 DEF ClaimNothing, Cleared
<1>3. ASSUME NEW w \in Workers, ClaimJob(w)
      PROVE  TypeOK'
  <2>1. PICK queue \in Queues, j \in Jobs :
          /\ queue # <<>> /\ pending' = Tail(queue)
          /\ attempts[j] \in Nat /\ attempts[j] < MaxAttempts
          /\ status' = [Recovered EXCEPT ![j] = "RUNNING"]
          /\ attempts' = [attempts EXCEPT ![j] = attempts[j] + 1]
          /\ owner' = [Cleared(owner, Expired) EXCEPT ![j] = IdOf[w]]
          /\ token' = [Cleared(token, Expired) EXCEPT ![j] = attempts[j] + 1]
          /\ lease' = [Cleared(lease, Expired) EXCEPT ![j] = LeaseTicks]
          /\ Begins(w, [job |-> j, token |-> attempts[j] + 1])
          /\ UNCHANGED <<result, graphs>>
    BY <1>3, ClaimFacts
  <2>2. queue \in Seq(Jobs) /\ QueueExact
    BY <1>0, QueueFacts DEF IInv
  <2>3. pending' \in Seq(Jobs)
    BY <2>1, <2>2
  <2>4. status' \in [Jobs -> Statuses]
    BY <1>0, <2>1, RecoveredFacts
  <2>5. attempts' \in [Jobs -> 0..MaxAttempts]
    BY <1>0, <2>1, JobsAssumption
  <2>6. /\ owner' \in [Jobs -> WorkerIds \cup {Null}]
        /\ token' \in [Jobs -> Nat \cup {Null}]
        /\ lease' \in [Jobs -> 0..LeaseTicks \cup {Null}]
    BY <1>0, <2>1 DEF Cleared
  <2>7. [job |-> j, token |-> attempts[j] + 1] \in Claims
    BY <2>1 DEF Claims
  <2>8. /\ pc' \in [Workers -> Steps] /\ claim' \in [Workers -> Claims \cup {NoClaim}]
        /\ built' \in [Workers -> SUBSET Jobs] /\ beat' \in [Workers -> Beats \ {"renewing"}]
    BY <1>0, <2>1, <2>7 DEF Begins, Goes
  <2>. QED
    BY <1>0, <2>1, <2>3, <2>4, <2>5, <2>6, <2>8
<1>4. ASSUME NEW w \in Workers, Build(w)
      PROVE  TypeOK'
  <2>1. claim[w].job \in Jobs
    BY <1>4 DEF Build, BuildGraph, IInv, ClaimShape, Working, Claims
  <2>2. built' = [built EXCEPT ![w] = {claim[w].job}]
    BY <1>4, <2>1 DEF Build, BuildGraph
  <2>. QED
    BY <1>0, <1>4, <2>1, <2>2 DEF Build, BuildGraph, Quiet, Goes
<1>5. ASSUME NEW w \in Workers, BodyError(w) \/ Unwind(w)
      PROVE  TypeOK'
  <2>1. CASE BodyError(w)
    BY <1>0, <2>1 DEF BodyError, BodyRaises, Quiet, Goes
  <2>2. CASE Unwind(w)
    BY <1>0, <2>2 DEF Unwind, Unwinds, Quiet, Goes
  <2>. QED
    BY <1>5, <2>1, <2>2
<1>6. ASSUME NEW w \in Workers, Save(w)
      PROVE  TypeOK'
  <2>1. claim[w] \in Claims
    BY <1>6 DEF Save, SaveGraph, IInv, ClaimShape, Working
  <2>. QED
    BY <1>0, <1>6, <2>1 DEF Save, SaveGraph, Quiet, Goes, GraphRows
<1>7. ASSUME NEW w \in Workers, Join(w)
      PROVE  TypeOK'
  <2>1. CASE beat[w] = "failed"
    <3>1. /\ pc' = [pc EXCEPT ![w] = "idle"] /\ claim' = [claim EXCEPT ![w] = NoClaim]
          /\ built' = [built EXCEPT ![w] = {}] /\ beat' = [beat EXCEPT ![w] = "off"]
          /\ UNCHANGED <<columns, pending, graphs>>
      BY <1>7, <2>1 DEF Join, JoinBeat, Quiet, Goes, Forgets
    <3>. QED
      BY <1>0, <3>1
  <2>2. CASE beat[w] # "failed"
    <3>1. /\ pc' = [pc EXCEPT ![w] = "publish"] /\ beat' = [beat EXCEPT ![w] = "off"]
          /\ UNCHANGED <<columns, pending, graphs, claim, built>>
      BY <1>7, <2>2 DEF Join, JoinBeat, Quiet, Goes
    <3>. QED
      BY <1>0, <3>1
  <2>. QED
    BY <2>1, <2>2
<1>8. ASSUME NEW w \in Workers, Complete(w)
      PROVE  TypeOK'
  <2>1. claim[w] \in Claims /\ claim[w].job \in Jobs
    BY <1>8, HolderFacts
  <2>2. /\ pc' \in [Workers -> Steps] /\ claim' \in [Workers -> Claims \cup {NoClaim}]
        /\ built' \in [Workers -> SUBSET Jobs] /\ beat' \in [Workers -> Beats \ {"renewing"}]
    BY <1>0, <1>8 DEF Complete, Goes, Forgets
  <2>3. CASE Holds(w)
    <3>1. status' \in [Jobs -> Statuses] /\ result' \in [Jobs -> Claims \cup {Null}]
      BY <1>0, <1>8, <2>1, <2>3 DEF Complete
    <3>2. /\ owner' \in [Jobs -> WorkerIds \cup {Null}]
          /\ token' \in [Jobs -> Nat \cup {Null}]
          /\ lease' \in [Jobs -> 0..LeaseTicks \cup {Null}]
      <4>1. \E j \in Jobs : /\ owner' = Cleared(owner, {j}) /\ token' = Cleared(token, {j})
                           /\ lease' = Cleared(lease, {j})
        BY <1>8, <2>1, <2>3 DEF Complete
      <4>. QED
        BY <1>0, <4>1, ClearedFacts
    <3>. QED
      BY <1>0, <1>8, <2>2, <3>1, <3>2 DEF Complete
  <2>4. CASE ~ Holds(w)
    BY <1>0, <1>8, <2>2, <2>4 DEF Complete
  <2>. QED
    BY <2>3, <2>4
<1>9. ASSUME NEW w \in Workers, Fail(w)
      PROVE  TypeOK'
  <2>1. claim[w].job \in Jobs
    BY <1>9, HolderFacts
  <2>2. /\ pc' \in [Workers -> Steps] /\ claim' \in [Workers -> Claims \cup {NoClaim}]
        /\ built' \in [Workers -> SUBSET Jobs] /\ beat' \in [Workers -> Beats \ {"renewing"}]
    BY <1>0, <1>9 DEF Fail, Goes, Forgets
  <2>3. CASE Holds(w)
    <3>1. status' \in [Jobs -> Statuses]
      BY <1>0, <1>9, <2>1, <2>3 DEF Fail, AfterAttempt
    <3>2. pending' \in Seq(Jobs)
      <4>1. Append(pending, claim[w].job) \in Seq(Jobs)
        BY <1>0, <2>1
      <4>2. pending' \in {pending, Append(pending, claim[w].job)}
        BY <1>9, <2>3 DEF Fail
      <4>. QED
        BY <1>0, <4>1, <4>2
    <3>3. /\ owner' \in [Jobs -> WorkerIds \cup {Null}]
          /\ token' \in [Jobs -> Nat \cup {Null}]
          /\ lease' \in [Jobs -> 0..LeaseTicks \cup {Null}]
      <4>1. \E j \in Jobs : /\ owner' = Cleared(owner, {j}) /\ token' = Cleared(token, {j})
                           /\ lease' = Cleared(lease, {j})
        BY <1>9, <2>1, <2>3 DEF Fail
      <4>. QED
        BY <1>0, <4>1, ClearedFacts
    <3>. QED
      BY <1>0, <1>9, <2>2, <3>1, <3>2, <3>3 DEF Fail
  <2>4. CASE ~ Holds(w)
    BY <1>0, <1>9, <2>2, <2>4 DEF Fail
  <2>. QED
    BY <2>3, <2>4
<1>10. ASSUME NEW w \in Workers, Renew(w)
       PROVE  TypeOK'
  <2>1. claim[w].job \in Jobs
    BY <1>10, HolderFacts
  <2>2. lease' \in [Jobs -> 0..LeaseTicks \cup {Null}]
    <3>1. lease' = lease \/ lease' = [lease EXCEPT ![claim[w].job] = LeaseTicks]
      BY <1>10 DEF Renew
    <3>. QED
      BY <1>0, <2>1, <3>1
  <2>3. beat' \in [Workers -> Beats \ {"renewing"}]
    <3>1. \E b \in Beats \ {"renewing"} : beat' = [beat EXCEPT ![w] = b]
      BY <1>10 DEF Renew
    <3>. QED
      BY <1>0, <3>1
  <2>. QED
    BY <1>0, <1>10, <2>2, <2>3 DEF Renew
<1>11. ASSUME Tick
       PROVE  TypeOK'
    BY <1>0, <1>11 DEF Tick
<1>12. ASSUME UNCHANGED vars
       PROVE  TypeOK'
    BY <1>0, <1>12 DEF vars
<1>. QED
    BY <1>1, <1>2, <1>3, <1>4, <1>5, <1>6, <1>7, <1>8, <1>9, <1>10, <1>11, <1>12
    DEF Next, Run

LEMMA ClaimStep == IInv /\ [Next]_vars => ClaimShape'
<1> SUFFICES ASSUME IInv, [Next]_vars
             PROVE  ClaimShape'
    OBVIOUS
<1>. USE DEF IInv, TypeOK, ClaimShape, Working, Steps, Beating, Beats, processes
<1>1. ASSUME NEW j \in Jobs, Create(j)
      PROVE  ClaimShape'
    BY <1>1 DEF Create
<1>2. ASSUME NEW w \in Workers, ClaimNothing(w)
      PROVE  ClaimShape'
    BY <1>2 DEF ClaimNothing
<1>3. ASSUME NEW w \in Workers, ClaimJob(w)
      PROVE  ClaimShape'
  <2>1. PICK j \in Jobs :
          attempts[j] \in Nat /\ Begins(w, [job |-> j, token |-> attempts[j] + 1])
    BY <1>3, ClaimFacts
  <2>. QED
    BY <2>1 DEF Begins, Goes, Claims
<1>4. ASSUME NEW w \in Workers, Build(w) \/ BodyError(w) \/ Save(w) \/ Unwind(w)
      PROVE  ClaimShape'
  <2>1. CASE Build(w) \/ Save(w)
    BY <2>1 DEF Build, BuildGraph, Save, SaveGraph, Goes
  <2>2. CASE BodyError(w) \/ Unwind(w)
    BY <2>2 DEF BodyError, BodyRaises, Unwind, Unwinds, Goes
  <2>. QED
    BY <1>4, <2>1, <2>2
<1>5. ASSUME NEW w \in Workers, Join(w)
      PROVE  ClaimShape'
    BY <1>5 DEF Join, JoinBeat, Goes, Forgets
<1>6. ASSUME NEW w \in Workers, Complete(w) \/ Fail(w)
      PROVE  ClaimShape'
    BY <1>6 DEF Complete, Fail, Goes, Forgets
<1>7. ASSUME NEW w \in Workers, Renew(w)
      PROVE  ClaimShape'
    BY <1>7 DEF Renew
<1>8. ASSUME Tick \/ UNCHANGED vars
      PROVE  ClaimShape'
    BY <1>8 DEF Tick, vars
<1>. QED
    BY <1>1, <1>2, <1>3, <1>4, <1>5, <1>6, <1>7, <1>8 DEF Next, Run

\* The claim that claim_next issues, job by job.
LEMMA ClaimPointwise ==
    ASSUME IInv, NEW w \in Workers, ClaimJob(w)
    PROVE  \E j \in Jobs :
              /\ Recovered[j] = "PENDING" /\ status[j] \in {"PENDING", "RUNNING"}
              /\ attempts[j] \in Nat /\ attempts[j] < MaxAttempts
              /\ status'[j] = "RUNNING" /\ attempts'[j] = attempts[j] + 1
              /\ owner'[j] = IdOf[w] /\ token'[j] = attempts[j] + 1
              /\ lease'[j] = LeaseTicks
              /\ \A k \in Jobs \ {j} :
                    /\ status'[k] = Recovered[k] /\ attempts'[k] = attempts[k]
                    /\ owner'[k] = Cleared(owner, Expired)[k]
                    /\ token'[k] = Cleared(token, Expired)[k]
                    /\ lease'[k] = Cleared(lease, Expired)[k]
              /\ pc' = [pc EXCEPT ![w] = "build"]
              /\ claim' = [claim EXCEPT ![w] = [job |-> j, token |-> attempts[j] + 1]]
              /\ result' = result
<1>1. PICK j \in Jobs :
        /\ Recovered[j] = "PENDING" /\ status[j] \in {"PENDING", "RUNNING"}
        /\ attempts[j] \in Nat /\ attempts[j] < MaxAttempts
        /\ status' = [Recovered EXCEPT ![j] = "RUNNING"]
        /\ attempts' = [attempts EXCEPT ![j] = attempts[j] + 1]
        /\ owner' = [Cleared(owner, Expired) EXCEPT ![j] = IdOf[w]]
        /\ token' = [Cleared(token, Expired) EXCEPT ![j] = attempts[j] + 1]
        /\ lease' = [Cleared(lease, Expired) EXCEPT ![j] = LeaseTicks]
        /\ Begins(w, [job |-> j, token |-> attempts[j] + 1])
        /\ UNCHANGED result
    BY ClaimFacts
<1>2. TypeOK
    BY DEF IInv
<1>3. Recovered \in [Jobs -> Statuses] /\ attempts \in [Jobs -> 0..MaxAttempts]
    BY <1>2, RecoveredFacts DEF TypeOK
<1>4. /\ Cleared(owner, Expired) \in [Jobs -> WorkerIds \cup {Null}]
      /\ Cleared(token, Expired) \in [Jobs -> Nat \cup {Null}]
      /\ Cleared(lease, Expired) \in [Jobs -> 0..LeaseTicks \cup {Null}]
    BY <1>2, ClearedFacts
<1>5. /\ pc' = [pc EXCEPT ![w] = "build"]
      /\ claim' = [claim EXCEPT ![w] = [job |-> j, token |-> attempts[j] + 1]]
    BY <1>1 DEF Begins, Goes
<1>. QED
    BY <1>1, <1>3, <1>4, <1>5

LEMMA RecordStep == IInv /\ [Next]_vars => RecordShape'
<1> SUFFICES ASSUME IInv, [Next]_vars
             PROVE  RecordShape'
    OBVIOUS
<1>. USE WorkersAssumption, MemoryAssumption DEF RecordShape, Statuses
<1>0. TypeOK /\ RecordShape
    BY DEF IInv
<1>r. \A k \in Jobs :
        /\ k \in Expired => /\ Recovered[k] \in {"PENDING", "FAILED"} /\ result[k] = Null
                            /\ status[k] = "RUNNING"
        /\ k \notin Expired => Recovered[k] = status[k]
    BY <1>0, RecoveredFacts DEF Expired
<1>c. \A k \in Jobs :
        /\ k \in Expired => /\ Cleared(owner, Expired)[k] = Null
                            /\ Cleared(token, Expired)[k] = Null
                            /\ Cleared(lease, Expired)[k] = Null
        /\ k \notin Expired => /\ Cleared(owner, Expired)[k] = owner[k]
                               /\ Cleared(token, Expired)[k] = token[k]
                               /\ Cleared(lease, Expired)[k] = lease[k]
    BY DEF Cleared
<1>1. ASSUME NEW j \in Jobs, Create(j)
      PROVE  RecordShape'
    BY <1>0, <1>1 DEF Create, TypeOK
<1>2. ASSUME NEW w \in Workers, ClaimNothing(w)
      PROVE  RecordShape'
    BY <1>0, <1>2, <1>r, <1>c DEF ClaimNothing
<1>3. ASSUME NEW w \in Workers, ClaimJob(w)
      PROVE  RecordShape'
  <2>1. PICK j \in Jobs :
          /\ status[j] \in {"PENDING", "RUNNING"}
          /\ attempts[j] \in Nat
          /\ status'[j] = "RUNNING" /\ attempts'[j] = attempts[j] + 1
          /\ owner'[j] = IdOf[w] /\ token'[j] = attempts[j] + 1
          /\ lease'[j] = LeaseTicks
          /\ \A k \in Jobs \ {j} :
                /\ status'[k] = Recovered[k] /\ attempts'[k] = attempts[k]
                /\ owner'[k] = Cleared(owner, Expired)[k]
                /\ token'[k] = Cleared(token, Expired)[k]
                /\ lease'[k] = Cleared(lease, Expired)[k]
          /\ result' = result
    BY <1>3, ClaimPointwise
  <2>2. IdOf[w] # Null /\ attempts[j] + 1 # Null /\ LeaseTicks # Null
    BY <2>1
  <2>3. ASSUME NEW k \in Jobs
        PROVE  /\ IF status'[k] = "RUNNING"
                  THEN owner'[k] # Null /\ token'[k] = attempts'[k] /\ lease'[k] # Null
                  ELSE owner'[k] = Null /\ token'[k] = Null /\ lease'[k] = Null
               /\ status'[k] # "SUCCEEDED" => result'[k] = Null
    <3>1. CASE k = j
      BY <1>0, <2>1, <2>2, <3>1
    <3>2. CASE k # j /\ k \in Expired
      BY <1>r, <1>c, <2>1, <3>2
    <3>3. CASE k # j /\ k \notin Expired
      BY <1>0, <1>r, <1>c, <2>1, <3>3
    <3>. QED
      BY <3>1, <3>2, <3>3
  <2>. QED
    BY <2>3
<1>4. ASSUME NEW w \in Workers, Holds(w), Renew(w)
      PROVE  RecordShape'
  <2>1. /\ UNCHANGED <<status, attempts, owner, token, result>>
        /\ lease' = [lease EXCEPT ![claim[w].job] = LeaseTicks]
    BY <1>4 DEF Renew
  <2>. QED
    BY <1>0, <1>4, <2>1 DEF Holds, TypeOK
<1>5. ASSUME NEW w \in Workers, Holds(w), Complete(w)
      PROVE  RecordShape'
  <2> DEFINE j == claim[w].job
  <2>1. j \in Jobs
    BY <1>5, HolderFacts
  <2>2. /\ status' = [status EXCEPT ![j] = "SUCCEEDED"]
        /\ result' = [result EXCEPT ![j] = claim[w]]
        /\ owner' = Cleared(owner, {j})
        /\ token' = Cleared(token, {j})
        /\ lease' = Cleared(lease, {j})
        /\ attempts' = attempts
    BY <1>5 DEF Complete
  <2> HIDE DEF j
  <2>. QED
    BY <1>0, <2>1, <2>2 DEF TypeOK, Cleared
<1>6. ASSUME NEW w \in Workers, Holds(w), Fail(w)
      PROVE  RecordShape'
  <2> DEFINE j == claim[w].job
  <2>1. j \in Jobs /\ status[j] = "RUNNING"
    BY <1>6, HolderFacts DEF Holds
  <2>2. /\ status' = [status EXCEPT ![j] = AfterAttempt(j)]
        /\ owner' = Cleared(owner, {j})
        /\ token' = Cleared(token, {j})
        /\ lease' = Cleared(lease, {j})
        /\ UNCHANGED <<attempts, result>>
    BY <1>6 DEF Fail
  <2>3. AfterAttempt(j) \in {"PENDING", "FAILED"}
    BY DEF AfterAttempt
  <2> HIDE DEF j
  <2>. QED
    BY <1>0, <2>1, <2>2, <2>3 DEF TypeOK, Cleared
<1>7. ASSUME Tick
      PROVE  RecordShape'
    BY <1>0, <1>7 DEF Tick, TypeOK
<1>8. ASSUME UNCHANGED <<columns, pending>>
      PROVE  RecordShape'
    BY <1>0, <1>8 DEF columns
<1>. QED
    BY <1>1, <1>2, <1>3, <1>4, <1>5, <1>6, <1>7, <1>8, TableSteps

LEMMA AttemptsStep == IInv /\ [Next]_vars => AttemptsCounted'
<1> SUFFICES ASSUME IInv, [Next]_vars
             PROVE  AttemptsCounted'
    OBVIOUS
<1>. USE JobsAssumption DEF AttemptsCounted, Statuses
<1>0. TypeOK /\ AttemptsCounted
    BY DEF IInv
<1>1. ASSUME NEW j \in Jobs, Create(j)
      PROVE  AttemptsCounted'
    BY <1>0, <1>1 DEF Create, TypeOK
<1>r. \A k \in Jobs : /\ Recovered[k] = "PENDING" => attempts[k] < MaxAttempts
                      /\ Recovered[k] = "ABSENT" => attempts[k] = 0
    BY <1>0, RecoveredFacts
<1>2. ASSUME NEW w \in Workers, ClaimNothing(w)
      PROVE  AttemptsCounted'
    BY <1>2, <1>r DEF ClaimNothing
<1>3. ASSUME NEW w \in Workers, ClaimJob(w)
      PROVE  AttemptsCounted'
  <2>1. PICK j \in Jobs :
          /\ status'[j] = "RUNNING"
          /\ \A k \in Jobs \ {j} : status'[k] = Recovered[k] /\ attempts'[k] = attempts[k]
    BY <1>3, ClaimPointwise
  <2>. QED
    BY <1>r, <2>1
<1>4. ASSUME NEW w \in Workers, Holds(w), Renew(w)
      PROVE  AttemptsCounted'
    BY <1>0, <1>4 DEF Renew
<1>5. ASSUME NEW w \in Workers, Holds(w), Complete(w)
      PROVE  AttemptsCounted'
    BY <1>0, <1>5 DEF Complete, TypeOK
<1>6. ASSUME NEW w \in Workers, Holds(w), Fail(w)
      PROVE  AttemptsCounted'
    BY <1>0, <1>6 DEF Fail, TypeOK, AfterAttempt
<1>7. ASSUME Tick \/ UNCHANGED <<columns, pending>>
      PROVE  AttemptsCounted'
    BY <1>0, <1>7 DEF Tick, columns
<1>. QED
    BY <1>1, <1>2, <1>3, <1>4, <1>5, <1>6, <1>7, TableSteps

\* Only claim_next hands out claims; every other step keeps or drops them, and
\* counts no attempt.
LEMMA ClaimsKept ==
    ASSUME IInv, [Next]_vars
    PROVE  \/ \E w \in Workers : ClaimJob(w)
           \/ /\ attempts' = attempts
              /\ \A v \in Workers : Working(v)' => Working(v) /\ claim'[v] = claim[v]
<1> DEFINE Kept == /\ attempts' = attempts
                   /\ \A v \in Workers : Working(v)' => Working(v) /\ claim'[v] = claim[v]
<1>. USE DEF IInv, TypeOK, Working, columns
<1>1. ASSUME NEW j \in Jobs, Create(j)
      PROVE  Kept
    BY <1>1 DEF Create, processes
<1>2. ASSUME NEW w \in Workers, Build(w) \/ BodyError(w) \/ Save(w) \/ Unwind(w)
      PROVE  Kept
    BY <1>2 DEF Build, BuildGraph, Quiet, BodyError, BodyRaises, Save, SaveGraph,
                Unwind, Unwinds, Goes
<1>3. ASSUME NEW w \in Workers, Join(w)
      PROVE  Kept
    BY <1>3 DEF Join, JoinBeat, Quiet, Goes, Forgets
<1>4. ASSUME NEW w \in Workers, Complete(w) \/ Fail(w)
      PROVE  Kept
    BY <1>4 DEF Complete, Fail, Goes, Forgets
<1>5. ASSUME NEW w \in Workers, ClaimNothing(w) \/ Renew(w)
      PROVE  Kept
    BY <1>5 DEF ClaimNothing, Renew, processes
<1>6. ASSUME Tick \/ UNCHANGED vars
      PROVE  Kept
    BY <1>6 DEF Tick, vars, processes
<1>. QED
    BY <1>1, <1>2, <1>3, <1>4, <1>5, <1>6 DEF Next, Run

LEMMA UniqueStep == IInv /\ [Next]_vars => ClaimsUnique'
<1> SUFFICES ASSUME IInv, [Next]_vars
             PROVE  ClaimsUnique'
    OBVIOUS
<1>0. TypeOK /\ ClaimShape /\ ClaimsUnique
    BY DEF IInv
<1>1. CASE \E w \in Workers : ClaimJob(w)
  <2>1. PICK w \in Workers : ClaimJob(w)
    BY <1>1
  <2>2. PICK j \in Jobs :
          /\ attempts[j] \in Nat /\ attempts'[j] = attempts[j] + 1
          /\ \A k \in Jobs \ {j} : attempts'[k] = attempts[k]
          /\ pc' = [pc EXCEPT ![w] = "build"]
          /\ claim' = [claim EXCEPT ![w] = [job |-> j, token |-> attempts[j] + 1]]
    BY <2>1, ClaimPointwise
  <2> DEFINE c == [job |-> j, token |-> attempts[j] + 1]
  <2>3. claim'[w] = c /\ c.job = j /\ c.token = attempts[j] + 1
    BY <1>0, <2>2 DEF TypeOK
  <2>4. \A v \in Workers \ {w} : claim'[v] = claim[v] /\ (Working(v)' <=> Working(v))
    BY <1>0, <2>2 DEF TypeOK, Working
  <2>5. \A v \in Workers : Working(v) =>
          /\ claim[v].job \in Jobs /\ claim[v].token \in Nat
          /\ attempts[claim[v].job] \in Nat
          /\ claim[v].token <= attempts[claim[v].job]
    BY <1>0, JobsAssumption DEF ClaimShape, ClaimsUnique, Claims, TypeOK
  <2>6. \A v \in Workers : Working(v) => claim[v] # c
    BY <2>2, <2>3, <2>5
  <2>7. \A v \in Workers \ {w} : Working(v)' =>
          claim'[v].token <= attempts'[claim'[v].job]
    BY <2>2, <2>4, <2>5
  <2>8. \A u, v \in Workers : Working(u)' /\ Working(v)' /\ claim'[u] = claim'[v] => u = v
    BY <1>0, <2>3, <2>4, <2>6 DEF ClaimsUnique
  <2>9. claim'[w].token <= attempts'[claim'[w].job]
    BY <2>2, <2>3
  <2>. QED
    BY <2>7, <2>8, <2>9 DEF ClaimsUnique
<1>2. CASE /\ attempts' = attempts
           /\ \A v \in Workers : Working(v)' => Working(v) /\ claim'[v] = claim[v]
    BY <1>0, <1>2 DEF ClaimsUnique
<1>. QED
    BY <1>1, <1>2, ClaimsKept

\* A job that is not in the deque is added to it.
LEMMA AppendFacts ==
    ASSUME TypeOK, QueueExact, NEW j \in Jobs, status[j] # "PENDING"
    PROVE  LET q == Append(pending, j)
           IN  /\ q \in Seq(Jobs)
               /\ {q[i] : i \in 1..Len(q)} = {k \in Jobs : status[k] = "PENDING"} \cup {j}
               /\ \A i, k \in 1..Len(q) : i # k => q[i] # q[k]
               /\ \A i \in 1..Len(q) : \/ i <= Len(pending) /\ q[i] = pending[i]
                                       \/ i = Len(q) /\ q[i] = j
<1> DEFINE q == Append(pending, j)
<1> DEFINE m == Len(pending)
<1>1. /\ pending \in Seq(Jobs) /\ m \in Nat
      /\ \A i \in 1..m : pending[i] \in Jobs /\ status[pending[i]] = "PENDING"
      /\ \A k \in Jobs : status[k] = "PENDING" => \E i \in 1..m : pending[i] = k
      /\ \A i, k \in 1..m : i # k => pending[i] # pending[k]
    BY DEF TypeOK, QueueExact
<1>2. /\ q \in Seq(Jobs) /\ Len(q) = m + 1 /\ q[m + 1] = j
      /\ \A i \in 1..m : q[i] = pending[i]
    BY <1>1
<1> HIDE DEF q, m
<1>3. \A i \in 1..(m + 1) : i \in 1..m \/ i = m + 1
    BY <1>1
<1>4. \A i \in 1..m : i \in 1..(m + 1)
    BY <1>1
<1>5. m + 1 \in 1..(m + 1)
    BY <1>1
<1>6. {q[i] : i \in 1..(m + 1)} = {k \in Jobs : status[k] = "PENDING"} \cup {j}
  <2>1. \A i \in 1..(m + 1) : q[i] \in {k \in Jobs : status[k] = "PENDING"} \cup {j}
    BY <1>1, <1>2, <1>3
  <2>2. ASSUME NEW k \in {l \in Jobs : status[l] = "PENDING"} \cup {j}
        PROVE  \E i \in 1..(m + 1) : q[i] = k
    <3>1. CASE k = j
      BY <1>2, <1>5, <3>1
    <3>2. CASE k # j
      <4>1. PICK i \in 1..m : pending[i] = k
        BY <1>1, <3>2
      <4>. QED
        BY <1>2, <1>4, <4>1
    <3>. QED
      BY <3>1, <3>2
  <2>. QED
    BY <2>1, <2>2
<1>7. \A i, k \in 1..(m + 1) : i # k => q[i] # q[k]
    BY <1>1, <1>2, <1>3
<1>8. \A i \in 1..(m + 1) : (i <= m /\ q[i] = pending[i]) \/ (i = m + 1 /\ q[i] = j)
    BY <1>1, <1>2, <1>3
<1>. QED
    BY <1>2, <1>6, <1>7, <1>8 DEF q, m

\* The deque is exact after a step that changes neither it nor who waits.
LEMMA SameQueue ==
    ASSUME QueueExact, pending' = pending,
           \A j \in Jobs : status'[j] = "PENDING" <=> status[j] = "PENDING"
    PROVE  QueueExact'
<1>1. {j \in Jobs : status'[j] = "PENDING"} = {j \in Jobs : status[j] = "PENDING"}
    OBVIOUS
<1>. QED
    BY <1>1 DEF QueueExact

\* claim_next takes the first job of the deque that the recovery left.
LEMMA ClaimQueue ==
    ASSUME IInv, NEW w \in Workers, ClaimJob(w)
    PROVE  \E queue \in Queues : \E j \in Jobs :
              /\ queue # <<>> /\ j = queue[1] /\ pending' = Tail(queue)
              /\ status' = [Recovered EXCEPT ![j] = "RUNNING"]
              /\ attempts' = [attempts EXCEPT ![j] = attempts[j] + 1]
    BY ClaimFacts, ZenonT(40)

LEMMA QueueStep == IInv /\ [Next]_vars => QueueExact'
<1> SUFFICES ASSUME IInv, [Next]_vars
             PROVE  QueueExact'
    OBVIOUS
<1>0. TypeOK /\ QueueExact
    BY DEF IInv
<1>a. ASSUME NEW j \in Jobs, status[j] # "PENDING", pending' = Append(pending, j),
             status' = [status EXCEPT ![j] = "PENDING"]
      PROVE  QueueExact'
  <2>1. {k \in Jobs : status'[k] = "PENDING"} = {k \in Jobs : status[k] = "PENDING"} \cup {j}
    BY <1>0, <1>a DEF TypeOK
  <2> DEFINE q == Append(pending, j)
  <2>2. /\ {q[i] : i \in 1..Len(q)} = {k \in Jobs : status[k] = "PENDING"} \cup {j}
        /\ \A i, k \in 1..Len(q) : i # k => q[i] # q[k]
    BY <1>0, <1>a, AppendFacts
  <2>3. pending' = q
    BY <1>a
  <2> HIDE DEF q
  <2>. QED
    BY <2>1, <2>2, <2>3 DEF QueueExact
<1>1. ASSUME NEW j \in Jobs, Create(j)
      PROVE  QueueExact'
    BY <1>a, <1>1 DEF Create
<1>2. ASSUME NEW w \in Workers, ClaimNothing(w)
      PROVE  QueueExact'
    BY <1>2, NothingFacts DEF QueueExact
<1>3. ASSUME NEW w \in Workers, ClaimJob(w)
      PROVE  QueueExact'
  <2>1. PICK queue \in Queues, j \in Jobs :
          /\ queue # <<>> /\ j = queue[1] /\ pending' = Tail(queue)
          /\ status' = [Recovered EXCEPT ![j] = "RUNNING"]
    BY <1>3, ClaimQueue
  <2> DEFINE n == Len(queue) - 1
  <2>2. /\ queue \in Seq(Jobs) /\ n \in Nat /\ Len(queue) = n + 1
        /\ \A k \in Jobs : Recovered[k] = "PENDING" <=> \E i \in 1..(n + 1) : queue[i] = k
        /\ \A i, k \in 1..(n + 1) : i # k => queue[i] # queue[k]
    BY <1>0, <2>1, QueueFacts
  <2>3. /\ Len(pending') = n
        /\ \A i \in 1..n : pending'[i] = queue[i + 1]
    BY <2>1, <2>2
  <2> HIDE DEF n
  <2>4. Recovered \in [Jobs -> Statuses]
    BY <1>0, RecoveredFacts
  <2>5. \A k \in Jobs : status'[k] = "PENDING" <=> k # j /\ Recovered[k] = "PENDING"
    BY <2>1, <2>4
  <2>6. \A i \in 1..n : i + 1 \in 1..(n + 1) /\ i + 1 # 1
    BY <2>2
  <2>7. \A i \in 1..(n + 1) : i = 1 \/ \E k \in 1..n : i = k + 1
    <3>1. \A i \in 1..(n + 1) : i # 1 => i - 1 \in 1..n /\ i = (i - 1) + 1
      BY <2>2
    <3>. QED
      BY <3>1
  <2>8. ASSUME NEW i \in 1..n
        PROVE  pending'[i] \in Jobs /\ status'[pending'[i]] = "PENDING"
    <3>1. queue[i + 1] \in Jobs /\ Recovered[queue[i + 1]] = "PENDING"
      BY <2>2, <2>6
    <3>2. 1 \in 1..(n + 1)
      BY <2>2
    <3>3. queue[i + 1] # j
      BY <2>1, <2>2, <2>6, <3>2
    <3>. QED
      BY <2>3, <2>5, <3>1, <3>3
  <2>9. ASSUME NEW k \in Jobs, status'[k] = "PENDING"
        PROVE  \E i \in 1..n : pending'[i] = k
    <3>1. PICK i \in 1..(n + 1) : queue[i] = k
      BY <2>2, <2>5, <2>9
    <3>2. i # 1
      BY <2>1, <2>5, <2>9, <3>1
    <3>. QED
      BY <2>3, <2>7, <3>1, <3>2
  <2>10. ASSUME NEW i \in 1..n, NEW k \in 1..n, i # k
         PROVE  pending'[i] # pending'[k]
    BY <2>2, <2>3, <2>6, <2>10
  <2>11. {pending'[i] : i \in 1..n} = {k \in Jobs : status'[k] = "PENDING"}
    BY <2>8, <2>9
  <2>. QED
    BY <2>3, <2>10, <2>11 DEF QueueExact
<1>4. ASSUME NEW w \in Workers, Holds(w), Renew(w) \/ Complete(w) \/ Fail(w)
      PROVE  QueueExact'
  <2> DEFINE j == claim[w].job
  <2>1. j \in Jobs /\ status[j] = "RUNNING"
    BY <1>4, HolderFacts DEF Holds
  <2>2. CASE Renew(w)
    BY <1>0, <2>2, SameQueue DEF Renew
  <2>3. CASE Complete(w)
    <3>1. status' = [status EXCEPT ![j] = "SUCCEEDED"] /\ pending' = pending
      BY <1>4, <2>3 DEF Complete
    <3> HIDE DEF j
    <3>. QED
      BY <1>0, <2>1, <3>1, SameQueue DEF TypeOK
  <2>4. CASE Fail(w)
    <3>1. /\ status' = [status EXCEPT ![j] = AfterAttempt(j)]
          /\ pending' = IF AfterAttempt(j) = "PENDING" THEN Append(pending, j) ELSE pending
          /\ AfterAttempt(j) \in {"PENDING", "FAILED"}
      BY <1>4, <2>4 DEF Fail, AfterAttempt
    <3> HIDE DEF j
    <3>2. CASE AfterAttempt(j) = "PENDING"
      BY <1>a, <2>1, <3>1, <3>2
    <3>3. CASE AfterAttempt(j) = "FAILED"
      BY <1>0, <2>1, <3>1, <3>3, SameQueue DEF TypeOK
    <3>. QED
      BY <3>1, <3>2, <3>3
  <2>. QED
    BY <1>4, <2>2, <2>3, <2>4
<1>5. ASSUME Tick \/ UNCHANGED <<columns, pending>>
      PROVE  QueueExact'
    BY <1>0, <1>5, SameQueue DEF Tick, columns
<1>. QED
    BY <1>1, <1>2, <1>3, <1>4, <1>5, TableSteps

\* The fields of a record agree with its status, every claim at work was issued
\* to one thread only, and the deque is exact.
THEOREM InvariantHolds == Spec => []IInv
<1>1. IInv /\ [Next]_vars => IInv'
    BY TypeStep, ClaimStep, RecordStep, AttemptsStep, UniqueStep, QueueStep DEF IInv
<1>. QED
    BY InvariantInit, <1>1, PTL DEF Spec

\* Every field and every variable of a thread keeps its type: in particular no
\* job is reserved more than max_attempts times.
THEOREM TypesHold == Spec => []TypeOK
<1>1. IInv => TypeOK
    BY DEF IInv
<1>. QED
    BY InvariantHolds, <1>1, PTL

\* The deque holds the jobs that wait, each once, and no other.
THEOREM QueueExactHolds == Spec => []QueueExact
<1>1. IInv => QueueExact
    BY DEF IInv
<1>. QED
    BY InvariantHolds, <1>1, PTL

\* Two threads never both pass _active_record for one job: the token in the
\* record is the count of attempts, and no two threads carry the same one.
THEOREM OneHolderHolds == Spec => []OneHolder
<1>1. IInv => OneHolder
  <2> SUFFICES ASSUME IInv, NEW v \in Workers, NEW w \in Workers,
                      v # w, Working(v), Working(w), claim[v].job = claim[w].job,
                      Holds(v), Holds(w)
               PROVE  FALSE
    BY DEF OneHolder
  <2>1. claim[v].token = claim[w].token
    BY DEF Holds
  <2>2. claim[v] \in Claims /\ claim[w] \in Claims
    BY DEF IInv, ClaimShape
  <2>3. claim[v] = claim[w]
    BY <2>1, <2>2 DEF Claims
  <2>. QED
    BY <2>3 DEF IInv, ClaimsUnique
<1>. QED
    BY InvariantHolds, <1>1, PTL

-----------------------------------------------------------------------------
(* Waiting in turn.                                                        *)

\* What is only appended overtakes nobody.
LEMMA AppendedStayBehind ==
    ASSUME TypeOK, TypeOK', QueueExact, QueueExact',
           Len(pending) <= Len(pending'),
           \A i \in 1..Len(pending) : pending'[i] = pending[i],
           NEW a \in Jobs, NEW b \in Jobs, status[a] = "PENDING", Ahead(b, a)'
    PROVE  Ahead(b, a)
<1> DEFINE m == Len(pending)
<1> DEFINE n == Len(pending')
<1>1. PICK i, k \in 1..n : i < k /\ pending'[i] = b /\ pending'[k] = a
    BY DEF Ahead
<1>2. PICK p \in 1..m : pending[p] = a
    BY DEF QueueExact
<1>3. \A h, l \in 1..n : h # l => pending'[h] # pending'[l]
    BY DEF QueueExact
<1>4. m \in Nat /\ n \in Nat /\ m <= n /\ \A h \in 1..m : pending'[h] = pending[h]
  <2>1. pending \in Seq(Jobs) /\ pending' \in Seq(Jobs)
    BY DEF TypeOK
  <2>. QED
    BY <2>1
<1> HIDE DEF m, n
<1>5. p \in 1..n /\ pending'[p] = a
    BY <1>1, <1>2, <1>4
<1>6. p = k
    BY <1>1, <1>3, <1>5
<1>7. i \in 1..m /\ pending[i] = b /\ i < p
    BY <1>1, <1>2, <1>4, <1>6
<1>. QED
    BY <1>2, <1>7 DEF Ahead, m

\* While a job waits, no job that was not ahead of it is reserved or gets ahead:
\* not a new one, nor one that is tried again, nor one whose lease ran out.
THEOREM NoOvertakingHolds == Spec => NoOvertaking
<1> DEFINE InTurn(a, b) ==
        status[a] = "PENDING" /\ status'[a] = "PENDING" /\ ~ Ahead(b, a)
            => attempts'[b] = attempts[b] /\ ~ Ahead(b, a)'
<1>1. ASSUME IInv, IInv', [Next]_vars, NEW a \in Jobs, NEW b \in Jobs
      PROVE  InTurn(a, b)
  <2> SUFFICES ASSUME status[a] = "PENDING", status'[a] = "PENDING", ~ Ahead(b, a)
               PROVE  attempts'[b] = attempts[b] /\ ~ Ahead(b, a)'
    OBVIOUS
  <2>0. TypeOK /\ TypeOK' /\ QueueExact /\ QueueExact'
    BY <1>1 DEF IInv
  <2>a. ASSUME attempts' = attempts,
               pending' = pending \/ \E j \in Jobs : pending' = Append(pending, j)
        PROVE  attempts'[b] = attempts[b] /\ ~ Ahead(b, a)'
    <3>1. Len(pending) <= Len(pending') /\ \A i \in 1..Len(pending) : pending'[i] = pending[i]
      <4>1. pending \in Seq(Jobs)
        BY <2>0 DEF TypeOK
      <4>. QED
        BY <2>a, <4>1
    <3>. QED
      BY <2>0, <2>a, <3>1, AppendedStayBehind
  <2>1. ASSUME NEW j \in Jobs, Create(j)
        PROVE  attempts'[b] = attempts[b] /\ ~ Ahead(b, a)'
    BY <2>1, <2>a DEF Create
  <2>2. ASSUME NEW w \in Workers, ClaimNothing(w)
        PROVE  attempts'[b] = attempts[b] /\ ~ Ahead(b, a)'
    <3>1. Recovered[a] # "PENDING" /\ status'[a] = Recovered[a]
      BY <1>1, <2>2, NothingFacts
    <3>. QED
      BY <3>1
  <2>3. ASSUME NEW w \in Workers, ClaimJob(w)
        PROVE  attempts'[b] = attempts[b] /\ ~ Ahead(b, a)'
    <3>1. PICK queue \in Queues, j \in Jobs :
            /\ queue # <<>> /\ j = queue[1] /\ pending' = Tail(queue)
            /\ status' = [Recovered EXCEPT ![j] = "RUNNING"]
            /\ attempts' = [attempts EXCEPT ![j] = attempts[j] + 1]
      BY <1>1, <2>3, ClaimQueue
    <3> DEFINE m == Len(pending)
    <3> DEFINE n == Len(queue) - 1
    <3>2. /\ queue \in Seq(Jobs) /\ n \in Nat /\ Len(queue) = n + 1 /\ m \in Nat
          /\ m <= n + 1 /\ \A i \in 1..m : queue[i] = pending[i]
          /\ \A i, k \in 1..(n + 1) : i # k => queue[i] # queue[k]
      <4>1. pending \in Seq(Jobs)
        BY <2>0 DEF TypeOK
      <4>2. /\ queue \in Seq(Jobs) /\ m <= Len(queue)
            /\ \A i \in 1..m : queue[i] = pending[i]
            /\ \A i, k \in 1..Len(queue) : i # k => queue[i] # queue[k]
        BY <2>0, QueueFacts
      <4>3. Len(queue) \in Nat /\ Len(queue) > 0
        BY <3>1, <4>2
      <4>. QED
        BY <4>1, <4>2, <4>3
    <3>3. Len(pending') = n /\ \A i \in 1..n : pending'[i] = queue[i + 1]
      BY <3>1, <3>2
    <3>4. PICK p \in 1..m : pending[p] = a
      BY <2>0 DEF QueueExact
    <3>5. \A i, k \in 1..m : ~ (i < k /\ pending[i] = b /\ pending[k] = a)
      BY DEF Ahead
    <3> HIDE DEF m, n
    <3>6. j # a
      <4>1. Recovered \in [Jobs -> Statuses]
        BY <2>0, RecoveredFacts
      <4>. QED
        BY <3>1, <4>1
    <3>7. 1 \in 1..m /\ queue[1] = pending[1]
      BY <3>2, <3>4
    <3>8. p # 1
      BY <3>1, <3>4, <3>6, <3>7
    <3>9. b # j
      BY <3>1, <3>2, <3>4, <3>5, <3>7, <3>8
    <3>10. attempts'[b] = attempts[b]
      BY <2>0, <3>1, <3>9 DEF TypeOK
    <3>11. ASSUME NEW i \in 1..n, NEW k \in 1..n, i < k, pending'[i] = b, pending'[k] = a
           PROVE  FALSE
      <4>1. queue[i + 1] = b /\ queue[k + 1] = a /\ queue[p] = a
        BY <3>2, <3>3, <3>4, <3>11
      <4>2. i + 1 \in 1..(n + 1) /\ k + 1 \in 1..(n + 1) /\ p \in 1..(n + 1)
        BY <3>2
      <4>3. k + 1 = p
        BY <3>2, <4>1, <4>2
      <4>4. i + 1 \in 1..m /\ i + 1 < p
        BY <3>2, <3>11, <4>3
      <4>. QED
        BY <3>2, <3>4, <3>5, <4>1, <4>4
    <3>12. ~ Ahead(b, a)'
      BY <3>3, <3>11 DEF Ahead
    <3>. QED
      BY <3>10, <3>12
  <2>4. ASSUME NEW w \in Workers, Renew(w) \/ Complete(w) \/ Fail(w)
        PROVE  attempts'[b] = attempts[b] /\ ~ Ahead(b, a)'
    <3>1. attempts' = attempts /\ claim[w].job \in Jobs
      BY <1>1, <2>4, HolderFacts DEF Renew, Complete, Fail
    <3>2. pending' = pending \/ pending' = Append(pending, claim[w].job)
      BY <2>4 DEF Renew, Complete, Fail
    <3>. QED
      BY <2>a, <3>1, <3>2
  <2>5. ASSUME Tick \/ UNCHANGED <<columns, pending>>
        PROVE  attempts'[b] = attempts[b] /\ ~ Ahead(b, a)'
    BY <2>5, <2>a DEF Tick, columns
  <2>. QED
    BY <1>1, <2>1, <2>2, <2>3, <2>4, <2>5, TableSteps
<1>2. IInv /\ IInv' /\ [Next]_vars => [\A a, b \in Jobs : InTurn(a, b)]_vars
    BY <1>1
<1>. QED
    BY InvariantHolds, <1>2, PTL DEF Spec, NoOvertaking

-----------------------------------------------------------------------------
(* The contract.                                                           *)

Moves == \A j \in Jobs : Contract!Keeps(j) \/ Contract!Move(j)

LEMMA MovesStep == IInv /\ [Next]_vars => Moves
<1> SUFFICES ASSUME IInv, [Next]_vars
             PROVE  Moves
    OBVIOUS
<1>. USE DEF Moves, Contract!Keeps, Contract!KeepsCounts, Contract!Move
<1>0. TypeOK /\ RecordShape
    BY DEF IInv
<1>1. ASSUME NEW j \in Jobs, Create(j)
      PROVE  Moves
    BY <1>0, <1>1 DEF Create, TypeOK, Contract!Stored
<1>2. ASSUME NEW j \in Jobs, attempts'[j] = attempts[j], result'[j] = result[j],
             status'[j] = Recovered[j]
      PROVE  Contract!Keeps(j) \/ Contract!Move(j)
  <2>1. attempts[j] < MaxAttempts \/ attempts[j] = MaxAttempts
    BY <1>0, JobsAssumption DEF TypeOK
  <2>2. CASE j \in Expired
    BY <1>0, <1>2, <2>1, <2>2, RecoveredFacts DEF Expired, Contract!Returned, Contract!GivenUp
  <2>3. CASE j \notin Expired
    BY <1>0, <1>2, <2>3, RecoveredFacts
  <2>. QED
    BY <2>2, <2>3
<1>3. ASSUME NEW w \in Workers, ClaimNothing(w)
      PROVE  Moves
    BY <1>2, <1>3 DEF ClaimNothing
<1>4. ASSUME NEW w \in Workers, ClaimJob(w)
      PROVE  Moves
  <2>1. PICK j \in Jobs :
          /\ status[j] \in {"PENDING", "RUNNING"} /\ attempts[j] < MaxAttempts
          /\ status'[j] = "RUNNING" /\ attempts'[j] = attempts[j] + 1
          /\ \A k \in Jobs \ {j} : status'[k] = Recovered[k] /\ attempts'[k] = attempts[k]
          /\ result' = result
    BY <1>4, ClaimPointwise
  <2>2. Contract!Reserved(j)
    BY <2>1, MemoryAssumption DEF Contract!Reserved
  <2>. QED
    BY <1>2, <2>1, <2>2
<1>5. ASSUME NEW w \in Workers, Holds(w), Complete(w)
      PROVE  Moves
  <2> DEFINE j == claim[w].job
  <2>1. j \in Jobs /\ claim[w] \in Claims
    BY <1>5, HolderFacts
  <2>2. /\ status' = [status EXCEPT ![j] = "SUCCEEDED"]
        /\ result' = [result EXCEPT ![j] = claim[w]]
        /\ attempts' = attempts
    BY <1>5 DEF Complete
  <2>3. status[j] = "RUNNING" /\ result[j] = Null
    BY <1>0, <1>5, <2>1 DEF Holds, RecordShape
  <2>4. status'[j] = "SUCCEEDED" /\ result'[j] = claim[w] /\ attempts'[j] = attempts[j]
    BY <1>0, <2>1, <2>2 DEF TypeOK
  <2>5. Contract!Completed(j)
    BY <2>1, <2>3, <2>4 DEF Contract!Completed, Claims, Contract!Claims
  <2>6. \A k \in Jobs \ {j} : Contract!Keeps(k)
    BY <1>0, <2>1, <2>2 DEF TypeOK
  <2>. QED
    BY <2>5, <2>6
<1>6. ASSUME NEW w \in Workers, Holds(w), Fail(w)
      PROVE  Moves
  <2> DEFINE j == claim[w].job
  <2>1. j \in Jobs /\ status[j] = "RUNNING"
    BY <1>6, HolderFacts DEF Holds
  <2>2. /\ status' = [status EXCEPT ![j] = AfterAttempt(j)]
        /\ UNCHANGED <<attempts, result>>
    BY <1>6 DEF Fail
  <2> HIDE DEF j
  <2>3. attempts[j] < MaxAttempts \/ attempts[j] = MaxAttempts
    BY <1>0, <2>1, JobsAssumption DEF TypeOK
  <2>4. Contract!Move(j)
    BY <1>0, <2>1, <2>2, <2>3 DEF TypeOK, AfterAttempt, Contract!Returned, Contract!GivenUp
  <2>5. \A k \in Jobs \ {j} : Contract!Keeps(k)
    BY <1>0, <2>1, <2>2 DEF TypeOK
  <2>. QED
    BY <2>4, <2>5
<1>7. ASSUME NEW w \in Workers, Renew(w)
      PROVE  Moves
    BY <1>7 DEF Renew
<1>8. ASSUME Tick \/ UNCHANGED <<columns, pending>>
      PROVE  Moves
    BY <1>8 DEF Tick, columns
<1>. QED
    BY <1>1, <1>3, <1>4, <1>5, <1>6, <1>7, <1>8, TableSteps

\* What get() shows of the repository of one process follows the contract of
\* the job repositories.
THEOREM ImplementsContract == Spec => KeepsContract
<1>1. Init => Contract!ContractInit
    BY DEF Init, ProcessesInit, Contract!ContractInit
<1>2. IInv /\ IInv' /\ [Next]_vars => [Contract!ContractNext]_(Contract!contractVars)
  <2> SUFFICES ASSUME IInv, IInv', [Next]_vars
               PROVE  Contract!ContractNext
    OBVIOUS
  <2>1. Moves
    BY MovesStep
  <2>2. Contract!ContractType'
    BY DEF IInv, TypeOK, Contract!ContractType, Statuses, Contract!Statuses, Claims,
           Contract!Claims
  <2>3. Contract!StoredTogether
    BY MemoryAssumption DEF Contract!StoredTogether
  <2>. QED
    BY <2>1, <2>2, <2>3 DEF Moves, Contract!ContractNext
<1>. QED
    BY InvariantHolds, <1>1, <1>2, PTL DEF Spec, KeepsContract, Contract!ContractSpec
=============================================================================
