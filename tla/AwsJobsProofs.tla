---------------------------- MODULE AwsJobsProofs ----------------------------
(***************************************************************************)
(* The safety of the AWS deployment, for any number of jobs, workers,      *)
(* reconcilers, attempts and ticks.  There is no transaction to lean on:   *)
(* everything rests on what a reader whose row nobody has replaced since   *)
(* still knows of that row.  The inductive invariant has three layers:     *)
(*                                                                         *)
(*   Typed         types, and which steps hold a claim or a row            *)
(*   Reservations  a reader that is fresh reads the row as it is, and a    *)
(*                 claim is issued to one worker only                      *)
(*   Publications  what is saved and recorded is what the last claim       *)
(*                 built, and how a reducer stands to its partitions       *)
(***************************************************************************)
EXTENDS AwsJobs, TLAPS

\* The steps at which a worker has a claim that was issued to it.
Claimed(w) == pc[w] \notin {"idle", "claiming", "down"}

ClaimShape ==
    \A w \in Workers :
        /\ Claimed(w) => claim[w] \in Claims
        /\ pc[w] = "claiming" => claim[w] \in Wanted
        /\ pc[w] \in {"idle", "down"} => claim[w] = NoClaim
        /\ pc[w] \notin Beating => beat[w] = "off"

\* A reconciler has a row that needed attention when it was read, or none.
HandShape ==
    \A r \in Reconcilers :
        hand[r] # NoRow => hand[r] \in [job : Jobs, status : {"PENDING", "RUNNING"}]

Typed == TypeOK /\ ClaimShape /\ HandShape

-----------------------------------------------------------------------------
\* The reservation of w's job is the one w was given, live or not.
IsReserved(w) ==
    LET j == claim[w].job
    IN status[j] = "RUNNING" /\ token[j] = claim[w].token /\ owner[j] = IdOf[w]

\* What a fresh reader knows: a worker at the step before its put, and a
\* reconciler, find the row as they read it, whoever else is on its way to it.
WorkerKnows(w) ==
    IF pc[w] = "claiming" THEN Ready(claim[w].job)
    ELSE /\ pc[w] \in {"publishing", "returning"} \/ beat[w] = "renewing"
         /\ IsReserved(w)

ReconcilerKnows(r) ==
    /\ hand[r] # NoRow
    /\ status[hand[r].job] = hand[r].status
    /\ hand[r].status = "RUNNING" => lease[hand[r].job] = 0

FreshTrue ==
    /\ \A w \in Workers : w \in fresh => WorkerKnows(w)
    /\ \A r \in Reconcilers : r \in fresh => ReconcilerKnows(r)

\* A reducer and its partitions are stored together.
FamilyStored ==
    \A j \in Jobs : \A c \in PartsOf[j] :
        status[c] = "ABSENT" <=> status[j] = "ABSENT"

\* The attempts of a job number its tokens, and there are MaxAttempts of them.
AttemptsCounted ==
    \A j \in Jobs :
        /\ attempts[j] \in 0..MaxAttempts
        /\ status[j] = "PENDING" => attempts[j] < MaxAttempts
        /\ status[j] = "ABSENT" => attempts[j] = 0
        /\ status[j] = "RUNNING" =>
              attempts[j] > 0 /\ token[j] = attempts[j] /\ lease[j] # Null

\* A claim in the hands of a worker was issued, and to no other worker.
ClaimsUnique ==
    \A w \in Workers : Claimed(w) =>
        /\ claim[w].token <= attempts[claim[w].job]
        /\ \A v \in Workers : Claimed(v) /\ claim[v] = claim[w] => v = w

Reservations == FreshTrue /\ FamilyStored /\ AttemptsCounted /\ ClaimsUnique

-----------------------------------------------------------------------------
\* Every saved graph, and every graph on its way, holds what it should.
GraphsTrue ==
    /\ \A g \in graphs : g.holds = WordsOf(g.id.job)
    /\ \A w \in Workers :
        /\ pc[w] = "save" => built[w] = WordsOf(claim[w].job)
        /\ pc[w] \in {"join", "publish", "publishing"} =>
              [id |-> claim[w], holds |-> WordsOf(claim[w].job)] \in graphs

ResultShape ==
    \A j \in Jobs :
        IF status[j] = "SUCCEEDED"
        THEN result[j] = [job |-> j, token |-> attempts[j]]
        ELSE result[j] = Null

Publications ==
    /\ GraphsTrue
    /\ ResultShape
    /\ PublishedWhole
    /\ ReducerOverConfirmed
    /\ GivenUpForCause

IInv == Typed /\ Reservations /\ Publications

-----------------------------------------------------------------------------
(* The first layer.                                                        *)

LEMMA TypedInit == Init => Typed
    BY JobsAssumption, WorkersAssumption, AwsAssumption
    DEF Init, ProcessesInit, Typed, TypeOK, ClaimShape, HandShape,
        Claimed, Statuses, Steps, Beats, Beating

\* The steps that touch the table.
LEMMA TableSteps ==
    ASSUME [Next]_vars
    PROVE  \/ \E r \in Roots : Store(r)
           \/ \E w \in Workers : Reserve(w) \/ RenewWrite(w) \/ Publish(w) \/ Return(w)
           \/ \E r \in Reconcilers : Expire(r) \/ GiveUp(r)
           \/ Tick
           \/ UNCHANGED columns
<1>1. ASSUME NEW w \in Workers,
             \/ ReserveFails(w) \/ Body(w) \/ FinishRead(w) \/ PublishFails(w)
             \/ FinishFails(w) \/ RenewRead(w) \/ RenewFails(w) \/ Crash(w) \/ Restart(w)
      PROVE  UNCHANGED columns
    BY <1>1 DEF ReserveFails, Body, Build, BodyError, Save, SaveUntold, Join, Unwind, Quiet,
        FinishRead, PublishFails, FinishFails, RenewRead, RenewFails, Crash, Restart
<1>2. ASSUME NEW w \in Workers, NEW j \in Jobs, Dismiss(w, j) \/ Receive(w, j)
      PROVE  UNCHANGED columns
    BY <1>2 DEF Dismiss, Receive
<1>3. ASSUME NEW r \in Reconcilers, Announce(r) \/ Skip(r) \/ \E j \in Jobs : Scan(r, j)
      PROVE  UNCHANGED columns
    BY <1>3 DEF Announce, Skip, Scan
<1>4. ASSUME UNCHANGED vars \/ \E j \in Jobs : Lose(j)
      PROVE  UNCHANGED columns
    BY <1>4 DEF vars, Lose
<1>. QED
    BY <1>1, <1>2, <1>3, <1>4 DEF Next, Work, Claiming, Finish, Renewal

LEMMA TypeStep == Typed /\ [Next]_vars => TypeOK'
<1> SUFFICES ASSUME Typed, [Next]_vars
             PROVE  TypeOK'
    OBVIOUS
<1>. USE WorkersAssumption, AwsAssumption
     DEF Typed, TypeOK, ClaimShape, Claimed, Statuses, Steps, Beats, columns, processes,
         Reads, Drops
<1>1. ASSUME NEW r \in Roots, Store(r)
      PROVE  TypeOK'
    BY <1>1 DEF Store, Submission
<1>2. ASSUME NEW w \in Workers, NEW j \in Jobs, Dismiss(w, j)
      PROVE  TypeOK'
    BY <1>2 DEF Dismiss, Acknowledges
<1>3. ASSUME NEW w \in Workers, NEW j \in Jobs, Receive(w, j)
      PROVE  TypeOK'
    BY <1>3 DEF Receive, Goes, Wanted
<1>4. ASSUME NEW w \in Workers, Reserve(w)
      PROVE  TypeOK'
  <2>1. claim[w].job \in Jobs
    BY <1>4 DEF Reserve, Wanted
  <2>2. /\ status' \in [Jobs -> Statuses] /\ attempts' \in [Jobs -> Nat]
        /\ owner' \in [Jobs -> WorkerIds \cup {Null}]
        /\ token' \in [Jobs -> Nat \cup {Null}]
        /\ lease' \in [Jobs -> 0..LeaseTicks \cup {Null}]
    BY <1>4, <2>1 DEF Reserve
  <2>3. /\ pc' \in [Workers -> Steps] /\ claim' \in [Workers -> Claims \cup Wanted \cup {NoClaim}]
        /\ built' \in [Workers -> SUBSET Jobs] /\ beat' \in [Workers -> Beats]
    <3>1. [job |-> claim[w].job, token |-> attempts'[claim[w].job]] \in Claims
      BY <2>1, <2>2 DEF Claims
    <3>2. CASE Begins(w, [job |-> claim[w].job, token |-> attempts'[claim[w].job]])
      BY <3>1, <3>2 DEF Begins, Goes
    <3>3. CASE Forgets(w, "idle")
      BY <3>3 DEF Forgets, Goes
    <3>. QED
      BY <1>4, <3>2, <3>3 DEF Reserve
  <2>. QED
    BY <1>4, <2>2, <2>3 DEF Reserve, Replaces
<1>5. ASSUME NEW w \in Workers, ReserveFails(w)
      PROVE  TypeOK'
    BY <1>5 DEF ReserveFails, Forgets, Goes
<1>6. ASSUME NEW w \in Workers, RenewRead(w)
      PROVE  TypeOK'
    BY <1>6 DEF RenewRead
<1>7. ASSUME NEW w \in Workers, RenewWrite(w)
      PROVE  TypeOK'
  <2>1. lease' \in [Jobs -> 0..LeaseTicks \cup {Null}]
    <3>1. PICK left \in 0..LeaseTicks : lease' = [lease EXCEPT ![claim[w].job] = left]
      BY <1>7 DEF RenewWrite
    <3>. QED
      BY <3>1
  <2>2. beat' \in [Workers -> Beats] /\ fresh' \subseteq Workers \cup Reconcilers
    BY <1>7 DEF RenewWrite, Replaces
  <2>. QED
    BY <1>7, <2>1, <2>2 DEF RenewWrite
<1>8. ASSUME NEW w \in Workers, RenewFails(w)
      PROVE  TypeOK'
    BY <1>8 DEF RenewFails
<1>9. ASSUME NEW w \in Workers, Build(w)
      PROVE  TypeOK'
  <2>1. claim[w].job \in Jobs
    BY <1>9 DEF Build, BuildGraph, Claims
  <2>2. \A g \in graphs : g.holds \subseteq Jobs
    BY DEF GraphRows
  <2>3. UNION {g.holds : g \in PartGraphs(claim[w].job)} \subseteq Jobs
    BY <2>2 DEF PartGraphs
  <2>4. built' \in [Workers -> SUBSET Jobs]
    BY <1>9, <2>1, <2>3 DEF Build, BuildGraph
  <2>. QED
    BY <1>9, <2>4 DEF Build, BuildGraph, Quiet, Goes
<1>10. ASSUME NEW w \in Workers, BodyError(w)
       PROVE  TypeOK'
    BY <1>10 DEF BodyError, BodyRaises, Quiet, Goes
<1>11. ASSUME NEW w \in Workers, Save(w)
       PROVE  TypeOK'
    BY <1>11 DEF Save, SaveGraph, Quiet, Goes, GraphRows
<1>12. ASSUME NEW w \in Workers, SaveUntold(w)
       PROVE  TypeOK'
    BY <1>12 DEF SaveUntold, Goes, GraphRows
<1>13. ASSUME NEW w \in Workers, Join(w)
       PROVE  TypeOK'
    BY <1>13 DEF Join, JoinBeat, Quiet, Goes, Forgets
<1>14. ASSUME NEW w \in Workers, Unwind(w)
       PROVE  TypeOK'
    BY <1>14 DEF Unwind, Unwinds, Quiet, Goes
<1>15. ASSUME NEW w \in Workers, FinishRead(w)
       PROVE  TypeOK'
    BY <1>15 DEF FinishRead, Goes, Forgets
<1>16. ASSUME NEW w \in Workers, Publish(w)
       PROVE  TypeOK'
  <2>1. claim[w] \in Claims /\ claim[w].job \in Jobs
    BY <1>16 DEF Publish, Claims
  <2>2. /\ status' \in [Jobs -> Statuses] /\ result' \in [Jobs -> Claims \cup {Null}]
        /\ UNCHANGED <<attempts, owner, token, lease, graphs, hand>>
        /\ queue' \subseteq Jobs /\ fresh' \subseteq Workers \cup Reconcilers
    BY <1>16, <2>1 DEF Publish, Acknowledges, Replaces
  <2>3. /\ pc' \in [Workers -> Steps] /\ claim' \in [Workers -> Claims \cup Wanted \cup {NoClaim}]
        /\ built' \in [Workers -> SUBSET Jobs] /\ beat' \in [Workers -> Beats]
    BY <1>16 DEF Publish, Goes, Forgets
  <2>. QED
    BY <2>2, <2>3
<1>17. ASSUME NEW w \in Workers, PublishFails(w)
       PROVE  TypeOK'
    BY <1>17 DEF PublishFails, Goes
<1>18. ASSUME NEW w \in Workers, Return(w)
       PROVE  TypeOK'
  <2>1. /\ status' \in [Jobs -> Statuses] /\ result' \in [Jobs -> Claims \cup {Null}]
        /\ UNCHANGED <<attempts, owner, token, lease, graphs, hand>>
        /\ queue' \subseteq Jobs /\ fresh' \subseteq Workers \cup Reconcilers
    BY <1>18 DEF Return, AfterAttempt, Acknowledges, Replaces
  <2>2. /\ pc' \in [Workers -> Steps] /\ claim' \in [Workers -> Claims \cup Wanted \cup {NoClaim}]
        /\ built' \in [Workers -> SUBSET Jobs] /\ beat' \in [Workers -> Beats]
    BY <1>18 DEF Return, Goes, Forgets
  <2>. QED
    BY <2>1, <2>2
<1>19. ASSUME NEW w \in Workers, FinishFails(w)
       PROVE  TypeOK'
    BY <1>19 DEF FinishFails, Goes, Forgets
<1>20. ASSUME NEW r \in Reconcilers, NEW j \in Jobs, Scan(r, j)
       PROVE  TypeOK'
    BY <1>20 DEF Scan, Rows
<1>21. ASSUME NEW r \in Reconcilers, Expire(r)
       PROVE  TypeOK'
  <2>1. status' \in [Jobs -> Statuses]
    BY <1>21 DEF Expire, AfterAttempt
  <2>2. hand' \in [Reconcilers -> Rows \cup {NoRow}]
    <3>1. hand[r] \in Rows
      BY <1>21 DEF Expire, NoRow
    <3>2. [hand[r] EXCEPT !.status = "PENDING"] \in Rows
      BY <3>1 DEF Rows
    <3>. QED
      BY <1>21, <3>2 DEF Expire, LetsGo
  <2>3. fresh' \subseteq Workers \cup Reconcilers
    BY <1>21 DEF Expire, Replaces
  <2>. QED
    BY <1>21, <2>1, <2>2, <2>3 DEF Expire
<1>22. ASSUME NEW r \in Reconcilers, GiveUp(r)
       PROVE  TypeOK'
    BY <1>22 DEF GiveUp, LetsGo, Replaces
<1>23. ASSUME NEW r \in Reconcilers, Announce(r)
       PROVE  TypeOK'
  <2>1. hand[r].job \in Jobs
    BY <1>23 DEF Announce, NoRow, Rows
  <2>. QED
    BY <1>23, <2>1 DEF Announce, LetsGo
<1>24. ASSUME NEW r \in Reconcilers, Skip(r)
       PROVE  TypeOK'
    BY <1>24 DEF Skip, LetsGo
<1>25. ASSUME NEW w \in Workers, Crash(w)
       PROVE  TypeOK'
    BY <1>25 DEF Crash, Dies, Goes, Forgets
<1>26. ASSUME NEW w \in Workers, Restart(w)
       PROVE  TypeOK'
    BY <1>26 DEF Restart, Starts, Quiet, Goes
<1>27. ASSUME Tick
       PROVE  TypeOK'
    BY <1>27 DEF Tick
<1>28. ASSUME NEW j \in Jobs, Lose(j)
       PROVE  TypeOK'
    BY <1>28 DEF Lose
<1>29. ASSUME UNCHANGED vars
       PROVE  TypeOK'
    BY <1>29 DEF vars
<1>. QED
    BY <1>1, <1>2, <1>3, <1>4, <1>5, <1>6, <1>7, <1>8, <1>9, <1>10, <1>11, <1>12,
       <1>13, <1>14, <1>15, <1>16, <1>17, <1>18, <1>19, <1>20, <1>21, <1>22, <1>23,
       <1>24, <1>25, <1>26, <1>27, <1>28, <1>29
    DEF Next, Work, Claiming, Body, Finish, Renewal

\* A step that takes a worker's claim out of its hands, or gives it none, keeps
\* the shape of the claims.
LEMMA ClaimStep == Typed /\ [Next]_vars => ClaimShape'
<1> SUFFICES ASSUME Typed, [Next]_vars
             PROVE  ClaimShape'
    OBVIOUS
<1>. USE DEF Typed, TypeOK, ClaimShape, Claimed, Steps, Beating, Beats, processes
<1>1. ASSUME NEW w \in Workers, NEW j \in Jobs, Receive(w, j)
      PROVE  ClaimShape'
    BY <1>1 DEF Receive, Goes, Wanted
<1>2. ASSUME NEW w \in Workers, Reserve(w)
      PROVE  ClaimShape'
  <2> DEFINE c == [job |-> claim[w].job, token |-> attempts'[claim[w].job]]
  <2>1. c \in Claims
    BY <1>2 DEF Reserve, Wanted, Claims
  <2>2. Begins(w, c) \/ Forgets(w, "idle")
    BY <1>2 DEF Reserve
  <2> HIDE DEF c
  <2>. QED
    BY <2>1, <2>2 DEF Begins, Forgets, Goes
<1>3. ASSUME NEW w \in Workers, ReserveFails(w) \/ Crash(w)
      PROVE  ClaimShape'
    BY <1>3 DEF ReserveFails, Crash, Dies, Forgets, Goes
<1>4. ASSUME NEW w \in Workers, RenewRead(w) \/ RenewFails(w)
      PROVE  ClaimShape'
    BY <1>4 DEF RenewRead, RenewFails
<1>5. ASSUME NEW w \in Workers, RenewWrite(w)
      PROVE  ClaimShape'
    BY <1>5 DEF RenewWrite, Stopping
<1>6. ASSUME NEW w \in Workers, Build(w) \/ BodyError(w)
      PROVE  ClaimShape'
    BY <1>6 DEF Build, BuildGraph, BodyError, BodyRaises, Goes
<1>7. ASSUME NEW w \in Workers, Save(w) \/ SaveUntold(w)
      PROVE  ClaimShape'
    BY <1>7 DEF Save, SaveGraph, SaveUntold, Goes
<1>8. ASSUME NEW w \in Workers, Join(w) \/ Unwind(w)
      PROVE  ClaimShape'
    BY <1>8 DEF Join, JoinBeat, Unwind, Unwinds, Forgets, Goes
<1>9. ASSUME NEW w \in Workers, FinishRead(w)
      PROVE  ClaimShape'
    BY <1>9 DEF FinishRead, Forgets, Goes
<1>10. ASSUME NEW w \in Workers, Publish(w)
       PROVE  ClaimShape'
    BY <1>10 DEF Publish, Forgets, Goes
<1>11. ASSUME NEW w \in Workers, PublishFails(w) \/ Restart(w)
       PROVE  ClaimShape'
    BY <1>11 DEF PublishFails, Restart, Starts, Goes
<1>12. ASSUME NEW w \in Workers, Return(w) \/ FinishFails(w)
       PROVE  ClaimShape'
    BY <1>12 DEF Return, FinishFails, Forgets, Goes
<1>13. ASSUME UNCHANGED processes
       PROVE  ClaimShape'
    BY <1>13
<1>14. ASSUME NEW w \in Workers, NEW j \in Jobs, Dismiss(w, j)
       PROVE  UNCHANGED processes
    BY <1>14 DEF Dismiss
<1>15. ASSUME NEW r \in Reconcilers,
              Expire(r) \/ GiveUp(r) \/ Announce(r) \/ Skip(r) \/ \E j \in Jobs : Scan(r, j)
       PROVE  UNCHANGED processes
    BY <1>15 DEF Expire, GiveUp, Announce, Skip, Scan
<1>16. ASSUME \/ \E r \in Roots : Store(r)
              \/ \E j \in Jobs : Lose(j)
              \/ Tick
              \/ UNCHANGED vars
       PROVE  UNCHANGED processes
    BY <1>16 DEF Store, Lose, Tick, vars
<1>. QED
    BY <1>1, <1>2, <1>3, <1>4, <1>5, <1>6, <1>7, <1>8, <1>9, <1>10, <1>11, <1>12,
       <1>13, <1>14, <1>15, <1>16
    DEF Next, Work, Claiming, Body, Finish, Renewal

\* Only a reconciler touches the rows reconcilers have in their hands.
LEMMA HandSteps ==
    ASSUME [Next]_vars
    PROVE  \/ \E r \in Reconcilers, j \in Jobs : Scan(r, j)
           \/ \E r \in Reconcilers : Expire(r) \/ GiveUp(r) \/ Announce(r) \/ Skip(r)
           \/ UNCHANGED hand
<1>1. ASSUME NEW w \in Workers, Work(w) \/ RenewRead(w) \/ Renewal(w)
      PROVE  UNCHANGED hand
  <2>1. CASE Claiming(w)
    BY <2>1 DEF Claiming, Reserve, ReserveFails
  <2>2. CASE Body(w)
    BY <2>2 DEF Body, Build, BodyError, Save, SaveUntold, Join, Unwind, Quiet
  <2>3. CASE Finish(w)
    BY <2>3 DEF Finish, FinishRead, Publish, PublishFails, Return, FinishFails
  <2>. QED
    BY <1>1, <2>1, <2>2, <2>3 DEF Work, RenewRead, Renewal, RenewWrite, RenewFails
<1>2. ASSUME \/ \E w \in Workers : Crash(w) \/ Restart(w)
             \/ \E w \in Workers, j \in Jobs : Dismiss(w, j) \/ Receive(w, j)
             \/ \E r \in Roots : Store(r)
             \/ \E j \in Jobs : Lose(j)
             \/ Tick
             \/ UNCHANGED vars
      PROVE  UNCHANGED hand
    BY <1>2 DEF Crash, Restart, Quiet, Dismiss, Receive, Store, Lose, Tick, vars
<1>. QED
    BY <1>1, <1>2 DEF Next

LEMMA HandStep == Typed /\ [Next]_vars => HandShape'
<1> SUFFICES ASSUME Typed, [Next]_vars
             PROVE  HandShape'
    OBVIOUS
<1>. USE DEF Typed, TypeOK, HandShape
<1>1. ASSUME NEW r \in Reconcilers, NEW j \in Jobs, Scan(r, j)
      PROVE  HandShape'
    BY <1>1 DEF Scan
<1>2. ASSUME NEW r \in Reconcilers, Expire(r)
      PROVE  HandShape'
  <2>1. hand[r] \in [job : Jobs, status : {"PENDING", "RUNNING"}]
    BY <1>2, AwsAssumption DEF Expire, NoRow, Statuses
  <2> DEFINE row == [hand[r] EXCEPT !.status = "PENDING"]
  <2>2. row \in [job : Jobs, status : {"PENDING", "RUNNING"}]
    BY <2>1
  <2>3. hand' = [hand EXCEPT ![r] = NoRow] \/ hand' = [hand EXCEPT ![r] = row]
    BY <1>2 DEF Expire, LetsGo
  <2> HIDE DEF row
  <2>. QED
    BY <2>2, <2>3
<1>3. ASSUME NEW r \in Reconcilers, GiveUp(r) \/ Announce(r) \/ Skip(r)
      PROVE  HandShape'
    BY <1>3 DEF GiveUp, Announce, Skip, LetsGo
<1>4. ASSUME UNCHANGED hand
      PROVE  HandShape'
    BY <1>4
<1>. QED
    BY <1>1, <1>2, <1>3, <1>4, HandSteps

LEMMA TypedStep == Typed /\ [Next]_vars => Typed'
    BY TypeStep, ClaimStep, HandStep DEF Typed

\* Every column, message, row in hand and process variable keeps its type.
THEOREM TypesHold == Spec => []TypeOK
<1>1. Spec => []Typed
    BY TypedInit, TypedStep, PTL DEF Spec
<1>2. Typed => TypeOK
    BY DEF Typed
<1>. QED
    BY <1>1, <1>2, PTL

-----------------------------------------------------------------------------
(* What the writers do.  Each is current, so it finds the row as it knows  *)
(* it, and replaces that row only.                                         *)

LEMMA ReserveFacts ==
    ASSUME Typed, Reservations, NEW w \in Workers, Reserve(w)
    PROVE  LET j == claim[w].job IN
           /\ j \in Jobs /\ status[j] = "PENDING" /\ attempts[j] < MaxAttempts
           /\ \A c \in PartsOf[j] : status[c] = "SUCCEEDED"
           /\ status' = [status EXCEPT ![j] = "RUNNING"]
           /\ attempts' = [attempts EXCEPT ![j] = attempts[j] + 1]
           /\ token' = [token EXCEPT ![j] = attempts[j] + 1]
           /\ owner' = [owner EXCEPT ![j] = IdOf[w]]
           /\ \E left \in 0..LeaseTicks : lease' = [lease EXCEPT ![j] = left]
           /\ result' = result /\ graphs' = graphs /\ hand' = hand
<1>1. pc[w] = "claiming" /\ w \in fresh /\ claim[w].job \in Jobs
    BY DEF Reserve, Replaces, Current, Typed, ClaimShape, Wanted
<1>2. Ready(claim[w].job) /\ attempts[claim[w].job] < MaxAttempts
    BY <1>1 DEF Reservations, FreshTrue, WorkerKnows, AttemptsCounted, Ready
<1>. QED
    BY <1>1, <1>2 DEF Reserve, Ready, Typed, TypeOK

LEMMA RenewWriteFacts ==
    ASSUME Typed, Reservations, NEW w \in Workers, RenewWrite(w)
    PROVE  LET j == claim[w].job IN
           /\ j \in Jobs /\ Claimed(w) /\ IsReserved(w)
           /\ \E left \in 0..LeaseTicks : lease' = [lease EXCEPT ![j] = left]
           /\ UNCHANGED <<status, attempts, owner, token, result, graphs, hand>>
<1>1. pc[w] \in Beating /\ w \in fresh
    BY DEF RenewWrite, Replaces, Current, Typed, ClaimShape
<1>2. Claimed(w) /\ claim[w].job \in Jobs /\ IsReserved(w)
    BY <1>1 DEF Claimed, Beating, Claims, Typed, ClaimShape, Reservations, FreshTrue,
                WorkerKnows
<1>. QED
    BY <1>2 DEF RenewWrite

LEMMA PublishFacts ==
    ASSUME Typed, Reservations, NEW w \in Workers, Publish(w)
    PROVE  LET j == claim[w].job IN
           /\ j \in Jobs /\ Claimed(w) /\ pc[w] = "publishing" /\ IsReserved(w)
           /\ claim[w] = [job |-> j, token |-> attempts[j]] /\ claim[w] \in Claims
           /\ status' = [status EXCEPT ![j] = "SUCCEEDED"]
           /\ result' = [result EXCEPT ![j] = claim[w]]
           /\ UNCHANGED <<attempts, owner, token, lease, graphs, hand>>
<1>1. pc[w] = "publishing" /\ w \in fresh /\ Claimed(w)
    BY DEF Publish, Replaces, Current, Claimed
<1>2. claim[w] \in Claims /\ claim[w].job \in Jobs /\ IsReserved(w)
    BY <1>1 DEF Claims, Typed, ClaimShape, Reservations, FreshTrue, WorkerKnows
<1>3. claim[w] = [job |-> claim[w].job, token |-> attempts[claim[w].job]]
    BY <1>2 DEF Claims, IsReserved, Reservations, AttemptsCounted
<1>. QED
    BY <1>1, <1>2, <1>3 DEF Publish

LEMMA ReturnFacts ==
    ASSUME Typed, Reservations, NEW w \in Workers, Return(w)
    PROVE  LET j == claim[w].job IN
           /\ j \in Jobs /\ claim[w] \in Claims /\ pc[w] = "returning" /\ IsReserved(w)
           /\ status' = [status EXCEPT ![j] = AfterAttempt(j)]
           /\ result' = [result EXCEPT ![j] = Null]
           /\ UNCHANGED <<attempts, owner, token, lease, graphs, hand>>
<1>1. pc[w] = "returning" /\ w \in fresh
    BY DEF Return, Replaces, Current
<1>2. claim[w] \in Claims /\ claim[w].job \in Jobs /\ IsReserved(w)
    BY <1>1 DEF Claims, Claimed, Typed, ClaimShape, Reservations, FreshTrue, WorkerKnows
<1>. QED
    BY <1>1, <1>2 DEF Return

\* The row a reconciler has in its hands is of a job.
LEMMA HandFacts ==
    ASSUME Typed, NEW r \in Reconcilers, hand[r].status \in {"PENDING", "RUNNING"}
    PROVE  hand[r] # NoRow /\ hand[r].job \in Jobs
<1>1. hand[r] # NoRow
    BY AwsAssumption DEF NoRow, Statuses
<1>. QED
    BY <1>1 DEF Typed, HandShape

LEMMA ExpireFacts ==
    ASSUME Typed, Reservations, NEW r \in Reconcilers, Expire(r)
    PROVE  LET j == hand[r].job IN
           /\ j \in Jobs /\ status[j] = "RUNNING" /\ lease[j] = 0
           /\ status' = [status EXCEPT ![j] = AfterAttempt(j)]
           /\ UNCHANGED <<attempts, owner, token, lease, result, graphs, processes>>
<1>1. hand[r].job \in Jobs
    BY HandFacts DEF Expire
<1>2. r \in fresh
    BY DEF Expire, Replaces, Current
<1>. QED
    BY <1>1, <1>2 DEF Expire, Reservations, FreshTrue, ReconcilerKnows

LEMMA GiveUpFacts ==
    ASSUME Typed, Reservations, NEW r \in Reconcilers, GiveUp(r)
    PROVE  LET j == hand[r].job IN
           /\ j \in Jobs /\ status[j] = "PENDING"
           /\ \E c \in PartsOf[j] : status[c] = "FAILED"
           /\ status' = [status EXCEPT ![j] = "FAILED"]
           /\ UNCHANGED <<attempts, owner, token, lease, result, graphs, processes>>
<1>1. hand[r].job \in Jobs
    BY HandFacts DEF GiveUp
<1>2. r \in fresh
    BY DEF GiveUp, Replaces, Current
<1>. QED
    BY <1>1, <1>2 DEF GiveUp, Reservations, FreshTrue, ReconcilerKnows

-----------------------------------------------------------------------------
(* The second layer.                                                       *)

LEMMA ReservationsInit == Init => Reservations
    BY JobsAssumption, WorkersAssumption, AwsAssumption
    DEF Init, ProcessesInit, Reservations, FreshTrue, FamilyStored, AttemptsCounted,
        ClaimsUnique, Claimed

\* A job that is no partition and is stored brings its partitions along; none of
\* them was there.
LEMMA StoreFacts ==
    ASSUME Typed, FamilyStored, NEW r \in Roots, Store(r)
    PROVE  /\ \A k \in Jobs : IF k \in Submission(r)
                              THEN status[k] = "ABSENT" /\ status'[k] = "PENDING"
                              ELSE status'[k] = status[k]
           /\ \A k \in Jobs : \A c \in PartsOf[k] : c \in Submission(r) <=> k \in Submission(r)
<1>1. r \in Jobs /\ PartsOf[r] \subseteq Jobs /\ status[r] = "ABSENT"
    BY JobsAssumption DEF Roots, Store
<1>2. \A k \in Submission(r) : status[k] = "ABSENT"
    BY <1>1 DEF Submission, FamilyStored
<1>3. \A k \in Jobs : status'[k] = IF k \in Submission(r) THEN "PENDING" ELSE status[k]
    BY DEF Store
<1>4. ASSUME NEW k \in Jobs, NEW c \in PartsOf[k]
      PROVE  c \in Submission(r) <=> k \in Submission(r)
    BY <1>4, JobsAssumption DEF Submission, Roots
<1>. QED
    BY <1>2, <1>3, <1>4

LEMMA AttemptsStep ==
    ASSUME Typed, Reservations, [Next]_vars
    PROVE  FamilyStored' /\ AttemptsCounted'
<1>. USE JobsAssumption, WorkersAssumption
     DEF Typed, TypeOK, FamilyStored, AttemptsCounted, Statuses
<1>1. ASSUME NEW r \in Roots, Store(r)
      PROVE  FamilyStored' /\ AttemptsCounted'
  <2>1. FamilyStored
    BY DEF Reservations
  <2>2. UNCHANGED <<attempts, token, lease>>
    BY <1>1 DEF Store
  <2>. QED
    BY <1>1, <2>1, <2>2, StoreFacts DEF Reservations
<1>2. ASSUME NEW w \in Workers, Reserve(w)
      PROVE  FamilyStored' /\ AttemptsCounted'
    BY <1>2, ReserveFacts DEF Reservations
<1>3. ASSUME NEW w \in Workers, RenewWrite(w)
      PROVE  FamilyStored' /\ AttemptsCounted'
    BY <1>3, RenewWriteFacts DEF Reservations
<1>4. ASSUME NEW w \in Workers, Publish(w)
      PROVE  FamilyStored' /\ AttemptsCounted'
    BY <1>4, PublishFacts DEF Reservations, IsReserved
<1>5. ASSUME NEW w \in Workers, Return(w)
      PROVE  FamilyStored' /\ AttemptsCounted'
  <2> DEFINE j == claim[w].job
  <2>1. /\ j \in Jobs /\ status[j] = "RUNNING" /\ status' = [status EXCEPT ![j] = AfterAttempt(j)]
        /\ UNCHANGED <<attempts, token, lease>>
    BY <1>5, ReturnFacts DEF IsReserved
  <2> HIDE DEF j
  <2>. QED
    BY <2>1 DEF Reservations, AfterAttempt
<1>6. ASSUME NEW r \in Reconcilers, Expire(r)
      PROVE  FamilyStored' /\ AttemptsCounted'
    BY <1>6, ExpireFacts DEF Reservations, AfterAttempt
<1>7. ASSUME NEW r \in Reconcilers, GiveUp(r)
      PROVE  FamilyStored' /\ AttemptsCounted'
    BY <1>7, GiveUpFacts DEF Reservations
<1>8. ASSUME Tick \/ UNCHANGED columns
      PROVE  FamilyStored' /\ AttemptsCounted'
    BY <1>8 DEF Tick, columns, Reservations
<1>. QED
    BY <1>1, <1>2, <1>3, <1>4, <1>5, <1>6, <1>7, <1>8, TableSteps

\* Only a reservation hands out a claim; every other step keeps or drops claims.
LEMMA ClaimsKept ==
    ASSUME Typed, [Next]_vars
    PROVE  \/ \E w \in Workers : Reserve(w)
           \/ /\ attempts' = attempts
              /\ \A v \in Workers : Claimed(v)' => Claimed(v) /\ claim'[v] = claim[v]
<1> DEFINE Kept == /\ attempts' = attempts
                   /\ \A v \in Workers : Claimed(v)' => Claimed(v) /\ claim'[v] = claim[v]
<1>. USE DEF Typed, TypeOK, Claimed, columns, Quiet
<1>1. ASSUME NEW w \in Workers, NEW j \in Jobs, Receive(w, j) \/ Dismiss(w, j)
      PROVE  Kept
    BY <1>1 DEF Receive, Dismiss, Goes, processes
<1>2. ASSUME NEW w \in Workers, ReserveFails(w) \/ Crash(w) \/ Restart(w)
      PROVE  Kept
    BY <1>2 DEF ReserveFails, Crash, Dies, Restart, Starts, Forgets, Goes
<1>3. ASSUME NEW w \in Workers, RenewRead(w) \/ RenewFails(w) \/ RenewWrite(w)
      PROVE  Kept
    BY <1>3 DEF RenewRead, RenewFails, RenewWrite
<1>4. ASSUME NEW w \in Workers, Build(w) \/ BodyError(w) \/ Save(w) \/ SaveUntold(w)
      PROVE  Kept
    BY <1>4 DEF Build, BuildGraph, BodyError, BodyRaises, Save, SaveGraph, SaveUntold, Goes
<1>5. ASSUME NEW w \in Workers, Join(w) \/ Unwind(w)
      PROVE  Kept
    BY <1>5 DEF Join, JoinBeat, Unwind, Unwinds, Forgets, Goes
<1>6. ASSUME NEW w \in Workers, FinishRead(w) \/ PublishFails(w)
      PROVE  Kept
    BY <1>6 DEF FinishRead, PublishFails, Forgets, Goes
<1>7. ASSUME NEW w \in Workers, Publish(w) \/ Return(w) \/ FinishFails(w)
      PROVE  Kept
    BY <1>7 DEF Publish, Return, FinishFails, Forgets, Goes
<1>8. ASSUME NEW r \in Reconcilers,
             Expire(r) \/ GiveUp(r) \/ Announce(r) \/ Skip(r) \/ \E j \in Jobs : Scan(r, j)
      PROVE  Kept
    BY <1>8 DEF Expire, GiveUp, Announce, Skip, Scan, processes
<1>9. ASSUME \/ \E r \in Roots : Store(r)
             \/ \E j \in Jobs : Lose(j)
             \/ Tick
             \/ UNCHANGED vars
      PROVE  Kept
    BY <1>9 DEF Store, Lose, Tick, vars, processes
<1>. QED
    BY <1>1, <1>2, <1>3, <1>4, <1>5, <1>6, <1>7, <1>8, <1>9
    DEF Next, Work, Claiming, Body, Finish, Renewal

LEMMA ClaimsUniqueStep ==
    ASSUME Typed, Reservations, [Next]_vars
    PROVE  ClaimsUnique'
<1>. USE DEF Typed, TypeOK, ClaimShape, ClaimsUnique, Reservations
<1>1. ASSUME NEW w \in Workers, Reserve(w)
      PROVE  ClaimsUnique'
  <2> DEFINE j == claim[w].job
             n == attempts[j] + 1
  <2>1. j \in Jobs /\ attempts' = [attempts EXCEPT ![j] = n] /\ n \in Nat
    BY <1>1, ReserveFacts
  <2>2. \/ claim' = [claim EXCEPT ![w] = [job |-> j, token |-> n]]
        \/ ~ Claimed(w)' /\ claim' = [claim EXCEPT ![w] = NoClaim]
    BY <1>1, <2>1 DEF Reserve, Begins, Forgets, Goes, Claimed
  <2>3. \A v \in Workers \ {w} : pc'[v] = pc[v]
    BY <1>1 DEF Reserve, Begins, Forgets, Goes
  <2>4. \A k \in Jobs : attempts[k] \in Nat /\ attempts[k] <= attempts'[k]
    BY <2>1
  <2>5. \A v \in Workers \ {w} : Claimed(v)' =>
            /\ Claimed(v) /\ claim'[v] = claim[v] /\ claim[v] \in Claims
            /\ claim[v].token <= attempts[claim[v].job]
    BY <2>2, <2>3 DEF Claimed
  <2>6. ASSUME NEW v \in Workers \ {w}, Claimed(v)'
        PROVE  /\ claim'[v].token <= attempts'[claim'[v].job]
               /\ claim'[v] # [job |-> j, token |-> n]
    BY <2>1, <2>4, <2>5, <2>6 DEF Claims
  <2> HIDE DEF n, j
  <2>7. Claimed(w)' => claim'[w] = [job |-> j, token |-> n] /\ n <= attempts'[j]
    BY <2>1, <2>2
  <2>. QED
    BY <2>2, <2>5, <2>6, <2>7
<1>2. ASSUME attempts' = attempts,
             \A v \in Workers : Claimed(v)' => Claimed(v) /\ claim'[v] = claim[v]
      PROVE  ClaimsUnique'
    BY <1>2
<1>. QED
    BY <1>1, <1>2, ClaimsKept

\* What a step may do to the row of a reader that stays fresh: let time pass.
RowKept(k) ==
    /\ status'[k] = status[k] /\ token'[k] = token[k] /\ owner'[k] = owner[k]
    /\ lease[k] = 0 => lease'[k] = 0

ConfirmedKept == \A c \in Jobs : status[c] = "SUCCEEDED" => status'[c] = "SUCCEEDED"

LEMMA WorkerStillKnows ==
    ASSUME Typed, ConfirmedKept, NEW v \in Workers, WorkerKnows(v),
           pc'[v] = pc[v], claim'[v] = claim[v], beat'[v] = beat[v],
           RowKept(claim[v].job)
    PROVE  WorkerKnows(v)'
<1>1. CASE pc[v] = "claiming"
  <2>1. claim[v].job \in Jobs
    BY <1>1 DEF Typed, ClaimShape, Wanted
  <2>. QED
    BY <1>1, <2>1, JobsAssumption DEF WorkerKnows, Ready, RowKept, ConfirmedKept
<1>2. CASE pc[v] # "claiming"
    BY <1>2 DEF WorkerKnows, IsReserved, RowKept
<1>. QED
    BY <1>1, <1>2

LEMMA ReconcilerStillKnows ==
    ASSUME NEW r \in Reconcilers, ReconcilerKnows(r), hand'[r] = hand[r],
           RowKept(hand[r].job)
    PROVE  ReconcilerKnows(r)'
    BY DEF ReconcilerKnows, RowKept

\* A put replaces the row of job j; those who stay fresh have read other rows.
LEMMA PutKeepsOthers ==
    ASSUME Typed, FreshTrue, ConfirmedKept, NEW j \in Jobs, NEW t,
           \A k \in Jobs \ {j} : RowKept(k),
           \A s \in fresh' \ {t} : s \in fresh /\ RowOf(s) # j,
           \A v \in Workers \ {t} : pc'[v] = pc[v] /\ claim'[v] = claim[v] /\ beat'[v] = beat[v],
           \A r \in Reconcilers \ {t} : hand'[r] = hand[r],
           t \notin fresh'
    PROVE  FreshTrue'
<1>1. ASSUME NEW v \in Workers, v \in fresh'
      PROVE  WorkerKnows(v)'
  <2>1. v # t /\ v \in fresh /\ claim[v].job # j /\ WorkerKnows(v)
    BY <1>1 DEF RowOf, FreshTrue
  <2>2. claim[v].job \in Jobs
    BY <2>1 DEF WorkerKnows, Typed, ClaimShape, Claimed, Wanted, Claims, Beating
  <2>. QED
    BY <2>1, <2>2, WorkerStillKnows
<1>2. ASSUME NEW r \in Reconcilers, r \in fresh'
      PROVE  ReconcilerKnows(r)'
  <2>1. r # t /\ r \in fresh /\ hand[r].job # j /\ ReconcilerKnows(r)
    BY <1>2, AwsAssumption DEF RowOf, FreshTrue
  <2>2. hand[r].job \in Jobs
    BY <2>1 DEF ReconcilerKnows, Typed, HandShape
  <2>. QED
    BY <2>1, <2>2, ReconcilerStillKnows
<1>. QED
    BY <1>1, <1>2 DEF FreshTrue

\* A step that leaves the table alone, or lets time pass: those who were fresh and
\* did nothing are still right about it.
LEMMA RestKeepsOthers ==
    ASSUME Typed, FreshTrue, NEW t,
           \A k \in Jobs : RowKept(k),
           fresh' \subseteq fresh \cup {t},
           \A v \in Workers \ {t} : pc'[v] = pc[v] /\ claim'[v] = claim[v] /\ beat'[v] = beat[v],
           \A r \in Reconcilers \ {t} : hand'[r] = hand[r]
    PROVE  /\ \A v \in Workers \ {t} : v \in fresh' => WorkerKnows(v)'
           /\ \A r \in Reconcilers \ {t} : r \in fresh' => ReconcilerKnows(r)'
<1>1. ConfirmedKept
    BY DEF ConfirmedKept, RowKept
<1>2. ASSUME NEW v \in Workers \ {t}, v \in fresh'
      PROVE  WorkerKnows(v)'
  <2>1. v \in fresh /\ WorkerKnows(v)
    BY <1>2 DEF FreshTrue
  <2>2. claim[v].job \in Jobs
    BY <2>1 DEF WorkerKnows, Typed, ClaimShape, Claimed, Wanted, Claims, Beating
  <2>. QED
    BY <1>1, <1>2, <2>1, <2>2, WorkerStillKnows
<1>3. ASSUME NEW r \in Reconcilers \ {t}, r \in fresh'
      PROVE  ReconcilerKnows(r)'
  <2>1. r \in fresh /\ ReconcilerKnows(r)
    BY <1>3 DEF FreshTrue
  <2>2. hand[r].job \in Jobs
    BY <2>1 DEF ReconcilerKnows, Typed, HandShape
  <2>. QED
    BY <1>3, <2>1, <2>2, ReconcilerStillKnows
<1>. QED
    BY <1>2, <1>3

LEMMA FreshAfterPut ==
    ASSUME Typed, Reservations,
           \/ \E w \in Workers : Reserve(w) \/ RenewWrite(w) \/ Publish(w) \/ Return(w)
           \/ \E r \in Reconcilers : GiveUp(r)
    PROVE  FreshTrue'
<1>. USE AwsAssumption DEF Typed, TypeOK, Reservations, RowKept, ConfirmedKept
<1>1. ASSUME NEW w \in Workers, Reserve(w)
      PROVE  FreshTrue'
  <2>1. \A v \in Workers \ {w} : pc'[v] = pc[v] /\ claim'[v] = claim[v] /\ beat'[v] = beat[v]
    BY <1>1 DEF Reserve, Begins, Forgets, Goes
  <2>2. w \notin fresh' /\ \A s \in fresh' : s \in fresh /\ RowOf(s) # claim[w].job
    BY <1>1 DEF Reserve, Replaces, RowOf
  <2>3. /\ claim[w].job \in Jobs /\ ConfirmedKept /\ hand' = hand
        /\ \A k \in Jobs \ {claim[w].job} : RowKept(k)
    BY <1>1, ReserveFacts
  <2>. QED
    BY <2>1, <2>2, <2>3, PutKeepsOthers
<1>2. ASSUME NEW w \in Workers, RenewWrite(w)
      PROVE  FreshTrue'
  <2>1. \A v \in Workers \ {w} : pc'[v] = pc[v] /\ claim'[v] = claim[v] /\ beat'[v] = beat[v]
    BY <1>2 DEF RenewWrite
  <2>2. w \notin fresh' /\ \A s \in fresh' : s \in fresh /\ RowOf(s) # claim[w].job
    BY <1>2 DEF RenewWrite, Replaces, RowOf
  <2>3. /\ claim[w].job \in Jobs /\ ConfirmedKept /\ hand' = hand
        /\ \A k \in Jobs \ {claim[w].job} : RowKept(k)
    BY <1>2, RenewWriteFacts
  <2>. QED
    BY <2>1, <2>2, <2>3, PutKeepsOthers
<1>3. ASSUME NEW w \in Workers, Publish(w)
      PROVE  FreshTrue'
  <2>1. \A v \in Workers \ {w} : pc'[v] = pc[v] /\ claim'[v] = claim[v] /\ beat'[v] = beat[v]
    BY <1>3 DEF Publish, Forgets, Goes
  <2>2. w \notin fresh' /\ \A s \in fresh' : s \in fresh /\ RowOf(s) # claim[w].job
    BY <1>3 DEF Publish, Replaces, RowOf
  <2>3. /\ claim[w].job \in Jobs /\ ConfirmedKept /\ hand' = hand
        /\ \A k \in Jobs \ {claim[w].job} : RowKept(k)
    BY <1>3, PublishFacts
  <2>. QED
    BY <2>1, <2>2, <2>3, PutKeepsOthers
<1>4. ASSUME NEW w \in Workers, Return(w)
      PROVE  FreshTrue'
  <2>1. \A v \in Workers \ {w} : pc'[v] = pc[v] /\ claim'[v] = claim[v] /\ beat'[v] = beat[v]
    BY <1>4 DEF Return, Forgets, Goes
  <2>2. w \notin fresh' /\ \A s \in fresh' : s \in fresh /\ RowOf(s) # claim[w].job
    BY <1>4 DEF Return, Replaces, RowOf
  <2>3. /\ claim[w].job \in Jobs /\ ConfirmedKept /\ hand' = hand
        /\ \A k \in Jobs \ {claim[w].job} : RowKept(k)
    BY <1>4, ReturnFacts DEF IsReserved
  <2>. QED
    BY <2>1, <2>2, <2>3, PutKeepsOthers
<1>5. ASSUME NEW r \in Reconcilers, GiveUp(r)
      PROVE  FreshTrue'
  <2>1. \A s \in Reconcilers \ {r} : hand'[s] = hand[s]
    BY <1>5 DEF GiveUp, LetsGo
  <2>2. r \notin fresh' /\ \A s \in fresh' : s \in fresh /\ RowOf(s) # hand[r].job
    BY <1>5 DEF GiveUp, Replaces, RowOf
  <2>3. /\ hand[r].job \in Jobs /\ ConfirmedKept /\ UNCHANGED processes
        /\ \A k \in Jobs \ {hand[r].job} : RowKept(k)
    BY <1>5, GiveUpFacts
  <2>. QED
    BY <2>1, <2>2, <2>3, PutKeepsOthers DEF processes
<1>. QED
    BY <1>1, <1>2, <1>3, <1>4, <1>5

\* A reconciler that goes on with the row it has put knows that row.
LEMMA FreshAfterExpire ==
    ASSUME Typed, Reservations, NEW r \in Reconcilers, Expire(r)
    PROVE  FreshTrue'
<1> DEFINE j == hand[r].job
<1>. USE AwsAssumption DEF Typed, TypeOK, Reservations
<1>1. /\ j \in Jobs /\ ConfirmedKept /\ UNCHANGED processes
      /\ \A k \in Jobs \ {j} : RowKept(k)
    BY ExpireFacts DEF RowKept, ConfirmedKept
<1>2. \A s \in Reconcilers \ {r} : hand'[s] = hand[s]
    BY DEF Expire, LetsGo
<1>3. \A s \in fresh' \ {r} : s \in fresh /\ RowOf(s) # j
    BY DEF Expire, Replaces, RowOf
<1>4. ASSUME NEW v \in Workers, v \in fresh'
      PROVE  WorkerKnows(v)'
  <2>1. v # r /\ v \in fresh /\ claim[v].job # j /\ WorkerKnows(v)
    BY <1>3, <1>4 DEF RowOf, FreshTrue
  <2>2. claim[v].job \in Jobs
    BY <2>1 DEF WorkerKnows, ClaimShape, Claimed, Wanted, Claims, Beating
  <2>. QED
    BY <1>1, <2>1, <2>2, WorkerStillKnows DEF processes
<1>5. ASSUME NEW s \in Reconcilers \ {r}, s \in fresh'
      PROVE  ReconcilerKnows(s)'
  <2>1. s \in fresh /\ hand[s].job # j /\ ReconcilerKnows(s)
    BY <1>3, <1>5 DEF RowOf, FreshTrue
  <2>2. hand[s].job \in Jobs
    BY <2>1 DEF ReconcilerKnows, HandShape
  <2>. QED
    BY <1>1, <1>2, <1>5, <2>1, <2>2, ReconcilerStillKnows
<1>6. ASSUME r \in fresh' PROVE ReconcilerKnows(r)'
  <2>1. /\ hand' = [hand EXCEPT ![r] = [hand[r] EXCEPT !.status = "PENDING"]]
        /\ status'[j] = "PENDING"
    BY <1>6 DEF Expire, Replaces, RowOf
  <2>2. hand[r] \in Rows
    BY HandFacts DEF Expire
  <2>3. hand'[r].job = j /\ hand'[r].status = "PENDING"
    BY <2>1, <2>2 DEF Rows
  <2>. QED
    BY <2>1, <2>3, AwsAssumption DEF ReconcilerKnows, NoRow, Statuses
<1>. QED
    BY <1>4, <1>5, <1>6 DEF FreshTrue

LEMMA FreshAfterStore ==
    ASSUME Typed, Reservations, NEW r \in Roots, Store(r)
    PROVE  FreshTrue'
<1>1. FamilyStored /\ FreshTrue
    BY DEF Reservations
<1>2. UNCHANGED <<token, owner, lease, hand, fresh, processes>>
    BY DEF Store
<1>3. ASSUME NEW k \in Jobs, status[k] # "ABSENT" PROVE RowKept(k)
    BY <1>1, <1>2, <1>3, StoreFacts DEF RowKept
<1>4. ConfirmedKept
    BY <1>3 DEF ConfirmedKept, RowKept
<1>5. ASSUME NEW v \in Workers, v \in fresh PROVE WorkerKnows(v)'
  <2>1. WorkerKnows(v)
    BY <1>1, <1>5 DEF FreshTrue
  <2>2. claim[v].job \in Jobs /\ status[claim[v].job] # "ABSENT"
    BY <2>1 DEF WorkerKnows, Ready, IsReserved, Typed, ClaimShape, Claimed, Wanted, Claims,
                Beating
  <2>. QED
    BY <1>2, <1>3, <1>4, <2>1, <2>2, WorkerStillKnows DEF processes
<1>6. ASSUME NEW s \in Reconcilers, s \in fresh PROVE ReconcilerKnows(s)'
  <2>1. ReconcilerKnows(s)
    BY <1>1, <1>6 DEF FreshTrue
  <2>2. hand[s].job \in Jobs /\ status[hand[s].job] # "ABSENT"
    BY <2>1 DEF ReconcilerKnows, Typed, HandShape
  <2>. QED
    BY <1>2, <1>3, <2>1, <2>2, ReconcilerStillKnows
<1>. QED
    BY <1>2, <1>5, <1>6 DEF FreshTrue

\* A step of worker w that leaves the table alone.
LEMMA FreshAfterWorker ==
    ASSUME Typed, Reservations, NEW w \in Workers, UNCHANGED <<columns, hand>>,
           fresh' \subseteq fresh \cup {w},
           \A v \in Workers \ {w} : pc'[v] = pc[v] /\ claim'[v] = claim[v] /\ beat'[v] = beat[v],
           w \in fresh' => WorkerKnows(w)'
    PROVE  FreshTrue'
<1>1. /\ \A k \in Jobs : RowKept(k)
      /\ \A r \in Reconcilers \ {w} : hand'[r] = hand[r]
    BY DEF RowKept, columns
<1>2. /\ \A v \in Workers \ {w} : v \in fresh' => WorkerKnows(v)'
      /\ \A r \in Reconcilers \ {w} : r \in fresh' => ReconcilerKnows(r)'
    BY <1>1, RestKeepsOthers DEF Reservations
<1>. QED
    BY <1>2, AwsAssumption DEF FreshTrue

LEMMA FreshAfterRead ==
    ASSUME Typed, Reservations, NEW w \in Workers,
           RenewRead(w) \/ FinishRead(w) \/ \E j \in Jobs : Receive(w, j)
    PROVE  FreshTrue'
<1>. USE DEF Typed, TypeOK
<1>1. ASSUME NEW j \in Jobs, Receive(w, j)
      PROVE  FreshTrue'
  <2>1. pc'[w] = "claiming" /\ claim'[w].job = j /\ UNCHANGED columns
    BY <1>1 DEF Receive, Goes
  <2>2. WorkerKnows(w)'
    BY <1>1, <2>1, JobsAssumption DEF Receive, WorkerKnows, Ready, columns
  <2>. QED
    BY <1>1, <2>2, FreshAfterWorker DEF Receive, Goes, Reads
<1>2. ASSUME RenewRead(w)
      PROVE  FreshTrue'
  <2>1. pc[w] # "claiming" /\ UNCHANGED <<pc, claim, columns>>
    BY <1>2 DEF RenewRead, Beating
  <2>2. CASE Holds(w) /\ beat' = [beat EXCEPT ![w] = "renewing"] /\ Reads(w)
    <3>1. WorkerKnows(w)'
      BY <2>1, <2>2 DEF WorkerKnows, Holds, IsReserved, columns
    <3>. QED
      BY <1>2, <2>2, <3>1, FreshAfterWorker DEF RenewRead, Reads
  <2>3. CASE beat' = [beat EXCEPT ![w] = "failed"] /\ UNCHANGED fresh
    <3>1. w \notin fresh
      BY <1>2 DEF RenewRead, Beating, Reservations, FreshTrue, WorkerKnows
    <3>. QED
      BY <1>2, <2>3, <3>1, FreshAfterWorker DEF RenewRead
  <2>. QED
    BY <1>2, <2>2, <2>3 DEF RenewRead
<1>3. ASSUME FinishRead(w)
      PROVE  FreshTrue'
  <2>1. UNCHANGED <<columns, hand>>
    BY <1>3 DEF FinishRead
  <2>2. CASE Holds(w) /\ Reads(w) /\ UNCHANGED <<claim, built, beat>>
    <3>1. pc' = [pc EXCEPT ![w] = IF pc[w] = "publish" THEN "publishing" ELSE "returning"]
      BY <1>3, <2>2 DEF FinishRead, Goes
    <3>2. WorkerKnows(w)'
      BY <2>1, <2>2, <3>1 DEF WorkerKnows, Holds, IsReserved, columns
    <3>. QED
      BY <2>1, <2>2, <3>1, <3>2, FreshAfterWorker DEF Reads
  <2>3. CASE Forgets(w, "idle") /\ UNCHANGED fresh
    <3>1. w \notin fresh
      BY <1>3 DEF FinishRead, ClaimShape, Beating, Reservations, FreshTrue, WorkerKnows
    <3>. QED
      BY <2>1, <2>3, <3>1, FreshAfterWorker DEF Forgets, Goes
  <2>. QED
    BY <1>3, <2>2, <2>3 DEF FinishRead
<1>. QED
    BY <1>1, <1>2, <1>3

\* A worker that is about to put nothing is not fresh, or is renewing.
LEMMA FreshAfterBody ==
    ASSUME Typed, Reservations, NEW w \in Workers, Body(w) \/ Restart(w)
    PROVE  FreshTrue'
<1>. USE DEF Typed, TypeOK
<1>1. UNCHANGED <<columns, hand, fresh>>
    BY DEF Body, Build, BodyError, Save, SaveUntold, Join, Unwind, Restart, Quiet
<1>2. w \in fresh => pc[w] \in {"claiming", "publishing", "returning"} \/ beat[w] = "renewing"
    BY DEF Reservations, FreshTrue, WorkerKnows
<1>3. CASE Build(w) \/ BodyError(w) \/ Save(w) \/ SaveUntold(w)
  <2>1. /\ pc[w] \in {"build", "save"} /\ pc'[w] \in {"save", "join", "unwind"}
        /\ UNCHANGED <<claim, beat>>
        /\ \A v \in Workers \ {w} : pc'[v] = pc[v]
    BY <1>3 DEF Build, BuildGraph, BodyError, BodyRaises, Save, SaveGraph, SaveUntold, Goes
  <2>2. w \in fresh => beat[w] = "renewing" /\ IsReserved(w)
    BY <1>2, <2>1 DEF Reservations, FreshTrue, WorkerKnows
  <2>3. w \in fresh => WorkerKnows(w)'
    BY <1>1, <2>1, <2>2 DEF WorkerKnows, IsReserved, columns
  <2>. QED
    BY <1>1, <2>1, <2>3, FreshAfterWorker
<1>4. CASE Join(w) \/ Unwind(w)
  <2>1. w \notin fresh
    BY <1>2, <1>4 DEF Join, JoinBeat, Unwind, Unwinds
  <2>2. \A v \in Workers \ {w} : pc'[v] = pc[v] /\ claim'[v] = claim[v] /\ beat'[v] = beat[v]
    BY <1>4 DEF Join, JoinBeat, Unwind, Unwinds, Forgets, Goes
  <2>. QED
    BY <1>1, <2>1, <2>2, FreshAfterWorker
<1>5. CASE Restart(w)
  <2>1. w \notin fresh
    BY <1>2, <1>5 DEF Restart, Starts, ClaimShape, Beating
  <2>2. \A v \in Workers \ {w} : pc'[v] = pc[v] /\ claim'[v] = claim[v] /\ beat'[v] = beat[v]
    BY <1>5 DEF Restart, Starts, Goes
  <2>. QED
    BY <1>1, <2>1, <2>2, FreshAfterWorker
<1>. QED
    BY <1>3, <1>4, <1>5 DEF Body

LEMMA FreshAfterDrop ==
    ASSUME Typed, Reservations, NEW w \in Workers,
           \/ ReserveFails(w) \/ RenewFails(w) \/ PublishFails(w) \/ FinishFails(w)
           \/ Crash(w)
    PROVE  FreshTrue'
<1>1. UNCHANGED <<columns, hand>> /\ fresh' = fresh \ {w}
    BY DEF ReserveFails, RenewFails, PublishFails, FinishFails, Crash, Drops
<1>2. \A v \in Workers \ {w} : pc'[v] = pc[v] /\ claim'[v] = claim[v] /\ beat'[v] = beat[v]
    BY DEF Typed, TypeOK, ReserveFails, RenewFails, PublishFails, FinishFails, Crash, Dies,
           Forgets, Goes
<1>. QED
    BY <1>1, <1>2, FreshAfterWorker

\* A step that touches neither processes nor rows in hand, and no row but for time.
LEMMA FreshAfterNothing ==
    ASSUME Typed, Reservations, UNCHANGED <<hand, fresh, processes>>,
           \A k \in Jobs : RowKept(k)
    PROVE  FreshTrue'
<1>1. ConfirmedKept /\ UNCHANGED <<pc, claim, beat>>
    BY DEF ConfirmedKept, RowKept, processes
<1>2. ASSUME NEW v \in Workers, v \in fresh
      PROVE  WorkerKnows(v)'
  <2>1. WorkerKnows(v)
    BY <1>2 DEF Reservations, FreshTrue
  <2>2. claim[v].job \in Jobs
    BY <2>1 DEF WorkerKnows, Typed, ClaimShape, Claimed, Wanted, Claims, Beating
  <2>. QED
    BY <1>1, <2>1, <2>2, WorkerStillKnows
<1>3. ASSUME NEW r \in Reconcilers, r \in fresh
      PROVE  ReconcilerKnows(r)'
  <2>1. ReconcilerKnows(r)
    BY <1>3 DEF Reservations, FreshTrue
  <2>2. hand[r].job \in Jobs
    BY <2>1 DEF ReconcilerKnows, Typed, HandShape
  <2>. QED
    BY <2>1, <2>2, ReconcilerStillKnows
<1>. QED
    BY <1>2, <1>3 DEF FreshTrue

LEMMA FreshAfterRest ==
    ASSUME Typed, Reservations,
           \/ \E w \in Workers, j \in Jobs : Dismiss(w, j)
           \/ \E r \in Reconcilers, j \in Jobs : Scan(r, j)
           \/ \E r \in Reconcilers : Announce(r) \/ Skip(r)
           \/ \E j \in Jobs : Lose(j)
           \/ Tick
           \/ UNCHANGED vars
    PROVE  FreshTrue'
<1>. USE AwsAssumption DEF Typed, TypeOK, Reservations
<1>1. ASSUME NEW r \in Reconcilers, NEW j \in Jobs, Scan(r, j)
      PROVE  FreshTrue'
  <2>1. /\ UNCHANGED <<columns, processes>> /\ fresh' = fresh \cup {r}
        /\ hand' = [hand EXCEPT ![r] = [job |-> j, status |-> status[j]]]
        /\ status[j] = "PENDING" \/ (status[j] = "RUNNING" /\ lease[j] = 0)
    BY <1>1 DEF Scan, Reads
  <2>2. hand'[r] = [job |-> j, status |-> status[j]] /\ status[j] # Null
    BY <2>1 DEF Statuses
  <2>3. ReconcilerKnows(r)'
    BY <2>1, <2>2 DEF ReconcilerKnows, NoRow, columns
  <2>4. \A k \in Jobs : RowKept(k)
    BY <2>1 DEF RowKept, columns
  <2>5. \A s \in Reconcilers \ {r} : hand'[s] = hand[s]
    BY <2>1
  <2>6. /\ \A v \in Workers \ {r} : v \in fresh' => WorkerKnows(v)'
        /\ \A s \in Reconcilers \ {r} : s \in fresh' => ReconcilerKnows(s)'
    BY <2>1, <2>4, <2>5, RestKeepsOthers DEF processes
  <2>. QED
    BY <2>3, <2>6 DEF FreshTrue
<1>2. ASSUME NEW r \in Reconcilers, Announce(r) \/ Skip(r)
      PROVE  FreshTrue'
  <2>1. /\ UNCHANGED <<columns, processes>> /\ fresh' = fresh \ {r}
        /\ \A s \in Reconcilers \ {r} : hand'[s] = hand[s]
    BY <1>2 DEF Announce, Skip, LetsGo, Drops
  <2>2. \A k \in Jobs : RowKept(k)
    BY <2>1 DEF RowKept, columns
  <2>3. /\ \A v \in Workers \ {r} : v \in fresh' => WorkerKnows(v)'
        /\ \A s \in Reconcilers \ {r} : s \in fresh' => ReconcilerKnows(s)'
    BY <2>1, <2>2, RestKeepsOthers DEF processes
  <2>. QED
    BY <2>1, <2>3 DEF FreshTrue
<1>3. ASSUME Tick
      PROVE  FreshTrue'
  <2>1. UNCHANGED <<hand, fresh, processes>> /\ \A k \in Jobs : RowKept(k)
    BY <1>3 DEF Tick, RowKept
  <2>. QED
    BY <2>1, FreshAfterNothing
<1>4. ASSUME UNCHANGED <<columns, hand, fresh, processes>>
      PROVE  FreshTrue'
    BY <1>4, FreshAfterNothing DEF RowKept, columns
<1>5. ASSUME \/ \E w \in Workers, j \in Jobs : Dismiss(w, j)
             \/ \E j \in Jobs : Lose(j)
             \/ UNCHANGED vars
      PROVE  UNCHANGED <<columns, hand, fresh, processes>>
    BY <1>5 DEF Dismiss, Lose, vars
<1>. QED
    BY <1>1, <1>2, <1>3, <1>4, <1>5

LEMMA ReservationsStep ==
    ASSUME Typed, Reservations, [Next]_vars
    PROVE  Reservations'
<1>1. FreshTrue'
    BY FreshAfterPut, FreshAfterExpire, FreshAfterStore, FreshAfterRead, FreshAfterBody,
       FreshAfterDrop, FreshAfterRest
    DEF Next, Work, Claiming, Finish, Renewal
<1>. QED
    BY <1>1, AttemptsStep, ClaimsUniqueStep DEF Reservations

LEMMA ReservationsHold == Spec => [](Typed /\ Reservations)
<1>1. Init => Typed /\ Reservations
    BY TypedInit, ReservationsInit
<1>2. Typed /\ Reservations /\ [Next]_vars => (Typed /\ Reservations)'
    BY TypedStep, ReservationsStep
<1>. QED
    BY <1>1, <1>2, PTL DEF Spec

\* A claim that passes the check of renew() and _finish is the last one issued.
LEMMA HoldsLast ==
    ASSUME Typed, Reservations, NEW w \in Workers, Working(w), Holds(w)
    PROVE  /\ Claimed(w)
           /\ claim[w] = [job |-> claim[w].job, token |-> attempts[claim[w].job]]
<1>1. claim[w].job \in Jobs
    BY DEF Typed, ClaimShape, Working, Claimed, Claims, Wanted
<1>2. claim[w].token = attempts[claim[w].job] /\ claim[w].token \in Nat
    BY <1>1 DEF Typed, TypeOK, Reservations, AttemptsCounted, Holds
<1>3. Claimed(w)
    BY <1>2, WorkersAssumption DEF Typed, ClaimShape, Working, Claimed, Wanted
<1>. QED
    BY <1>1, <1>2, <1>3 DEF Typed, ClaimShape, Claims

\* Two processes never both pass the check of renew() and _finish for one job,
\* whoever else has read the row and whatever messages are delivered twice.
THEOREM OneHolderHolds == Spec => []OneHolder
<1>1. Typed /\ Reservations => OneHolder
  <2> SUFFICES ASSUME Typed, Reservations, NEW v \in Workers, NEW w \in Workers,
                      Working(v), Working(w), Holds(v), Holds(w),
                      claim[v].job = claim[w].job
               PROVE  v = w
    BY DEF OneHolder
  <2>1. claim[v] = claim[w] /\ Claimed(v) /\ Claimed(w)
    BY HoldsLast
  <2>. QED
    BY <2>1 DEF Reservations, ClaimsUnique
<1>. QED
    BY <1>1, ReservationsHold, PTL

-----------------------------------------------------------------------------
(* The third layer.                                                        *)

LEMMA PublicationsInit == Init => Publications
    BY JobsAssumption
    DEF Init, ProcessesInit, Publications, GraphsTrue, ResultShape,
        PublishedWhole, ReducerOverConfirmed, GivenUpForCause

\* A reducer merges one true graph per partition, and nothing else.
LEMMA BuiltWhole ==
    ASSUME Typed, GraphsTrue, ResultShape, NEW w \in Workers, Build(w)
    PROVE  built'[w] = WordsOf(claim[w].job)
<1> DEFINE j == claim[w].job
<1>1. j \in Jobs
    BY DEF Typed, ClaimShape, Claimed, Build, BuildGraph, Claims
<1>2. built'[w] = IF PartsOf[j] = {} THEN {j} ELSE UNION {g.holds : g \in PartGraphs(j)}
    BY DEF Typed, TypeOK, Build, BuildGraph
<1>3. ASSUME NEW c \in PartsOf[j]
      PROVE  /\ WordsOf(c) = {c} /\ result[c].job = c
             /\ \E g \in graphs : g.id = result[c]
  <2>1. c \in Jobs /\ PartsOf[c] = {}
    BY <1>1, <1>3, JobsAssumption
  <2>2. status[c] = "SUCCEEDED" /\ \E g \in graphs : g.id = result[c]
    BY <1>3 DEF Build, BuildGraph, PartsConfirmed
  <2>3. result[c] = [job |-> c, token |-> attempts[c]]
    BY <2>1, <2>2 DEF ResultShape
  <2>. QED
    BY <2>1, <2>2, <2>3 DEF WordsOf
<1>4. \A g \in PartGraphs(j) : \E c \in PartsOf[j] : g.holds = {c}
    BY <1>3 DEF PartGraphs, GraphsTrue
<1>5. \A c \in PartsOf[j] : \E g \in PartGraphs(j) : g.holds = {c}
    BY <1>3 DEF PartGraphs, GraphsTrue
<1>6. UNION {g.holds : g \in PartGraphs(j)} = PartsOf[j]
    BY <1>4, <1>5
<1>. QED
    BY <1>2, <1>6 DEF WordsOf

LEMMA GraphsStep ==
    Typed /\ GraphsTrue /\ ResultShape /\ [Next]_vars => GraphsTrue' /\ graphs \subseteq graphs'
<1> SUFFICES ASSUME Typed, GraphsTrue, ResultShape, [Next]_vars
             PROVE  GraphsTrue' /\ graphs \subseteq graphs'
    OBVIOUS
<1>. USE DEF Typed, TypeOK, GraphsTrue, processes
<1>1. ASSUME NEW w \in Workers, NEW j \in Jobs, Receive(w, j) \/ Dismiss(w, j)
      PROVE  GraphsTrue' /\ graphs \subseteq graphs'
    BY <1>1 DEF Receive, Dismiss, Goes
<1>2. ASSUME NEW w \in Workers, Reserve(w) \/ ReserveFails(w)
      PROVE  GraphsTrue' /\ graphs \subseteq graphs'
  <2>1. /\ graphs' = graphs
        /\ pc'[w] \in {"build", "idle"}
        /\ \A v \in Workers \ {w} :
              pc'[v] = pc[v] /\ claim'[v] = claim[v] /\ built'[v] = built[v]
    BY <1>2 DEF Reserve, ReserveFails, Begins, Forgets, Goes
  <2>. QED
    BY <2>1
<1>3. ASSUME NEW w \in Workers, RenewRead(w) \/ RenewWrite(w) \/ RenewFails(w)
      PROVE  GraphsTrue' /\ graphs \subseteq graphs'
    BY <1>3 DEF RenewRead, RenewWrite, RenewFails
<1>4. ASSUME NEW w \in Workers, Build(w)
      PROVE  GraphsTrue' /\ graphs \subseteq graphs'
    BY <1>4, BuiltWhole DEF Build, BuildGraph, Goes
<1>5. ASSUME NEW w \in Workers, Save(w) \/ SaveUntold(w)
      PROVE  GraphsTrue' /\ graphs \subseteq graphs'
  <2> DEFINE g0 == [id |-> claim[w], holds |-> built[w]]
  <2>1. graphs' = graphs \cup {g0} /\ claim' = claim /\ built' = built
    BY <1>5 DEF Save, SaveGraph, SaveUntold
  <2>2. g0 = [id |-> claim[w], holds |-> WordsOf(claim[w].job)]
    BY <1>5 DEF Save, SaveGraph, SaveUntold
  <2>3. g0.holds = WordsOf(g0.id.job)
    BY <2>2
  <2>4. pc' = [pc EXCEPT ![w] = "join"] \/ pc' = [pc EXCEPT ![w] = "unwind"]
    BY <1>5 DEF Save, SaveGraph, SaveUntold, Goes
  <2> HIDE DEF g0
  <2>. QED
    BY <2>1, <2>2, <2>3, <2>4
<1>6. ASSUME NEW w \in Workers, BodyError(w) \/ Unwind(w) \/ PublishFails(w) \/ Restart(w)
      PROVE  GraphsTrue' /\ graphs \subseteq graphs'
    BY <1>6 DEF BodyError, BodyRaises, Unwind, Unwinds, PublishFails, Restart, Starts, Goes
<1>7. ASSUME NEW w \in Workers, Join(w)
      PROVE  GraphsTrue' /\ graphs \subseteq graphs'
    BY <1>7 DEF Join, JoinBeat, Goes, Forgets
<1>8. ASSUME NEW w \in Workers, FinishRead(w)
      PROVE  GraphsTrue' /\ graphs \subseteq graphs'
    BY <1>8 DEF FinishRead, Goes, Forgets
<1>9. ASSUME NEW w \in Workers, Publish(w)
      PROVE  GraphsTrue' /\ graphs \subseteq graphs'
    BY <1>9 DEF Publish, Goes, Forgets
<1>10. ASSUME NEW w \in Workers, Return(w) \/ FinishFails(w) \/ Crash(w)
       PROVE  GraphsTrue' /\ graphs \subseteq graphs'
    BY <1>10 DEF Return, FinishFails, Crash, Dies, Goes, Forgets
<1>11. ASSUME NEW r \in Reconcilers,
              Expire(r) \/ GiveUp(r) \/ Announce(r) \/ Skip(r) \/ \E j \in Jobs : Scan(r, j)
       PROVE  UNCHANGED <<graphs, processes>>
    BY <1>11 DEF Expire, GiveUp, Announce, Skip, Scan
<1>12. ASSUME \/ \E r \in Roots : Store(r)
              \/ \E j \in Jobs : Lose(j)
              \/ Tick
              \/ UNCHANGED vars
       PROVE  UNCHANGED <<graphs, processes>>
    BY <1>12 DEF Store, Lose, Tick, vars
<1>13. ASSUME UNCHANGED <<graphs, processes>>
       PROVE  GraphsTrue' /\ graphs \subseteq graphs'
    BY <1>13
<1>. QED
    BY <1>1, <1>2, <1>3, <1>4, <1>5, <1>6, <1>7, <1>8, <1>9, <1>10, <1>11, <1>12, <1>13
    DEF Next, Work, Claiming, Body, Finish, Renewal

-----------------------------------------------------------------------------
(* Every step of the repository is a move of the contract for each job.    *)

Moves == \A j \in Jobs : Contract!Keeps(j) \/ Contract!Move(j)

\* What a put of one row owes to the contract is a move of that row's job.
LEMMA OneMove ==
    ASSUME Typed, NEW j \in Jobs, Contract!Move(j),
           \A k \in Jobs \ {j} : status'[k] = status[k] /\ attempts'[k] = attempts[k]
                                 /\ result'[k] = result[k]
    PROVE  Moves
    BY DEF Moves, Contract!Keeps, Contract!KeepsCounts

LEMMA AttemptsLeft ==
    ASSUME Reservations, NEW j \in Jobs
    PROVE  attempts[j] < MaxAttempts \/ attempts[j] = MaxAttempts
<1>1. attempts[j] \in 0..MaxAttempts
    BY DEF Reservations, AttemptsCounted
<1>. QED
    BY <1>1, JobsAssumption

LEMMA MovesStep ==
    ASSUME Typed, Reservations, Publications, [Next]_vars
    PROVE  Moves
<1>. USE DEF Typed, TypeOK, Contract!Move, Contract!KeepsCounts
<1>1. ASSUME NEW r \in Roots, Store(r)
      PROVE  Moves
  <2>1. attempts' = attempts /\ result' = result
    BY <1>1 DEF Store
  <2>2. FamilyStored
    BY DEF Reservations
  <2>. QED
    BY <1>1, <2>1, <2>2, StoreFacts DEF Moves, Contract!Keeps, Contract!Stored
<1>2. ASSUME NEW w \in Workers, Reserve(w)
      PROVE  Moves
  <2> DEFINE j == claim[w].job
  <2>1. /\ j \in Jobs /\ status[j] = "PENDING" /\ attempts[j] < MaxAttempts
        /\ \A c \in PartsOf[j] : status[c] = "SUCCEEDED"
        /\ status' = [status EXCEPT ![j] = "RUNNING"]
        /\ attempts' = [attempts EXCEPT ![j] = attempts[j] + 1]
        /\ result' = result
    BY <1>2, ReserveFacts
  <2> HIDE DEF j
  <2>2. Contract!Reserved(j)
    BY <2>1 DEF Contract!Reserved
  <2>. QED
    BY <2>1, <2>2, OneMove
<1>3. ASSUME NEW w \in Workers, Publish(w)
      PROVE  Moves
  <2> DEFINE j == claim[w].job
  <2>1. /\ j \in Jobs /\ status[j] = "RUNNING" /\ claim[w] \in Claims
        /\ status' = [status EXCEPT ![j] = "SUCCEEDED"]
        /\ result' = [result EXCEPT ![j] = claim[w]]
        /\ attempts' = attempts
    BY <1>3, PublishFacts DEF IsReserved
  <2>2. result[j] = Null
    BY <2>1 DEF Publications, ResultShape
  <2>3. Contract!Completed(j)
    BY <2>1, <2>2 DEF Contract!Completed, Claims, Contract!Claims
  <2>. QED
    BY <2>1, <2>3, OneMove
<1>4. ASSUME NEW j \in Jobs, status[j] = "RUNNING",
             status' = [status EXCEPT ![j] = AfterAttempt(j)],
             attempts' = attempts, result' = result
      PROVE  Moves
  <2>1. attempts[j] < MaxAttempts \/ attempts[j] = MaxAttempts
    BY AttemptsLeft
  <2>2. Contract!Returned(j) \/ Contract!GivenUp(j)
    BY <1>4, <2>1 DEF AfterAttempt, Contract!Returned, Contract!GivenUp
  <2>. QED
    BY <1>4, <2>2, OneMove
<1>5. ASSUME NEW w \in Workers, Return(w)
      PROVE  Moves
  <2>1. result[claim[w].job] = Null /\ status[claim[w].job] = "RUNNING"
    BY <1>5, ReturnFacts DEF IsReserved, Publications, ResultShape
  <2>2. result' = result
    BY <1>5, <2>1, ReturnFacts
  <2>. QED
    BY <1>4, <1>5, <2>1, <2>2, ReturnFacts
<1>6. ASSUME NEW r \in Reconcilers, Expire(r)
      PROVE  Moves
    BY <1>4, <1>6, ExpireFacts
<1>7. ASSUME NEW r \in Reconcilers, GiveUp(r)
      PROVE  Moves
  <2> DEFINE j == hand[r].job
  <2>1. /\ j \in Jobs /\ status[j] = "PENDING" /\ \E c \in PartsOf[j] : status[c] = "FAILED"
        /\ status' = [status EXCEPT ![j] = "FAILED"]
        /\ attempts' = attempts /\ result' = result
    BY <1>7, GiveUpFacts
  <2> HIDE DEF j
  <2>2. \E c \in PartsOf[j] : status'[c] = "FAILED"
    BY <2>1, JobsAssumption
  <2>3. Contract!GivenUp(j)
    BY <2>1, <2>2 DEF Contract!GivenUp
  <2>. QED
    BY <2>1, <2>3, OneMove
<1>8. ASSUME \/ \E w \in Workers : RenewWrite(w)
             \/ Tick
             \/ UNCHANGED columns
      PROVE  Moves
    BY <1>8 DEF RenewWrite, Tick, columns, Moves, Contract!Keeps
<1>. QED
    BY <1>1, <1>2, <1>3, <1>5, <1>6, <1>7, <1>8, TableSteps

\* A terminal status is kept, and so are the attempts and the result under it.
LEMMA TerminalKept ==
    ASSUME Moves, NEW j \in Jobs, status[j] \in Terminal
    PROVE  Contract!Keeps(j)
    BY DEF Moves, Terminal, Contract!Move, Contract!Stored, Contract!Reserved,
           Contract!Completed, Contract!Returned, Contract!GivenUp

-----------------------------------------------------------------------------
(* What follows from the moves, and the rest of the third layer.           *)

LEMMA ResultStep ==
    ASSUME Typed, Reservations, Publications, [Next]_vars
    PROVE  ResultShape' /\ PublishedWhole'
<1>. USE DEF Typed, TypeOK, Publications, ResultShape, PublishedWhole
<1>1. Moves /\ graphs \subseteq graphs'
    BY MovesStep, GraphsStep
<1>2. ASSUME NEW w \in Workers, Publish(w)
      PROVE  ResultShape' /\ PublishedWhole'
  <2>1. /\ claim[w].job \in Jobs
        /\ claim[w] = [job |-> claim[w].job, token |-> attempts[claim[w].job]]
        /\ status' = [status EXCEPT ![claim[w].job] = "SUCCEEDED"]
        /\ result' = [result EXCEPT ![claim[w].job] = claim[w]]
        /\ attempts' = attempts
    BY <1>2, PublishFacts
  <2>2. [id |-> claim[w], holds |-> WordsOf(claim[w].job)] \in graphs
    BY <1>2 DEF GraphsTrue, Publish
  <2>3. ResultShape'
    BY <2>1
  <2>4. PublishedWhole'
    BY <1>1, <2>1, <2>2
  <2>. QED
    BY <2>3, <2>4
<1>3. ASSUME result' = result,
             \A j \in Jobs : status'[j] = "SUCCEEDED" <=> status[j] = "SUCCEEDED",
             \A j \in Jobs : status[j] = "SUCCEEDED" => attempts'[j] = attempts[j]
      PROVE  ResultShape' /\ PublishedWhole'
    BY <1>1, <1>3
<1>4. ASSUME NEW r \in Roots, Store(r)
      PROVE  ResultShape' /\ PublishedWhole'
  <2>1. attempts' = attempts /\ result' = result
    BY <1>4 DEF Store
  <2>2. \A j \in Jobs : status'[j] = "SUCCEEDED" <=> status[j] = "SUCCEEDED"
    BY <1>4, StoreFacts DEF Reservations
  <2>. QED
    BY <1>3, <2>1, <2>2
<1>5. ASSUME NEW w \in Workers, Reserve(w)
      PROVE  ResultShape' /\ PublishedWhole'
  <2> DEFINE j == claim[w].job
  <2>1. /\ j \in Jobs /\ status[j] = "PENDING" /\ result' = result
        /\ status' = [status EXCEPT ![j] = "RUNNING"]
        /\ attempts' = [attempts EXCEPT ![j] = attempts[j] + 1]
    BY <1>5, ReserveFacts
  <2> HIDE DEF j
  <2>. QED
    BY <1>3, <2>1
<1>6. ASSUME NEW j \in Jobs, status[j] \in {"PENDING", "RUNNING"},
             NEW s \in {"PENDING", "FAILED"}, status' = [status EXCEPT ![j] = s],
             attempts' = attempts, result' = result
      PROVE  ResultShape' /\ PublishedWhole'
    BY <1>3, <1>6
<1>7. ASSUME NEW w \in Workers, Return(w)
      PROVE  ResultShape' /\ PublishedWhole'
  <2>1. result[claim[w].job] = Null /\ status[claim[w].job] = "RUNNING"
    BY <1>7, ReturnFacts DEF IsReserved
  <2>2. result' = result
    BY <1>7, <2>1, ReturnFacts
  <2>. QED
    BY <1>6, <1>7, <2>1, <2>2, ReturnFacts DEF AfterAttempt
<1>8. ASSUME NEW r \in Reconcilers, Expire(r) \/ GiveUp(r)
      PROVE  ResultShape' /\ PublishedWhole'
    BY <1>6, <1>8, ExpireFacts, GiveUpFacts DEF AfterAttempt
<1>9. ASSUME \/ \E w \in Workers : RenewWrite(w)
             \/ Tick
             \/ UNCHANGED columns
      PROVE  ResultShape' /\ PublishedWhole'
    BY <1>3, <1>9 DEF RenewWrite, Tick, columns
<1>. QED
    BY <1>2, <1>4, <1>5, <1>7, <1>8, <1>9, TableSteps

LEMMA ReducerStep ==
    ASSUME Typed, Reservations, Publications, [Next]_vars
    PROVE  ReducerOverConfirmed'
<1> SUFFICES ASSUME NEW j \in Jobs, status'[j] \in {"RUNNING", "SUCCEEDED"},
                    NEW c \in PartsOf[j]
             PROVE  status'[c] = "SUCCEEDED"
    BY DEF ReducerOverConfirmed
<1>1. c \in Jobs
    BY JobsAssumption
<1>2. Moves
    BY MovesStep
<1>3. status[c] = "SUCCEEDED"
    BY <1>2 DEF Moves, Publications, ReducerOverConfirmed, Contract!Keeps,
                Contract!Move, Contract!Stored, Contract!Reserved,
                Contract!Completed, Contract!Returned, Contract!GivenUp
<1>. QED
    BY <1>1, <1>2, <1>3, TerminalKept DEF Terminal, Contract!Keeps

LEMMA GivenUpStep ==
    ASSUME Typed, Reservations, Publications, [Next]_vars
    PROVE  GivenUpForCause'
<1> SUFFICES ASSUME NEW j \in Jobs, status'[j] = "FAILED"
             PROVE  attempts'[j] = MaxAttempts \/ \E c \in PartsOf[j] : status'[c] = "FAILED"
    BY DEF GivenUpForCause
<1>1. Moves
    BY MovesStep
<1>2. CASE status[j] = "FAILED"
  <2>1. attempts'[j] = attempts[j]
    BY <1>1, <1>2, TerminalKept DEF Terminal, Contract!Keeps, Contract!KeepsCounts
  <2>2. \A c \in PartsOf[j] : status[c] = "FAILED" => status'[c] = "FAILED"
    BY <1>1, TerminalKept, JobsAssumption DEF Terminal, Contract!Keeps
  <2>. QED
    BY <1>2, <2>1, <2>2 DEF Publications, GivenUpForCause
<1>3. CASE status[j] # "FAILED"
    BY <1>1, <1>3 DEF Moves, Contract!Keeps, Contract!KeepsCounts, Contract!Move,
                      Contract!Stored, Contract!Reserved, Contract!Completed,
                      Contract!Returned, Contract!GivenUp
<1>. QED
    BY <1>2, <1>3

LEMMA InvariantHolds == Spec => []IInv
<1>1. Init => IInv
    BY TypedInit, ReservationsInit, PublicationsInit DEF IInv
<1>2. IInv /\ [Next]_vars => IInv'
    BY TypedStep, ReservationsStep, GraphsStep, ResultStep, ReducerStep, GivenUpStep
    DEF IInv, Publications
<1>. QED
    BY <1>1, <1>2, PTL DEF Spec

-----------------------------------------------------------------------------
(* The theorems.                                                           *)

\* The recorded result is the graph built under the job's last reservation,
\* whatever late puts, repeated messages and recovered leases there were.
THEOREM LastClaimPublishesHolds == Spec => []LastClaimPublishes
<1>1. IInv => LastClaimPublishes
    BY DEF IInv, Publications, ResultShape, LastClaimPublishes
<1>. QED
    BY <1>1, InvariantHolds, PTL

\* A published graph is in S3, and holds the words of every partition.
THEOREM PublishedWholeHolds == Spec => []PublishedWhole
<1>1. IInv => PublishedWhole
    BY DEF IInv, Publications
<1>. QED
    BY <1>1, InvariantHolds, PTL

\* A reducer runs, and ends well, only over confirmed partitions.
THEOREM ReducerOverConfirmedHolds == Spec => []ReducerOverConfirmed
<1>1. IInv => ReducerOverConfirmed
    BY DEF IInv, Publications
<1>. QED
    BY <1>1, InvariantHolds, PTL

\* A job fails only with its attempts spent or for a failed partition.
THEOREM GivenUpForCauseHolds == Spec => []GivenUpForCause
<1>1. IInv => GivenUpForCause
    BY DEF IInv, Publications
<1>. QED
    BY <1>1, InvariantHolds, PTL

\* The DynamoDB repository, with its workers and reconcilers, implements the
\* job contract, though no call of it is a transaction over several rows.
THEOREM ImplementsContract == Spec => KeepsContract
<1>1. Init => Contract!ContractInit
    BY DEF Init, ProcessesInit, Contract!ContractInit
<1>2. IInv /\ IInv' /\ [Next]_vars => [Contract!ContractNext]_(Contract!contractVars)
  <2> SUFFICES ASSUME IInv, IInv', [Next]_vars
               PROVE  Contract!ContractNext
    OBVIOUS
  <2>1. Moves
    BY MovesStep DEF IInv
  <2>2. Contract!ContractType'
    BY DEF IInv, Typed, TypeOK, Reservations, AttemptsCounted,
           Contract!ContractType, Statuses, Contract!Statuses, Claims,
           Contract!Claims
  <2>3. Contract!StoredTogether
    BY DEF IInv, Reservations, FamilyStored, Contract!StoredTogether
  <2>. QED
    BY <2>1, <2>2, <2>3 DEF Moves, Contract!ContractNext
<1>. QED
    BY <1>1, <1>2, InvariantHolds, PTL
    DEF Spec, KeepsContract, Contract!ContractSpec

\* A reservation is taken from its worker only once its lease ran out, or by the
\* worker itself, even when a renewal lands between a reconciler's read and its put.
THEOREM OnlyLapsedAreTakenHolds == Spec => OnlyLapsedAreTaken
<1> DEFINE Taken == \A j \in Jobs :
                status[j] = "RUNNING" /\ status'[j] \in {"PENDING", "FAILED"} =>
                    \/ lease[j] = 0
                    \/ \E w \in Workers :
                          pc[w] = "returning" /\ claim[w] = [job |-> j, token |-> token[j]]
<1>1. ASSUME Typed, Reservations, [Next]_vars
      PROVE  Taken
  <2>. USE <1>1 DEF Typed, TypeOK
  <2>1. ASSUME NEW r \in Roots, Store(r)
        PROVE  Taken
    BY <2>1, StoreFacts DEF Reservations
  <2>2. ASSUME NEW w \in Workers, Reserve(w) \/ Publish(w)
        PROVE  Taken
    BY <2>2, ReserveFacts, PublishFacts
  <2>3. ASSUME NEW w \in Workers, Return(w)
        PROVE  Taken
    <3> DEFINE j == claim[w].job
    <3>1. /\ j \in Jobs /\ claim[w] \in Claims /\ pc[w] = "returning" /\ token[j] = claim[w].token
          /\ status' = [status EXCEPT ![j] = AfterAttempt(j)]
      BY <2>3, ReturnFacts DEF IsReserved
    <3>2. claim[w] = [job |-> j, token |-> token[j]]
      BY <3>1 DEF Claims
    <3> HIDE DEF j
    <3>. QED
      BY <3>1, <3>2
  <2>4. ASSUME NEW r \in Reconcilers, Expire(r) \/ GiveUp(r)
        PROVE  Taken
    BY <2>4, ExpireFacts, GiveUpFacts
  <2>5. ASSUME (\E w \in Workers : RenewWrite(w)) \/ Tick \/ UNCHANGED columns
        PROVE  Taken
    BY <2>5 DEF RenewWrite, Tick, columns
  <2>. QED
    BY <2>1, <2>2, <2>3, <2>4, <2>5, TableSteps
<1>2. ASSUME Typed, Reservations, [Next]_vars
      PROVE  [Taken]_vars
    BY <1>1, <1>2
<1>. QED
    BY <1>2, ReservationsHold, PTL DEF Spec, OnlyLapsedAreTaken

\* A worker whose renewal failed does not publish under that claim, though it may
\* still be live in the table.
THEOREM FailedBeatVetoesHolds == Spec => FailedBeatVetoes
<1>1. ASSUME Typed, Reservations, Publications, [Next]_vars
      PROVE  NoPublishAfterFailedBeat
  <2> SUFFICES ASSUME NEW w \in Workers, beat[w] = "failed", result'[claim[w].job] = claim[w]
               PROVE  result[claim[w].job] = claim[w]
    BY DEF NoPublishAfterFailedBeat
  <2>1. Claimed(w) /\ pc[w] \in Beating /\ claim[w].job \in Jobs /\ claim[w] \in Claims
    BY <1>1 DEF Typed, ClaimShape, Claimed, Beating, Claims
  <2>2. ASSUME NEW v \in Workers, Publish(v)
        PROVE  result[claim[w].job] = claim[w]
    <3>1. /\ claim[v].job \in Jobs /\ Claimed(v) /\ pc[v] = "publishing"
          /\ claim[v] \in Claims /\ result' = [result EXCEPT ![claim[v].job] = claim[v]]
      BY <1>1, <2>2, PublishFacts
    <3>2. v # w
      BY <2>1, <3>1 DEF Beating
    <3>3. claim[v] # claim[w]
      BY <1>1, <2>1, <3>1, <3>2 DEF Reservations, ClaimsUnique
    <3>. QED
      BY <1>1, <2>1, <3>1, <3>3 DEF Typed, TypeOK
  <2>3. ASSUME NEW v \in Workers, Return(v)
        PROVE  result[claim[w].job] = claim[w]
    <3>1. claim[v].job \in Jobs /\ result' = [result EXCEPT ![claim[v].job] = Null]
      BY <1>1, <2>3, ReturnFacts
    <3>. QED
      BY <1>1, <2>1, <3>1, WorkersAssumption DEF Typed, TypeOK
  <2>4. ASSUME result' = result
        PROVE  result[claim[w].job] = claim[w]
    BY <2>4
  <2>5. ASSUME \/ \E r \in Roots : Store(r)
               \/ \E v \in Workers : Reserve(v) \/ RenewWrite(v)
               \/ \E r \in Reconcilers : Expire(r) \/ GiveUp(r)
               \/ Tick
               \/ UNCHANGED columns
        PROVE  result' = result
    BY <2>5 DEF Store, Reserve, RenewWrite, Expire, GiveUp, Tick, columns
  <2>. QED
    BY <1>1, <2>2, <2>3, <2>4, <2>5, TableSteps
<1>2. IInv /\ [Next]_vars => [NoPublishAfterFailedBeat]_vars
    BY <1>1 DEF IInv
<1>. QED
    BY <1>2, InvariantHolds, PTL DEF Spec, FailedBeatVetoes
=============================================================================
