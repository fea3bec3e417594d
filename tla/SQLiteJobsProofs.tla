-------------------------- MODULE SQLiteJobsProofs --------------------------
(***************************************************************************)
(* The safety of the SQLite deployment, for any number of jobs, workers,   *)
(* attempts and ticks.  The inductive invariant is built in three layers,  *)
(* each proved with the help of the ones below it:                         *)
(*                                                                         *)
(*   Typed      types, and which steps of run_once hold a claim            *)
(*   Reserved   a live reservation is the one last issued for its job      *)
(*   Published  what is saved and recorded is what the last claim built,   *)
(*              and how a reducer stands to its partitions                 *)
(***************************************************************************)
EXTENDS SQLiteJobs, TLAPS

ClaimShape ==
    \A w \in Workers :
        /\ Working(w) => claim[w] \in Claims
        /\ ~ Working(w) => claim[w] = NoClaim
        /\ pc[w] \notin Beating => beat[w] = "off"

\* A reducer and its partitions are stored together.
FamilyStored ==
    \A j \in Jobs : \A c \in PartsOf[j] :
        status[c] = "ABSENT" <=> status[j] = "ABSENT"

Typed == TypeOK /\ ClaimShape /\ FamilyStored

-----------------------------------------------------------------------------
\* The columns of a reservation are filled in a RUNNING row and in no other.
RowShape ==
    \A j \in Jobs :
        IF status[j] = "RUNNING"
        THEN owner[j] # Null /\ token[j] = issued[j] /\ lease[j] # Null
        ELSE owner[j] = Null /\ token[j] = Null /\ lease[j] = Null

\* Every reservation spends an attempt, and there are MaxAttempts of them.
AttemptsCounted ==
    \A j \in Jobs :
        /\ issued[j] = attempts[j] /\ attempts[j] \in 0..MaxAttempts
        /\ status[j] = "PENDING" => attempts[j] < MaxAttempts
        /\ status[j] = "ABSENT" => attempts[j] = 0
        /\ status[j] = "RUNNING" => attempts[j] > 0

\* A claim in the hands of a worker was issued, and to no other worker.
ClaimsUnique ==
    \A w \in Workers : Working(w) =>
        /\ claim[w].token <= issued[claim[w].job]
        /\ \A v \in Workers : Working(v) /\ claim[v] = claim[w] => v = w

Reservations == RowShape /\ AttemptsCounted /\ ClaimsUnique

-----------------------------------------------------------------------------
\* Every saved graph, and every graph on its way, holds what it should.
GraphsTrue ==
    /\ \A g \in graphs : g.holds = WordsOf(g.id.job)
    /\ \A w \in Workers :
        /\ pc[w] = "save" => built[w] = WordsOf(claim[w].job)
        /\ pc[w] \in {"join", "publish", "confirm"} =>
              [id |-> claim[w], holds |-> WordsOf(claim[w].job)] \in graphs

ResultShape ==
    \A j \in Jobs :
        IF status[j] = "SUCCEEDED"
        THEN result[j] = [job |-> j, token |-> issued[j]]
        ELSE result[j] = Null

Publications ==
    /\ GraphsTrue
    /\ ResultShape
    /\ PublishedWhole
    /\ ReducerOverConfirmed
    /\ NoVainWait
    /\ GivenUpForCause

IInv == Typed /\ Reservations /\ Publications

-----------------------------------------------------------------------------
(* What the statements of claim_next and fail do to the status column.     *)

\* _propagate_failures fails the waiting reducers of failed partitions, touches
\* nothing else, and leaves no reducer waiting in vain.
LEMMA PropagatedFacts ==
    ASSUME NEW st \in [Jobs -> Statuses]
    PROVE  /\ Propagated(st) \in [Jobs -> Statuses]
           /\ \A j \in Jobs :
                /\ st[j] # "PENDING" => Propagated(st)[j] = st[j]
                /\ st[j] = "PENDING" => Propagated(st)[j] \in {"PENDING", "FAILED"}
                /\ Propagated(st)[j] = "PENDING" =>
                      \A c \in PartsOf[j] : Propagated(st)[c] # "FAILED"
                /\ Propagated(st)[j] = "FAILED" =>
                      st[j] = "FAILED" \/ \E c \in PartsOf[j] : Propagated(st)[c] = "FAILED"
    BY JobsAssumption DEF Propagated, Statuses

\* The recovery of claim_next moves expired reservations and the reducers that
\* wait for one that failed, and nothing else.
LEMMA RecoveredFacts ==
    ASSUME TypeOK
    PROVE  /\ Recovered \in [Jobs -> Statuses]
           /\ \A j \in Jobs :
                /\ status[j] \in {"ABSENT", "SUCCEEDED", "FAILED"} => Recovered[j] = status[j]
                /\ Recovered[j] \in {"ABSENT", "SUCCEEDED"} => status[j] = Recovered[j]
                /\ Recovered[j] = "RUNNING" <=> status[j] = "RUNNING" /\ j \notin Expired
                /\ Recovered[j] = "PENDING" =>
                      /\ \/ status[j] = "PENDING"
                         \/ j \in Expired /\ attempts[j] < MaxAttempts
                      /\ \A c \in PartsOf[j] : Recovered[c] # "FAILED"
                /\ Recovered[j] = "FAILED" =>
                      \/ status[j] = "FAILED"
                      \/ j \in Expired /\ ~ (attempts[j] < MaxAttempts)
                      \/ \E c \in PartsOf[j] : Recovered[c] = "FAILED"
<1> DEFINE st == [j \in Jobs |-> IF j \in Expired THEN AfterAttempt(j) ELSE status[j]]
<1>1. st \in [Jobs -> Statuses]
    BY DEF TypeOK, Statuses, AfterAttempt
<1>2. \A j \in Jobs :
        st[j] = IF status[j] = "RUNNING" /\ j \in Expired
                THEN (IF attempts[j] < MaxAttempts THEN "PENDING" ELSE "FAILED")
                ELSE status[j]
    BY DEF Expired, AfterAttempt
<1>3. Recovered = Propagated(st)
    BY DEF Recovered
<1> HIDE DEF st
<1>. QED
    BY <1>1, <1>2, <1>3, PropagatedFacts DEF TypeOK, Statuses, Expired

-----------------------------------------------------------------------------
(* The first layer.                                                        *)

LEMMA TypedInit == Init => Typed
    BY JobsAssumption, WorkersAssumption, LeaseAssumption
    DEF Init, ProcessesInit, Typed, TypeOK, ClaimShape, FamilyStored,
        Working, Statuses, Steps, Beats, Beating

LEMMA TypeStep == Typed /\ [Next]_vars => TypeOK'
<1> SUFFICES ASSUME Typed, [Next]_vars
             PROVE  TypeOK'
    OBVIOUS
<1>. USE WorkersAssumption, LeaseAssumption
     DEF Typed, TypeOK, ClaimShape, Working, Statuses, Steps, Beats, columns,
         processes
<1>1. ASSUME NEW r \in Roots, ReadClock(r)
      PROVE  TypeOK'
    BY <1>1 DEF ReadClock
<1>2. ASSUME NEW r \in Roots, Store(r)
      PROVE  TypeOK'
    BY <1>2 DEF Store, Submission
<1>3. ASSUME NEW w \in Workers, ClaimNothing(w)
      PROVE  TypeOK'
    BY <1>3, RecoveredFacts DEF ClaimNothing, Cleared
<1>4. ASSUME NEW w \in Workers, NEW j \in Jobs, ClaimJob(w, j)
      PROVE  TypeOK'
    BY <1>4, RecoveredFacts DEF ClaimJob, Begins, Goes, Cleared, Oldest, Ready, Claims
<1>5. ASSUME NEW w \in Workers, Build(w)
      PROVE  TypeOK'
  <2>1. claim[w].job \in Jobs
    BY <1>5 DEF Build, BuildGraph, Quiet, Claims, columns
  <2>2. \A g \in graphs : g.holds \subseteq Jobs
    BY DEF GraphRows
  <2>3. UNION {g.holds : g \in PartGraphs(claim[w].job)} \subseteq Jobs
    BY <2>2 DEF PartGraphs
  <2>4. built' \in [Workers -> SUBSET Jobs]
    BY <1>5, <2>1, <2>3 DEF Build, BuildGraph, Quiet, columns
  <2>. QED
    BY <1>5, <2>4 DEF Build, BuildGraph, Quiet, Goes, columns
<1>6. ASSUME NEW w \in Workers, BodyError(w)
      PROVE  TypeOK'
    BY <1>6 DEF BodyError, BodyRaises, Quiet, Goes, columns
<1>7. ASSUME NEW w \in Workers, Save(w)
      PROVE  TypeOK'
    BY <1>7 DEF Save, SaveGraph, Quiet, Goes, GraphRows, columns
<1>8. ASSUME NEW w \in Workers, Join(w)
      PROVE  TypeOK'
  <2>1. CASE beat[w] = "failed"
    BY <1>8, <2>1 DEF Join, JoinBeat, Quiet, Goes, Forgets, columns
  <2>2. CASE beat[w] # "failed"
    BY <1>8, <2>2 DEF Join, JoinBeat, Quiet, Goes, columns
  <2>. QED
    BY <2>1, <2>2
<1>9. ASSUME NEW w \in Workers, Unwind(w)
      PROVE  TypeOK'
    BY <1>9 DEF Unwind, Unwinds, Quiet, Goes, columns
<1>10. ASSUME NEW w \in Workers, Complete(w)
       PROVE  TypeOK'
  <2>1. claim[w] \in Claims /\ claim[w].job \in Jobs
    BY <1>10 DEF Complete, Claims
  <2>2. CASE Holds(w)
    <3>1. status' \in [Jobs -> Statuses] /\ result' \in [Jobs -> Claims \cup {Null}]
      BY <1>10, <2>1, <2>2 DEF Complete
    <3>2. /\ owner' \in [Jobs -> WorkerIds \cup {Null}]
          /\ token' \in [Jobs -> Nat \cup {Null}]
          /\ lease' \in [Jobs -> 0..LeaseTicks \cup {Null}]
      <4>1. /\ owner' = Cleared(owner, {claim[w].job})
            /\ token' = Cleared(token, {claim[w].job})
            /\ lease' = Cleared(lease, {claim[w].job})
        BY <1>10, <2>2 DEF Complete
      <4>. QED
        BY <4>1 DEF Cleared
    <3>3. pc' \in [Workers -> Steps] /\ UNCHANGED <<claim, built, beat>>
      BY <1>10, <2>2 DEF Complete, Goes
    <3>. QED
      BY <1>10, <3>1, <3>2, <3>3 DEF Complete
  <2>3. CASE ~ Holds(w)
    BY <1>10, <2>3 DEF Complete, Goes, Forgets
  <2>. QED
    BY <2>2, <2>3
<1>11. ASSUME NEW w \in Workers, CompleteError(w)
       PROVE  TypeOK'
    BY <1>11 DEF CompleteError, Goes
<1>12. ASSUME NEW w \in Workers, Confirm(w)
       PROVE  TypeOK'
    BY <1>12 DEF Confirm, Goes, Forgets
<1>13. ASSUME NEW w \in Workers, Fail(w)
       PROVE  TypeOK'
  <2>1. claim[w].job \in Jobs
    BY <1>13 DEF Fail, Claims
  <2>2. CASE Holds(w)
    <3>1. status' \in [Jobs -> Statuses]
      <4>1. [status EXCEPT ![claim[w].job] = AfterAttempt(claim[w].job)] \in [Jobs -> Statuses]
        BY <2>1 DEF AfterAttempt
      <4>2. status' = Propagated([status EXCEPT ![claim[w].job] = AfterAttempt(claim[w].job)])
        BY <1>13, <2>2 DEF Fail
      <4>. QED
        BY <4>1, <4>2, PropagatedFacts
    <3>2. /\ owner' \in [Jobs -> WorkerIds \cup {Null}]
          /\ token' \in [Jobs -> Nat \cup {Null}]
          /\ lease' \in [Jobs -> 0..LeaseTicks \cup {Null}]
      BY <1>13, <2>2 DEF Fail, Cleared
    <3>3. /\ pc' \in [Workers -> Steps] /\ claim' \in [Workers -> Claims \cup {NoClaim}]
          /\ built' \in [Workers -> SUBSET Jobs] /\ beat' \in [Workers -> Beats]
      BY <1>13 DEF Fail, Goes, Forgets
    <3>. QED
      BY <1>13, <3>1, <3>2, <3>3 DEF Fail
  <2>3. CASE ~ Holds(w)
    BY <1>13, <2>3 DEF Fail, Goes, Forgets
  <2>. QED
    BY <2>2, <2>3
<1>14. ASSUME NEW w \in Workers, Renew(w)
       PROVE  TypeOK'
  <2>1. claim[w].job \in Jobs
    BY <1>14 DEF Renew, Beating, Claims
  <2>2. CASE Holds(w)
    BY <1>14, <2>1, <2>2 DEF Renew
  <2>3. CASE ~ Holds(w)
    BY <1>14, <2>3 DEF Renew
  <2>. QED
    BY <2>2, <2>3
<1>15. ASSUME NEW w \in Workers, RenewError(w)
       PROVE  TypeOK'
    BY <1>15 DEF RenewError
<1>16. ASSUME NEW w \in Workers, Crash(w)
       PROVE  TypeOK'
    BY <1>16 DEF Crash, Dies, Quiet, Goes, Forgets, columns
<1>17. ASSUME NEW w \in Workers, Restart(w)
       PROVE  TypeOK'
    BY <1>17 DEF Restart, Starts, Quiet, Goes, columns
<1>18. ASSUME Tick
       PROVE  TypeOK'
    BY <1>18 DEF Tick
<1>19. ASSUME UNCHANGED vars
       PROVE  TypeOK'
    BY <1>19 DEF vars
<1>. QED
    BY <1>1, <1>2, <1>3, <1>4, <1>5, <1>6, <1>7, <1>8, <1>9, <1>10, <1>11, <1>12,
       <1>13, <1>14, <1>15, <1>16, <1>17, <1>18, <1>19
    DEF Next, Run, Claim, Body, Finish

LEMMA ClaimStep == Typed /\ [Next]_vars => ClaimShape'
<1> SUFFICES ASSUME Typed, [Next]_vars
             PROVE  ClaimShape'
    OBVIOUS
<1>. USE DEF Typed, TypeOK, ClaimShape, Working, Steps, Beating, Beats, processes
<1>1. ASSUME NEW r \in Roots, ReadClock(r)
      PROVE  ClaimShape'
    BY <1>1 DEF ReadClock
<1>2. ASSUME NEW r \in Roots, Store(r)
      PROVE  ClaimShape'
    BY <1>2 DEF Store
<1>3. ASSUME NEW w \in Workers, ClaimNothing(w)
      PROVE  ClaimShape'
    BY <1>3 DEF ClaimNothing
<1>4. ASSUME NEW w \in Workers, NEW j \in Jobs, ClaimJob(w, j)
      PROVE  ClaimShape'
    BY <1>4 DEF ClaimJob, Begins, Goes, Claims
<1>5. ASSUME NEW w \in Workers, Build(w)
      PROVE  ClaimShape'
    BY <1>5 DEF Build, BuildGraph, Quiet, Goes, columns
<1>6. ASSUME NEW w \in Workers, BodyError(w)
      PROVE  ClaimShape'
    BY <1>6 DEF BodyError, BodyRaises, Quiet, Goes, columns
<1>7. ASSUME NEW w \in Workers, Save(w)
      PROVE  ClaimShape'
    BY <1>7 DEF Save, SaveGraph, Quiet, Goes, columns
<1>8. ASSUME NEW w \in Workers, Join(w)
      PROVE  ClaimShape'
    BY <1>8 DEF Join, JoinBeat, Quiet, Goes, Forgets, columns
<1>9. ASSUME NEW w \in Workers, Unwind(w)
      PROVE  ClaimShape'
    BY <1>9 DEF Unwind, Unwinds, Quiet, Goes, columns
<1>10. ASSUME NEW w \in Workers, Complete(w)
       PROVE  ClaimShape'
    BY <1>10 DEF Complete, Goes, Forgets
<1>11. ASSUME NEW w \in Workers, CompleteError(w)
       PROVE  ClaimShape'
    BY <1>11 DEF CompleteError, Goes
<1>12. ASSUME NEW w \in Workers, Confirm(w)
       PROVE  ClaimShape'
    BY <1>12 DEF Confirm, Goes, Forgets
<1>13. ASSUME NEW w \in Workers, Fail(w)
       PROVE  ClaimShape'
    BY <1>13 DEF Fail, Goes, Forgets
<1>14. ASSUME NEW w \in Workers, Renew(w)
       PROVE  ClaimShape'
    BY <1>14 DEF Renew, Beating
<1>15. ASSUME NEW w \in Workers, RenewError(w)
       PROVE  ClaimShape'
    BY <1>15 DEF RenewError, Beating
<1>16. ASSUME NEW w \in Workers, Crash(w)
       PROVE  ClaimShape'
    BY <1>16 DEF Crash, Dies, Quiet, Goes, Forgets, columns
<1>17. ASSUME NEW w \in Workers, Restart(w)
       PROVE  ClaimShape'
    BY <1>17 DEF Restart, Starts, Quiet, Goes, columns
<1>18. ASSUME Tick
       PROVE  ClaimShape'
    BY <1>18 DEF Tick
<1>19. ASSUME UNCHANGED vars
       PROVE  ClaimShape'
    BY <1>19 DEF vars
<1>. QED
    BY <1>1, <1>2, <1>3, <1>4, <1>5, <1>6, <1>7, <1>8, <1>9, <1>10, <1>11, <1>12,
       <1>13, <1>14, <1>15, <1>16, <1>17, <1>18, <1>19
    DEF Next, Run, Claim, Body, Finish

\* The steps that touch the jobs table or the token factory.
LEMMA TableSteps ==
    ASSUME [Next]_vars
    PROVE  \/ \E r \in Roots : ReadClock(r) \/ Store(r)
           \/ \E w \in Workers : ClaimNothing(w) \/ \E j \in Jobs : ClaimJob(w, j)
           \/ \E w \in Workers : Holds(w) /\ (Renew(w) \/ Complete(w) \/ Fail(w))
           \/ Tick
           \/ UNCHANGED <<columns, issued>>
<1>1. ASSUME NEW w \in Workers,
             Body(w) \/ CompleteError(w) \/ Confirm(w) \/ RenewError(w)
               \/ Crash(w) \/ Restart(w)
      PROVE  UNCHANGED <<columns, issued>>
    BY <1>1 DEF Body, Build, BuildGraph, Quiet, BodyError, BodyRaises, Save,
         SaveGraph, Join, JoinBeat, Unwind, Unwinds, CompleteError, Confirm,
         RenewError, Crash, Dies, Restart, Starts, columns
<1>2. ASSUME NEW w \in Workers, Complete(w) \/ Fail(w) \/ Renew(w), ~ Holds(w)
      PROVE  UNCHANGED <<columns, issued>>
    BY <1>2 DEF Complete, Fail, Renew, columns
<1>3. UNCHANGED vars => UNCHANGED <<columns, issued>>
    BY DEF vars, columns
<1>. QED
    BY <1>1, <1>2, <1>3 DEF Next, Run, Claim, Finish

LEMMA FamilyStep == Typed /\ [Next]_vars => FamilyStored'
<1> SUFFICES ASSUME Typed, [Next]_vars
             PROVE  FamilyStored'
    OBVIOUS
<1>. USE JobsAssumption DEF Typed, TypeOK, FamilyStored, Statuses
<1>1. ASSUME NEW r \in Roots, ReadClock(r) \/ Store(r)
      PROVE  FamilyStored'
    BY <1>1 DEF ReadClock, Store, Submission, Roots
<1>2. ASSUME NEW w \in Workers, ClaimNothing(w) \/ \E j \in Jobs : ClaimJob(w, j)
      PROVE  FamilyStored'
    BY <1>2, RecoveredFacts DEF ClaimNothing, ClaimJob, Begins, Goes, Ready, Oldest
<1>3. ASSUME NEW w \in Workers, Holds(w), Renew(w) \/ Complete(w) \/ Fail(w)
      PROVE  FamilyStored'
  <2>1. claim[w].job \in Jobs
    BY <1>3 DEF Renew, Complete, Fail, Beating, ClaimShape, Working, Claims
  <2>2. CASE Renew(w) \/ Complete(w)
    BY <1>3, <2>1, <2>2 DEF Renew, Complete, Holds
  <2>3. CASE Fail(w)
    <3>1. DEFINE st == [status EXCEPT ![claim[w].job] = AfterAttempt(claim[w].job)]
    <3>2. st \in [Jobs -> Statuses] /\ \A j \in Jobs : st[j] = "ABSENT" <=> status[j] = "ABSENT"
      BY <1>3, <2>1 DEF Holds, AfterAttempt
    <3>3. status' = Propagated(st)
      BY <1>3, <2>3 DEF Fail
    <3> HIDE DEF st
    <3>. QED
      BY <3>2, <3>3, PropagatedFacts
  <2>. QED
    BY <1>3, <2>2, <2>3
<1>4. ASSUME Tick \/ UNCHANGED <<columns, issued>>
      PROVE  FamilyStored'
    BY <1>4 DEF Tick, columns
<1>. QED
    BY <1>1, <1>2, <1>3, <1>4, TableSteps

LEMMA TypedStep == Typed /\ [Next]_vars => Typed'
    BY TypeStep, ClaimStep, FamilyStep DEF Typed

\* Every column and every process variable keeps its type, a worker holds a
\* claim exactly while run_once is under way, and a reducer is never stored
\* without its partitions.
THEOREM TypesHold == Spec => []TypeOK
<1>1. Spec => []Typed
    BY TypedInit, TypedStep, PTL DEF Spec
<1>2. Typed => TypeOK
    BY DEF Typed
<1>. QED
    BY <1>1, <1>2, PTL

-----------------------------------------------------------------------------
(* The second layer.                                                       *)

\* Only claim_next hands out claims; every other step keeps or drops them.
LEMMA ClaimsKept ==
    ASSUME Typed, [Next]_vars
    PROVE  \/ \E w \in Workers, j \in Jobs : ClaimJob(w, j)
           \/ /\ issued' = issued
              /\ \A v \in Workers : Working(v)' => Working(v) /\ claim'[v] = claim[v]
<1> DEFINE Kept == /\ issued' = issued
                   /\ \A v \in Workers : Working(v)' => Working(v) /\ claim'[v] = claim[v]
<1>. USE DEF Typed, TypeOK, Working
<1>1. ASSUME NEW w \in Workers,
             \/ Build(w) \/ BodyError(w) \/ Save(w) \/ Unwind(w)
             \/ CompleteError(w) \/ Restart(w)
      PROVE  Kept
    BY <1>1 DEF Build, BuildGraph, Quiet, BodyError, BodyRaises, Save, SaveGraph,
                Unwind, Unwinds, CompleteError, Restart, Starts, Goes, columns
<1>2. ASSUME NEW w \in Workers, Join(w) \/ Complete(w) \/ Confirm(w) \/ Fail(w) \/ Crash(w)
      PROVE  Kept
    BY <1>2 DEF Join, JoinBeat, Quiet, Complete, Confirm, Fail, Crash, Dies, Goes,
                Forgets, columns
<1>3. ASSUME NEW w \in Workers, ClaimNothing(w) \/ Renew(w) \/ RenewError(w)
      PROVE  Kept
    BY <1>3 DEF ClaimNothing, Renew, RenewError, processes
<1>4. ASSUME NEW r \in Roots, ReadClock(r) \/ Store(r)
      PROVE  Kept
    BY <1>4 DEF ReadClock, Store, processes
<1>5. ASSUME Tick \/ UNCHANGED vars
      PROVE  Kept
    BY <1>5 DEF Tick, vars, processes
<1>. QED
    BY <1>1, <1>2, <1>3, <1>4, <1>5 DEF Next, Run, Claim, Body, Finish

LEMMA ReservationsInit == Init => Reservations
    BY JobsAssumption, WorkersAssumption, LeaseAssumption
    DEF Init, ProcessesInit, Reservations, RowShape, AttemptsCounted,
        ClaimsUnique, Working

LEMMA ClaimsUniqueStep == Typed /\ ClaimsUnique /\ [Next]_vars => ClaimsUnique'
<1> SUFFICES ASSUME Typed, ClaimsUnique, [Next]_vars
             PROVE  ClaimsUnique'
    OBVIOUS
<1>. USE DEF Typed, TypeOK, ClaimShape, ClaimsUnique
<1>1. ASSUME NEW w \in Workers, NEW j \in Jobs, ClaimJob(w, j)
      PROVE  ClaimsUnique'
  <2>1. /\ issued' = [issued EXCEPT ![j] = issued[j] + 1]
        /\ claim' = [claim EXCEPT ![w] = [job |-> j, token |-> issued[j] + 1]]
        /\ pc' = [pc EXCEPT ![w] = "build"]
    BY <1>1 DEF ClaimJob, Begins, Goes
  <2>2. \A v \in Workers \ {w} : Working(v)' =>
            Working(v) /\ claim'[v] = claim[v] /\ claim[v] \in Claims
    BY <2>1 DEF Working
  <2>3. \A k \in Jobs : issued[k] \in Nat /\ issued[k] <= issued'[k]
    BY <2>1
  <2>4. \A v \in Workers \ {w} : Working(v)' =>
            /\ claim'[v].token <= issued'[claim'[v].job]
            /\ claim'[v] # claim'[w]
    BY <2>1, <2>2, <2>3 DEF Claims
  <2>. QED
    BY <2>1, <2>2, <2>4
<1>2. ASSUME issued' = issued,
             \A v \in Workers : Working(v)' => Working(v) /\ claim'[v] = claim[v]
      PROVE  ClaimsUnique'
    BY <1>2
<1>. QED
    BY <1>1, <1>2, ClaimsKept

LEMMA RowStep ==
    Typed /\ RowShape /\ AttemptsCounted /\ [Next]_vars => RowShape' /\ AttemptsCounted'
<1> SUFFICES ASSUME Typed, RowShape, AttemptsCounted, [Next]_vars
             PROVE  RowShape' /\ AttemptsCounted'
    OBVIOUS
<1>. USE JobsAssumption, WorkersAssumption, LeaseAssumption
     DEF Typed, TypeOK, RowShape, AttemptsCounted, Statuses
<1>1. ASSUME NEW r \in Roots, ReadClock(r) \/ Store(r)
      PROVE  RowShape' /\ AttemptsCounted'
    BY <1>1 DEF ReadClock, Store, Submission, Roots, FamilyStored
<1>2. ASSUME NEW w \in Workers, ClaimNothing(w)
      PROVE  RowShape' /\ AttemptsCounted'
    BY <1>2, RecoveredFacts DEF ClaimNothing, Cleared, Expired
<1>3. ASSUME NEW w \in Workers, NEW j \in Jobs, ClaimJob(w, j)
      PROVE  RowShape' /\ AttemptsCounted'
    BY <1>3, RecoveredFacts DEF ClaimJob, Begins, Goes, Cleared, Expired, Ready, Oldest
<1>4. ASSUME NEW w \in Workers, Holds(w), Renew(w) \/ Complete(w) \/ Fail(w)
      PROVE  RowShape' /\ AttemptsCounted'
  <2>1. claim[w].job \in Jobs
    BY <1>4 DEF Renew, Complete, Fail, Beating, ClaimShape, Working, Claims
  <2>2. CASE Renew(w)
    BY <1>4, <2>1, <2>2 DEF Renew, Holds
  <2>3. CASE Complete(w)
    <3>1. /\ status' = [status EXCEPT ![claim[w].job] = "SUCCEEDED"]
          /\ owner' = Cleared(owner, {claim[w].job})
          /\ token' = Cleared(token, {claim[w].job})
          /\ lease' = Cleared(lease, {claim[w].job})
          /\ UNCHANGED <<attempts, issued>>
      BY <1>4, <2>3 DEF Complete
    <3>. QED
      BY <2>1, <3>1 DEF Cleared
  <2>4. CASE Fail(w)
    <3> DEFINE st == [status EXCEPT ![claim[w].job] = AfterAttempt(claim[w].job)]
    <3>1. /\ st \in [Jobs -> Statuses]
          /\ \A k \in Jobs : st[k] = IF k = claim[w].job THEN AfterAttempt(k) ELSE status[k]
      BY <2>1 DEF AfterAttempt
    <3>2. status' = Propagated(st)
      BY <1>4, <2>4 DEF Fail
    <3> HIDE DEF st
    <3>3. \A k \in Jobs :
            /\ status'[k] = "RUNNING" <=> status[k] = "RUNNING" /\ k # claim[w].job
            /\ status'[k] = "PENDING" => attempts[k] < MaxAttempts
            /\ status'[k] = "ABSENT" => status[k] = "ABSENT"
      BY <1>4, <2>1, <3>1, <3>2, PropagatedFacts DEF AfterAttempt, Holds
    <3>4. /\ owner' = Cleared(owner, {claim[w].job})
          /\ token' = Cleared(token, {claim[w].job})
          /\ lease' = Cleared(lease, {claim[w].job})
          /\ UNCHANGED <<attempts, issued>>
      BY <1>4, <2>4 DEF Fail
    <3>. QED
      BY <2>1, <3>3, <3>4 DEF Cleared
  <2>. QED
    BY <1>4, <2>2, <2>3, <2>4
<1>5. ASSUME Tick \/ UNCHANGED <<columns, issued>>
      PROVE  RowShape' /\ AttemptsCounted'
    BY <1>5 DEF Tick, columns
<1>. QED
    BY <1>1, <1>2, <1>3, <1>4, <1>5, TableSteps

LEMMA ReservationsStep ==
    Typed /\ Reservations /\ [Next]_vars => Reservations'
    BY ClaimsUniqueStep, RowStep DEF Reservations

LEMMA ReservationsHold == Spec => [](Typed /\ Reservations)
    BY TypedInit, TypedStep, ReservationsInit, ReservationsStep, PTL DEF Spec

\* A worker that passes _require_active holds the last claim issued.
LEMMA HoldsLast ==
    ASSUME Typed, Reservations, NEW w \in Workers, Working(w), Holds(w)
    PROVE  /\ claim[w].job \in Jobs
           /\ claim[w] = [job |-> claim[w].job, token |-> issued[claim[w].job]]
    BY DEF Typed, ClaimShape, Reservations, RowShape, Holds, Claims

\* Two processes never both pass _require_active for one job.
THEOREM OneHolderHolds == Spec => []OneHolder
<1>1. Typed /\ Reservations => OneHolder
  <2> SUFFICES ASSUME Typed, Reservations, NEW v \in Workers, NEW w \in Workers,
                      Working(v), Working(w), Holds(v), Holds(w),
                      claim[v].job = claim[w].job
               PROVE  v = w
    BY DEF OneHolder, Working
  <2>1. claim[v] = claim[w]
    BY HoldsLast
  <2>. QED
    BY <2>1 DEF Reservations, ClaimsUnique
<1>. QED
    BY <1>1, ReservationsHold, PTL

-----------------------------------------------------------------------------
(* The third layer.                                                        *)

LEMMA PublicationsInit == Init => Publications
    BY JobsAssumption
    DEF Init, ProcessesInit, Publications, GraphsTrue, ResultShape,
        PublishedWhole, ReducerOverConfirmed, NoVainWait, GivenUpForCause

\* A reducer merges one true graph per partition, and nothing else.
LEMMA BuiltWhole ==
    ASSUME Typed, GraphsTrue, ResultShape, NEW w \in Workers, Build(w)
    PROVE  built'[w] = WordsOf(claim[w].job)
<1> DEFINE j == claim[w].job
<1>1. j \in Jobs
    BY DEF Typed, ClaimShape, Working, Build, BuildGraph, Quiet, Claims, columns
<1>2. built'[w] = IF PartsOf[j] = {} THEN {j} ELSE UNION {g.holds : g \in PartGraphs(j)}
    BY DEF Typed, TypeOK, Build, BuildGraph, Quiet, columns
<1>3. ASSUME NEW c \in PartsOf[j]
      PROVE  /\ c \in Jobs /\ WordsOf(c) = {c} /\ result[c].job = c
             /\ \E g \in graphs : g.id = result[c]
  <2>1. c \in Jobs /\ PartsOf[c] = {}
    BY <1>1, <1>3, JobsAssumption
  <2>2. PartsConfirmed(j)
    BY DEF Build, BuildGraph, Quiet, columns
  <2>3. status[c] = "SUCCEEDED" /\ \E g \in graphs : g.id = result[c]
    BY <1>3, <2>2 DEF PartsConfirmed
  <2>4. result[c] = [job |-> c, token |-> issued[c]]
    BY <2>1, <2>3 DEF ResultShape
  <2>. QED
    BY <2>1, <2>3, <2>4 DEF WordsOf
<1>4. \A g \in PartGraphs(j) : \E c \in PartsOf[j] : g.holds = {c}
    BY <1>3 DEF PartGraphs, GraphsTrue
<1>5. \A c \in PartsOf[j] : \E g \in PartGraphs(j) : g.holds = {c}
    BY <1>3 DEF PartGraphs, GraphsTrue
<1>6. UNION {g.holds : g \in PartGraphs(j)} = PartsOf[j]
    BY <1>4, <1>5
<1>. QED
    BY <1>2, <1>6 DEF WordsOf

LEMMA GraphsStep ==
    Typed /\ GraphsTrue /\ ResultShape /\ [Next]_vars => GraphsTrue' /\ graphs \subseteq graphs'
<1> SUFFICES ASSUME Typed, GraphsTrue, ResultShape, [Next]_vars
             PROVE  GraphsTrue' /\ graphs \subseteq graphs'
    OBVIOUS
<1>. USE DEF Typed, TypeOK, GraphsTrue
<1>1. ASSUME NEW w \in Workers, NEW j \in Jobs, ClaimJob(w, j)
      PROVE  GraphsTrue' /\ graphs \subseteq graphs'
    BY <1>1 DEF ClaimJob, Begins, Goes
<1>2. ASSUME NEW w \in Workers, Build(w)
      PROVE  GraphsTrue' /\ graphs \subseteq graphs'
    BY <1>2, BuiltWhole DEF Build, BuildGraph, Quiet, Goes, columns
<1>3. ASSUME NEW w \in Workers, Save(w)
      PROVE  GraphsTrue' /\ graphs \subseteq graphs'
  <2> DEFINE g0 == [id |-> claim[w], holds |-> built[w]]
  <2>1. graphs' = graphs \cup {g0}
    BY <1>3 DEF Save, SaveGraph, Quiet, columns
  <2>2. g0 = [id |-> claim[w], holds |-> WordsOf(claim[w].job)]
    BY <1>3 DEF Save, SaveGraph, Quiet, columns
  <2>3. g0.holds = WordsOf(g0.id.job)
    BY <2>2
  <2>4. /\ pc' = [pc EXCEPT ![w] = "join"]
        /\ claim' = claim /\ built' = built
    BY <1>3 DEF Save, SaveGraph, Quiet, Goes, columns
  <2> HIDE DEF g0
  <2>. QED
    BY <2>1, <2>2, <2>3, <2>4
<1>4. ASSUME NEW w \in Workers, BodyError(w) \/ Unwind(w) \/ CompleteError(w) \/ Restart(w)
      PROVE  GraphsTrue' /\ graphs \subseteq graphs'
    BY <1>4 DEF BodyError, BodyRaises, Quiet, Unwind, Unwinds, CompleteError,
                Restart, Starts, Goes, columns
<1>5. ASSUME NEW w \in Workers, Confirm(w) \/ Fail(w) \/ Crash(w)
      PROVE  GraphsTrue' /\ graphs \subseteq graphs'
  <2>1. CASE Confirm(w)
    BY <2>1 DEF Confirm, Quiet, Goes, Forgets, columns
  <2>2. CASE Fail(w)
    BY <2>2 DEF Fail, Goes, Forgets
  <2>3. CASE Crash(w)
    BY <2>3 DEF Crash, Dies, Quiet, Goes, Forgets, columns
  <2>. QED
    BY <1>5, <2>1, <2>2, <2>3
<1>6. ASSUME NEW w \in Workers, Join(w)
      PROVE  GraphsTrue' /\ graphs \subseteq graphs'
    BY <1>6 DEF Join, JoinBeat, Quiet, Goes, Forgets, columns
<1>7. ASSUME NEW w \in Workers, Complete(w)
      PROVE  GraphsTrue' /\ graphs \subseteq graphs'
    BY <1>7 DEF Complete, Goes, Forgets
<1>8. ASSUME NEW w \in Workers, ClaimNothing(w) \/ Renew(w) \/ RenewError(w)
      PROVE  GraphsTrue' /\ graphs \subseteq graphs'
    BY <1>8 DEF ClaimNothing, Renew, RenewError, processes
<1>9. ASSUME NEW r \in Roots, ReadClock(r) \/ Store(r)
      PROVE  GraphsTrue' /\ graphs \subseteq graphs'
    BY <1>9 DEF ReadClock, Store, processes
<1>10. ASSUME Tick \/ UNCHANGED vars
       PROVE  GraphsTrue' /\ graphs \subseteq graphs'
    BY <1>10 DEF Tick, vars, processes
<1>. QED
    BY <1>1, <1>2, <1>3, <1>4, <1>5, <1>6, <1>7, <1>8, <1>9, <1>10
    DEF Next, Run, Claim, Body, Finish

-----------------------------------------------------------------------------
(* Every step of the repository is a move of the contract for each job.    *)

Moves == \A j \in Jobs : Contract!Keeps(j) \/ Contract!Move(j)

LEMMA AttemptsLeft ==
    ASSUME Reservations, NEW j \in Jobs
    PROVE  attempts[j] < MaxAttempts \/ attempts[j] = MaxAttempts
<1>1. attempts[j] \in 0..MaxAttempts
    BY DEF Reservations, AttemptsCounted
<1>. QED
    BY <1>1, JobsAssumption

LEMMA MovesStep ==
    ASSUME Typed, Reservations, Publications, [Next]_vars
    PROVE  Moves
<1>. USE JobsAssumption
     DEF Typed, TypeOK, Moves, Contract!Keeps, Contract!KeepsCounts,
         Contract!Move
<1>1. ASSUME NEW r \in Roots, ReadClock(r) \/ Store(r)
      PROVE  Moves
    BY <1>1 DEF ReadClock, Store, Submission, Roots, FamilyStored, Contract!Stored
<1>2. ASSUME NEW j \in Jobs, attempts'[j] = attempts[j], result'[j] = result[j],
             status'[j] = Recovered[j],
             \A c \in PartsOf[j] : Recovered[c] = "FAILED" => status'[c] = "FAILED"
      PROVE  Contract!Keeps(j) \/ Contract!Move(j)
  <2>1. CASE status[j] \notin {"RUNNING", "PENDING"}
    BY <1>2, <2>1, RecoveredFacts DEF Statuses
  <2>2. CASE status[j] = "PENDING"
    BY <1>2, <2>2, RecoveredFacts DEF Statuses, Expired, Contract!GivenUp
  <2>3. CASE status[j] = "RUNNING"
    <3>1. \A c \in PartsOf[j] : Recovered[c] = "SUCCEEDED"
      BY <2>3, RecoveredFacts DEF Publications, ReducerOverConfirmed
    <3>2. attempts[j] < MaxAttempts \/ attempts[j] = MaxAttempts
      BY AttemptsLeft
    <3>. QED
      BY <1>2, <2>3, <3>1, <3>2, RecoveredFacts
      DEF Statuses, Contract!Returned, Contract!GivenUp
  <2>. QED
    BY <2>1, <2>2, <2>3
<1>3. ASSUME NEW w \in Workers, ClaimNothing(w)
      PROVE  Moves
    BY <1>2, <1>3 DEF ClaimNothing
<1>4. ASSUME NEW w \in Workers, NEW j \in Jobs, ClaimJob(w, j)
      PROVE  Moves
  <2>1. Recovered[j] = "PENDING" /\ \A c \in PartsOf[j] : Recovered[c] = "SUCCEEDED"
    BY <1>4 DEF ClaimJob, Begins, Goes, Oldest, Ready
  <2>2. \A k \in Jobs : status'[k] = IF k = j THEN "RUNNING" ELSE Recovered[k]
    BY <1>4, RecoveredFacts DEF ClaimJob, Begins, Goes
  <2>3. /\ attempts' = [attempts EXCEPT ![j] = attempts[j] + 1]
        /\ result' = result
    BY <1>4 DEF ClaimJob, Begins, Goes
  <2>4. Contract!Reserved(j)
    <3>1. status[j] \in {"PENDING", "RUNNING"} /\ attempts[j] < MaxAttempts
      BY <2>1, RecoveredFacts DEF Expired, Reservations, AttemptsCounted
    <3>2. \A c \in PartsOf[j] : status[c] = "SUCCEEDED"
      BY <2>1, RecoveredFacts
    <3>. QED
      BY <2>2, <2>3, <3>1, <3>2 DEF Contract!Reserved
  <2>5. ASSUME NEW k \in Jobs \ {j}
        PROVE  Contract!Keeps(k) \/ Contract!Move(k)
    <3>1. \A c \in PartsOf[k] : Recovered[c] = "FAILED" => status'[c] = "FAILED"
      BY <2>1, <2>2
    <3>. QED
      BY <1>2, <2>2, <2>3, <3>1
  <2>. QED
    BY <2>4, <2>5
<1>5. ASSUME NEW w \in Workers, Holds(w), Complete(w)
      PROVE  Moves
  <2>1. claim[w] \in Claims /\ claim[w].job \in Jobs
    BY <1>5 DEF Complete, ClaimShape, Working, Claims
  <2>2. /\ status' = [status EXCEPT ![claim[w].job] = "SUCCEEDED"]
        /\ result' = [result EXCEPT ![claim[w].job] = claim[w]]
        /\ attempts' = attempts
    BY <1>5 DEF Complete
  <2>3. status[claim[w].job] = "RUNNING" /\ result[claim[w].job] = Null
    BY <1>5, <2>1 DEF Holds, Publications, ResultShape
  <2>4. Contract!Completed(claim[w].job)
    <3>1. /\ status'[claim[w].job] = "SUCCEEDED" /\ result'[claim[w].job] = claim[w]
          /\ attempts'[claim[w].job] = attempts[claim[w].job]
      BY <2>1, <2>2
    <3>. QED
      BY <2>1, <2>3, <3>1 DEF Contract!Completed, Claims, Contract!Claims
  <2>5. \A k \in Jobs \ {claim[w].job} : Contract!Keeps(k)
    BY <2>1, <2>2
  <2>. QED
    BY <2>4, <2>5
<1>6. ASSUME NEW w \in Workers, Holds(w), Fail(w)
      PROVE  Moves
  <2>1. claim[w].job \in Jobs
    BY <1>6 DEF Fail, ClaimShape, Working, Claims
  <2> DEFINE j == claim[w].job
             st == [status EXCEPT ![j] = AfterAttempt(j)]
  <2>2. /\ st \in [Jobs -> Statuses]
        /\ \A k \in Jobs : st[k] = IF k = j THEN AfterAttempt(k) ELSE status[k]
    BY <2>1 DEF AfterAttempt, Statuses
  <2>3. status' = Propagated(st) /\ attempts' = attempts /\ result' = result
    BY <1>6 DEF Fail
  <2> HIDE DEF st
  <2>4. status[j] = "RUNNING" /\ \A c \in PartsOf[j] : status[c] = "SUCCEEDED"
    BY <1>6, <2>1 DEF Holds, Publications, ReducerOverConfirmed
  <2>5. attempts[j] < MaxAttempts \/ attempts[j] = MaxAttempts
    BY <2>1 DEF Reservations, AttemptsCounted
  <2>6. j \in Jobs /\ PartsOf[j] \subseteq Jobs
    BY <2>1
  <2> HIDE DEF j
  <2>7. Contract!Move(j)
    <3>1. \A c \in PartsOf[j] : c \in Jobs /\ st[c] = "SUCCEEDED" /\ status'[c] = "SUCCEEDED"
      <4> SUFFICES ASSUME NEW c \in PartsOf[j]
                   PROVE  c \in Jobs /\ st[c] = "SUCCEEDED" /\ status'[c] = "SUCCEEDED"
        OBVIOUS
      <4>1. c \in Jobs /\ c # j
        BY <2>4, <2>6
      <4>2. st[c] = "SUCCEEDED"
        BY <2>2, <2>4, <4>1
      <4>. QED
        BY <2>2, <2>3, <4>1, <4>2, PropagatedFacts
    <3>2. status'[j] = AfterAttempt(j)
      BY <2>2, <2>3, <2>6, <3>1, PropagatedFacts DEF AfterAttempt
    <3>. QED
      BY <2>3, <2>4, <2>5, <2>6, <3>2 DEF AfterAttempt, Contract!Returned, Contract!GivenUp
  <2>8. ASSUME NEW k \in Jobs \ {j}
        PROVE  Contract!Keeps(k) \/ Contract!Move(k)
    BY <2>2, <2>3, PropagatedFacts DEF Contract!GivenUp
  <2>. QED
    BY <2>7, <2>8
<1>7. ASSUME NEW w \in Workers, Renew(w)
      PROVE  Moves
    BY <1>7 DEF Renew
<1>8. ASSUME Tick \/ UNCHANGED <<columns, issued>>
      PROVE  Moves
    BY <1>8 DEF Tick, columns
<1>. QED
    BY <1>1, <1>3, <1>4, <1>5, <1>6, <1>7, <1>8, TableSteps

-----------------------------------------------------------------------------
(* What follows from the moves, and the rest of the third layer.           *)

\* A terminal status is kept, and so are the attempts and the result under it.
LEMMA TerminalKept ==
    ASSUME Moves, NEW j \in Jobs, status[j] \in Terminal
    PROVE  Contract!Keeps(j)
    BY DEF Moves, Terminal, Contract!Move, Contract!Stored, Contract!Reserved,
           Contract!Completed, Contract!Returned, Contract!GivenUp

LEMMA ResultStep ==
    ASSUME Typed, Reservations, Publications, [Next]_vars
    PROVE  ResultShape' /\ PublishedWhole'
<1>. USE DEF Typed, TypeOK, Publications, ResultShape, PublishedWhole
<1>1. Moves /\ graphs \subseteq graphs'
    BY MovesStep, GraphsStep
<1>2. ASSUME NEW w \in Workers, Holds(w), Complete(w)
      PROVE  ResultShape' /\ PublishedWhole'
  <2>1. Working(w)
    BY <1>2 DEF Complete, Working
  <2>2. /\ claim[w].job \in Jobs
        /\ claim[w] = [job |-> claim[w].job, token |-> issued[claim[w].job]]
    BY <1>2, <2>1, HoldsLast
  <2>3. [id |-> claim[w], holds |-> WordsOf(claim[w].job)] \in graphs
    BY <1>2 DEF GraphsTrue, Complete
  <2>4. /\ status' = [status EXCEPT ![claim[w].job] = "SUCCEEDED"]
        /\ result' = [result EXCEPT ![claim[w].job] = claim[w]]
        /\ issued' = issued
    BY <1>2 DEF Complete
  <2>5. ResultShape'
    BY <2>2, <2>4
  <2>6. PublishedWhole'
    BY <1>1, <2>2, <2>3, <2>4
  <2>. QED
    BY <2>5, <2>6
<1>3. ASSUME result' = result,
             \A j \in Jobs : status'[j] = "SUCCEEDED" <=> status[j] = "SUCCEEDED",
             \A j \in Jobs : status[j] = "SUCCEEDED" => issued'[j] = issued[j]
      PROVE  ResultShape' /\ PublishedWhole'
    BY <1>1, <1>3
<1>4. ASSUME NEW r \in Roots, ReadClock(r) \/ Store(r)
      PROVE  ResultShape' /\ PublishedWhole'
    BY <1>3, <1>4, JobsAssumption DEF ReadClock, Store, Submission, Roots, FamilyStored
<1>5. ASSUME NEW w \in Workers, ClaimNothing(w)
      PROVE  ResultShape' /\ PublishedWhole'
    BY <1>3, <1>5, RecoveredFacts DEF ClaimNothing
<1>6. ASSUME NEW w \in Workers, NEW j \in Jobs, ClaimJob(w, j)
      PROVE  ResultShape' /\ PublishedWhole'
  <2>1. /\ result' = result /\ Recovered[j] = "PENDING"
        /\ status' = [Recovered EXCEPT ![j] = "RUNNING"]
        /\ issued' = [issued EXCEPT ![j] = issued[j] + 1]
    BY <1>6 DEF ClaimJob, Begins, Goes, Oldest, Ready
  <2>2. status[j] # "SUCCEEDED"
    BY <2>1, RecoveredFacts
  <2>. QED
    BY <1>3, <2>1, <2>2, RecoveredFacts
<1>7. ASSUME NEW w \in Workers, Holds(w), Fail(w)
      PROVE  ResultShape' /\ PublishedWhole'
  <2>1. claim[w].job \in Jobs /\ status[claim[w].job] = "RUNNING"
    BY <1>7 DEF Fail, Holds, ClaimShape, Working, Claims
  <2> DEFINE st == [status EXCEPT ![claim[w].job] = AfterAttempt(claim[w].job)]
  <2>2. /\ st \in [Jobs -> Statuses]
        /\ \A k \in Jobs : st[k] = "SUCCEEDED" <=> status[k] = "SUCCEEDED"
    BY <2>1 DEF AfterAttempt, Statuses
  <2>3. status' = Propagated(st) /\ result' = result /\ issued' = issued
    BY <1>7 DEF Fail
  <2> HIDE DEF st
  <2>. QED
    BY <1>3, <2>2, <2>3, PropagatedFacts
<1>8. ASSUME NEW w \in Workers, Renew(w)
      PROVE  ResultShape' /\ PublishedWhole'
    BY <1>3, <1>8 DEF Renew
<1>9. ASSUME Tick \/ UNCHANGED <<columns, issued>>
      PROVE  ResultShape' /\ PublishedWhole'
    BY <1>3, <1>9 DEF Tick, columns
<1>. QED
    BY <1>2, <1>4, <1>5, <1>6, <1>7, <1>8, <1>9, TableSteps

LEMMA ReducerStep ==
    ASSUME Typed, Reservations, Publications, [Next]_vars
    PROVE  ReducerOverConfirmed'
<1> SUFFICES ASSUME NEW j \in Jobs, status'[j] \in {"RUNNING", "SUCCEEDED"},
                    NEW c \in PartsOf[j]
             PROVE  status'[c] = "SUCCEEDED"
    BY DEF ReducerOverConfirmed
<1>1. c \in Jobs
    BY JobsAssumption
<1>2. Moves
    BY MovesStep
<1>3. status[c] = "SUCCEEDED"
    BY <1>2 DEF Moves, Publications, ReducerOverConfirmed, Contract!Keeps,
                Contract!Move, Contract!Stored, Contract!Reserved,
                Contract!Completed, Contract!Returned, Contract!GivenUp
<1>. QED
    BY <1>1, <1>2, <1>3, TerminalKept DEF Terminal, Contract!Keeps

LEMMA GivenUpStep ==
    ASSUME Typed, Reservations, Publications, [Next]_vars
    PROVE  GivenUpForCause'
<1> SUFFICES ASSUME NEW j \in Jobs, status'[j] = "FAILED"
             PROVE  attempts'[j] = MaxAttempts \/ \E c \in PartsOf[j] : status'[c] = "FAILED"
    BY DEF GivenUpForCause
<1>1. Moves
    BY MovesStep
<1>2. CASE status[j] = "FAILED"
  <2>1. attempts'[j] = attempts[j]
    BY <1>1, <1>2, TerminalKept DEF Terminal, Contract!Keeps, Contract!KeepsCounts
  <2>2. \A c \in PartsOf[j] : status[c] = "FAILED" => status'[c] = "FAILED"
    BY <1>1, TerminalKept, JobsAssumption DEF Terminal, Contract!Keeps
  <2>. QED
    BY <1>2, <2>1, <2>2 DEF Publications, GivenUpForCause
<1>3. CASE status[j] # "FAILED"
    BY <1>1, <1>3 DEF Moves, Contract!Keeps, Contract!KeepsCounts, Contract!Move,
                      Contract!Stored, Contract!Reserved, Contract!Completed,
                      Contract!Returned, Contract!GivenUp
<1>. QED
    BY <1>2, <1>3

LEMMA NoVainWaitStep ==
    ASSUME Typed, Reservations, Publications, [Next]_vars
    PROVE  NoVainWait'
<1>. USE JobsAssumption DEF Typed, TypeOK, Publications, NoVainWait
<1>1. ASSUME NEW r \in Roots, ReadClock(r) \/ Store(r)
      PROVE  NoVainWait'
    BY <1>1 DEF ReadClock, Store, Submission, Roots, FamilyStored
<1>2. ASSUME NEW w \in Workers, ClaimNothing(w)
      PROVE  NoVainWait'
    BY <1>2, RecoveredFacts DEF ClaimNothing
<1>3. ASSUME NEW w \in Workers, NEW j \in Jobs, ClaimJob(w, j)
      PROVE  NoVainWait'
    BY <1>3, RecoveredFacts DEF ClaimJob, Begins, Goes
<1>4. ASSUME NEW w \in Workers, Holds(w), Complete(w)
      PROVE  NoVainWait'
    BY <1>4 DEF Complete
<1>5. ASSUME NEW w \in Workers, Holds(w), Fail(w)
      PROVE  NoVainWait'
  <2> DEFINE st == [status EXCEPT ![claim[w].job] = AfterAttempt(claim[w].job)]
  <2>1. st \in [Jobs -> Statuses]
    BY <1>5 DEF AfterAttempt, Statuses
  <2>2. status' = Propagated(st)
    BY <1>5 DEF Fail
  <2> HIDE DEF st
  <2>. QED
    BY <2>1, <2>2, PropagatedFacts
<1>6. ASSUME NEW w \in Workers, Renew(w)
      PROVE  NoVainWait'
    BY <1>6 DEF Renew
<1>7. ASSUME Tick \/ UNCHANGED <<columns, issued>>
      PROVE  NoVainWait'
    BY <1>7 DEF Tick, columns
<1>. QED
    BY <1>1, <1>2, <1>3, <1>4, <1>5, <1>6, <1>7, TableSteps

LEMMA InvariantHolds == Spec => []IInv
<1>1. Init => IInv
    BY TypedInit, ReservationsInit, PublicationsInit DEF IInv
<1>2. IInv /\ [Next]_vars => IInv'
    BY TypedStep, ReservationsStep, GraphsStep, ResultStep, ReducerStep, GivenUpStep,
       NoVainWaitStep DEF IInv, Publications
<1>. QED
    BY <1>1, <1>2, PTL DEF Spec

-----------------------------------------------------------------------------
(* The theorems.                                                           *)

\* A published result is the graph built under the job's last reservation: a
\* worker that lost its lease never has its graph published.
THEOREM LastClaimPublishesHolds == Spec => []LastClaimPublishes
<1>1. IInv => LastClaimPublishes
    BY DEF IInv, Publications, ResultShape, LastClaimPublishes
<1>. QED
    BY <1>1, InvariantHolds, PTL

\* A published graph is saved, and holds the words of every partition.
THEOREM PublishedWholeHolds == Spec => []PublishedWhole
<1>1. IInv => PublishedWhole
    BY DEF IInv, Publications
<1>. QED
    BY <1>1, InvariantHolds, PTL

\* A reducer runs, and ends well, only over confirmed partitions.
THEOREM ReducerOverConfirmedHolds == Spec => []ReducerOverConfirmed
<1>1. IInv => ReducerOverConfirmed
    BY DEF IInv, Publications
<1>. QED
    BY <1>1, InvariantHolds, PTL

\* No transaction leaves a reducer waiting for a partition that failed.
THEOREM NoVainWaitHolds == Spec => []NoVainWait
<1>1. IInv => NoVainWait
    BY DEF IInv, Publications
<1>. QED
    BY <1>1, InvariantHolds, PTL

\* A job fails only with its attempts spent or for a failed partition.
THEOREM GivenUpForCauseHolds == Spec => []GivenUpForCause
<1>1. IInv => GivenUpForCause
    BY DEF IInv, Publications
<1>. QED
    BY <1>1, InvariantHolds, PTL

\* The SQLite repository, with its workers, implements the job contract.
THEOREM ImplementsContract == Spec => KeepsContract
<1>1. Init => Contract!ContractInit
    BY DEF Init, ProcessesInit, Contract!ContractInit
<1>2. IInv /\ IInv' /\ [Next]_vars => [Contract!ContractNext]_(Contract!contractVars)
  <2> SUFFICES ASSUME IInv, IInv', [Next]_vars
               PROVE  Contract!ContractNext
    OBVIOUS
  <2>1. Moves
    BY MovesStep DEF IInv
  <2>2. Contract!ContractType'
    BY DEF IInv, Typed, TypeOK, Reservations, AttemptsCounted,
           Contract!ContractType, Statuses, Contract!Statuses, Claims,
           Contract!Claims
  <2>3. Contract!StoredTogether
    BY DEF IInv, Typed, FamilyStored, Contract!StoredTogether
  <2>. QED
    BY <2>1, <2>2, <2>3 DEF Moves, Contract!ContractNext
<1>. QED
    BY <1>1, <1>2, InvariantHolds, PTL
    DEF Spec, KeepsContract, Contract!ContractSpec

\* A row whose lease ran out is recovered, or recovered and reserved anew.
LEMMA LapsedIsRecovered ==
    ASSUME IInv, NEW j \in Jobs, lease[j] = 0, NEW w \in Workers, Claim(w)
    PROVE  /\ lease'[j] = Null \/ token'[j] # token[j]
           /\ result'[j] = result[j]
<1>. USE DEF IInv, Typed, TypeOK
<1>1. status[j] = "RUNNING" /\ token[j] = issued[j] /\ j \in Expired
    BY WorkersAssumption DEF Reservations, RowShape, Expired
<1>2. CASE ClaimNothing(w)
    BY <1>1, <1>2 DEF ClaimNothing, Cleared
<1>3. ASSUME NEW k \in Jobs, ClaimJob(w, k)
      PROVE  /\ lease'[j] = Null \/ token'[j] # token[j]
             /\ result'[j] = result[j]
  <2>1. CASE k = j
    <3>1. issued'[j] = issued[j] + 1 /\ token'[j] = issued'[j] /\ result' = result
      BY <1>3, <2>1 DEF ClaimJob, Cleared
    <3>. QED
      BY <1>1, <3>1
  <2>2. CASE k # j
    BY <1>1, <1>3, <2>2 DEF ClaimJob, Cleared
  <2>. QED
    BY <2>1, <2>2
<1>. QED
    BY <1>2, <1>3 DEF Claim

\* Nobody else touches it.
LEMMA LapsedIsLeft ==
    ASSUME IInv, [Next]_vars, NEW j \in Jobs, lease[j] = 0,
           ~ \E w \in Workers : Claim(w)
    PROVE  UNCHANGED Row(j)
<1>. USE DEF IInv, Typed, TypeOK, Row
<1>1. status[j] = "RUNNING"
    BY WorkersAssumption DEF Reservations, RowShape
<1>2. ASSUME NEW r \in Roots, ReadClock(r) \/ Store(r)
      PROVE  UNCHANGED Row(j)
  <2>1. /\ UNCHANGED <<attempts, owner, token, lease, result>>
        /\ status'[j] = status[j]
    <3>1. CASE ReadClock(r)
      BY <3>1 DEF ReadClock
    <3>2. CASE Store(r)
      <4>1. j \notin Submission(r)
        BY <1>1, <3>2, JobsAssumption DEF Store, Submission, Roots, FamilyStored
      <4>. QED
        BY <3>2, <4>1 DEF Store
    <3>. QED
      BY <1>2, <3>1, <3>2
  <2>. QED
    BY <2>1
<1>3. ASSUME NEW w \in Workers, Holds(w), Renew(w) \/ Complete(w) \/ Fail(w)
      PROVE  UNCHANGED Row(j)
  <2> DEFINE k == claim[w].job
  <2>1. k \in Jobs /\ k # j
    BY <1>3 DEF Renew, Complete, Fail, Beating, ClaimShape, Working, Claims, Holds
  <2>2. CASE Renew(w)
    BY <1>3, <2>1, <2>2 DEF Renew
  <2>3. CASE Complete(w)
    BY <1>3, <2>1, <2>3 DEF Complete, Cleared
  <2>4. CASE Fail(w)
    <3> DEFINE st == [status EXCEPT ![k] = AfterAttempt(k)]
    <3>1. st \in [Jobs -> Statuses] /\ st[j] = "RUNNING"
      BY <1>1, <2>1 DEF AfterAttempt, Statuses
    <3>2. status' = Propagated(st) /\ UNCHANGED <<attempts, result>>
      BY <1>3, <2>4 DEF Fail
    <3>3. owner'[j] = owner[j] /\ token'[j] = token[j] /\ lease'[j] = lease[j]
      BY <1>3, <2>1, <2>4 DEF Fail, Cleared
    <3> HIDE DEF st
    <3>4. status'[j] = status[j]
      BY <1>1, <3>1, <3>2, PropagatedFacts
    <3>. QED
      BY <3>2, <3>3, <3>4
  <2>. QED
    BY <1>3, <2>2, <2>3, <2>4
<1>4. ASSUME Tick \/ UNCHANGED <<columns, issued>>
      PROVE  UNCHANGED Row(j)
    BY <1>4 DEF Tick, columns
<1>. QED
    BY <1>2, <1>3, <1>4, TableSteps DEF Claim

\* A reservation whose lease ran out is neither renewed nor completed nor failed: the
\* row changes in claim_next only, which ends that reservation.
THEOREM LapsedStaysLapsedHolds == Spec => LapsedStaysLapsed
<1> DEFINE Lapse ==
        \A j \in Jobs : lease[j] = 0 =>
            IF \E w \in Workers : Claim(w)
              THEN /\ lease'[j] = Null \/ token'[j] # token[j]
                   /\ result'[j] = result[j]
              ELSE UNCHANGED Row(j)
<1>1. IInv /\ [Next]_vars => Lapse
  <2> SUFFICES ASSUME IInv, [Next]_vars, NEW j \in Jobs, lease[j] = 0
               PROVE  IF \E w \in Workers : Claim(w)
                        THEN /\ lease'[j] = Null \/ token'[j] # token[j]
                             /\ result'[j] = result[j]
                        ELSE UNCHANGED Row(j)
    OBVIOUS
  <2>1. CASE \E w \in Workers : Claim(w)
    BY <2>1, LapsedIsRecovered
  <2>2. CASE ~ \E w \in Workers : Claim(w)
    BY <2>2, LapsedIsLeft
  <2>. QED
    BY <2>1, <2>2
<1>. QED
    BY <1>1, InvariantHolds, PTL DEF Spec, LapsedStaysLapsed

\* A worker whose renewal failed does not publish under that claim.
THEOREM FailedBeatVetoesHolds == Spec => FailedBeatVetoes
<1>1. ASSUME IInv, [Next]_vars, NEW w \in Workers, beat[w] = "failed",
             result'[claim[w].job] = claim[w]
      PROVE  result[claim[w].job] = claim[w]
  <2>1. ASSUME NEW v \in Workers, Holds(v), Complete(v)
        PROVE  result[claim[w].job] = claim[w]
    <3>1. Working(v) /\ Working(w) /\ beat[v] = "off"
      BY <1>1, <2>1 DEF IInv, Typed, ClaimShape, Working, Complete, Beating
    <3>2. claim[w] # claim[v]
      BY <1>1, <3>1 DEF IInv, Reservations, ClaimsUnique
    <3>3. claim[v].job \in Jobs /\ claim[w].job \in Jobs
      BY <1>1, <3>1 DEF IInv, Typed, ClaimShape, Claims
    <3>4. result' = [result EXCEPT ![claim[v].job] = claim[v]]
      BY <2>1 DEF Complete
    <3>. QED
      BY <1>1, <3>2, <3>3, <3>4 DEF IInv, Typed, TypeOK
  <2>2. CASE result' = result
    BY <1>1, <2>2
  <2>. QED
    BY <1>1, <2>1, <2>2, TableSteps
    DEF ReadClock, Store, ClaimNothing, ClaimJob, Begins, Goes, Renew, Fail,
        Tick, columns
<1>2. IInv /\ [Next]_vars => NoPublishAfterFailedBeat
    BY <1>1 DEF NoPublishAfterFailedBeat
<1>. QED
    BY <1>2, InvariantHolds, PTL DEF Spec, FailedBeatVetoes
=============================================================================
