-------------------------- MODULE DeploymentProofs --------------------------
(***************************************************************************)
(* The safety of a deployment, for any number of runs and versions.  The   *)
(* cloud goes on at its own pace, so the inductive invariant says of every *)
(* status of a stack what is left behind it, and of every step of a run    *)
(* what it has reached so far:                                             *)
(*                                                                         *)
(*   Typed      types, which steps belong to which kind of run, and when   *)
(*              the file with the nodes is written                         *)
(*   Deployed   the nodes and the code a stack in each status has, and     *)
(*              what a run that is past its stack relies on                *)
(*   Watched    what nobody was told to inspect is as it should be         *)
(***************************************************************************)
EXTENDS Deployment, TLAPS

StackShape ==
    \A s \in Stacks :
        /\ stacks[s].status \in Creating => stacks[s].target \in Targets
        /\ IF stacks[s].status \in {"absent", "CREATE_IN_PROGRESS",
                                    "ROLLBACK_IN_PROGRESS", "ROLLBACK_COMPLETE"}
             THEN stacks[s].template = None
             ELSE stacks[s].template \in Targets

\* The steps before the file is written, and all those only the pipeline has.
Early == {"guard", "compute", "compute poll", "record"}
OfPipeline == Early \cup {"start", "wait", "status", "smoke", "stop", "confirm"}
OfPublic == {"public", "public poll", "open", "check", "close"}

RunShape ==
    /\ pc # "idle" => number \in Runs
    /\ InPipeline => wanted \in Versions
    /\ pc \in OfPipeline => InPipeline
    /\ pc = "pause" => kind = "pause"
    /\ pc \in Early => ~recorded
    /\ InPipeline /\ pc \in OfPublic => recorded
    /\ InPipeline /\ ~recorded /\ pc \notin {"idle", "guard"} => metadata = None

\* The smoke test and what follows it meet a public stack that is complete.
PublicShape ==
    /\ \/ stacks["public"].status \in Complete \cup {"UPDATE_COMPLETE_CLEANUP_IN_PROGRESS"}
       \/ stacks["public"].status \in Creating /\ stacks["public"].made
       => function.code # None
    /\ pc \in {"open", "check", "close"} => stacks["public"].status \in Complete

Typed == TypeOK /\ StackShape /\ RunShape /\ PublicShape

-----------------------------------------------------------------------------
Alive(g) == nodes[g] \notin {"none", "terminated"}

\* Only the nodes of its template are left of a stack that rests.
NodesOfStack ==
    LET compute == stacks["compute"]
    IN \A g \in Runs : Alive(g) =>
           /\ compute.status \notin {"absent", "ROLLBACK_COMPLETE"}
           /\ compute.status = "CREATE_IN_PROGRESS" => compute.made /\ g = compute.target.by
           /\ compute.status \in Updatable => g = compute.template.by

\* A run of the pipeline is past its stack, and has not ended.
Past == pc = "record" \/ (recorded /\ InPipeline /\ pc # "idle")

\* The stack brings the version the run wants, or already has.
OnItsWay ==
    LET compute == stacks["compute"]
    IN pc = "compute poll" =>
           /\ compute.status \in Creating => compute.target.version = wanted
           /\ compute.status \in Complete \cup {"UPDATE_COMPLETE_CLEANUP_IN_PROGRESS"}
                 => compute.template.version = wanted

Reached ==
    Past => /\ stacks["compute"].status \in Complete
            /\ stacks["compute"].template.version = wanted
            /\ recorded => metadata = stacks["compute"].template.by

Deployed == NodesOfStack /\ OnItsWay /\ Reached /\ GreenMeansStopped

-----------------------------------------------------------------------------
\* Unless a person is to inspect the nodes, those that run are nodes the run at hand
\* waits for, or has recorded and will stop.
NodesWatched ==
    "nodes" \notin inspect =>
        /\ stacks["compute"].status \in InProgress => pc = "compute poll"
        /\ \A g \in Runs : nodes[g] \in Up =>
              /\ InPipeline /\ pc \notin {"idle", "guard", "compute", "confirm"}
              /\ recorded => metadata = g
              /\ pc = "stop" => recorded

\* Unless a person is to inspect the function, it is closed or checked, and nothing
\* is on its way to it but what the run at hand waits for.
FunctionWatched ==
    "function" \notin inspect /\ pc \notin OfPublic \ {"public"} =>
        /\ stacks["public"].status \notin InProgress
        /\ function.concurrency > 0 => function.code \in reports

Watched == NodesWatched /\ FunctionWatched

IInv == Typed /\ Deployed /\ Watched

-----------------------------------------------------------------------------
(* What the cloud does to a stack, and what a request does.                *)

Stack == [status : Statuses, template : Targets \cup {None},
          target : Targets \cup {None}, made : BOOLEAN]

\* Stack s, and no other, becomes something of its type.
Becomes(s, new) ==
    /\ new \in Stack /\ stacks'[s] = new
    /\ \A o \in Stacks \ {s} : stacks'[o] = stacks[o]
    /\ stacks' \in [Stacks -> Stack]

LEMMA TurnsFacts ==
    ASSUME TypeOK, NEW s \in Stacks, NEW to \in Statuses, Turns(s, to)
    PROVE  Becomes(s, [stacks[s] EXCEPT !.status = to])
<1>1. stacks \in [Stacks -> Stack]
    BY DEF TypeOK, Stack
<1>2. [stacks[s] EXCEPT !.status = to] \in Stack
    BY <1>1 DEF Stack
<1>. QED
    BY <1>1, <1>2 DEF Turns, Becomes

LEMMA ProvisionFacts ==
    ASSUME TypeOK, NEW s \in Stacks, Provision(s)
    PROVE  Becomes(s, [stacks[s] EXCEPT !.made = TRUE])
<1>1. stacks \in [Stacks -> Stack]
    BY DEF TypeOK, Stack
<1>2. [stacks[s] EXCEPT !.made = TRUE] \in Stack
    BY <1>1 DEF Stack
<1>. QED
    BY <1>1, <1>2 DEF Provision, Becomes

LEMMA SucceedFacts ==
    ASSUME TypeOK, NEW s \in Stacks, Succeed(s)
    PROVE  LET to == IF stacks[s].status = "CREATE_IN_PROGRESS" THEN "CREATE_COMPLETE"
                     ELSE "UPDATE_COMPLETE_CLEANUP_IN_PROGRESS"
           IN Becomes(s, [stacks[s] EXCEPT !.template = stacks[s].target, !.status = to])
<1> DEFINE to == IF stacks[s].status = "CREATE_IN_PROGRESS" THEN "CREATE_COMPLETE"
                 ELSE "UPDATE_COMPLETE_CLEANUP_IN_PROGRESS"
           new == [stacks[s] EXCEPT !.template = stacks[s].target, !.status = to]
<1>1. stacks \in [Stacks -> Stack]
    BY DEF TypeOK, Stack
<1>2. new \in Stack
    BY <1>1 DEF Stack, Statuses, InProgress, Updatable, Complete, Creating
<1>3. stacks' = [stacks EXCEPT ![s] = new]
    BY <1>1 DEF Succeed, Stack
<1> HIDE DEF new
<1>4. Becomes(s, new)
    BY <1>1, <1>2, <1>3 DEF Becomes
<1>. QED
    BY <1>4 DEF new

\* What a request asks for.
Wish(s, to) == [stacks[s] EXCEPT !.status = to, !.target = Target, !.made = FALSE]

LEMMA AskedFacts ==
    ASSUME TypeOK, RunShape, NEW s \in Stacks, pc = s, Asked(s)
    PROVE  /\ Target \in Targets
           /\ \/ /\ stacks[s].status = "absent"
                 /\ Becomes(s, Wish(s, "CREATE_IN_PROGRESS"))
              \/ /\ stacks[s].status \in Updatable /\ stacks[s].template.version = Target.version
                 /\ UNCHANGED stacks
              \/ /\ stacks[s].status \in Updatable
                 /\ Becomes(s, Wish(s, "UPDATE_IN_PROGRESS"))
<1>1. stacks \in [Stacks -> Stack]
    BY DEF TypeOK, Stack
<1>2. Target \in Targets
  <2>1. number \in Runs
    BY DEF RunShape, Stacks
  <2>2. pc = "compute" => wanted \in Versions
    BY DEF RunShape, OfPipeline, Early
  <2>. QED
    BY <2>1, <2>2 DEF Target, Targets
<1>3. ASSUME NEW to \in {"CREATE_IN_PROGRESS", "UPDATE_IN_PROGRESS"},
             stacks' = [stacks EXCEPT ![s].status = to, ![s].target = Target, ![s].made = FALSE]
      PROVE  Becomes(s, Wish(s, to))
  <2>1. Wish(s, to) \in Stack
    BY <1>1, <1>2 DEF Wish, Stack, Statuses, InProgress, Creating
  <2>2. stacks' = [stacks EXCEPT ![s] = Wish(s, to)]
    BY <1>1, <1>3 DEF Wish, Stack
  <2>. QED
    BY <1>1, <2>1, <2>2 DEF Becomes
<1>. QED
    BY <1>2, <1>3 DEF Asked

-----------------------------------------------------------------------------
(* Which steps touch what.                                                 *)

Requests == Request("compute", "compute poll") \/ Request("public", "public poll")
Polls == \/ pc = "compute poll" /\ Polled("compute", "record")
         \/ pc = "public poll" /\ Polled("public", "open")
Begins == \E k \in Kinds, v \in Versions, fresh \in BOOLEAN : Begin(k, v, fresh)

\* The run asks for the stack of the step it is at, and hears of it or not.
Asks(s) == pc = s /\ Asked(s) /\ UNCHANGED <<nodes, function, metadata, reports>>

LEMMA CloudIsQuiet == Cloud => UNCHANGED <<script, metadata, reports, inspect>>
    BY DEF Cloud, Provision, Succeed, CleanUp, RollBack, RolledBack, Boot, ShutDown

LEMMA StackSteps ==
    ASSUME [Next]_vars
    PROVE  \/ \E s \in Stacks : \/ Provision(s) \/ Succeed(s) \/ CleanUp(s)
                                \/ RollBack(s) \/ RolledBack(s) \/ Asks(s)
           \/ UNCHANGED stacks
<1>1. ASSUME \E g \in Runs : Boot(g) \/ ShutDown(g)
      PROVE  UNCHANGED stacks
    BY <1>1 DEF Boot, ShutDown
<1>2. ASSUME Requests
      PROVE  UNCHANGED stacks \/ \E s \in Stacks : Asks(s)
    BY <1>2 DEF Requests, Request, Asks, Stacks
<1>3. ASSUME BreakAfter
      PROVE  \E s \in Stacks : Asks(s)
    BY <1>3 DEF BreakAfter, Asks
<1>4. ASSUME \/ Guard \/ Polls \/ Record \/ Start \/ Check \/ Open \/ Pass \/ Close
             \/ Pause \/ Stop \/ Confirm
      PROVE  UNCHANGED stacks
    BY <1>4 DEF Guard, Polls, Polled, Record, Start, Check, Open, Pass, Close, Pause,
                Stop, Confirm, cloud
<1>5. ASSUME Begins \/ Break \/ Kill \/ Operate \/ UNCHANGED vars
      PROVE  UNCHANGED stacks
    BY <1>5 DEF Begins, Begin, Break, Kill, Operate, vars, cloud
<1>. QED
    BY <1>1, <1>2, <1>3, <1>4, <1>5 DEF Next, Cloud, Steps, Requests, Polls, Begins

LEMMA NodeSteps ==
    ASSUME [Next]_vars
    PROVE  \/ \E s \in Stacks : Provision(s) \/ CleanUp(s) \/ RolledBack(s)
           \/ \E g \in Runs : Boot(g) \/ ShutDown(g)
           \/ Start \/ Stop \/ Operate
           \/ UNCHANGED nodes
<1>1. ASSUME \/ \E s \in Stacks : Succeed(s) \/ RollBack(s)
             \/ Guard \/ Requests \/ Polls \/ Record \/ Check \/ Open \/ Pass \/ Close
             \/ Pause \/ Confirm
      PROVE  UNCHANGED nodes
    BY <1>1 DEF Succeed, RollBack, Guard, Requests, Request, Polls, Polled, Record, Check,
                Open, Pass, Close, Pause, Confirm, cloud
<1>2. ASSUME Begins \/ Break \/ BreakAfter \/ Kill \/ UNCHANGED vars
      PROVE  UNCHANGED nodes
    BY <1>2 DEF Begins, Begin, Break, BreakAfter, Kill, vars, cloud
<1>. QED
    BY <1>1, <1>2 DEF Next, Cloud, Steps, Requests, Polls, Begins

LEMMA FunctionSteps ==
    ASSUME [Next]_vars
    PROVE  \/ \E s \in Stacks : Provision(s) \/ RolledBack(s)
           \/ Open \/ Close \/ Pause
           \/ UNCHANGED function
<1>1. ASSUME \/ \E s \in Stacks : Succeed(s) \/ CleanUp(s) \/ RollBack(s)
             \/ \E g \in Runs : Boot(g) \/ ShutDown(g)
             \/ Guard \/ Requests \/ Polls \/ Record \/ Start \/ Check \/ Pass
             \/ Stop \/ Confirm
      PROVE  UNCHANGED function
    BY <1>1 DEF Succeed, CleanUp, RollBack, Boot, ShutDown, Guard, Requests, Request, Polls,
                Polled, Record, Start, Check, Pass, Stop, Confirm, cloud
<1>2. ASSUME Begins \/ Break \/ BreakAfter \/ Kill \/ Operate \/ UNCHANGED vars
      PROVE  UNCHANGED function
    BY <1>2 DEF Begins, Begin, Break, BreakAfter, Kill, Operate, vars, cloud
<1>. QED
    BY <1>1, <1>2 DEF Next, Cloud, Steps, Requests, Polls, Begins

-----------------------------------------------------------------------------
(* The first layer, part by part.                                          *)

StacksTyped == stacks \in [Stacks -> Stack]
NodesTyped == nodes \in [Runs -> Up \cup {"none", "stopping", "stopped", "terminated"}]
FunctionTyped == function \in [code : Runs \cup {None}, concurrency : {0, 2}]

ScriptTyped ==
    /\ kind \in Kinds \cup {None} /\ wanted \in Versions \cup {None}
    /\ pc \in OfPipeline \cup OfPublic \cup {"idle", "pause"}
    /\ failed \in BOOLEAN /\ recorded \in BOOLEAN /\ number \in 0..MaxRuns
    /\ outcome \in {"none", "green", "red", "operated"}
    /\ inspect \subseteq {"nodes", "function"}

FileTyped ==
    /\ metadata \in Runs \cup {None}
    /\ recorded => metadata # None
    /\ pc \in {"start", "wait", "status", "smoke", "confirm"} => recorded

LEMMA TypeParts ==
    TypeOK <=> /\ StacksTyped /\ NodesTyped /\ FunctionTyped /\ ScriptTyped /\ FileTyped
               /\ reports \subseteq Runs
<1>1. OfPipeline \cup OfPublic \cup {"idle", "pause"}
        = Stacks \cup {"idle", "guard", "compute poll", "record", "start", "wait",
                       "status", "smoke", "public poll", "open", "check", "close",
                       "pause", "stop", "confirm"}
    BY DEF OfPipeline, Early, OfPublic, Stacks
<1>. QED
    BY <1>1 DEF TypeOK, StacksTyped, NodesTyped, FunctionTyped, ScriptTyped, FileTyped, Stack

LEMMA TypePartsNext ==
    ASSUME StacksTyped', NodesTyped', FunctionTyped', ScriptTyped', FileTyped', reports' \subseteq Runs
    PROVE  TypeOK'
<1>1. OfPipeline \cup OfPublic \cup {"idle", "pause"}
        = Stacks \cup {"idle", "guard", "compute poll", "record", "start", "wait",
                       "status", "smoke", "public poll", "open", "check", "close",
                       "pause", "stop", "confirm"}
    BY DEF OfPipeline, Early, OfPublic, Stacks
<1>. QED
    BY <1>1 DEF TypeOK, StacksTyped, NodesTyped, FunctionTyped, ScriptTyped, FileTyped, Stack

LEMMA TypedInit == Init => Typed
<1> SUFFICES ASSUME Init
             PROVE  Typed
    OBVIOUS
<1>1. StacksTyped
    BY DEF Init, StacksTyped, Stack, Statuses
<1>2. NodesTyped /\ FunctionTyped /\ reports \subseteq Runs
    BY DEF Init, NodesTyped, FunctionTyped
<1>3. ScriptTyped /\ FileTyped
  <2>1. 0 \in 0..MaxRuns
    BY DeploymentAssumption
  <2>. QED
    BY <2>1 DEF Init, ScriptTyped, FileTyped
<1>4. StackShape /\ PublicShape
    BY DEF Init, StackShape, PublicShape, Creating, Complete, Stacks
<1>5. RunShape
    BY DeploymentAssumption
    DEF Init, RunShape, OfPipeline, Early, OfPublic, InPipeline, Kinds
<1>. QED
    BY <1>1, <1>2, <1>3, <1>4, <1>5, TypeParts DEF Typed

LEMMA StacksTypedStep ==
    ASSUME TypeOK, RunShape, [Next]_vars
    PROVE  StacksTyped'
<1>1. ASSUME NEW s \in Stacks, NEW new, Becomes(s, new)
      PROVE  StacksTyped'
    BY <1>1 DEF Becomes, StacksTyped
<1>2. ASSUME NEW s \in Stacks, Provision(s) \/ Succeed(s)
      PROVE  StacksTyped'
    BY <1>1, <1>2, ProvisionFacts, SucceedFacts
<1>3. ASSUME NEW s \in Stacks, CleanUp(s) \/ RollBack(s) \/ RolledBack(s)
      PROVE  StacksTyped'
  <2>1. \E to \in Statuses : Turns(s, to)
    BY <1>3 DEF CleanUp, RollBack, RolledBack, Statuses, InProgress, RollingBack, Updatable,
                Complete
  <2>. QED
    BY <1>1, <2>1, TurnsFacts
<1>4. ASSUME NEW s \in Stacks, Asks(s)
      PROVE  StacksTyped'
  <2>1. UNCHANGED stacks \/ \E new : Becomes(s, new)
    BY <1>4, AskedFacts DEF Asks
  <2>. QED
    BY <1>1, <2>1, TypeParts DEF StacksTyped
<1>5. ASSUME UNCHANGED stacks
      PROVE  StacksTyped'
    BY <1>5, TypeParts DEF StacksTyped
<1>. QED
    BY <1>2, <1>3, <1>4, <1>5, StackSteps

LEMMA NodesTypedStep ==
    ASSUME TypeOK, StackShape, [Next]_vars
    PROVE  NodesTyped'
<1>. USE TypeParts DEF NodesTyped, Up
<1>1. ASSUME NEW s \in Stacks, Provision(s)
      PROVE  NodesTyped'
    BY <1>1 DEF Provision
<1>2. ASSUME NEW s \in Stacks, CleanUp(s) \/ RolledBack(s)
      PROVE  NodesTyped'
    BY <1>2 DEF CleanUp, RolledBack, OnlyNodes
<1>3. ASSUME NEW g \in Runs, Boot(g) \/ ShutDown(g)
      PROVE  NodesTyped'
    BY <1>3 DEF Boot, ShutDown
<1>4. ASSUME Start \/ Stop \/ Operate
      PROVE  NodesTyped'
    BY <1>4 DEF Start, Stop, Operate, Started, Stopped
<1>5. ASSUME UNCHANGED nodes
      PROVE  NodesTyped'
    BY <1>5
<1>. QED
    BY <1>1, <1>2, <1>3, <1>4, <1>5, NodeSteps

LEMMA FunctionTypedStep ==
    ASSUME TypeOK, StackShape, [Next]_vars
    PROVE  FunctionTyped'
<1>. USE TypeParts DEF FunctionTyped
<1>1. ASSUME NEW s \in Stacks, Provision(s)
      PROVE  FunctionTyped'
  <2>1. stacks[s].target.by \in Runs
    BY <1>1 DEF Provision, StackShape, Targets
  <2>. QED
    BY <1>1, <2>1 DEF Provision
<1>2. ASSUME NEW s \in Stacks, RolledBack(s)
      PROVE  FunctionTyped'
  <2>1. stacks[s].template # None => stacks[s].template.by \in Runs
    BY DEF StackShape, Targets
  <2>. QED
    BY <1>2, <2>1 DEF RolledBack
<1>3. ASSUME Open \/ Close \/ Pause \/ UNCHANGED function
      PROVE  FunctionTyped'
    BY <1>3 DEF Open, Close, Pause, Concurrency
<1>. QED
    BY <1>1, <1>2, <1>3, FunctionSteps

\* A step of the script that fails names at most one thing to inspect.
LEMMA LeavesFacts ==
    ASSUME NEW step
    PROVE  /\ Leaves(step) \subseteq {"nodes", "function"}
           /\ Brings(step) \subseteq {"nodes", "function"}
    BY DEF Leaves, Brings

LEMMA ScriptTypedStep ==
    ASSUME TypeOK, [Next]_vars
    PROVE  ScriptTyped'
<1>. USE TypeParts, LeavesFacts DEF ScriptTyped, OfPipeline, Early, OfPublic
<1>1. ASSUME UNCHANGED <<script, inspect>>
      PROVE  ScriptTyped'
    BY <1>1 DEF script
<1>2. ASSUME NEW left \in SUBSET {"nodes", "function"}, Fails(left)
      PROVE  ScriptTyped'
    BY <1>2 DEF Fails
<1>3. ASSUME NEW step \in OfPipeline \cup OfPublic, Goes(step), inspect' \subseteq inspect
      PROVE  ScriptTyped'
    BY <1>3 DEF Goes
<1>4. ASSUME NEW how \in {"green", "red"}, Ends(how), inspect' \subseteq {"nodes", "function"}
      PROVE  ScriptTyped'
    BY <1>4 DEF Ends
<1>5. ASSUME Guard \/ Requests \/ Polls
      PROVE  ScriptTyped'
    BY <1>2, <1>3, <1>5 DEF Guard, Requests, Request, Polls, Polled
<1>6. ASSUME Record
      PROVE  ScriptTyped'
    BY <1>6 DEF Record
<1>7. ASSUME Start \/ Check \/ Open \/ Close
      PROVE  ScriptTyped'
    BY <1>2, <1>3, <1>7 DEF Start, Check, Open, Close
<1>8. ASSUME Pass \/ Pause \/ Stop \/ Confirm
      PROVE  ScriptTyped'
    BY <1>2, <1>3, <1>4, <1>8 DEF Pass, Pause, Stop, Confirm
<1>9. ASSUME Begins
      PROVE  ScriptTyped'
  <2>1. number' \in 0..MaxRuns
    BY <1>9, DeploymentAssumption DEF Begins, Begin
  <2>. QED
    BY <1>9, <2>1 DEF Begins, Begin
<1>10. ASSUME Break \/ BreakAfter
       PROVE  ScriptTyped'
    BY <1>2, <1>3, <1>10 DEF Break, BreakAfter
<1>11. ASSUME Kill
       PROVE  ScriptTyped'
    BY <1>4, <1>11 DEF Kill
<1>12. ASSUME Operate
       PROVE  ScriptTyped'
    BY <1>12 DEF Operate
<1>. QED
    BY <1>1, <1>5, <1>6, <1>7, <1>8, <1>9, <1>10, <1>11, <1>12, CloudIsQuiet
    DEF Next, Steps, Requests, Polls, Begins, vars

\* The file is written by Record, and cleaned when a run begins.
LEMMA FileSteps ==
    ASSUME [Next]_vars
    PROVE  \/ Record
           \/ Begins
           \/ UNCHANGED <<metadata, recorded>>
<1>1. ASSUME NEW left, Fails(left)
      PROVE  UNCHANGED recorded
    BY <1>1 DEF Fails
<1>2. ASSUME NEW step, Goes(step) \/ Ends(step)
      PROVE  UNCHANGED recorded
    BY <1>2 DEF Goes, Ends
<1>3. ASSUME Guard \/ Requests \/ Polls \/ Start \/ Check \/ Open \/ Close
      PROVE  UNCHANGED <<metadata, recorded>>
    BY <1>1, <1>2, <1>3 DEF Guard, Requests, Request, Polls, Polled, Start, Check, Open, Close
<1>4. ASSUME Pass \/ Pause \/ Stop \/ Confirm
      PROVE  UNCHANGED <<metadata, recorded>>
    BY <1>1, <1>2, <1>4 DEF Pass, Pause, Stop, Confirm
<1>5. ASSUME Break \/ BreakAfter \/ Kill \/ Operate \/ UNCHANGED vars
      PROVE  UNCHANGED <<metadata, recorded>>
    BY <1>1, <1>2, <1>5 DEF Break, BreakAfter, Kill, Operate, vars, script
<1>6. ASSUME Cloud
      PROVE  UNCHANGED <<metadata, recorded>>
    BY <1>6, CloudIsQuiet DEF script
<1>. QED
    BY <1>3, <1>4, <1>5, <1>6 DEF Next, Steps, Requests, Polls, Begins

LEMMA ReportsStep ==
    ASSUME TypeOK, PublicShape, [Next]_vars
    PROVE  reports' \subseteq Runs
<1>1. reports \subseteq Runs
    BY TypeParts
<1>2. ASSUME Pass
      PROVE  reports' \subseteq Runs
  <2>1. function.code \in Runs
    BY <1>2, TypeParts DEF Pass, PublicShape, FunctionTyped
  <2>. QED
    BY <1>1, <1>2, <2>1 DEF Pass
<1>3. ASSUME ~ Pass
      PROVE  UNCHANGED reports
  <2>1. ASSUME Steps
        PROVE  UNCHANGED reports
    BY <1>3, <2>1 DEF Steps, Guard, Request, Polled, Record, Start, Check, Open, Close, Pause,
                      Stop, Confirm
  <2>2. ASSUME Begins \/ Break \/ BreakAfter \/ Kill \/ Operate \/ UNCHANGED vars
        PROVE  UNCHANGED reports
    BY <2>2 DEF Begins, Begin, Break, BreakAfter, Kill, Operate, vars
  <2>. QED
    BY <2>1, <2>2, CloudIsQuiet DEF Next, Begins
<1>. QED
    BY <1>1, <1>2, <1>3

\* A failure leads to the finally clause of the pipeline, or ends the run.
LEMMA FailsShape ==
    ASSUME TypeOK, RunShape, pc # "idle", NEW left, Fails(left), UNCHANGED metadata
    PROVE  RunShape' /\ FileTyped'
<1>1. /\ UNCHANGED <<kind, wanted, recorded, number, metadata>>
      /\ \/ pc' = "idle"
         \/ pc' = "stop" /\ InPipeline /\ pc \notin {"guard", "stop", "confirm"}
    BY Zenon DEF Fails
<1>. QED
    BY <1>1, TypeParts DEF RunShape, FileTyped, InPipeline, OfPipeline, Early, OfPublic

LEMMA EndsShape ==
    ASSUME TypeOK, RunShape, NEW how, Ends(how), UNCHANGED metadata
    PROVE  RunShape' /\ FileTyped'
<1>1. UNCHANGED <<kind, wanted, recorded, number, metadata>> /\ pc' = "idle"
    BY DEF Ends
<1>. QED
    BY <1>1, TypeParts DEF RunShape, FileTyped, InPipeline, OfPipeline, Early, OfPublic

\* Each step of a run is followed by one the kind of the run has.
LEMMA GoesShape ==
    ASSUME TypeOK, RunShape, NEW step, Goes(step), UNCHANGED metadata,
           \/ pc = "guard" /\ step = "compute" /\ metadata = None
           \/ pc = "compute" /\ step = "compute poll"
           \/ pc = "compute poll" /\ step = "record"
           \/ pc \in {"start", "wait", "status", "smoke"}
              /\ step \in {"wait", "status", "smoke", "public", "stop"}
           \/ pc \in OfPublic /\ step \in OfPublic \ {"public"}
           \/ pc = "check" /\ InPipeline /\ step = "stop"
           \/ pc = "stop" /\ step = "confirm" /\ metadata # None
    PROVE  RunShape' /\ FileTyped'
<1>1. UNCHANGED <<kind, wanted, recorded, number, metadata>> /\ pc' = step
    BY DEF Goes
<1>. QED
    BY <1>1, TypeParts DEF RunShape, FileTyped, InPipeline, OfPipeline, Early, OfPublic

LEMMA RunStep ==
    ASSUME TypeOK, StackShape, RunShape, Reached, [Next]_vars
    PROVE  RunShape' /\ FileTyped'
<1>. USE FailsShape, EndsShape, GoesShape
<1>1. ASSUME Guard
      PROVE  RunShape' /\ FileTyped'
    BY <1>1 DEF Guard, Guarded
<1>2. ASSUME Requests
      PROVE  RunShape' /\ FileTyped'
    BY <1>2 DEF Requests, Request, OfPublic
<1>3. ASSUME Polls
      PROVE  RunShape' /\ FileTyped'
    BY <1>3 DEF Polls, Polled, OfPublic
<1>4. ASSUME Record
      PROVE  RunShape' /\ FileTyped'
  <2>1. stacks["compute"].template \in Targets
    BY <1>4 DEF Record, Reached, Past, StackShape, Stacks, Complete
  <2>2. metadata' \in Runs /\ metadata' # None
    BY <1>4, <2>1, DeploymentAssumption DEF Record, Targets
  <2>3. UNCHANGED <<kind, wanted, number>> /\ recorded' = TRUE /\ pc' = "start" /\ pc = "record"
    BY <1>4 DEF Record
  <2>. QED
    BY <2>2, <2>3 DEF RunShape, FileTyped, InPipeline, OfPipeline, Early, OfPublic
<1>5. ASSUME Start \/ Check
      PROVE  RunShape' /\ FileTyped'
    BY <1>5 DEF Start, Check
<1>6. ASSUME Open \/ Pass \/ Close
      PROVE  RunShape' /\ FileTyped'
    BY <1>6 DEF Open, Pass, Close, OfPublic
<1>7. ASSUME Pause \/ Stop \/ Confirm
      PROVE  RunShape' /\ FileTyped'
    BY <1>7 DEF Pause, Stop, Confirm
<1>8. ASSUME NEW k \in Kinds, NEW v \in Versions, NEW fresh \in BOOLEAN, Begin(k, v, fresh)
      PROVE  RunShape' /\ FileTyped'
  <2>1. number' \in Runs
    BY <1>8, TypeParts, DeploymentAssumption DEF Begin, ScriptTyped, Runs
  <2>2. /\ kind' = k /\ recorded' = FALSE /\ metadata' \in Runs \cup {None}
        /\ pc' = CASE k = "public" -> "public" [] k = "pause" -> "pause" [] OTHER -> "guard"
        /\ InPipeline' => wanted' = v
    BY <1>8, TypeParts DEF Begin, FileTyped, InPipeline
  <2>. QED
    BY <2>1, <2>2 DEF RunShape, FileTyped, InPipeline, OfPipeline, Early, OfPublic, Kinds
<1>9. ASSUME Break \/ BreakAfter \/ Kill
      PROVE  RunShape' /\ FileTyped'
    BY <1>9 DEF Break, BreakAfter, Kill, OfPublic, Stacks
<1>10. ASSUME UNCHANGED <<kind, wanted, pc, recorded, number, metadata>>
       PROVE  RunShape' /\ FileTyped'
    BY <1>10, TypeParts DEF RunShape, FileTyped, InPipeline
<1>11. ASSUME Cloud \/ Operate \/ UNCHANGED vars
       PROVE  UNCHANGED <<kind, wanted, pc, recorded, number, metadata>>
    BY <1>11, CloudIsQuiet DEF Operate, vars, script
<1>. QED
    BY <1>1, <1>2, <1>3, <1>4, <1>5, <1>6, <1>7, <1>8, <1>9, <1>10, <1>11
    DEF Next, Steps, Requests, Polls

-----------------------------------------------------------------------------
(* How one stack moves, field by field.                                    *)

IsNow(s, status, template, target, made) ==
    /\ stacks'[s].status = status /\ stacks'[s].template = template
    /\ stacks'[s].target = target /\ stacks'[s].made = made

TurnsTo(s, status) ==
    IsNow(s, status, stacks[s].template, stacks[s].target, stacks[s].made)

LEMMA StackMoves ==
    ASSUME TypeOK, RunShape, [Next]_vars, NEW s \in Stacks
    PROVE  \/ stacks'[s] = stacks[s]
           \/ /\ Provision(s)
              /\ IsNow(s, stacks[s].status, stacks[s].template, stacks[s].target, TRUE)
           \/ /\ Succeed(s)
              /\ \E to \in {"CREATE_COMPLETE", "UPDATE_COMPLETE_CLEANUP_IN_PROGRESS"} :
                    /\ to = "CREATE_COMPLETE" <=> stacks[s].status = "CREATE_IN_PROGRESS"
                    /\ IsNow(s, to, stacks[s].target, stacks[s].target, stacks[s].made)
           \/ CleanUp(s) /\ TurnsTo(s, "UPDATE_COMPLETE")
           \/ RollBack(s) /\ \E to \in RollingBack :
              /\ to = "ROLLBACK_IN_PROGRESS" <=> stacks[s].status = "CREATE_IN_PROGRESS"
              /\ TurnsTo(s, to)
           \/ /\ RolledBack(s)
              /\ \E to \in {"ROLLBACK_COMPLETE", "UPDATE_ROLLBACK_COMPLETE"} :
                    /\ to = "ROLLBACK_COMPLETE" <=> stacks[s].template = None
                    /\ TurnsTo(s, to)
           \/ /\ Asks(s)
              /\ \E to \in Creating :
                    /\ IF to = "CREATE_IN_PROGRESS" THEN stacks[s].status = "absent"
                                                    ELSE stacks[s].status \in Updatable
                    /\ IsNow(s, to, stacks[s].template, Target, FALSE)
<1>. DEFINE Goal ==
        \/ stacks'[s] = stacks[s]
        \/ /\ Provision(s)
           /\ IsNow(s, stacks[s].status, stacks[s].template, stacks[s].target, TRUE)
        \/ /\ Succeed(s)
           /\ \E to \in {"CREATE_COMPLETE", "UPDATE_COMPLETE_CLEANUP_IN_PROGRESS"} :
                 /\ to = "CREATE_COMPLETE" <=> stacks[s].status = "CREATE_IN_PROGRESS"
                 /\ IsNow(s, to, stacks[s].target, stacks[s].target, stacks[s].made)
        \/ CleanUp(s) /\ TurnsTo(s, "UPDATE_COMPLETE")
        \/ RollBack(s) /\ \E to \in RollingBack :
              /\ to = "ROLLBACK_IN_PROGRESS" <=> stacks[s].status = "CREATE_IN_PROGRESS"
              /\ TurnsTo(s, to)
        \/ /\ RolledBack(s)
           /\ \E to \in {"ROLLBACK_COMPLETE", "UPDATE_ROLLBACK_COMPLETE"} :
                 /\ to = "ROLLBACK_COMPLETE" <=> stacks[s].template = None
                 /\ TurnsTo(s, to)
        \/ /\ Asks(s)
           /\ \E to \in Creating :
                 /\ IF to = "CREATE_IN_PROGRESS" THEN stacks[s].status = "absent"
                                                 ELSE stacks[s].status \in Updatable
                 /\ IsNow(s, to, stacks[s].template, Target, FALSE)
<1>1. stacks[s] \in Stack
    BY TypeParts DEF StacksTyped
<1>2. ASSUME NEW o \in Stacks \ {s}, NEW new, Becomes(o, new)
      PROVE  stacks'[s] = stacks[s]
    BY <1>2 DEF Becomes
<1>3. ASSUME NEW o \in Stacks \ {s}, \/ Provision(o) \/ Succeed(o) \/ CleanUp(o)
                                     \/ RollBack(o) \/ RolledBack(o) \/ Asks(o)
      PROVE  stacks'[s] = stacks[s]
  <2>1. CASE CleanUp(o) \/ RollBack(o) \/ RolledBack(o)
    <3>1. \E to \in Statuses : Turns(o, to)
      BY <2>1 DEF CleanUp, RollBack, RolledBack, Statuses, InProgress, RollingBack, Updatable,
                  Complete
    <3>. QED
      BY <1>2, <3>1, TurnsFacts
  <2>2. CASE Asks(o)
    <3>1. UNCHANGED stacks \/ \E new : Becomes(o, new)
      BY <2>2, AskedFacts DEF Asks
    <3>. QED
      BY <1>2, <3>1
  <2>. QED
    BY <1>2, <1>3, <2>1, <2>2, ProvisionFacts, SucceedFacts
<1>4. ASSUME NEW to \in Statuses, Turns(s, to)
      PROVE  TurnsTo(s, to)
  <2>1. stacks'[s] = [stacks[s] EXCEPT !.status = to]
    BY <1>4, TurnsFacts DEF Becomes
  <2>. QED
    BY <1>1, <2>1 DEF TurnsTo, IsNow, Stack
<1>5. CASE Provision(s)
    BY <1>1, <1>5, ProvisionFacts DEF Becomes, IsNow, Stack
<1>6. CASE Succeed(s)
  <2> DEFINE to == IF stacks[s].status = "CREATE_IN_PROGRESS" THEN "CREATE_COMPLETE"
                   ELSE "UPDATE_COMPLETE_CLEANUP_IN_PROGRESS"
  <2>1. IsNow(s, to, stacks[s].target, stacks[s].target, stacks[s].made)
    BY <1>1, <1>6, SucceedFacts DEF Becomes, IsNow, Stack
  <2>2. /\ to \in {"CREATE_COMPLETE", "UPDATE_COMPLETE_CLEANUP_IN_PROGRESS"}
        /\ to = "CREATE_COMPLETE" <=> stacks[s].status = "CREATE_IN_PROGRESS"
    OBVIOUS
  <2> HIDE DEF to
  <2>. QED
    BY <1>6, <2>1, <2>2
<1>7. CASE CleanUp(s)
    BY <1>4, <1>7 DEF CleanUp, Statuses, Updatable, Complete
<1>8. CASE RollBack(s)
    BY <1>4, <1>8 DEF RollBack, Statuses, InProgress, RollingBack
<1>9. CASE RolledBack(s)
    BY <1>4, <1>9 DEF RolledBack, Statuses, Updatable
<1>10. CASE Asks(s)
  <2>1. \A to \in Creating : Becomes(s, Wish(s, to)) =>
            IsNow(s, to, stacks[s].template, Target, FALSE)
    BY <1>1 DEF Wish, Becomes, IsNow, Stack
  <2>2. \/ /\ stacks[s].status = "absent"
           /\ Becomes(s, Wish(s, "CREATE_IN_PROGRESS"))
        \/ UNCHANGED stacks
        \/ /\ stacks[s].status \in Updatable
           /\ Becomes(s, Wish(s, "UPDATE_IN_PROGRESS"))
    BY <1>10, AskedFacts DEF Asks
  <2>. QED
    BY <1>10, <2>1, <2>2 DEF Creating
<1>. QED
    BY <1>3, <1>5, <1>6, <1>7, <1>8, <1>9, <1>10, StackSteps

\* A stack that rests is left alone until a run asks for it.
LEMMA RestsUntilAsked ==
    ASSUME TypeOK, RunShape, [Next]_vars, NEW s \in Stacks,
           stacks[s].status \notin InProgress, pc # s
    PROVE  stacks'[s] = stacks[s]
    BY StackMoves DEF Provision, Succeed, CleanUp, RollBack, RolledBack, Asks, InProgress,
                      Creating, RollingBack

\* Where a run goes from each of its steps.
LEMMA PcMoves ==
    ASSUME TypeOK, RunShape, [Next]_vars
    PROVE  \/ pc' = pc
           \/ pc # "idle" /\ pc' = "idle"
           \/ pc \notin {"idle", "guard", "confirm"} /\ InPipeline /\ pc' = "stop"
           \/ Begins /\ pc' \in {"guard", "public", "pause"}
           \/ pc = "guard" /\ pc' = "compute"
           \/ pc \in Stacks /\ Asks(pc)
              /\ pc' = IF pc = "compute" THEN "compute poll" ELSE "public poll"
           \/ pc = "compute poll" /\ stacks["compute"].status \in Complete /\ pc' = "record"
           \/ pc = "public poll" /\ stacks["public"].status \in Complete /\ pc' = "open"
           \/ pc \in {"record", "start", "wait", "status", "smoke"}
              /\ pc' \in {"start", "wait", "status", "smoke", "public"}
           \/ pc = "open" /\ pc' = "check"
           \/ pc = "check" /\ pc' = "close"
           \/ Stop /\ metadata # None /\ pc' = "confirm"
<1>1. ASSUME NEW left, Fails(left)
      PROVE  \/ pc' = "idle"
             \/ pc' = "stop" /\ InPipeline /\ pc \notin {"guard", "stop", "confirm"}
    BY Zenon, <1>1 DEF Fails
<1>2. ASSUME Guard
      PROVE  pc = "guard" /\ pc' \in {"idle", "compute"}
    BY <1>1, <1>2 DEF Guard, Goes
<1>3. ASSUME Requests
      PROVE  /\ pc \in Stacks
             /\ \/ pc' = "idle" \/ (pc' = "stop" /\ InPipeline)
                \/ Asks(pc) /\ pc' = IF pc = "compute" THEN "compute poll" ELSE "public poll"
  <2> DEFINE poll(s) == IF s = "compute" THEN "compute poll" ELSE "public poll"
  <2>1. PICK s \in Stacks : Request(s, poll(s))
    BY <1>3 DEF Requests, Stacks
  <2>2. pc = s /\ (Fails({}) \/ (Asks(s) /\ pc' = poll(s)))
    BY <2>1 DEF Request, Asks, Goes
  <2>. QED
    BY <1>1, <2>2
<1>4. ASSUME Polls
      PROVE  \/ pc \in {"compute poll", "public poll"} /\ pc' \in {"idle"}
             \/ pc \in {"compute poll", "public poll"} /\ pc' = "stop" /\ InPipeline
             \/ pc = "compute poll" /\ stacks["compute"].status \in Complete /\ pc' = "record"
             \/ pc = "public poll" /\ stacks["public"].status \in Complete /\ pc' = "open"
    BY <1>1, <1>4 DEF Polls, Polled, Goes
<1>5. ASSUME Record \/ Start \/ Check
      PROVE  /\ pc \in {"record", "start", "wait", "status", "smoke"}
             /\ \/ pc' = "idle" \/ (pc' = "stop" /\ InPipeline)
                \/ pc' \in {"start", "wait", "status", "smoke", "public"}
    BY <1>1, <1>5 DEF Record, Start, Check, Goes, RunShape, OfPipeline
<1>6. ASSUME Open \/ Pass \/ Close
      PROVE  \/ pc = "open" /\ pc' = "check"
             \/ pc \in {"check", "close"} /\ (pc' = "idle" \/ (pc' = "stop" /\ InPipeline))
  <2>1. CASE Open
    BY <2>1 DEF Open, Goes
  <2>2. CASE Pass
    <3>1. pc = "check" /\ ((InPipeline /\ Goes("stop")) \/ Ends("green"))
      BY <2>2 DEF Pass
    <3>. QED
      BY <3>1 DEF Goes, Ends
  <2>3. CASE Close
    BY <1>1, <2>3 DEF Close
  <2>. QED
    BY <1>6, <2>1, <2>2, <2>3
<1>7. ASSUME Pause
      PROVE  pc = "pause" /\ (pc' = "idle" \/ (pc' = "stop" /\ InPipeline))
  <2>1. pc = "pause" /\ (Fails({}) \/ Ends("green"))
    BY <1>7 DEF Pause
  <2>. QED
    BY <1>1, <2>1 DEF Ends
<1>8. ASSUME Stop \/ Confirm
      PROVE  /\ pc \in {"stop", "confirm"}
             /\ pc' = "idle" \/ (Stop /\ metadata # None /\ pc' = "confirm")
  <2>1. CASE Confirm
    BY <2>1 DEF Confirm, Ends
  <2>2. CASE Stop
    <3>1. pc = "stop" /\ (Ends("red") \/ (metadata # None /\ Goes("confirm")))
      BY <2>2 DEF Stop
    <3>. QED
      BY <2>2, <3>1 DEF Ends, Goes
  <2>. QED
    BY <1>8, <2>1, <2>2
<1>9. ASSUME Begins
      PROVE  pc' \in {"guard", "public", "pause"}
    BY <1>9 DEF Begins, Begin
<1>10. ASSUME Break \/ BreakAfter \/ Kill
       PROVE  /\ pc # "idle"
              /\ \/ pc' = "idle"
                 \/ pc' = "stop" /\ InPipeline /\ pc \notin {"guard", "stop", "confirm"}
                 \/ pc = "check" /\ pc' = "close"
    BY <1>1, <1>10 DEF Break, BreakAfter, Kill, Ends, Goes, Stacks
<1>11. ASSUME Cloud \/ Operate \/ UNCHANGED vars
       PROVE  pc' = pc
    BY <1>11, CloudIsQuiet DEF Operate, vars, script
<1>. QED
    BY <1>2, <1>3, <1>4, <1>5, <1>6, <1>7, <1>8, <1>9, <1>10, <1>11
    DEF Next, Steps, Requests, Polls, Begins, Stacks

LEMMA StackShapeStep ==
    ASSUME TypeOK, StackShape, RunShape, [Next]_vars
    PROVE  StackShape'
<1> SUFFICES ASSUME NEW s \in Stacks
             PROVE  /\ stacks'[s].status \in Creating => stacks'[s].target \in Targets
                    /\ IF stacks'[s].status \in {"absent", "CREATE_IN_PROGRESS",
                                                 "ROLLBACK_IN_PROGRESS", "ROLLBACK_COMPLETE"}
                         THEN stacks'[s].template = None
                         ELSE stacks'[s].template \in Targets
    BY DEF StackShape
<1>1. ASSUME Asks(s)
      PROVE  Target \in Targets
    BY <1>1, AskedFacts DEF Asks
<1>. USE DeploymentAssumption DEF StackShape, IsNow, TurnsTo, Creating
<1>2. CASE stacks'[s] = stacks[s]
    BY <1>2
<1>3. CASE /\ Provision(s)
           /\ IsNow(s, stacks[s].status, stacks[s].template, stacks[s].target, TRUE)
    BY <1>3
<1>4. CASE /\ Succeed(s)
           /\ \E to \in {"CREATE_COMPLETE", "UPDATE_COMPLETE_CLEANUP_IN_PROGRESS"} :
                 /\ to = "CREATE_COMPLETE" <=> stacks[s].status = "CREATE_IN_PROGRESS"
                 /\ IsNow(s, to, stacks[s].target, stacks[s].target, stacks[s].made)
    BY <1>4 DEF Succeed
<1>5. CASE CleanUp(s) /\ TurnsTo(s, "UPDATE_COMPLETE")
    BY <1>5 DEF CleanUp
<1>6. CASE /\ RollBack(s)
           /\ \E to \in RollingBack :
                 /\ to = "ROLLBACK_IN_PROGRESS" <=> stacks[s].status = "CREATE_IN_PROGRESS"
                 /\ TurnsTo(s, to)
    BY <1>6 DEF RollBack, RollingBack
<1>7. CASE /\ RolledBack(s)
           /\ \E to \in {"ROLLBACK_COMPLETE", "UPDATE_ROLLBACK_COMPLETE"} :
                 /\ to = "ROLLBACK_COMPLETE" <=> stacks[s].template = None
                 /\ TurnsTo(s, to)
    BY <1>7 DEF RolledBack, RollingBack
<1>8. CASE /\ Asks(s)
           /\ \E to \in Creating :
                 /\ IF to = "CREATE_IN_PROGRESS" THEN stacks[s].status = "absent"
                                                 ELSE stacks[s].status \in Updatable
                 /\ IsNow(s, to, stacks[s].template, Target, FALSE)
    BY <1>1, <1>8 DEF Updatable, Complete
<1>. HIDE DEF StackShape, IsNow, TurnsTo, Creating
<1>. QED
    BY <1>2, <1>3, <1>4, <1>5, <1>6, <1>7, <1>8, StackMoves

LEMMA PublicShapeStep ==
    ASSUME Typed, [Next]_vars
    PROVE  PublicShape'
<1> DEFINE Serves(st) == \/ st.status \in Complete \cup {"UPDATE_COMPLETE_CLEANUP_IN_PROGRESS"}
                         \/ st.status \in Creating /\ st.made
<1>1. "public" \in Stacks
    BY DEF Stacks
<1>2. ASSUME Serves(stacks["public"])'
      PROVE  function'.code # None
  <2>1. Serves(stacks["public"]) \/ Provision("public")
    BY <1>1, <1>2, StackMoves
    DEF Typed, IsNow, TurnsTo, Succeed, CleanUp, RollingBack, Creating, Complete
  <2>2. CASE Provision("public")
    <3>1. stacks["public"].target.by \in Runs
      BY <1>1, <2>2 DEF Typed, StackShape, Provision, Targets
    <3>. QED
      BY <2>2, <3>1, DeploymentAssumption DEF Provision
  <2>3. CASE Serves(stacks["public"]) /\ ~ Provision("public")
    <3>1. function.code # None
      BY <2>3 DEF Typed, PublicShape
    <3>2. ASSUME RolledBack("public")
          PROVE  FALSE
      BY <2>3, <3>2 DEF RolledBack, RollingBack, Complete, Creating
    <3>3. ASSUME Provision("compute") \/ RolledBack("compute") \/ Open \/ Close \/ Pause
          PROVE  function'.code = function.code
      BY <3>3, TypeParts
      DEF Typed, FunctionTyped, Provision, RolledBack, Open, Close, Pause, Concurrency
    <3>. QED
      BY <2>3, <3>1, <3>2, <3>3, FunctionSteps DEF Stacks
  <2>. QED
    BY <2>1, <2>2, <2>3
<1>3. ASSUME pc' \in {"open", "check", "close"}
      PROVE  stacks'["public"].status \in Complete
  <2>1. stacks["public"].status \in Complete /\ pc # "public"
    BY <1>3, PcMoves DEF Typed, PublicShape
  <2>. QED
    BY <1>1, <2>1, RestsUntilAsked
    DEF Typed, Complete, InProgress, Creating, RollingBack
<1>. QED
    BY <1>2, <1>3 DEF PublicShape

LEMMA TypedStep == Typed /\ Reached /\ [Next]_vars => Typed'
<1> SUFFICES ASSUME Typed, Reached, [Next]_vars
             PROVE  Typed'
    OBVIOUS
<1>1. TypeOK'
    BY StacksTypedStep, NodesTypedStep, FunctionTypedStep, ScriptTypedStep, RunStep,
       ReportsStep, TypePartsNext DEF Typed
<1>. QED
    BY <1>1, StackShapeStep, RunStep, PublicShapeStep DEF Typed

-----------------------------------------------------------------------------
(* The second layer.                                                       *)

LEMMA DeployedInit == Init => Deployed
    BY DEF Init, Deployed, NodesOfStack, OnItsWay, Reached, Past, GreenMeansStopped, Ended,
           Alive, Updatable, Complete, Stacks

\* Nodes come to be by Provision only.
LEMMA NodesAlive ==
    ASSUME TypeOK, [Next]_vars, NEW g \in Runs, Alive(g)'
    PROVE  Alive(g) \/ (Provision("compute") /\ g = stacks["compute"].target.by)
<1>. USE TypeParts DEF NodesTyped, Alive, Up
<1>1. ASSUME NEW s \in Stacks, Provision(s)
      PROVE  Alive(g) \/ (Provision("compute") /\ g = stacks["compute"].target.by)
    BY <1>1 DEF Provision
<1>2. ASSUME NEW s \in Stacks, CleanUp(s) \/ RolledBack(s)
      PROVE  Alive(g)
    BY <1>2 DEF CleanUp, RolledBack, OnlyNodes
<1>3. ASSUME NEW h \in Runs, Boot(h) \/ ShutDown(h)
      PROVE  Alive(g)
    BY <1>3 DEF Boot, ShutDown
<1>4. ASSUME Start \/ Stop \/ Operate
      PROVE  Alive(g)
    BY <1>4 DEF Start, Stop, Operate, Started, Stopped
<1>. QED
    BY <1>1, <1>2, <1>3, <1>4, NodeSteps

\* When the nodes of the version before are terminated, and when an update is taken
\* back, the nodes of the template are all that is left.
LEMMA NodesLeft ==
    ASSUME TypeOK, StackShape, NEW g \in Runs, Alive(g)',
           CleanUp("compute") \/ RolledBack("compute")
    PROVE  stacks["compute"].template # None /\ g = stacks["compute"].template.by
<1>1. ASSUME NEW keep, nodes' = OnlyNodes(keep)
      PROVE  g \in keep
    BY <1>1, TypeParts DEF NodesTyped, OnlyNodes, Alive
<1>2. CASE RolledBack("compute")
    BY <1>1, <1>2 DEF RolledBack
<1>3. CASE CleanUp("compute")
  <2>1. stacks["compute"].template # None
    BY <1>3, DeploymentAssumption DEF CleanUp, StackShape, Stacks
  <2>. QED
    BY <1>1, <1>3, <2>1 DEF CleanUp
<1>. QED
    BY <1>2, <1>3

LEMMA NodesOfStackStep ==
    ASSUME Typed, NodesOfStack, [Next]_vars
    PROVE  NodesOfStack'
<1> DEFINE c == "compute"
<1> SUFFICES ASSUME NEW g \in Runs, Alive(g)'
             PROVE  /\ stacks'[c].status \notin {"absent", "ROLLBACK_COMPLETE"}
                    /\ stacks'[c].status = "CREATE_IN_PROGRESS"
                          => stacks'[c].made /\ g = stacks'[c].target.by
                    /\ stacks'[c].status \in Updatable => g = stacks'[c].template.by
    BY DEF NodesOfStack
<1>0. c \in Stacks /\ TypeOK /\ RunShape
    BY DEF Typed, Stacks
<1>1. Alive(g) \/ (Provision(c) /\ g = stacks[c].target.by)
    BY <1>0, NodesAlive
<1>2. Alive(g) =>
         /\ stacks[c].status \notin {"absent", "ROLLBACK_COMPLETE"}
         /\ stacks[c].status = "CREATE_IN_PROGRESS"
               => stacks[c].made /\ g = stacks[c].target.by
         /\ stacks[c].status \in Updatable => g = stacks[c].template.by
    BY DEF NodesOfStack
<1>. USE DEF IsNow, TurnsTo, Updatable, Complete, Creating, RollingBack
<1>3. CASE Provision(c)
  <2>1. stacks[c].status \in Creating /\ ~ stacks[c].made
    BY <1>3 DEF Provision
  <2>2. IsNow(c, stacks[c].status, stacks[c].template, stacks[c].target, TRUE)
    <3>1. stacks[c] \in Stack /\ stacks'[c] = [stacks[c] EXCEPT !.made = TRUE]
      BY <1>0, <1>3, ProvisionFacts, TypeParts DEF Becomes, StacksTyped
    <3>. QED
      BY <3>1 DEF Stack
  <2>. QED
    BY <1>1, <1>2, <2>1, <2>2
<1>4. CASE ~ Provision(c) /\ stacks'[c] = stacks[c]
    BY <1>1, <1>2, <1>4
<1>5. CASE /\ Succeed(c)
           /\ \E to \in {"CREATE_COMPLETE", "UPDATE_COMPLETE_CLEANUP_IN_PROGRESS"} :
                 /\ to = "CREATE_COMPLETE" <=> stacks[c].status = "CREATE_IN_PROGRESS"
                 /\ IsNow(c, to, stacks[c].target, stacks[c].target, stacks[c].made)
    BY <1>1, <1>2, <1>5 DEF Succeed, Provision
<1>6. CASE CleanUp(c) /\ TurnsTo(c, "UPDATE_COMPLETE")
    BY <1>0, <1>6, NodesLeft DEF Typed
<1>7. CASE RollBack(c) /\ \E to \in RollingBack : TurnsTo(c, to)
    BY <1>7
<1>8. CASE /\ RolledBack(c)
           /\ \E to \in {"ROLLBACK_COMPLETE", "UPDATE_ROLLBACK_COMPLETE"} :
                 /\ to = "ROLLBACK_COMPLETE" <=> stacks[c].template = None
                 /\ TurnsTo(c, to)
    BY <1>0, <1>8, NodesLeft DEF Typed
<1>9. CASE /\ Asks(c)
           /\ \E to \in Creating :
                 /\ IF to = "CREATE_IN_PROGRESS" THEN stacks[c].status = "absent"
                                                 ELSE stacks[c].status \in Updatable
                 /\ IsNow(c, to, stacks[c].template, Target, FALSE)
  <2>1. Alive(g)
    BY <1>1, <1>9 DEF Asks, Provision, Asked, Updatable, Complete
  <2>. QED
    BY <1>2, <1>9, <2>1
<1>. QED
    BY <1>0, <1>3, <1>4, <1>5, <1>6, <1>7, <1>8, <1>9, StackMoves

\* What a run is and wants is settled when it begins.
LEMMA KindSteps ==
    ASSUME [Next]_vars
    PROVE  Begins \/ UNCHANGED <<kind, wanted>>
<1>1. ASSUME NEW left, Fails(left)
      PROVE  UNCHANGED <<kind, wanted>>
    BY <1>1 DEF Fails
<1>2. ASSUME NEW step, Goes(step) \/ Ends(step)
      PROVE  UNCHANGED <<kind, wanted>>
    BY <1>2 DEF Goes, Ends
<1>3. ASSUME Guard \/ Requests \/ Polls \/ Record \/ Start \/ Check \/ Open \/ Close
      PROVE  UNCHANGED <<kind, wanted>>
    BY <1>1, <1>2, <1>3
    DEF Guard, Requests, Request, Polls, Polled, Record, Start, Check, Open, Close
<1>4. ASSUME Pass \/ Pause \/ Stop \/ Confirm
      PROVE  UNCHANGED <<kind, wanted>>
    BY <1>1, <1>2, <1>4 DEF Pass, Pause, Stop, Confirm
<1>5. ASSUME Break \/ BreakAfter \/ Kill \/ Operate \/ UNCHANGED vars
      PROVE  UNCHANGED <<kind, wanted>>
    BY <1>1, <1>2, <1>5 DEF Break, BreakAfter, Kill, Operate, vars, script
<1>6. ASSUME Cloud
      PROVE  UNCHANGED <<kind, wanted>>
    BY <1>6, CloudIsQuiet DEF script
<1>. QED
    BY <1>3, <1>4, <1>5, <1>6 DEF Next, Steps, Requests, Polls, Begins

LEMMA OnItsWayStep ==
    ASSUME Typed, OnItsWay, [Next]_vars
    PROVE  OnItsWay'
<1> DEFINE c == "compute"
<1> SUFFICES ASSUME pc' = "compute poll"
             PROVE  /\ stacks'[c].status \in Creating => stacks'[c].target.version = wanted'
                    /\ stacks'[c].status \in Complete \cup {"UPDATE_COMPLETE_CLEANUP_IN_PROGRESS"}
                          => stacks'[c].template.version = wanted'
    BY DEF OnItsWay
<1>0. c \in Stacks /\ TypeOK /\ RunShape
    BY DEF Typed, Stacks
<1>1. wanted' = wanted /\ (pc = "compute poll" \/ (pc = c /\ Asks(c)))
    BY <1>0, PcMoves, KindSteps DEF Stacks, Begins, Begin
<1>. USE DEF IsNow, TurnsTo, Updatable, Complete, Creating, RollingBack
<1>2. CASE pc = "compute poll"
  <2>1. /\ stacks[c].status \in Creating => stacks[c].target.version = wanted
        /\ stacks[c].status \in Complete \cup {"UPDATE_COMPLETE_CLEANUP_IN_PROGRESS"}
              => stacks[c].template.version = wanted
    BY <1>2 DEF OnItsWay
  <2>2. ~ Asks(c)
    BY <1>2 DEF Asks
  <2>. QED
    BY <1>0, <1>1, <2>1, <2>2, StackMoves DEF Provision, Succeed, CleanUp
<1>3. CASE pc = c /\ Asks(c)
  <2>1. Target.version = wanted
    BY <1>3 DEF Target
  <2>2. stacks[c] \in Stack
    BY <1>0, TypeParts DEF StacksTyped
  <2>3. \A to \in Creating : Becomes(c, Wish(c, to)) => IsNow(c, to, stacks[c].template, Target, FALSE)
    BY <2>2 DEF Wish, Becomes, Stack
  <2>4. \/ \E to \in Creating : IsNow(c, to, stacks[c].template, Target, FALSE)
        \/ stacks' = stacks /\ stacks[c].status \in Updatable
           /\ stacks[c].template.version = Target.version
    BY <1>0, <1>3, <2>3, AskedFacts DEF Asks
  <2>. QED
    BY <1>1, <2>1, <2>4
<1>. QED
    BY <1>1, <1>2, <1>3

\* A run that is past its stack finds it as it was, until the run ends.
LEMMA PastKept ==
    ASSUME Typed, Past, Reached, [Next]_vars
    PROVE  stacks'["compute"] = stacks["compute"]
<1>1. stacks["compute"].status \in Complete /\ pc # "compute"
    BY DEF Past, Reached, Typed, RunShape, Early
<1>. QED
    BY <1>1, RestsUntilAsked
    DEF Typed, Stacks, Complete, InProgress, Creating, RollingBack

LEMMA ReachedStep ==
    ASSUME Typed, OnItsWay, Reached, [Next]_vars
    PROVE  Reached'
<1>0. TypeOK /\ RunShape /\ RunShape' /\ "compute" \in Stacks
    BY RunStep DEF Typed, Stacks
<1> SUFFICES ASSUME Past'
             PROVE  /\ stacks'["compute"].status \in Complete
                    /\ stacks'["compute"].template.version = wanted'
                    /\ recorded' => metadata' = stacks'["compute"].template.by
    BY DEF Reached
<1>1. ~ Begins
    BY DEF Begins, Begin, Past, Kinds
<1>2. UNCHANGED <<kind, wanted>> /\ (Record \/ UNCHANGED <<metadata, recorded>>)
    BY <1>1, KindSteps, FileSteps
<1>3. CASE Past
  <2>1. stacks'["compute"] = stacks["compute"]
    BY <1>3, PastKept
  <2>2. recorded' => metadata' = stacks["compute"].template.by
    BY <1>2, <1>3 DEF Reached, Record
  <2>. QED
    BY <1>2, <1>3, <2>1, <2>2 DEF Reached
<1>4. CASE ~ Past
  <2>1. pc = "compute poll" /\ stacks["compute"].status \in Complete /\ pc' = "record"
    <3>1. pc' = "record" \/ (recorded /\ InPipeline /\ pc' # "idle")
      BY <1>2, <1>4 DEF Past, InPipeline, Record
    <3>2. CASE pc' = "record"
      BY <1>0, <1>1, <1>4, <3>2, PcMoves DEF Past
    <3>3. CASE recorded /\ InPipeline /\ pc' # "idle"
      BY <1>0, <1>1, <1>4, <3>3, PcMoves DEF Past, Stop, Stacks
    <3>. QED
      BY <3>1, <3>2, <3>3
  <2>2. stacks'["compute"] = stacks["compute"]
    BY <1>0, <2>1, RestsUntilAsked DEF Complete, InProgress, Creating, RollingBack
  <2>3. ~ recorded'
    BY <1>0, <2>1 DEF RunShape, Early
  <2>. QED
    BY <1>2, <2>1, <2>2, <2>3 DEF OnItsWay
<1>. QED
    BY <1>3, <1>4

\* A run that ends green ends in Confirm, or is none of the pipeline; after it the
\* cloud alone goes on.
LEMMA GreenSteps ==
    ASSUME RunShape, [Next]_vars, Ended("green")', InPipeline'
    PROVE  \/ Confirm
           \/ Ended("green") /\ UNCHANGED <<kind, wanted>> /\ (Cloud \/ UNCHANGED vars)
<1>1. ASSUME NEW left, Fails(left)
      PROVE  FALSE
    BY <1>1, Zenon DEF Fails, Ended
<1>2. ASSUME NEW step, step # "idle", Goes(step)
      PROVE  FALSE
    BY <1>2 DEF Goes, Ended
<1>3. ASSUME Ends("red")
      PROVE  FALSE
    BY <1>3 DEF Ends, Ended
<1>4. ASSUME Guard \/ Requests \/ Polls \/ Record \/ Start \/ Check \/ Open \/ Close
      PROVE  FALSE
    BY <1>1, <1>2, <1>4
    DEF Guard, Requests, Request, Polls, Polled, Record, Start, Check, Open, Close, Ended
<1>5. ASSUME Pass \/ Pause
      PROVE  FALSE
  <2>1. kind' = kind
    BY <1>1, <1>2, <1>5 DEF Pass, Pause, Ends
  <2>2. InPipeline
    BY <2>1 DEF InPipeline
  <2>3. ~ Pause
    BY <2>2 DEF Pause, RunShape, InPipeline
  <2>. QED
    BY <1>2, <1>5, <2>2, <2>3 DEF Pass
<1>6. ASSUME Stop
      PROVE  FALSE
    BY <1>2, <1>3, <1>6 DEF Stop
<1>7. ASSUME Break \/ BreakAfter \/ Kill
      PROVE  FALSE
    BY <1>1, <1>2, <1>3, <1>7 DEF Break, BreakAfter, Kill
<1>8. ASSUME Begins \/ Operate
      PROVE  FALSE
    BY <1>8 DEF Begins, Begin, Operate, Ended
<1>9. ASSUME Cloud \/ UNCHANGED vars
      PROVE  Ended("green") /\ UNCHANGED <<kind, wanted>>
    BY <1>9, CloudIsQuiet DEF Ended, vars, script
<1>. QED
    BY <1>4, <1>5, <1>6, <1>7, <1>8, <1>9 DEF Next, Steps, Requests, Polls, Begins

LEMMA GreenStep ==
    ASSUME Typed, Deployed, [Next]_vars
    PROVE  GreenMeansStopped'
<1> SUFFICES ASSUME Ended("green")', InPipeline'
             PROVE  /\ \A g \in Runs : nodes'[g] \in {"none", "stopped", "terminated"}
                    /\ stacks'["compute"].status \in Complete
                    /\ stacks'["compute"].template.version = wanted'
    BY DEF GreenMeansStopped
<1>0. TypeOK /\ RunShape /\ "compute" \in Stacks
    BY DEF Typed, Stacks
<1>1. CASE Confirm
  <2>1. Past /\ recorded
    BY <1>0, <1>1, TypeParts DEF Confirm, Past, FileTyped, RunShape, OfPipeline
  <2>2. /\ stacks["compute"].status \in Complete
        /\ stacks["compute"].template.version = wanted
        /\ metadata = stacks["compute"].template.by
    BY <2>1 DEF Deployed, Reached
  <2>3. \A g \in Runs : Alive(g) => nodes[g] = "stopped"
    BY <1>1, <2>2 DEF Deployed, NodesOfStack, Confirm, Updatable
  <2>. QED
    BY <1>1, <2>2, <2>3 DEF Confirm, Ends, Alive, cloud
<1>2. CASE Ended("green") /\ UNCHANGED <<kind, wanted>> /\ (Cloud \/ UNCHANGED vars)
  <2>1. /\ \A g \in Runs : nodes[g] \in {"none", "stopped", "terminated"}
        /\ stacks["compute"].status \in Complete
        /\ stacks["compute"].template.version = wanted
        /\ pc = "idle"
    BY <1>2 DEF Deployed, GreenMeansStopped, Ended, InPipeline
  <2>2. stacks'["compute"] = stacks["compute"]
    BY <1>0, <2>1, RestsUntilAsked DEF Complete, InProgress, Creating, RollingBack
  <2>3. nodes' = nodes
    BY <1>2, <2>1
    DEF Cloud, Provision, Succeed, CleanUp, RollBack, RolledBack, Boot, ShutDown, Stacks,
        Complete, Creating, RollingBack, vars, cloud
  <2>. QED
    BY <1>2, <2>1, <2>2, <2>3
<1>. QED
    BY <1>0, <1>1, <1>2, GreenSteps

LEMMA DeployedStep == Typed /\ Deployed /\ [Next]_vars => Deployed'
    BY NodesOfStackStep, OnItsWayStep, ReachedStep, GreenStep DEF Deployed

-----------------------------------------------------------------------------
(* The third layer: who is told to inspect what.                           *)

LEMMA WatchedInit == Init => Watched
    BY DEF Init, Watched, NodesWatched, FunctionWatched, Stacks, InProgress, Creating,
           RollingBack, Up

\* Only a confirmed stop, a passed smoke test and a pause take a task from the person.
LEMMA InspectMoves ==
    ASSUME [Next]_vars
    PROVE  \/ inspect \subseteq inspect'
           \/ Confirm /\ inspect' = inspect \ {"nodes"}
           \/ (Pass \/ Pause) /\ inspect' = inspect \ {"function"}
<1>1. ASSUME NEW left, Fails(left)
      PROVE  inspect \subseteq inspect'
    BY <1>1 DEF Fails
<1>2. ASSUME Guard \/ Requests \/ Polls \/ Record \/ Start \/ Check \/ Open \/ Close \/ Stop
      PROVE  inspect \subseteq inspect'
    BY <1>1, <1>2
    DEF Guard, Requests, Request, Polls, Polled, Record, Start, Check, Open, Close, Stop
<1>3. ASSUME Pass \/ Pause
      PROVE  inspect \subseteq inspect' \/ inspect' = inspect \ {"function"}
    BY <1>1, <1>3 DEF Pass, Pause
<1>4. ASSUME Begins \/ Break \/ BreakAfter \/ Kill \/ Operate \/ UNCHANGED vars
      PROVE  inspect \subseteq inspect'
    BY <1>1, <1>4 DEF Begins, Begin, Break, BreakAfter, Kill, Operate, vars
<1>. QED
    BY <1>2, <1>3, <1>4, CloudIsQuiet DEF Next, Steps, Requests, Polls, Begins, Confirm

\* A run of the pipeline that leaves no nodes to inspect goes on, or comes to its
\* finally clause with the nodes recorded.
LEMMA RunsOn ==
    ASSUME TypeOK, RunShape, [Next]_vars, "nodes" \notin inspect',
           InPipeline, pc \notin {"idle", "guard", "compute", "confirm"}
    PROVE  \/ pc' = pc
           \/ pc = "compute poll" /\ stacks["compute"].status \notin InProgress /\ pc' = "record"
           \/ Record
           \/ pc \in {"start", "wait", "status", "smoke"} \cup OfPublic
              /\ pc' \in {"start", "wait", "status", "smoke", "stop"} \cup OfPublic
           \/ Stop
<1>. DEFINE Recorded == {"start", "wait", "status", "smoke"} \cup OfPublic
            On == \/ pc = "compute poll" /\ stacks["compute"].status \notin InProgress
                     /\ pc' = "record"
                  \/ pc \in Recorded /\ pc' \in Recorded \cup {"stop"}
<1>1. pc \in Recorded \/ Leaves(pc) = {"nodes"}
    BY TypeParts DEF ScriptTyped, RunShape, OfPipeline, Early, OfPublic, Leaves, InPipeline
<1>2. ASSUME NEW left, Fails(left)
      PROVE  left \subseteq inspect' /\ (pc \in Recorded => pc' = "stop")
    BY <1>2, Zenon DEF Fails, OfPublic
<1>3. ASSUME Fails(Leaves(pc))
      PROVE  On
    BY <1>1, <1>2, <1>3
<1>4. ASSUME Request("public", "public poll")
      PROVE  On
    BY <1>2, <1>4 DEF Request, Goes, OfPublic
<1>5. ASSUME Polls
      PROVE  On
    BY <1>3, <1>5 DEF Polls, Polled, Goes, OfPublic
<1>6. ASSUME Start \/ Check
      PROVE  On
    BY <1>2, <1>6 DEF Start, Check, Goes, OfPublic
<1>7. ASSUME Open \/ Pass \/ Close
      PROVE  On
    BY <1>2, <1>7 DEF Open, Pass, Close, Goes, OfPublic
<1>8. ASSUME Break
      PROVE  On
    BY <1>3, <1>8 DEF Break, Goes, OfPublic
<1>9. ASSUME BreakAfter
      PROVE  On
  <2>1. pc = "public" /\ \E left : Fails(left)
    BY <1>9 DEF BreakAfter, Stacks
  <2>. QED
    BY <1>2, <2>1 DEF OfPublic
<1>10. ASSUME Kill \/ Pause \/ Begins \/ Guard \/ Confirm \/ Operate
       PROVE  FALSE
    BY <1>10 DEF Kill, Pause, RunShape, InPipeline, Begins, Begin, Guard, Confirm, Operate
<1>11. ASSUME Cloud \/ UNCHANGED vars
       PROVE  pc' = pc
    BY <1>11, CloudIsQuiet DEF vars, script
<1>12. ~ Request("compute", "compute poll")
    BY DEF Request
<1>. QED
    BY <1>4, <1>5, <1>6, <1>7, <1>8, <1>9, <1>10, <1>11, <1>12
    DEF Next, Steps, Requests, Polls, Begins

\* A node comes up because the stack brings it, the run starts it or a person does.
LEMMA UpMoves ==
    ASSUME TypeOK, [Next]_vars, NEW g \in Runs, nodes'[g] \in Up
    PROVE  \/ nodes[g] \in Up
           \/ Provision("compute")
           \/ Start /\ g = metadata
           \/ Operate /\ "nodes" \in inspect'
<1>. USE TypeParts DEF NodesTyped, Up
<1>1. ASSUME NEW s \in Stacks, Provision(s)
      PROVE  nodes[g] \in Up \/ Provision("compute")
    BY <1>1 DEF Provision
<1>2. ASSUME NEW s \in Stacks, CleanUp(s) \/ RolledBack(s)
      PROVE  nodes[g] \in Up
    BY <1>2 DEF CleanUp, RolledBack, OnlyNodes
<1>3. ASSUME NEW h \in Runs, Boot(h) \/ ShutDown(h)
      PROVE  nodes[g] \in Up
    BY <1>3 DEF Boot, ShutDown
<1>4. ASSUME Start
      PROVE  nodes[g] \in Up \/ g = metadata
    BY <1>4 DEF Start, Started
<1>5. ASSUME Stop
      PROVE  nodes[g] \in Up
    BY <1>5 DEF Stop, Stopped
<1>6. ASSUME Operate
      PROVE  nodes[g] \in Up \/ "nodes" \in inspect'
    BY <1>6 DEF Operate, Stopped
<1>. QED
    BY <1>1, <1>2, <1>3, <1>4, <1>5, <1>6, NodeSteps

\* CloudFormation itself leaves a stack alone that rests.
LEMMA CloudRests ==
    ASSUME TypeOK, Cloud, NEW s \in Stacks, stacks[s].status \notin InProgress
    PROVE  stacks'[s] = stacks[s]
<1>1. stacks' = stacks \/ \E o \in Stacks \ {s} : \E new : Becomes(o, new)
  <2>1. ASSUME NEW o \in Stacks, Provision(o) \/ Succeed(o)
        PROVE  o # s /\ \E new : Becomes(o, new)
    BY <2>1, ProvisionFacts, SucceedFacts DEF Provision, Succeed, InProgress
  <2>2. ASSUME NEW o \in Stacks, CleanUp(o) \/ RollBack(o) \/ RolledBack(o)
        PROVE  o # s /\ \E new : Becomes(o, new)
    <3>1. \E to \in Statuses : Turns(o, to)
      BY <2>2 DEF CleanUp, RollBack, RolledBack, Statuses, InProgress, RollingBack, Updatable,
                  Complete
    <3>2. o # s
      BY <2>2 DEF CleanUp, RollBack, RolledBack, InProgress
    <3>. QED
      BY <3>1, <3>2, TurnsFacts
  <2>3. ASSUME NEW g \in Runs, Boot(g) \/ ShutDown(g)
        PROVE  stacks' = stacks
    BY <2>3 DEF Boot, ShutDown
  <2>. QED
    BY <2>1, <2>2, <2>3 DEF Cloud
<1>. QED
    BY <1>1 DEF Becomes

\* A stack a run has not asked for, or does not hear of, is somebody's to inspect.
LEMMA AskedIsHeard ==
    ASSUME TypeOK, RunShape, [Next]_vars, NEW s \in Stacks,
           stacks[s].status \notin InProgress, stacks'[s] # stacks[s]
    PROVE  /\ pc = s
           /\ \/ pc' = IF s = "compute" THEN "compute poll" ELSE "public poll"
              \/ Brings(s) \subseteq inspect'
<1>1. pc = s
    BY RestsUntilAsked
<1>2. ASSUME Requests
      PROVE  pc' = IF s = "compute" THEN "compute poll" ELSE "public poll"
    BY <1>1, <1>2 DEF Requests, Request, Goes, Stacks
<1>3. ASSUME BreakAfter
      PROVE  Brings(s) \subseteq inspect'
  <2>1. Fails(Brings(s))
    BY <1>1, <1>3 DEF BreakAfter
  <2>. QED
    BY <2>1 DEF Fails
<1>4. ~ Cloud
    BY CloudRests
<1>5. ASSUME \/ Guard \/ Polls \/ Record \/ Start \/ Check \/ Open \/ Pass \/ Close
             \/ Pause \/ Stop \/ Confirm \/ Begins \/ Break \/ Kill \/ Operate
             \/ UNCHANGED vars
      PROVE  FALSE
    BY <1>5 DEF Guard, Polls, Polled, Record, Start, Check, Open, Pass, Close, Pause, Stop,
                Confirm, Begins, Begin, Break, Kill, Operate, vars, cloud
<1>. QED
    BY <1>1, <1>2, <1>3, <1>4, <1>5 DEF Next, Steps, Requests, Polls, Begins

LEMMA NodesWatchedStep ==
    ASSUME Typed, Deployed, NodesWatched, [Next]_vars
    PROVE  NodesWatched'
<1> DEFINE c == "compute"
<1> SUFFICES ASSUME "nodes" \notin inspect'
             PROVE  /\ stacks'[c].status \in InProgress => pc' = "compute poll"
                    /\ \A g \in Runs : nodes'[g] \in Up =>
                          /\ InPipeline' /\ pc' \notin {"idle", "guard", c, "confirm"}
                          /\ recorded' => metadata' = g
                          /\ pc' = "stop" => recorded'
    BY DEF NodesWatched
<1>0. TypeOK /\ RunShape /\ FileTyped /\ c \in Stacks
    BY TypeParts DEF Typed, Stacks
<1>1. CASE Confirm
  <2>1. Past /\ recorded
    BY <1>0, <1>1 DEF Confirm, Past, FileTyped, RunShape, OfPipeline
  <2>2. stacks[c].status \in Complete /\ metadata = stacks[c].template.by
    BY <2>1 DEF Deployed, Reached
  <2>3. \A g \in Runs : nodes[g] \notin Up
    BY <1>1, <2>2 DEF Deployed, NodesOfStack, Confirm, Updatable, Alive, Up
  <2>. QED
    BY <1>1, <2>2, <2>3 DEF Confirm, cloud, Complete, InProgress, Creating, RollingBack
<1>2. CASE ~ Confirm
  <2>1. /\ stacks[c].status \in InProgress => pc = "compute poll"
        /\ \A g \in Runs : nodes[g] \in Up =>
              /\ InPipeline /\ pc \notin {"idle", "guard", c, "confirm"}
              /\ recorded => metadata = g
              /\ pc = "stop" => recorded
    BY <1>2, InspectMoves DEF NodesWatched
  <2>2. pc = "compute poll" => InPipeline /\ ~ recorded
    BY <1>0 DEF RunShape, OfPipeline, Early
  <2>3. ASSUME stacks'[c].status \in InProgress
        PROVE  pc' = "compute poll"
    <3>1. CASE stacks[c].status \in InProgress
      BY <1>0, <2>1, <2>2, <3>1, RunsOn DEF Request, Record, Stop, OfPublic
    <3>2. CASE stacks[c].status \notin InProgress
      BY <1>0, <2>3, <3>2, AskedIsHeard DEF Brings
    <3>. QED
      BY <3>1, <3>2
  <2>4. ASSUME NEW g \in Runs, nodes'[g] \in Up
        PROVE  /\ InPipeline' /\ pc' \notin {"idle", "guard", c, "confirm"}
               /\ recorded' => metadata' = g
               /\ pc' = "stop" => recorded'
    <3>1. CASE nodes[g] \in Up
      <4>1. /\ InPipeline /\ pc \notin {"idle", "guard", c, "confirm"}
            /\ recorded => metadata = g
            /\ pc = "stop" => recorded
        BY <2>1, <3>1
      <4>2. InPipeline'
        BY <4>1, KindSteps DEF Begins, Begin, InPipeline
      <4>3. CASE Record
        <5>1. stacks[c].status \in Complete
          BY <4>3 DEF Deployed, Reached, Past, Record
        <5>2. g = stacks[c].template.by
          BY <3>1, <5>1 DEF Deployed, NodesOfStack, Alive, Up, Updatable
        <5>. QED
          BY <4>2, <4>3, <5>2 DEF Record
      <4>4. CASE Stop
        BY <1>0, <2>4, <4>1, <4>4, TypeParts DEF Stop, Stopped, FileTyped, NodesTyped, Up
      <4>5. CASE ~ Record /\ ~ Stop
        <5>1. UNCHANGED <<metadata, recorded>>
          BY <4>1, <4>5, FileSteps DEF Begins, Begin
        <5>2. \/ pc' = pc \/ pc' = "record"
              \/ /\ pc \in {"start", "wait", "status", "smoke"} \cup OfPublic
                 /\ pc' \in {"start", "wait", "status", "smoke", "stop"} \cup OfPublic
          BY <1>0, <4>1, <4>5, RunsOn DEF Request
        <5>3. pc \in {"start", "wait", "status", "smoke"} \cup OfPublic => recorded
          BY <1>0, <4>1 DEF FileTyped, RunShape
        <5>. QED
          BY <4>1, <4>2, <5>1, <5>2, <5>3 DEF OfPublic
      <4>. QED
        BY <4>3, <4>4, <4>5
    <3>2. CASE Provision(c)
      <4>1. pc = "compute poll" /\ UNCHANGED <<script, metadata>>
        BY <2>1, <3>2 DEF Provision, InProgress
      <4>. QED
        BY <2>2, <4>1 DEF script, InPipeline
    <3>3. CASE Start /\ g = metadata
      <4>1. InPipeline /\ recorded /\ pc = "start"
        BY <1>0, <3>3 DEF Start, FileTyped, RunShape, OfPipeline
      <4>2. pc' \in {"wait", "stop"} /\ UNCHANGED <<kind, recorded, metadata>>
        BY <3>3, <4>1, Zenon DEF Start, Goes, Fails
      <4>. QED
        BY <3>3, <4>1, <4>2 DEF InPipeline
    <3>. QED
      BY <1>0, <2>4, <3>1, <3>2, <3>3, UpMoves
  <2>. QED
    BY <2>3, <2>4
<1>. QED
    BY <1>1, <1>2

\* A run leaves the public part behind after the smoke test or closed, or leaves the
\* function to inspect.
LEMMA LeavesPublic ==
    ASSUME TypeOK, [Next]_vars, "function" \notin inspect',
           pc \in OfPublic \ {"public"}, pc' \notin OfPublic \ {"public"}
    PROVE  Pass \/ Close
<1>1. pc # "check" => "function" \in Leaves(pc)
    BY DEF Leaves, OfPublic
<1>2. ASSUME NEW left, Fails(left)
      PROVE  left \subseteq inspect'
    BY <1>2 DEF Fails
<1>3. ASSUME pc = "public poll", Polled("public", "open")
      PROVE  FALSE
    BY <1>1, <1>2, <1>3 DEF Polled, Goes, OfPublic
<1>4. ASSUME Open
      PROVE  FALSE
    BY <1>4 DEF Open, Goes, OfPublic
<1>5. ASSUME Break \/ Kill
      PROVE  FALSE
    BY <1>1, <1>2, <1>5 DEF Break, Kill, Goes, OfPublic
<1>6. ASSUME \/ Guard \/ Requests \/ pc = "compute poll" \/ Record \/ Start \/ Check
             \/ Pause \/ Stop \/ Confirm \/ Begins \/ BreakAfter \/ Operate
      PROVE  FALSE
    BY <1>6 DEF Guard, Requests, Request, Record, Start, Check, Pause, Stop, Confirm, Begins,
                Begin, BreakAfter, Operate, OfPublic, Stacks
<1>7. ASSUME Cloud \/ UNCHANGED vars
      PROVE  FALSE
    BY <1>7, CloudIsQuiet DEF vars, script
<1>. QED
    BY <1>3, <1>4, <1>5, <1>6, <1>7 DEF Next, Steps, Requests, Begins

LEMMA ReportsGrow ==
    ASSUME [Next]_vars
    PROVE  reports \subseteq reports'
<1>1. ASSUME Steps
      PROVE  reports \subseteq reports'
    BY <1>1 DEF Steps, Guard, Request, Polled, Record, Start, Check, Open, Pass, Close, Pause,
                Stop, Confirm
<1>2. ASSUME Begins \/ Break \/ BreakAfter \/ Kill \/ Operate \/ UNCHANGED vars
      PROVE  reports \subseteq reports'
    BY <1>2 DEF Begins, Begin, Break, BreakAfter, Kill, Operate, vars
<1>. QED
    BY <1>1, <1>2, CloudIsQuiet DEF Next, Begins

LEMMA FunctionWatchedStep ==
    ASSUME Typed, FunctionWatched, [Next]_vars
    PROVE  FunctionWatched'
<1> DEFINE p == "public"
<1> SUFFICES ASSUME "function" \notin inspect', pc' \notin OfPublic \ {p}
             PROVE  /\ stacks'[p].status \notin InProgress
                    /\ function'.concurrency > 0 => function'.code \in reports'
    BY DEF FunctionWatched
<1>0. TypeOK /\ RunShape /\ FunctionTyped /\ p \in Stacks
    BY TypeParts DEF Typed, Stacks
<1>1. CASE pc \in OfPublic \ {p}
  <2>1. Pass \/ Close
    BY <1>0, <1>1, LeavesPublic
  <2>2. stacks[p].status \in Complete /\ stacks' = stacks
    BY <2>1 DEF Typed, PublicShape, Pass, Close, cloud
  <2>3. function'.concurrency > 0 => function'.code \in reports'
    BY <1>0, <2>1 DEF Pass, Close, Concurrency, cloud, FunctionTyped
  <2>. QED
    BY <2>2, <2>3 DEF Complete, InProgress, Creating, RollingBack
<1>2. CASE Pause
  <2>1. stacks' = stacks
    BY <1>2 DEF Pause
  <2>2. CASE function.code = None
    <3>1. pc = "pause" /\ function' = function /\ inspect \subseteq inspect'
      BY <1>2, <2>2 DEF Pause, Fails
    <3>. QED
      BY <2>1, <3>1, ReportsGrow DEF FunctionWatched, OfPublic
  <2>3. CASE function.code # None
    <3>1. function'.concurrency = 0
      BY <1>0, <1>2, <2>3 DEF Pause, Concurrency, FunctionTyped
    <3>2. pc = "pause" /\ (stacks[p].status \in InProgress => inspect' = inspect)
      BY <1>2, <2>3 DEF Pause
    <3>3. stacks[p].status \notin InProgress
      BY <3>2 DEF FunctionWatched, OfPublic
    <3>. QED
      BY <2>1, <3>1, <3>3
  <2>. QED
    BY <2>2, <2>3
<1>3. CASE pc \notin OfPublic \ {p} /\ ~ Pause
  <2>1. /\ stacks[p].status \notin InProgress
        /\ function.concurrency > 0 => function.code \in reports
    BY <1>3, InspectMoves DEF FunctionWatched, Pass, OfPublic
  <2>2. stacks'[p] = stacks[p]
    BY <1>0, <2>1, AskedIsHeard DEF Brings, OfPublic
  <2>3. function' = function
    BY <1>3, <2>1, FunctionSteps
    DEF Open, Close, OfPublic, Provision, RolledBack, InProgress, Stacks
  <2>. QED
    BY <2>1, <2>2, <2>3, ReportsGrow
<1>. QED
    BY <1>1, <1>2, <1>3

LEMMA InvariantHolds == Spec => []IInv
<1>1. Init => IInv
    BY TypedInit, DeployedInit, WatchedInit DEF IInv
<1>2. IInv /\ [Next]_vars => IInv'
    BY TypedStep, DeployedStep, NodesWatchedStep, FunctionWatchedStep
    DEF IInv, Watched, Deployed
<1>. QED
    BY <1>1, <1>2, PTL DEF Spec

LEMMA StopsOwnStep ==
    ASSUME IInv, [Next]_vars, NEW g \in Runs, nodes[g] \in Up, nodes'[g] = "stopping"
    PROVE  \/ pc = "idle"
           \/ recorded /\ metadata = g /\ stacks["compute"].template.by = g
<1>0. TypeOK /\ RunShape /\ Reached
    BY DEF IInv, Typed, Deployed
<1>. USE TypeParts DEF NodesTyped, Up
<1>1. ~ \E s \in Stacks : Provision(s)
    BY <1>0 DEF Provision
<1>2. ~ \E s \in Stacks : CleanUp(s) \/ RolledBack(s)
    BY <1>0 DEF CleanUp, RolledBack, OnlyNodes
<1>3. ~ \E h \in Runs : Boot(h) \/ ShutDown(h)
    BY <1>0 DEF Boot, ShutDown
<1>4. ~ Start
    BY <1>0 DEF Start, Started
<1>5. CASE Stop
  <2>1. pc = "stop" /\ metadata # None /\ metadata = g
    BY <1>0, <1>5 DEF Stop, Stopped
  <2>2. InPipeline /\ recorded
    BY <1>0, <2>1 DEF RunShape, OfPipeline
  <2>. QED
    BY <1>0, <2>1, <2>2 DEF Reached, Past
<1>6. CASE Operate
    BY <1>6 DEF Operate
<1>. QED
    BY <1>1, <1>2, <1>3, <1>4, <1>5, <1>6, NodeSteps

-----------------------------------------------------------------------------
(* The theorems.                                                           *)

\* Type correctness: also, no run of the pipeline starts, checks or confirms nodes
\* before the file that names them is written (deploy_aws.py writes it last).
THEOREM TypesHold == Spec => []TypeOK
<1>1. IInv => TypeOK
    BY DEF IInv, Typed
<1>. QED
    BY <1>1, InvariantHolds, PTL

\* ci_deploy.py: a run of the pipeline that ends green has its stack complete and at
\* its version, and left no node of any version running, whatever earlier runs left.
THEOREM GreenMeansStoppedHolds == Spec => []GreenMeansStopped
<1>1. IInv => GreenMeansStopped
    BY DEF IInv, Deployed
<1>. QED
    BY <1>1, InvariantHolds, PTL

\* ci_deploy.py: between runs no node is up, unless a person was told to inspect the
\* nodes or started them.
THEOREM LeftRunningForCauseHolds == Spec => []LeftRunningForCause
<1>1. IInv => LeftRunningForCause
    BY DEF IInv, Watched, NodesWatched, LeftRunningForCause
<1>. QED
    BY <1>1, InvariantHolds, PTL

\* public_api.py: between runs the open function serves code that passed the smoke
\* test, unless a person was told to inspect it.
THEOREM OpenIsCheckedHolds == Spec => []OpenIsChecked
<1>1. IInv => OpenIsChecked
    BY DEF IInv, Watched, FunctionWatched, OpenIsChecked, OfPublic
<1>. QED
    BY <1>1, InvariantHolds, PTL

\* ci_deploy.py: a run stops no nodes but those it has recorded itself, which are
\* those of the stack; other nodes are stopped between runs, by a person.
THEOREM StopsOnlyOwnHolds == Spec => StopsOnlyOwn
<1> DEFINE Own == \A g \in Runs : nodes[g] \in Up /\ nodes'[g] = "stopping" =>
                     \/ pc = "idle"
                     \/ recorded /\ metadata = g /\ stacks["compute"].template.by = g
<1>1. IInv /\ [Next]_vars => [Own]_vars
    BY StopsOwnStep
<1>. QED
    BY <1>1, InvariantHolds, PTL DEF Spec, StopsOnlyOwn
=============================================================================
