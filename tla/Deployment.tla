----------------------------- MODULE Deployment -----------------------------
(***************************************************************************)
(* Deploying GraphWord: scripts/despliegue/ci_deploy.py, deploy_aws.py and *)
(* public_api.py, operaciones/aws_operations.py, verify_lab_ec2.py.        *)
(*                                                                         *)
(* The pipeline brings the stack of the two nodes to a version, records    *)
(* the nodes in a file, starts and checks them, opens the public function  *)
(* if asked to, and stops the nodes it recorded whatever failed.  Behind   *)
(* it CloudFormation and EC2 go on at their own pace, also when the script *)
(* has given up.  A call may fail at every step and the runner may be      *)
(* killed at every step.                                                   *)
(*                                                                         *)
(* The two nodes are created, started and stopped together: nodes[g] are   *)
(* those that run g created.  The function's deployments, too, are named   *)
(* by their run: each has a salt of its own, so none is "no updates".      *)
(***************************************************************************)
EXTENDS Integers

CONSTANTS Versions,     \* templates of the compute stack
          MaxRuns,      \* how many times somebody starts a workflow
          None

Runs == 1..MaxRuns
Stacks == {"compute", "public"}
Kinds == {"pipeline", "full", "public", "pause"}   \* full: ENABLE_PUBLIC_API

VARIABLES
    stacks,     \* CloudFormation
    nodes,      \* EC2
    function,   \* Lambda: whose code, and how many executions at once
    metadata,   \* var/aws-deployment.json: the nodes it names
    kind, wanted, pc, failed,   \* the run: what it is, its version, where it is
    recorded,   \* has this run written metadata?
    number,     \* how many runs have begun
    outcome,    \* how the last run ended
    reports,    \* deployments of the function that passed their smoke test
    inspect     \* what the last runs left for a person to inspect

cloud == <<stacks, nodes, function>>
script == <<kind, wanted, pc, failed, recorded, number, outcome>>
vars == <<cloud, script, metadata, reports, inspect>>

-----------------------------------------------------------------------------
(* CloudFormation and EC2.                                                 *)

Complete == {"CREATE_COMPLETE", "UPDATE_COMPLETE"}
Creating == {"CREATE_IN_PROGRESS", "UPDATE_IN_PROGRESS"}
RollingBack == {"ROLLBACK_IN_PROGRESS", "UPDATE_ROLLBACK_IN_PROGRESS"}
InProgress == Creating \cup RollingBack \cup {"UPDATE_COMPLETE_CLEANUP_IN_PROGRESS"}
Updatable == Complete \cup {"UPDATE_ROLLBACK_COMPLETE"}
Statuses == {"absent", "ROLLBACK_COMPLETE"} \cup InProgress \cup Updatable

\* What a stack is brought to: a template, and the run that asked for it.
Targets == [version : Versions \cup Runs, by : Runs]

ASSUME DeploymentAssumption ==
    /\ MaxRuns \in Nat
    /\ None \notin Versions /\ None \notin Kinds
    /\ None \notin Runs /\ None \notin Targets

Up == {"pending", "running"}

Turns(s, status) == stacks' = [stacks EXCEPT ![s].status = status]

\* The new resources exist: nodes run, the function has its new code.  Its
\* concurrency is set on creation and, of an update, left alone or set again.
Provision(s) ==
    LET new == stacks[s].target.by
    IN /\ stacks[s].status \in Creating /\ ~stacks[s].made
       /\ stacks' = [stacks EXCEPT ![s].made = TRUE]
       /\ \/ s = "compute" /\ nodes' = [nodes EXCEPT ![new] = "running"]
             /\ UNCHANGED function
          \/ /\ s = "public" /\ UNCHANGED nodes
             /\ \E n \in IF function.code = None THEN {2} ELSE {function.concurrency, 2} :
                   function' = [code |-> new, concurrency |-> n]
       /\ UNCHANGED <<script, metadata, reports, inspect>>

Succeed(s) ==
    /\ stacks[s].status \in Creating /\ stacks[s].made
    /\ stacks' = [stacks EXCEPT ![s].template = stacks[s].target,
                    ![s].status = IF @ = "CREATE_IN_PROGRESS" THEN "CREATE_COMPLETE"
                                  ELSE "UPDATE_COMPLETE_CLEANUP_IN_PROGRESS"]
    /\ UNCHANGED <<nodes, function, script, metadata, reports, inspect>>

OnlyNodes(keep) == [g \in Runs |-> IF g \notin keep /\ nodes[g] # "none"
                                     THEN "terminated" ELSE nodes[g]]

\* The nodes of the version before are terminated.
CleanUp(s) ==
    /\ stacks[s].status = "UPDATE_COMPLETE_CLEANUP_IN_PROGRESS"
    /\ Turns(s, "UPDATE_COMPLETE")
    /\ nodes' = IF s = "compute" THEN OnlyNodes({stacks[s].template.by}) ELSE nodes
    /\ UNCHANGED <<function, script, metadata, reports, inspect>>

RollBack(s) ==
    /\ stacks[s].status \in Creating
    /\ Turns(s, IF stacks[s].status = "CREATE_IN_PROGRESS"
                  THEN "ROLLBACK_IN_PROGRESS" ELSE "UPDATE_ROLLBACK_IN_PROGRESS")
    /\ UNCHANGED <<nodes, function, script, metadata, reports, inspect>>

\* What the target brought is removed, and the function has the code it had before;
\* its concurrency stays what the update made of it.
RolledBack(s) ==
    LET old == stacks[s].template
    IN /\ stacks[s].status \in RollingBack
       /\ Turns(s, IF old = None THEN "ROLLBACK_COMPLETE" ELSE "UPDATE_ROLLBACK_COMPLETE")
       /\ \/ /\ s = "compute" /\ UNCHANGED function
             /\ nodes' = OnlyNodes(IF old = None THEN {} ELSE {old.by})
          \/ /\ s = "public" /\ UNCHANGED nodes
             /\ function' = IF old = None THEN [code |-> None, concurrency |-> 0]
                                          ELSE [function EXCEPT !.code = old.by]
       /\ UNCHANGED <<script, metadata, reports, inspect>>

Boot(g) ==
    /\ nodes[g] = "pending" /\ nodes' = [nodes EXCEPT ![g] = "running"]
    /\ UNCHANGED <<stacks, function, script, metadata, reports, inspect>>

ShutDown(g) ==
    /\ nodes[g] = "stopping" /\ nodes' = [nodes EXCEPT ![g] = "stopped"]
    /\ UNCHANGED <<stacks, function, script, metadata, reports, inspect>>

Cloud ==
    \/ \E s \in Stacks : Provision(s) \/ Succeed(s) \/ CleanUp(s)
                           \/ RollBack(s) \/ RolledBack(s)
    \/ \E g \in Runs : Boot(g) \/ ShutDown(g)

-----------------------------------------------------------------------------
(* Steps of a run.                                                         *)

InPipeline == kind \in {"pipeline", "full"}

Goes(step) == pc' = step /\ UNCHANGED <<kind, wanted, failed, recorded, number, outcome>>

Ends(how) == /\ pc' = "idle" /\ outcome' = how
             /\ UNCHANGED <<kind, wanted, failed, recorded, number>>

Fails_NoFinally(left) ==
    /\ failed' = TRUE /\ pc' = "idle" /\ outcome' = "red"
    /\ inspect' = inspect \cup left
    /\ UNCHANGED <<kind, wanted, recorded, number>>

\* An exception: in the pipeline the finally clause comes next.  What the run leaves
\* behind and does not look after is for a person to inspect.
Fails(left) ==
    /\ failed' = TRUE
    /\ IF InPipeline /\ pc \notin {"guard", "stop", "confirm"}
         THEN pc' = "stop" /\ UNCHANGED outcome
         ELSE pc' = "idle" /\ outcome' = "red"
    /\ inspect' = inspect \cup left
    /\ UNCHANGED <<kind, wanted, recorded, number>>

\* What a step does not look after if it fails: once a stack is asked for.
Leaves(step) ==
    CASE step \in {"compute poll", "record", "stop"} -> {"nodes"}
      [] step \in {"public poll", "open", "close"} -> {"function"}
      [] OTHER -> {}

\* What a stack brings.
Brings(s) == IF s = "compute" THEN {"nodes"} ELSE {"function"}

Target == [version |-> IF pc = "compute" THEN wanted ELSE number, by |-> number]

\* deploy(): create the stack, update it, or find nothing to update.
Asked(s) ==
    LET stack == stacks[s]
        asks(status) == stacks' = [stacks EXCEPT ![s].status = status,
                                     ![s].target = Target, ![s].made = FALSE]
    IN IF stack.status = "absent" THEN asks("CREATE_IN_PROGRESS")
       ELSE /\ stack.status \in Updatable
            /\ IF stack.template.version = Target.version
                 THEN UNCHANGED stacks
                 ELSE asks("UPDATE_IN_PROGRESS")

Refused(s) == stacks[s].status \notin Updatable \cup {"absent"}

Request(s, step) ==
    /\ pc = s
    /\ IF Refused(s) THEN Fails({}) /\ UNCHANGED stacks
                     ELSE Asked(s) /\ Goes(step) /\ UNCHANGED inspect
    /\ UNCHANGED <<nodes, function, metadata, reports>>

\* The loop of deploy(): it ends when nothing is in progress any more.
Polled(s, step) ==
    /\ stacks[s].status \notin InProgress
    /\ IF stacks[s].status \in Complete THEN Goes(step) /\ UNCHANGED inspect
                                         ELSE Fails(Leaves(pc))
    /\ UNCHANGED <<cloud, metadata, reports>>

\* `Fresh` is the checkout of the workflow, which cleans var/; ci_deploy may also be
\* run where metadata of an earlier deployment lies.
Begin(k, v, fresh) ==
    /\ pc = "idle" /\ number < MaxRuns
    /\ number' = number + 1 /\ kind' = k /\ wanted' = IF k \in {"pipeline", "full"} THEN v ELSE None
    /\ failed' = FALSE /\ recorded' = FALSE /\ outcome' = "none"
    /\ pc' = CASE k = "public" -> "public" [] k = "pause" -> "pause" [] OTHER -> "guard"
    /\ metadata' = IF fresh THEN None ELSE metadata
    /\ UNCHANGED <<cloud, reports, inspect>>

Guarded_Never == FALSE

Guarded == metadata # None

Guard ==
    /\ pc = "guard"
    /\ IF Guarded THEN Fails({}) ELSE Goes("compute") /\ UNCHANGED inspect
    /\ UNCHANGED <<cloud, metadata, reports>>

Record_Nowhere ==
    /\ pc = "record"
    /\ recorded' = TRUE /\ pc' = "start"
    /\ UNCHANGED <<cloud, kind, wanted, failed, number, outcome, metadata, reports, inspect>>

\* deploy_aws.main writes the file last.
Record ==
    /\ pc = "record"
    /\ metadata' = stacks["compute"].template.by
    /\ recorded' = TRUE /\ pc' = "start"
    /\ UNCHANGED <<cloud, kind, wanted, failed, number, outcome, reports, inspect>>

\* EC2 starts nodes that are stopped, and leaves those alone that run.
Started(g) ==
    /\ nodes[g] \in Up \cup {"stopped"}
    /\ nodes' = [nodes EXCEPT ![g] = IF @ = "stopped" THEN "pending" ELSE @]

Start ==
    /\ pc = "start"
    /\ IF nodes[metadata] \in Up \cup {"stopped"}
         THEN Started(metadata) /\ Goes("wait") /\ UNCHANGED inspect
         ELSE Fails({}) /\ UNCHANGED nodes
    /\ UNCHANGED <<stacks, function, metadata, reports>>

\* SSM sees both nodes; the services run; a build succeeds.
Check ==
    /\ pc \in {"wait", "status", "smoke"} /\ nodes[metadata] = "running"
    /\ Goes(CASE pc = "wait" -> "status" [] pc = "status" -> "smoke"
              [] pc = "smoke" -> IF kind = "full" THEN "public" ELSE "stop")
    /\ UNCHANGED <<cloud, metadata, reports, inspect>>

Concurrency(n) == function.code # None
                    /\ function' = [function EXCEPT !.concurrency = n]

Open ==
    /\ pc = "open" /\ Concurrency(2) /\ Goes("check")
    /\ UNCHANGED <<stacks, nodes, metadata, reports, inspect>>

\* smoke() passes, and the report is written.
Pass ==
    /\ pc = "check"
    /\ reports' = reports \cup {function.code}
    /\ inspect' = inspect \ {"function"}
    /\ IF InPipeline THEN Goes("stop") ELSE Ends("green")
    /\ UNCHANGED <<cloud, metadata>>

Close ==
    /\ pc = "close" /\ Concurrency(0) /\ Fails({})
    /\ UNCHANGED <<stacks, nodes, metadata, reports>>

\* A pause says nothing about a stack that is still on its way.
Pause ==
    /\ pc = "pause"
    /\ IF function.code = None
         THEN Fails({}) /\ UNCHANGED function
         ELSE /\ Concurrency(0) /\ Ends("green")
              /\ inspect' = IF stacks["public"].status \in InProgress THEN inspect
                              ELSE inspect \ {"function"}
    /\ UNCHANGED <<stacks, nodes, metadata, reports>>

Stopped(g) ==
    /\ nodes[g] # "terminated"
    /\ nodes' = [nodes EXCEPT ![g] = IF @ \in Up THEN "stopping" ELSE @]

\* The finally clause: only if there is metadata.
Stop ==
    /\ pc = "stop"
    /\ IF metadata = None THEN Ends("red") /\ UNCHANGED nodes
       ELSE /\ Stopped(metadata)
            /\ IF failed THEN Ends("red") ELSE Goes("confirm")
    /\ UNCHANGED <<stacks, function, metadata, reports, inspect>>

Confirm_AtOnce ==
    /\ pc = "confirm"
    /\ inspect' = inspect \ {"nodes"}
    /\ Ends("green")
    /\ UNCHANGED <<cloud, metadata, reports>>

\* verify_lab_ec2 --stopped-metadata.
Confirm ==
    /\ pc = "confirm" /\ nodes[metadata] = "stopped"
    /\ inspect' = inspect \ {"nodes"}
    /\ Ends("green")
    /\ UNCHANGED <<cloud, metadata, reports>>

Steps ==
    \/ Guard
    \/ Request("compute", "compute poll")
    \/ pc = "compute poll" /\ Polled("compute", "record")
    \/ Record \/ Start \/ Check
    \/ Request("public", "public poll")
    \/ pc = "public poll" /\ Polled("public", "open")
    \/ Open \/ Pass \/ Close \/ Pause
    \/ Stop \/ Confirm

-----------------------------------------------------------------------------
(* Faults.                                                                 *)

Break_LeftOpen ==
    /\ pc # "idle"
    /\ Fails(Leaves(pc))
    /\ UNCHANGED <<cloud, metadata, reports>>

\* A call raises or a deadline passes.  The smoke test is the one with a handler.
Break ==
    /\ pc # "idle"
    /\ IF pc = "check" THEN Goes("close") /\ UNCHANGED inspect ELSE Fails(Leaves(pc))
    /\ UNCHANGED <<cloud, metadata, reports>>

\* The stack is asked for, and the script hears of an error.
BreakAfter ==
    /\ pc \in Stacks /\ ~Refused(pc) /\ Asked(pc) /\ Fails(Brings(pc))
    /\ UNCHANGED <<nodes, function, metadata, reports>>

\* The job's time is up, or the runner ends: no finally clause, no confirmation.
Kill ==
    /\ pc # "idle"
    /\ Ends("red")
    /\ inspect' = inspect
         \cup (IF InPipeline /\ pc \notin {"guard", "compute", "confirm"} THEN {"nodes"} ELSE {})
         \cup (IF pc = "check" THEN {"function"} ELSE Leaves(pc))
    /\ UNCHANGED <<cloud, metadata, reports>>

\* Between runs a person starts or stops the recorded nodes.
Operate ==
    /\ pc = "idle" /\ metadata # None
    /\ \/ Started(metadata) /\ inspect' = inspect \cup {"nodes"}
       \/ Stopped(metadata) /\ UNCHANGED inspect
    /\ outcome' = "operated"
    /\ UNCHANGED <<stacks, function, kind, wanted, pc, failed, recorded, number,
                   metadata, reports>>

-----------------------------------------------------------------------------

Init ==
    /\ stacks = [s \in Stacks |-> [status |-> "absent", template |-> None,
                                   target |-> None, made |-> FALSE]]
    /\ nodes = [g \in Runs |-> "none"]
    /\ function = [code |-> None, concurrency |-> 0]
    /\ metadata = None
    /\ kind = None /\ wanted = None /\ pc = "idle" /\ failed = FALSE
    /\ recorded = FALSE /\ number = 0 /\ outcome = "none"
    /\ reports = {} /\ inspect = {}

Next ==
    \/ Cloud \/ Steps
    \/ \E k \in Kinds, v \in Versions, fresh \in BOOLEAN : Begin(k, v, fresh)
    \/ Break \/ BreakAfter \/ Kill \/ Operate

Spec == Init /\ [][Next]_vars

-----------------------------------------------------------------------------
(* Properties.                                                             *)

\* Every variable has its type, and the steps that read the file come after the file.
TypeOK ==
    /\ stacks \in [Stacks -> [status : Statuses, template : Targets \cup {None},
                              target : Targets \cup {None}, made : BOOLEAN]]
    /\ nodes \in [Runs -> Up \cup {"none", "stopping", "stopped", "terminated"}]
    /\ function \in [code : Runs \cup {None}, concurrency : {0, 2}]
    /\ metadata \in Runs \cup {None}
    /\ kind \in Kinds \cup {None} /\ wanted \in Versions \cup {None}
    /\ pc \in Stacks \cup {"idle", "guard", "compute poll", "record", "start", "wait",
                            "status", "smoke", "public poll", "open", "check", "close",
                            "pause", "stop", "confirm"}
    /\ failed \in BOOLEAN /\ recorded \in BOOLEAN /\ number \in 0..MaxRuns
    /\ outcome \in {"none", "green", "red", "operated"}
    /\ reports \subseteq Runs /\ inspect \subseteq {"nodes", "function"}
    /\ recorded => metadata # None
    /\ pc \in {"start", "wait", "status", "smoke", "confirm"} => recorded

Ended(how) == pc = "idle" /\ outcome = how

\* A green pipeline deployed what it was given and left no node running: not the
\* recorded ones (verify_lab_ec2.py waits for them) nor those of any earlier version,
\* whatever earlier runs gave up on.
GreenMeansStopped ==
    Ended("green") /\ InPipeline =>
        /\ \A g \in Runs : nodes[g] \in {"none", "stopped", "terminated"}
        /\ stacks["compute"].status \in Complete
        /\ stacks["compute"].template.version = wanted

\* Nodes keep running after a run only if it was killed, if it ended between asking for
\* their stack and recording them, if stopping them failed, or if a person started them:
\* the cases ci_deploy.py names.  A failure anywhere else, before the stack is asked for
\* or in the public part, leaves none.
LeftRunningForCause ==
    pc = "idle" /\ "nodes" \notin inspect => \A g \in Runs : nodes[g] \notin Up

\* ci_deploy.py "does not guess nodes": a run stops no nodes but those it recorded
\* itself, also where the metadata of an earlier deployment lies.
StopsOnlyOwn ==
    [][\A g \in Runs : nodes[g] \in Up /\ nodes'[g] = "stopping" =>
           \/ pc = "idle"
           \/ recorded /\ metadata = g /\ stacks["compute"].template.by = g]_vars

\* Between runs the public function is closed, or serves code that passed the smoke
\* test, unless a run ended between asking for the stack and the smoke test, or could
\* not close it (public_api.py), and neither a smoke test nor a pause of a stack at rest
\* has followed.  An update that is rolled back does not open it unnoticed.
OpenIsChecked ==
    pc = "idle" /\ function.concurrency > 0 /\ "function" \notin inspect =>
        function.code \in reports
=============================================================================
