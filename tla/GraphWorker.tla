---------------------------- MODULE GraphWorker ----------------------------
(***************************************************************************)
(* A worker process, whatever stores its jobs:                             *)
(*                                                                         *)
(*   trabajos/worker.py      GraphWordWorker.run_once and _build           *)
(*   trabajos/heartbeat.py   keep_claim_alive, the lease renewal thread    *)
(*                                                                         *)
(* The calls to the job repository (claim_next, renew, complete, fail) are *)
(* left to the module of each repository, which extends this one; here is  *)
(* what happens between them.  The graphs the worker saves are abstracted  *)
(* to the set of jobs whose words they hold: a partition build holds its   *)
(* own, a merge the union of what it merges.                               *)
(***************************************************************************)
EXTENDS JobTypes

CONSTANTS
    Workers,        \* worker processes
    WorkerIds,      \* what --worker-id may say
    IdOf,           \* IdOf[w]: the worker_id of process w; two may share one
    Reliable        \* the processes that nothing stops

ASSUME WorkersAssumption ==
    /\ Reliable \subseteq Workers
    /\ IdOf \in [Workers -> WorkerIds]
    /\ Null \notin WorkerIds \cup Nat \cup Claims

VARIABLES
    status, result, \* what get() says of each job
    graphs,         \* the graphs saved so far
    pc,             \* pc[w]: the step of run_once worker w is at
    claim,          \* claim[w]: the ClaimedJob in its hands
    built,          \* built[w]: what the graph it computed holds
    beat            \* beat[w]: its renewal thread

processes == <<pc, claim, built, beat>>

-----------------------------------------------------------------------------
(* The steps every worker goes through:                                    *)
(*                                                                         *)
(*   idle     between two calls of run_once                                *)
(*   build    inside the with block, in _build                             *)
(*   save     inside the with block, before graphs.save                    *)
(*   join     the block ended well: stopped.set(), then thread.join()      *)
(*   unwind   the block raised: stopped.set(), then thread.join()          *)
(*   publish  after the block, before jobs.complete                        *)
(*   failing  in the exception handler, before jobs.fail                   *)
(*   down     the process is gone                                          *)
(*                                                                         *)
(* and its renewal thread:                                                 *)
(*                                                                         *)
(*   on         waits for the next renewal                                 *)
(*   renewing   is inside renew()                                          *)
(*   failed     renew() raised; the thread has ended and the error is kept *)
(*   off        there is no thread                                         *)

\* The thread lives in these steps; in the last two it was told to stop, and at
\* most finishes the call it is in.
Beating == {"build", "save", "join", "unwind"}
Stopping == {"join", "unwind"}

Beats == {"on", "renewing", "failed", "off"}

Working(w) == pc[w] \notin {"idle", "down"}

NoClaim == [job |-> Null, token |-> Null]

\* A saved graph: the claim it was built under and what it holds.
GraphRows == [id : Claims, holds : SUBSET Jobs]

\* What a correct graph for job j holds.
WordsOf(j) == IF PartsOf[j] = {} THEN {j} ELSE PartsOf[j]

ProcessesInit ==
    /\ graphs = {}
    /\ pc = [w \in Workers |-> "idle"]
    /\ claim = [w \in Workers |-> NoClaim]
    /\ built = [w \in Workers |-> {}]
    /\ beat = [w \in Workers |-> "off"]

Goes(w, step) == pc' = [pc EXCEPT ![w] = step]

-----------------------------------------------------------------------------
(* Inside the with block.                                                  *)

\* claim_next returned a claim: the block is entered and the thread starts.
Begins(w, c) ==
    /\ Goes(w, "build")
    /\ claim' = [claim EXCEPT ![w] = c]
    /\ beat' = [beat EXCEPT ![w] = "on"]
    /\ UNCHANGED built

\* A reducer insists that every partition is confirmed and its graph is there.
PartsConfirmed(j) ==
    \A c \in PartsOf[j] :
        status[c] = "SUCCEEDED" /\ \E g \in graphs : g.id = result[c]

\* Fault: the merge stops at the first partition.
PartGraphs_First(j) ==
    {g \in graphs : PartsOf[j] # {} /\ g.id = result[CHOOSE c \in PartsOf[j] : TRUE]}

\* The saved graphs a reducer's partitions point at.
PartGraphs(j) == {g \in graphs : \E c \in PartsOf[j] : g.id = result[c]}

\* _build.  The partitions of a reducer are read one at a time; they are
\* terminal and saved graphs are never changed, so one step reads them all.
BuildGraph(w) ==
    LET j == claim[w].job IN
    /\ pc[w] = "build"
    /\ PartsConfirmed(j)
    /\ built' = [built EXCEPT ![w] =
                    IF PartsOf[j] = {} THEN {j}
                    ELSE UNION {g.holds : g \in PartGraphs(j)}]
    /\ Goes(w, "save")
    /\ UNCHANGED <<graphs, claim, beat>>

\* "partition is not confirmed", or any other error of the computation or of
\* graphs.save: the block raises.
BodyRaises(w) ==
    /\ pc[w] \in {"build", "save"}
    /\ Goes(w, "unwind")
    /\ UNCHANGED <<graphs, claim, built, beat>>

\* graphs.save under a fresh id.
SaveGraph(w) ==
    /\ pc[w] = "save"
    /\ graphs' = graphs \cup {[id |-> claim[w], holds |-> built[w]]}
    /\ Goes(w, "join")
    /\ UNCHANGED <<claim, built, beat>>

-----------------------------------------------------------------------------
(* Leaving the block, and run_once.                                        *)

\* What a worker forgets when run_once returns or its process dies.
Forgets(w, step) ==
    /\ Goes(w, step)
    /\ claim' = [claim EXCEPT ![w] = NoClaim]
    /\ built' = [built EXCEPT ![w] = {}]
    /\ beat' = [beat EXCEPT ![w] = "off"]

\* Fault: nobody looks at what the renewal thread remembered.
JoinBeat_Deaf(w) ==
    /\ pc[w] = "join" /\ beat[w] # "renewing"
    /\ Goes(w, "publish")
    /\ UNCHANGED <<graphs, claim, built, beat>>

\* The thread has ended.  If a renewal failed the result is not published: the
\* job is left RUNNING until its lease runs out.
JoinBeat(w) ==
    /\ pc[w] = "join" /\ beat[w] # "renewing"
    /\ \/ /\ beat[w] # "failed"
          /\ Goes(w, "publish")
          /\ beat' = [beat EXCEPT ![w] = "off"]
          /\ UNCHANGED <<claim, built>>
       \/ /\ beat[w] = "failed"
          /\ Forgets(w, "idle")
    /\ UNCHANGED graphs

\* The block's own exception hides a failed renewal.
Unwinds(w) ==
    /\ pc[w] = "unwind" /\ beat[w] # "renewing"
    /\ Goes(w, "failing")
    /\ beat' = [beat EXCEPT ![w] = "off"]
    /\ UNCHANGED <<graphs, claim, built>>

-----------------------------------------------------------------------------
(* The process.                                                            *)

\* Killed, interrupted, or ended by an exception nothing catches.  A database
\* transaction in progress is rolled back; the renewal thread is a daemon.
Dies(w) ==
    /\ w \notin Reliable /\ pc[w] # "down"
    /\ Forgets(w, "down")
    /\ UNCHANGED graphs

\* Started again, by a person or by systemd.
Starts(w) ==
    /\ pc[w] = "down"
    /\ Goes(w, "idle")
    /\ UNCHANGED <<graphs, claim, built, beat>>

-----------------------------------------------------------------------------
(* What must hold whatever the repository.                                 *)

\* A published graph is saved, and holds the words of every partition.
PublishedWhole ==
    \A j \in Jobs : status[j] = "SUCCEEDED" =>
        [id |-> result[j], holds |-> WordsOf(j)] \in graphs

\* A reducer is reserved, and stays so, only over confirmed partitions, so the
\* worker's own "partition is not confirmed" never costs it an attempt.
ReducerOverConfirmed ==
    \A j \in Jobs : status[j] \in {"RUNNING", "SUCCEEDED"} =>
        \A c \in PartsOf[j] : status[c] = "SUCCEEDED"

\* A worker that failed one renewal does not publish under that claim, even
\* though the claim may still be live in the table.
NoPublishAfterFailedBeat ==
    \A w \in Workers :
        beat[w] = "failed" /\ result'[claim[w].job] = claim[w]
            => result[claim[w].job] = claim[w]
=============================================================================
