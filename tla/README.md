# GraphWord in TLA+

GraphWord turns lists of words into graphs (two words are neighbours when they
differ in one letter) and answers questions about them.  A graph is built by
asynchronous jobs: an API stores them, worker processes reserve them under a
lease, and a partitioned build is a *reducer* job that merges the graphs of its
*partition* jobs.  The same protocol has three implementations: in memory, in
one SQLite file, and on DynamoDB, SQS and S3.

What can go wrong is mostly in that protocol: leases that run out under a worker
that still computes, two processes with one `--worker-id`, answers that are lost
after the write was applied, messages that are repeated or never arrive, a
reducer that waits for ever.  That is where this development begins.  Around it
stand the submissions that fill the job tables, the construction of graphs and the
queries on them, the dictionaries that deployments publish, and the deployment
itself, which starts nodes that cost money and opens an API to the public.

Contents: [inventory](#1-inventory) ·
[modules](#2-modules-and-how-they-correspond-to-the-code) ·
[runs](#3-runs-bounds-and-what-they-show) · [fairness](#4-fairness) ·
[proofs](#5-what-is-proved) · [not modelled](#6-what-is-not-modelled) ·
[plan](#7-plan)

## 1. Inventory

Paths are below `src/`; `gw/` stands for `graphword/`.

### Parts of the system

| part | source | state it keeps | operations | modelled by |
|---|---|---|---|---|
| job vocabulary and protocol | `gw/trabajos/jobs.py` 1-110 | - | `JobRepository`, `PartitionedBuildRepository` protocols | `JobTypes`, `JobContract` |
| worker | `gw/trabajos/worker.py`, `worker_cli.py`, `aws_worker.py` | claim in hand, graph just built | `run_once`, `_build`, the polling loops | `GraphWorker` |
| lease renewal | `gw/trabajos/heartbeat.py` | a thread, its error, a stop event | `keep_claim_alive` | `GraphWorker` |
| local jobs | `gw/almacenamiento/sqlite_storage.py` | tables `jobs`, `job_dependencies`, `graphs` | `create`, `create_partitioned_build`, `claim_next`, `renew`, `complete`, `fail`, `get` | `SQLiteJobs` |
| AWS jobs | `gw/almacenamiento/aws_storage.py` | DynamoDB rows with a revision, an SQS queue, S3 objects, receipts per process | the same, and `reconcile` | `AwsJobs` |
| in-memory jobs | `gw/trabajos/jobs.py` 112-316 | dict of records, deque of pending ids, an RLock | the same without partitions | `MemoryJobs` |
| graph construction | `gw/motor/graph.py` 1-100 | buckets and edges while it runs | `build_partition`, `merge_partitions` | `GraphPartition` |
| graph queries | `gw/motor/graph.py` 94-357 | search stack, limits, peeling queue | `all_simple_paths`, `longest_simple_path`, `shortest_path`, `k_core`, `components`, `dense_subgraphs` | `PathSearch`, `ShortestPath`, `Peeling`, `DenseSubgraphs`, `GraphQueries` |
| submissions | `gw/trabajos/submissions.py`, `create*` of the repositories, `gw/api/routes.py` 242-339 | idempotency keys, rows, input objects in S3 | submit, replay of a repeated key | `SubmissionContract`, `Submissions` |
| dictionary catalogue | `gw/almacenamiento/dictionaries.py`, `S3DictionaryRepository` | a checkout, objects and a catalogue in S3 | publish, `list`, `load` | `DictionaryCatalog` |
| HTTP API | `gw/api/routes.py`, `*_app.py` | none | translation of requests and errors | in part, with what it calls |
| browser sessions | `gw/api/browser_sessions.py`, `public_security.py` | none (a signed cookie) | issue, check | not modelled |
| deployment | `scripts/despliegue/deploy_aws.py`, `ci_deploy.py`, `public_api.py`, `verify_lab_ec2.py`, `scripts/operaciones/aws_operations.py` | stacks, instances, the public function, a metadata file | deploy, start, check, open to the public, pause, stop | `Deployment` |
| set-up of runner and nodes | `scripts/despliegue/setup_lab_runner.py`, `bootstrap_aws.py`, `infra/` | none | templates, shell | not modelled |
| benchmarks | `scripts/rendimiento`, `smoke_aws.py` | none | sequential scripts | not modelled |

### How they interact

* The API and the workers share nothing but the repository: a SQLite file, or
  DynamoDB.  The API stores jobs (`create`, `create_partitioned_build`) and reads
  them (`get`).
* A worker calls `claim_next`, enters `keep_claim_alive`, which starts a thread
  that calls `renew` every third of the lease, computes the graph, saves it under
  a fresh id, leaves the block (which joins the thread and raises if a renewal
  failed), and calls `complete`; any error leads to `fail`.  Main thread and
  renewal thread act on one row.
* A reducer becomes claimable when all its partitions have succeeded.  In SQLite
  `claim_next` and `fail` look after that inside their transactions; on AWS only
  `reconcile`, which a separate process calls in a loop, announces jobs and gives
  up reducers.
* A client that heard nothing sends its request again, with the same
  `Idempotency-Key`.  The API makes the id of the job from kind and key and keeps a
  digest of the request beside it.
* The pipeline drives CloudFormation and EC2, which go on when it has given up.  It
  hands the ids of its nodes to its later steps through a file,
  `var/aws-deployment.json`.
* SQS carries job ids and nothing else.  A message may be lost, repeated or late;
  DynamoDB decides.

### What is hard, and what makes each part correct

* *Leases.*  A worker whose lease ran out does not know it.  At most one process
  passes the ownership check for a job; a lapsed reservation is not renewed, completed
  or failed (where one transaction tests and writes); the recorded result is the graph
  of the last reservation.
* *Two threads in one worker.*  A renewal may fail while the graph is being saved.
  A worker one of whose renewals failed does not publish.
* *Partial failure.*  `complete()` may commit and raise; a put may be applied and
  its caller told that it was refused.  A job that ended stays ended; a reservation
  nobody knows of runs out and is recovered.
* *Dependencies.*  A reducer runs only over confirmed partitions, merges all of
  them, and does not outwait a partition that was given up.
* *Progress.*  Every stored job ends, as long as somebody works.
* *Counters.*  `attempts` and `max_attempts` are compared in six places.
* *Partitions of the graph.*  Every edge is found, in one partition, whatever the
  hash; merging is insensitive to order and to repetition.
* *The deque.*  In memory a job waits in the dict and in the deque; the two agree,
  and nobody overtakes.
* *Limits.*  A search that is cut short says so, and what it found until then is
  still right.
* *The catalogue.*  Deployments, the corpus builder and the APIs of earlier
  deployments share a checkout and a bucket and nothing that orders them.  A
  catalogue names only what is there.
* *Peeling.*  Removing a word changes degrees that were compared before.
* *Repeated submissions.*  Two calls with one key race, or one is repeated because its
  answer was lost, possibly after its rows were written.  One key is one job; a key
  used for something else is a conflict; no row refers to something that is not there.
* *Cleaning up.*  The pipeline must stop its nodes whatever step fails, stop no others,
  and say so when it cannot; the public function must not stay open unchecked.

The full list, at the lines where each hazard bites, is under `hazards` in
`PROJECT.json`, including those that no property covers, with the reason.

## 2. Modules and how they correspond to the code

```
             JobTypes                                       WordGraphs
            ┌───┴────────┐                          ┌───────────┼──────────┐
      JobContract   GraphWorker                PathSearch    Peeling  ShortestPath
           ▲      ┌──────┼─────────┐                │           │          │
   refines └── SQLiteJobs AwsJobs MemoryJobs        │    DenseSubgraphs    │
                                                    │           └────┬─────┘
      SubmissionContract <-- refines -- Submissions │           GraphQueries
                                                    └────────┬───────┘
      Deployment   DictionaryCatalog   GraphPartition   GraphQueriesProofs
```

Every component has one module of theorems beside it: `SQLiteJobsProofs`,
`AwsJobsProofs`, `MemoryJobsProofs`, `SubmissionsProofs`, `DeploymentProofs`,
`DictionaryCatalogProofs`, `GraphPartitionProofs`, and `GraphQueriesProofs` for the
queries, the limited search included.  `MC*` modules give the constants small values; each `.cfg` is one run.

### JobTypes, JobContract

`JobTypes` holds the ids, which partitions a reducer depends on (`PartsOf`),
`MaxAttempts`, and the statuses.  A claim is a job and the number of its token
(a fresh uuid4 in the code); a worker saves at most one graph per claim, so the
claim also names the graph.

`JobContract` is the abstract specification: what `get()` may show of a job over
time.  Each job makes one of five moves or none (stored, reserved, completed,
returned, given up), and moves of several jobs may happen in one step, because one
`claim_next` recovers every expired job and then reserves one.  It knows nothing of
tokens, leases, workers or messages.  The three repositories are shown to implement it
(`KeepsContract`).

### GraphWorker

`run_once` as a program counter per process (`idle`, `build`, `save`, `join`,
`unwind`, `publish`, `failing`, `down`), and its renewal thread beside it (`on`,
`renewing`, `failed`, `off`).  Leaving the `with` block is a step of its own that
waits until the thread is not inside `renew()`.  An error may occur at every step,
and the process may die at every step.  A graph is abstracted to the set of jobs
whose words it holds: a partition's own, or the union of what a reducer read.

The calls to the repository are added by the three modules that extend this one.

### SQLiteJobs

A column of table `jobs` is a function of the job id.  Every method runs in one
`BEGIN IMMEDIATE` transaction and is one action, trailing statements included:
`ClaimNothing` and `ClaimJob` recover expired reservations, propagate failures to
reducers, and then reserve the oldest ready job or nothing.

| action | code |
|---|---|
| `ReadClock`, `Store` | `create`, `create_partitioned_build`: the clock is read before the transaction, so `created_at` need not follow the order of the inserts |
| `ClaimNothing`, `ClaimJob` | `claim_next` |
| `Renew`, `RenewError` | `renew` from the thread; the row is not ours any more, or the call raises |
| `Build`, `BodyError`, `Save`, `Join`, `Unwind` | `_build`, `graphs.save`, the two ways out of the block |
| `Complete`, `Confirm`, `CompleteError` | `complete`, its closing `get()`, and an exception of either: after the commit the handler cannot know, and calls `fail` |
| `Fail` | `fail(retryable=True)`, the only way the worker calls it |
| `Crash`, `Restart`, `Tick` | the process, the clock |

Time is relative: `lease[j]` is how many ticks are left of the lease of job `j`,
so `lease_expires_at <= now` is `lease[j] = 0` and the clock needs no bound.

### AwsJobs

No call is atomic here.  Every change of a row is a consistent read followed, any
time later, by a put on condition that the revision is still the one read; the two
are separate actions (`Receive`/`Reserve`, `RenewRead`/`RenewWrite`,
`FinishRead`/`Publish` or `Return`, `Scan`/`Expire`, `GiveUp` or `Announce`).
Revisions are not counted: `fresh` is the set of readers whose row nobody has
replaced since they read it.  That is the same condition and leaves no counter to
bound.

* A put may be refused, may fail, or may be *applied while its caller is told
  otherwise* (the client is configured to try twice, and then meets its own first
  attempt).  A put that is applied is applied before its caller hears of it.
* The end of a lease is computed from a clock read before the put and is cut to
  whole seconds, so the lease a put leaves is any of `0..LeaseTicks`.
* `attempts` numbers the tokens: only the put that stores a token counts an attempt.
* `queue` is the set of jobs with at least one message.  `delete_message` may leave
  another copy; `Lose` is the dead-letter queue.  Receiving does not remove a
  message, so it can be delivered again at any time.
* A reconciler has one row in its hands.  A call that works through a page of *n*
  rows read earlier is *n* reconcilers, which is also how several callers are
  modelled; after putting a lapsed row back it may go on to announce it.
* The dictionary of receipts is left out: a worker has an entry while it renews.
  So are the S3 objects with input words; failing to read them is an error of
  `Reserve` or of the body.

### MemoryJobs

`InMemoryJobRepository`: every method runs under one lock and is one action, shared
by the threads of one process.  The records are columns as in `SQLiteJobs`, and
beside them stands `pending`, the deque.  `claim_next` recovers, pops until a PENDING
job comes out (`Popped`) and reserves it.  Recovered jobs enter the deque in the order
of their ids; an id is a random uuid or a hash, so the model lets any order happen.

The records and the deque die with the process, so there is no crash; no call can
fail half-way, so there is no `RenewError` or `CompleteError`; there are no reducers
(`MemoryAssumption`).  `Popped` says what the loop of `claim_next` leaves, also of
entries that are not PENDING; that there never are any is proved (`QueueFacts`).  Nothing in `src/graphword` runs a polling loop on this
repository, so no fairness is assumed and no liveness is claimed.

### WordGraphs, PathSearch, Peeling, DenseSubgraphs, ShortestPath, GraphQueries

`WordGraphs` says what a graph is: a word is its rank in the alphabetical order, and
a graph is any symmetric one without loops, also one that no set of words has.  It
says what a simple path is, and when one list comes before another.

`PathSearch` is `_bounded_simple_paths`, with one action per way a round of its loop
can go: stopped by the clock (`Timeout`, at any round) or by the count of states
(`StopAtStates`), a path found (`Arrive`), turned back by the depth (`TurnBack`),
followed further (`Expand`), and the two ways to end (`Finish`).  The top of the stack
is the head of the sequence.  An entry is its path: the current word is its last and
the visited words are those on it.  `maxPaths = None` is `longest_simple_path`.

`Peeling` is the loop of `k_core`, one word per round; the neighbours of a word are
looked at in any order, because the code iterates over a set.

`DenseSubgraphs` continues where `Peeling` ends: `components` on what `k_core` left,
with `Neighbours` as the graph `k_core` returns.  `OpenGroup` is a round of the outer
loop that is not skipped, `Follow` takes any word of the list (its order is that of a
set), `CloseGroup` appends.  With k = 0 nothing is peeled off and the same actions are
`components` as `summary` calls it.  `ShortestPath` is the breadth-first search, one
action per round of its loop (`Visit`, `Arrive`) and one for its end without an answer
(`GiveUp`).  `GraphQueries` puts both behind the routes: one query on one graph.

Two tests of the code decide nothing, and the models say so: a path of the same
length as `best` is never before it (the search meets paths in order), and a word is
never in the queue of `k_core` twice, so `if node not in remaining` does not occur.

### SubmissionContract, Submissions

`SubmissionContract` is what a client may rely on.  A call asks for something under an
id (kind and key, or an id of its own); a book gives each id, once, the call whose job
it names and what that call meant.  An accepted call gets the job in the book and
meant the same; a conflict is told only if the book says something else; an error says
nothing.

`Submissions` is the code, for each of the three repositories (`store`):

| action | code |
|---|---|
| `Post` | the routes: validation, and 503 where there are no partitioned builds |
| `MemoryCreate` | `InMemoryJobRepository.create`, under its lock |
| `SQLiteCreate`, `SQLiteGet` | the transaction of `create` or `create_partitioned_build`; then `get` on another connection |
| `AwsReplay` | `_replay` before anything is written |
| `AwsPayload` | `_payload`: the words go to S3 |
| `AwsPut`, `AwsPutTwice`, `AwsPutUnknown`, `AwsRefused` | the conditional put or transaction: applied; applied and met again by the client's own second try; applied and not told; refused |
| `AwsReread` | `_replay` after a refusal |
| `Break` | an error, the end of the process, or an answer that does not arrive |

A client that repeats a call is another member of `Calls`.  A digest is the tuple that
is digested, after `normalize_words`: two digests are equal only if these are.  The
contract compares *meanings*, which are said without digests: kind, set of words,
number of partitions, source.  `max_attempts` is 3 in every route and is left out.  A
transaction may also be refused while another on the same row is under way
(`Contended`).  Its second try by the client carries the same request token, so it does
not meet itself; that of `put_item` does.

### Deployment

The stacks of the nodes and of the public function (`stacks`), the nodes and the
function themselves, the metadata file, and one workflow at a time: its step (`pc`),
whether it failed, how it ended.  The workflows share a concurrency group, so they do
not overlap, and the file is the only thing one of them may find of another.

| action | code |
|---|---|
| `Begin` | a workflow starts: the pipeline, with or without the public API, or `public_api` deploy or pause; in a fresh checkout or not |
| `Guard` | `ci_deploy` refuses a checkout in which there is metadata |
| `Request`, `Polled` | `deploy()`: create or update the stack, then wait until nothing is in progress |
| `Record` | `deploy_aws` writes the metadata, last |
| `Start`, `Check` | `aws_operations start`, the wait for SSM, `status`, `smoke` |
| `Open`, `Pass`, `Close`, `Pause` | `public_api`: open, smoke test and report, close again, pause |
| `Stop`, `Confirm` | the `finally` clause of `ci_deploy`; `verify_lab_ec2 --stopped-metadata` |
| `Break`, `BreakAfter`, `Kill` | a call raises or a deadline passes; the stack is asked for and the script hears of an error; the runner ends |
| `Operate` | between runs somebody starts or stops the recorded nodes |
| `Cloud` | CloudFormation and EC2, at their own pace: resources appear, updates succeed or roll back, the nodes of the version before are terminated |

`inspect` is what the last runs left for a person to look at.  It is set only in the
cases the scripts name ("A runner kill/timeout or incomplete CloudFormation deployment
requires inspection"); `Leaves` lists the steps, all of them after a stack has been asked
for, and `Brings` is for the request itself whose answer is lost.  A failure before that
leaves nothing to inspect.  It is cleared by a later run that succeeds.

Merged or left out: the two nodes of a version are created, started and stopped
together; the storage stack, the dictionaries and the package precede the compute stack
and a failure there is a failure of that step; `*_FAILED` states of stacks, which the
driver treats as the end of a failed deployment; who owns a stack.

Something the model makes plain: after an update was rolled back, deploying what the
stack already holds is answered with "No updates" and then refused for its state, so
only another version can be deployed.  The run ends red, as `deploy()` says.

### DictionaryCatalog

The checkout (`manifest`, `lists`), the bucket (`objects` under the prefix of each
manifest, `catalogs`), deployments (`pc`, and the variables of the script) and
requests.  A version is a manifest; `Expected` gives the content whose digest it
lists.

| action | code |
|---|---|
| `StartCorpus`, `WriteList`, `WriteManifest`, `StopCorpus` | `build_corpus.main`: the lists in order, the manifest last |
| `ReadManifest`, `ReadList` | `publish_dictionaries`: one file at a time, compared with the manifest; a mismatch ends the script |
| `PutList`, `PutCatalog` | its puts; the manifest and the licences are put between them and nobody reads them |
| `Configure` | `deploy_aws` or `public_api` starts an API with the key it got; older APIs keep theirs |
| `Abandon` | an error or the end of the script at any step |
| `List`, `Load`, `Answer` | `S3DictionaryRepository.load` (its `list()` and its read) and the route |

That a list which matches its digest is well-formed is taken from `build_corpus`,
which writes the digests; `publish_dictionaries` checks it again.  `Oversized` are
versions that it accepts and `list()` refuses (a list of more than 100 000 words):
`LoadsSucceed` excepts them.

### GraphPartition

`build_partition` for every partition, one word per step, in any order (the code
sorts): the word is joined to the words already in its buckets, and enters them.
The buckets are not kept: `Met` computes what they offer from the words visited.
`home` assigns patterns to partitions and stands for the SHA-256 digest: any fixed
assignment.  `Merge` is one round of the loop of `merge_partitions`, and may happen
in any order and more than once.  The properties are stated without patterns, with
`OneApart`.

## 3. Runs, bounds and what they show

| run | instance | states | shows |
|---|---|---|---|
| `sqlite_safety` | reducer with 2 partitions, 2 workers with one id, 2 attempts, lease of 2 ticks | 106 171 | all the safety of the local deployment and that it implements the contract |
| `sqlite_live` | reducer with 1 partition, 2 workers of which one may stop for ever | 20 485 | every stored job ends |
| `aws_workers` | reducer with 1 partition, 2 workers, 1 reconciler, 2 attempts, 1 tick | 471 631 | races of two workers and a reconciler for one row |
| `aws_reducer` | reducer with 2 partitions, 1 worker, 2 reconcilers | 1 638 926 | two callers of `reconcile`; merges miss nothing |
| `aws_live` | reducer with 1 partition, 1 worker, 1 reconciler | 19 409 | every stored job ends although no message is sent at submission |
| `memory_jobs` | 3 jobs, 2 threads with one id, 2 attempts, 1 tick | 163 173 | the deque agrees with the records and keeps the order of waiting; one holder per job |
| `path_search` | every graph on 4 words, limits 0, 1, 2 and 20 | 335 500 | what the search reports is true, whatever stopped it |
| `graph_queries` | every graph on 5 words, thresholds 0 to 4, every pair of words | 152 224 | the core, its connected parts, the first shortest path |
| `catalog` | 2 versions with one of 2 lists in common, 2 deployments, 1 request | 92 568 | a catalogue names only what is there |
| `submissions` | 3 calls, 12 requests, one good key | 100 123 | one key is one job in all three repositories |
| `deployment` | 3 workflows, 2 versions | 182 214 | nodes left running and a function left open only where the scripts say so |
| `partitions` | 5 words over 2 letters, 2 partitions | 34 848 | every assignment of patterns, every order of visits and merges |

Why these bounds are enough to meet the interesting cases: two attempts give one
retry and one exhaustion; two workers with one `worker_id` are the smallest case in
which comparing the id is not comparing the reservation; two partitions let one be
given up while the other still runs, and let a merge miss one; with a lease of two
ticks a reservation can be renewed half-way, with one tick it is live or lapsed,
which is all the code compares.  Nothing is bounded in the guards of the actions:
attempts are bounded by the code, tokens by attempts, stamps by submissions, and
graphs by claims.  Two submissions with different `created_at` (the order of
`Oldest`) are within the specification and the proofs but not in these instances,
which hold one submission.  Three jobs in memory are one reserved, one ahead and one
behind.  Four words have up to five simple paths between two of them, of all lengths; five
words are enough for a removal that brings down a neighbour of a neighbour, for two
regions joined only through a word that is removed, and for two shortest paths that part
and meet again.  Three calls are one that is stored, one that races it and one that
comes after; the requests of the instance hold the same words in another order and in
capitals, fewer words, other numbers of partitions, a source, no words and a bad key.
Three workflows are a deployment, one that goes wrong, and one that meets what the second
left; two versions are an update and a return to what was there.  `MaxRuns` is the one
bound in a guard (`Begin`).

The properties:

* `OneHolder` - two processes never both pass the ownership check for one job.
* `LastClaimPublishes` - a recorded result is the graph of the last reservation.
* `PublishedWhole` - it is saved, and holds the words of every partition.
* `ReducerOverConfirmed` - a reducer is reserved only over partitions that
  succeeded, and they stay so.  On AWS the test of dependencies in `claim_next` is a
  second line of defence: only `reconcile` sends messages, after the same test, and
  what breaks the property there is a put that undoes a partition's success.
* `NoVainWait` (SQLite) - no transaction leaves a reducer waiting for a partition
  that was given up.  It does not hold on AWS, where `reconcile` does it later;
  there `EveryJobSettles` says that it is done.
* `GivenUpForCause` - a job fails only with its attempts spent or after a partition.
* `LapsedStaysLapsed` (SQLite) - a reservation that has run out is neither renewed nor
  completed nor failed: nothing in its row changes until `claim_next` recovers it, which
  ends the reservation and leaves the result alone.  It does not hold on AWS, where a renewal that read a live lease may be put after its end;
  what holds there is `OnlyLapsedAreTaken`: a row is taken from its worker only
  while its lease has run out, also when a renewal lands between scan and put.
* `FailedBeatVetoes` - a worker one of whose renewals failed does not publish under
  that claim, although the claim may still be live.
* `KeepsContract` - refinement of `JobContract`.
* `EveryJobSettles` - liveness, below.
* `QueueExact` - the deque holds the jobs that wait, once each, and no others.
* `NoOvertaking` - while a job waits, no job that was not ahead of it is reserved or
  gets ahead, also not one that is recovered or tried again.
* `FirstInOrder` - at every moment of a search the paths found are the first of all
  answers in alphabetical order: none wrong, none skipped, none repeated.
* `ReportExact` - `complete=True` means that there is no other path of any length and
  that the longest is the longest; `max_depth` means the same within the depth.
* `BestOfMet` - whatever stopped the search, and whether it collects paths or only looks
  for the longest (`longest_simple_path`), the answers met so far are the first in
  alphabetical order, those collected are exactly these, and best is the longest of them.
* `CoreFound` - what is left is the greatest part of minimum degree k (`Core`, defined
  without removing anything).
* `CatalogWhole` - every object a catalogue names is in the bucket and is what the
  catalogue says, also while the corpus is built anew under a publication, and with
  two deployments of the same or of different versions that may end half-way.
* `LoadsSucceed` - an API never answers that a dictionary of its catalogue is missing
  or corrupt (S3 out of reach apart).
* `RegionsExact` - `dense_subgraphs` returns the connected parts of the core, each whole
  and once, in the order of their first words; those returned so far are right at any time.
* `FirstOfShortest` - the answer of `shortest_path` is a shortest path and of those the
  first in alphabetical order; it is empty exactly when some set of words that no
  edge leaves separates the two.
* `StoredWhole` - whatever breaks off, a row's words are there before the row is, a
  reducer is stored with all its partitions over the same words, and no partition
  without its reducer.
* `KeepsPromise` - refinement of `SubmissionContract`.
* `GreenMeansStopped` - a green pipeline deployed what it was given and left no node
  running, its own or of an earlier version, also after runs that gave up while
  CloudFormation went on.
* `LeftRunningForCause` - nodes run after a workflow only if it was killed, ended before
  it had recorded them but after it had asked for the stack, could not stop them, or
  somebody started them.
* `StopsOnlyOwn` - a workflow stops no nodes but those it recorded itself.
* `OpenIsChecked` - between workflows the function is closed or serves code that passed
  its smoke test, unless a workflow ended between asking for the stack and the test, or
  could not close it.  A pause while an update is under way falls under the exception, so
  hazard 40 (the update takes back what the pause has set) is not covered.
* `PartsExact`, `MergedWhole` - each part has the edges of its own patterns and no
  others; merged they are the word graph.

Each property is accompanied by a fault (`Holds_ByName`, `Propagated_No`, ...): a
changed definition, written next to the one it spoils, under which the same run
finds the property violated.  `mutants` in `PROJECT.json` pairs them.

`aws_live` switches deadlock checking off: once every job has ended and the queue
is empty, the one worker that is never killed and the reconciler have nothing more
to do.  So do `path_search` and `graph_queries`, because a query ends, `submissions`,
where every call is answered, and `deployment`, where `MaxRuns` workflows have run.

Some type invariants are proved and not run again: those of `SQLiteJobs`, `AwsJobs`,
`MemoryJobs`, `Peeling`, `DictionaryCatalog` and `GraphPartition`, and `BoundedTypeOK` of `PathSearch`.

## 4. Fairness

*SQLite.*  Time passes (`WF(Tick)`).  A process that is alive goes on
(`WF(Run(w))`): `worker_cli` polls in a loop, a build is a finite computation, and
each database call returns or raises within its busy timeout.  Errors are steps of
`Run(w)`, so nothing says that a build ever succeeds: a job may end FAILED.
Nothing is assumed of the API, of renewals, crashes or restarts.  One worker is
`Reliable`; the other may crash and never come back.

*AWS.*  The same, and that AWS does not fail for ever: a message that is sent again
and again is received some day by a reliable worker (`SF(Receive)`), a reservation
that is tried again and again is applied some day (`SF(Reserve)`), `reconcile`, which
pages through the whole table, comes to every row again and again (`SF(Scan)`) and
what it tries there is done some day (`SF(Expire)`, `SF(GiveUp)`, `SF(Announce)`).
Strong fairness is needed because a call may be disabled again by a failure or a
competing put.  That a body or a renewal succeeds is assumed nowhere.

## 5. What is proved

`SQLiteJobsProofs` proves, for any jobs, workers, attempts and lease, from
`JobsAssumption`, `WorkersAssumption` and `LeaseAssumption`, every safety property
of `SQLiteJobs` and the refinement of the contract.  None of them is inductive
alone.  The invariant comes in three layers, each using those below:

1. `Typed`: types; a process has a claim exactly between `claim_next` and the end
   of `run_once`; reducers and partitions are stored together.
2. `Reservations`: `RowShape` (owner, token and lease are filled in RUNNING rows and
   only there, and the token is the last one issued), `AttemptsCounted` (tokens
   issued = attempts ≤ `MaxAttempts`; a PENDING job has one left) and `ClaimsUnique`
   (a claim is in the hands of one process).  From these: two processes that pass
   the check hold the last token of the job, hence the same claim, hence are one
   (`OneHolderHolds`).
3. `Publications`: graphs saved or about to be are whole, a result is recorded in
   SUCCEEDED rows only and names the last claim, and the relations between a
   reducer and its partitions.  This needs layer 2, because a process at `publish`
   with a stale claim must be stopped by the token.

`ImplementsContract` maps every action to a step of `JobContract` or a stutter; it
rests on `MovesStep`, which says for each job which of the five moves each action
makes.

`GraphPartitionProofs` proves `PartsExact` and `MergedWhole` for any finite or
infinite set of words, any alphabet without `*`, any number of partitions and any
assignment of patterns.  Two lemmas are the heart: words with a pattern in common
have the star at the same place and are one letter apart (`CommonPattern`), and the
converse (`SharedPattern`); so a pair has one pattern and one partition.  The
invariant says that a builder has joined exactly the pairs of its partition among
the words it visited (`PartsTrue`), and that the merged graph is the union of the
merged parts (`MergeTrue`).

`AwsJobsProofs` proves every safety property of `AwsJobs` and the refinement of the
contract, from `JobsAssumption`, `WorkersAssumption` and `AwsAssumption` (Null is not
the name of a status).  There is no transaction to lean on, so the layer in the middle is
about readers:

1. `Typed`: types, and which steps hold a claim or a row.
2. `Reservations`: `FreshTrue` says that whoever is `fresh` still finds the row as it read
   it (a worker before its put: ready, or still reserved by its own token; a reconciler:
   the status it read, and lapsed if RUNNING).  It holds because every put takes all
   readers of that row out of `fresh`.  With it a conditional put is as good as a
   transaction, and `AttemptsCounted` and `ClaimsUnique` follow as for SQLite, although a
   put may be applied and reported as failed.
3. `Publications`, as above; a reducer is announced only over partitions whose success no
   put undoes.

`OnlyLapsedAreTaken` and the veto of a failed renewal are action properties that follow
from the same invariant.

`MemoryJobsProofs` proves every property of `MemoryJobs`, from `JobsAssumption`,
`WorkersAssumption` and `MemoryAssumption`.  The records and the claims are as in the
other two; what is new is the deque.  `QueueExact` is inductive with them, because what is
appended, by recovery or by `fail`, was RUNNING and so was not in it (`QueueFacts`,
`AppendFacts`).  Recovery appends in any order, and that each recovered job comes once is
a count: a list as long as the set it runs through has no repetitions (`InOrder`).  The
queue after recovery then begins with the queue before it and holds PENDING jobs only, so
`claim_next` takes its first entry (`ClaimFacts`).  That is `NoOvertaking`: when somebody
waits, the first entry was waiting too, and what is appended stays behind
(`AppendedStayBehind`).

`SubmissionsProofs` proves `TypeOK`, `StoredWhole` and the refinement `KeepsPromise` for
any calls, keys and requests, from `SubmissionsAssumption`, `WordsAssumption` and
`NoneAssumption`.  An id belongs to one request or to one call, so the rows under it are
those of one call, the one whose row was there first (`WritersWhole`, `RowsWritten`); a
call that finds them compares digests, and equal digests are equal meanings, because
`normalize_words` gives each set of words one list (`WordsFacts`).  That list is said to
be the alphabetical one (`CHOOSE` over `Alphabetical`) and not computed, since nothing
recursive can be reasoned about; it is shown to exist and to be the only one.

`DeploymentProofs` proves `TypeOK` and the four properties of `Deployment` for any number
of workflows and versions, from `DeploymentAssumption`.  CloudFormation goes on at its own
pace, also after the workflow that asked, so the invariant says of each status of a stack
what it leaves behind, and of each step what the workflow has reached:

1. `Typed`: which steps belong to which workflow, and when the metadata is written.
2. `Deployed`: only nodes of its template are left of a stack at rest (`NodesOfStack`); a
   pipeline that waits, waits for its own version (`OnItsWay`), and past its stack runs
   exactly that (`Reached`).
3. `Watched`: unless somebody was told to inspect, nodes that run are nodes the workflow at
   hand waits for or will stop, and the function is closed or checked.

`GraphQueriesProofs` proves the properties of all four queries for every finite set of
words and every graph, from `NodesAssumption`, `LimitsAssumption`, `ThresholdsAssumption`
and `MarksAssumption` (the marks None and Start are no words).

* *The limited search* (`BoundedInv`, of `BoundedSpec`).  Every entry of the stack is a
  simple path within the depth (`StackTrue`); every path there is has been dealt with or
  extends an entry of the stack (`Covered`), except, once `pruned`, those beyond the
  depth; what was found and what is on the stack are in alphabetical order (`Ordered`).
  `Covered` with an empty stack gives the report.  With `Ordered` it gives the rest at
  every moment: a path not dealt with extends an entry of the stack, and all of those come
  after what was found.  When paths are not collected, `MetFirst` takes the place of what
  was found: the answers met come before everything that is still on the stack, and best
  is the longest of them (`BestOfMet`).
* *The core.*  `LowAreQueued` is inductive together with `TypeOK` and `DenseStays` (no
  word of a dense part is ever removed); when the queue is empty what remains is dense
  itself (`CoreFound`).
* *The groups.*  `RegionsExact` needs `GroupsTrue`: a word that was looked at has its
  neighbours in its group, and any part of the core that is closed under neighbours and
  has one word of the group has them all.  When nothing waits, the group is closed and
  connected, and it is apart from those returned before.
* *The path.*  For `FirstOfShortest`, remember with each known word the *way* by which it
  was found.  Ways are compared by length and then alphabetically (`Sooner`); words wait
  in the order of their ways (`InOrder`), and a way is sooner than any other route to its
  word (`Soonest`): a route leaves the known words through one that waits (`WayOut`), and
  nobody who waits has a sooner way than the head.  The variables hold predecessors and
  not ways, so the invariant says that some assignment of ways agrees with them; that
  following the predecessors reads the way back is shown by the least place where it
  would not (`WayIsRead`).  Both that and the order use the well-foundedness of the
  natural numbers in the form of a least element, which needs no theorem with an operator
  parameter.

`DictionaryCatalogProofs` proves `CatalogWhole` and `LoadsSucceed` for any versions,
lists, deployments and requests, from `CatalogAssumption`.  A publication holds only
what its version expects (`HeldTrue`), so a put stores what belongs there, over nothing
or over the same; a version is listed when all its objects have been put (`SentTrue`),
and served when it is listed (`ServingTrue`).

Model-checked only: the two liveness properties (`EveryJobSettles` in `sqlite_live` and
`aws_live`), since fairness and `ENABLED` are beyond the prover.  Every invariant and every
action property the runs check, and the four refinements, are proved.  That the queries
end is not stated as a property: it follows from `BoundedTypeOK` of `PathSearch` (no more
states than the limit) and from `LowAreQueued` of `Peeling` (the queue of `k_core` holds
exactly the words of low degree that remain, so each round removes one).

The assumptions on constants are of two kinds: what the code guarantees of its inputs
(partitions have fresh ids and belong to one reducer; a source is sent with partitioned
builds only; a digest in a manifest is of a list the corpus builder wrote), and that the
values standing for "nothing" are none of the others.  TLC evaluates them in the runs.

## 6. What is not modelled

* Error texts, dates shown to clients, logging, the kind of the payload.
* Real durations.  The model knows that a lease has run out or not; it does not
  know that renewals come every third of a lease.  So it cannot tell how often a
  short lease lapses (on AWS up to a second of it is lost to rounding), only that
  lapsing is safe.
* The rest of the HTTP layer: `POST /v1/graphs` builds and saves in one request, the
  other routes read, the response models copy fields.  Browser sessions and passwords:
  each request is decided from its cookie and the clock; what could be wrong is a
  comparison or the cryptography.
* CloudFormation templates, shell snippets, `setup_lab_runner` (one loop of the form of
  `deploy()`), the benchmarks: data, or scripts that nothing runs beside.
* `nodes_by_degree` and the counts of `summary`: single passes over a graph.
* Of `AwsJobs`: the receipts dictionary, and S3 objects left behind.

## 7. Plan

All that the runs check and the prover can reach is proved.  What could follow:

1. As theorems, the arguments by which the queries end (each round of `k_core` removes a
   word, the counter of the limited search has a bound), stated as action properties.
2. Of `Submissions` and `Deployment`, further properties that relate two workflows or two
   calls, checked first.
3. Shorter proofs: lemmas that the three repositories have in common (`ClaimsKept`,
   `ClaimsUnique`) moved to where `GraphWorker` is.
