---------------------------- MODULE Submissions ----------------------------
(***************************************************************************)
(* Submitting a build: graphword/trabajos/submissions.py, create and       *)
(* create_partitioned_build of the three job repositories, and the routes  *)
(* that call them.                                                         *)
(*                                                                         *)
(* In memory and in SQLite a submission is one critical section.  On AWS   *)
(* it looks for a stored row, uploads the words, puts its rows on          *)
(* condition that none has their ids, and, when they are refused, looks    *)
(* again; other calls go on between any two of these.  Any call may break  *)
(* off at any step, and the client that makes it again cannot know what    *)
(* was stored.  A repeated call is another member of Calls.                *)
(*                                                                         *)
(* What workers do to the rows afterwards (AwsJobs, SQLiteJobs) is left    *)
(* out: they change neither payload nor request_hash and delete nothing.   *)
(***************************************************************************)
EXTENDS Integers, Sequences, FiniteSets, Functions

CONSTANTS Calls,        \* one per POST that a client sends
          Keys,         \* values of the Idempotency-Key header
          BadKeys,      \* those that are not 1..128 visible ASCII characters
          NoKey,        \* the header is absent
          Requests,     \* what clients may send
          Normal,       \* the word a line is, once stripped and in lower case
          NoWord,       \* the line is not a word of English letters
          None

ASSUME SubmissionsAssumption ==
    /\ BadKeys \subseteq Keys /\ NoKey \notin Keys
    /\ Requests \subseteq [kind : {"GRAPH_BUILD", "REDUCE_GRAPH"},
                           key : Keys \cup {NoKey}, words : Seq(DOMAIN Normal),
                           partitions : Int, source : STRING \cup {None}]
    /\ \A r \in Requests : r.kind = "GRAPH_BUILD" => r.source = None

\* A word stands for its place in the alphabetical order, and is its own spelling.
ASSUME WordsAssumption ==
    \A t \in DOMAIN Normal : Normal[t] # NoWord =>
        Normal[t] \in Int \cap DOMAIN Normal /\ Normal[Normal[t]] = Normal[t]

VARIABLES store,        \* which repository the API was started with
          jobs,         \* the rows: job id -> row or None
          keys,         \* table submission_keys of SQLite
          objects,      \* inputs/<uuid>.json in S3: the call that put it -> words
          pc,           \* where each call is
          request,      \* what it sent
          answer        \* what it was told

vars == <<store, jobs, keys, objects, pc, request, answer>>

-----------------------------------------------------------------------------
(* Identity.                                                               *)

Partitions == 1..64

WordsIn(lines) == {Normal[t] : t \in Range(lines)} \ {NoWord}

Alphabetical(S) ==
    {s \in [1..Cardinality(S) -> S] : \A i, j \in DOMAIN s : i < j => s[i] < s[j]}

normalize_words(lines) == CHOOSE s \in Alphabetical(WordsIn(lines)) : TRUE

\* The uuid5 of kind and key, or a fresh uuid4.
JobId(c) == LET r == request[c]
            IN IF r.key = NoKey THEN <<"uuid4", c>> ELSE <<r.kind, r.key>>
Keyed(c) == request[c].key # NoKey
PartId(c, p) == <<"uuid4", c, p>>

StableIds == {"GRAPH_BUILD", "REDUCE_GRAPH"} \X Keys
TopIds == StableIds \cup ({"uuid4"} \X Calls)
PartIds == {PartId(c, p) : c \in Calls,
              p \in UNION {0..(r.partitions - 1) : r \in Requests}}
JobIds == TopIds \cup PartIds

\* The digest of the request as canonical JSON; max_attempts is always 3.
Fingerprint(r) == <<r.kind, normalize_words(r.words), r.partitions, r.source>>
RequestHash(c) == IF Keyed(c) THEN Fingerprint(request[c]) ELSE None

\* What pydantic and the header's pattern let through.
Valid(r) == r.words # <<>> /\ r.partitions \in Partitions /\ r.key \notin BadKeys

-----------------------------------------------------------------------------
(* Rows.  `words` is the payload's list, or None when it is the object     *)
(* `inputs`; `created` stands for created_at, by the call whose clock it   *)
(* is.                                                                     *)

Single(c, words, inputs) ==
    [kind |-> "GRAPH_BUILD", words |-> words, inputs |-> inputs,
     partitions |-> request[c].partitions, parts |-> {}, source |-> None,
     request_hash |-> RequestHash(c), created |-> c]

PartsOfCall_OneMore(c) == {PartId(c, p) : p \in 0..request[c].partitions}

PartsOfCall(c) == {PartId(c, p) : p \in 0..(request[c].partitions - 1)}

Part(c, words, inputs) ==
    [kind |-> "BUILD_PARTITION", words |-> words, inputs |-> inputs,
     partitions |-> request[c].partitions, parts |-> {}, source |-> None,
     request_hash |-> None, created |-> c]

Reducer(c) ==
    [kind |-> "REDUCE_GRAPH", words |-> None, inputs |-> None,
     partitions |-> None, parts |-> PartsOfCall(c), source |-> request[c].source,
     request_hash |-> RequestHash(c), created |-> c]

WithRows_Alone(c, words, inputs) ==
    [jobs EXCEPT ![JobId(c)] = IF request[c].kind = "GRAPH_BUILD"
                                 THEN Single(c, words, inputs) ELSE Reducer(c)]

\* The rows of a submission: all of them in one transaction.
WithRows(c, words, inputs) ==
    IF request[c].kind = "GRAPH_BUILD"
      THEN [jobs EXCEPT ![JobId(c)] = Single(c, words, inputs)]
      ELSE [i \in JobIds |-> IF i = JobId(c) THEN Reducer(c)
                             ELSE IF i \in PartsOfCall(c) THEN Part(c, words, inputs)
                             ELSE jobs[i]]

-----------------------------------------------------------------------------
(* Answers: the job's snapshot with 202, 409, 422, or 500 and worse.       *)

Snapshot(i, row) == [code |-> "accepted", job |-> i, created |-> row.created]

Says(c, a) == answer' = [answer EXCEPT ![c] = a] /\ pc' = [pc EXCEPT ![c] = "done"]
Goes(c, step) == pc' = [pc EXCEPT ![c] = step] /\ UNCHANGED answer

\* require_same_request, and the stored row when it passes.
Replays(c, hash, row) ==
    Says(c, IF hash = RequestHash(c) THEN Snapshot(JobId(c), row)
                                     ELSE [code |-> "conflict"])

Init ==
    /\ store \in {"memory", "sqlite", "aws"}
    /\ jobs = [i \in JobIds |-> None]
    /\ keys = [i \in StableIds |-> None]
    /\ objects = [c \in Calls |-> None]
    /\ pc = [c \in Calls |-> "idle"]
    /\ request = [c \in Calls |-> None]
    /\ answer = [c \in Calls |-> None]

\* The route: validation, and 503 for partitions without a repository for them.
Post(c, r) ==
    /\ pc[c] = "idle"
    /\ request' = [request EXCEPT ![c] = r]
    /\ IF ~Valid(r) THEN Says(c, [code |-> "refused"])
       ELSE IF store = "memory" /\ r.kind = "REDUCE_GRAPH"
         THEN Says(c, [code |-> "error"])
       ELSE Goes(c, IF store = "aws" THEN "replay" ELSE "create")
    /\ UNCHANGED <<store, jobs, keys, objects>>

\* InMemoryJobRepository.create, under its lock.
MemoryCreate(c) ==
    /\ pc[c] = "create" /\ store = "memory"
    /\ LET old == jobs[JobId(c)]
       IN IF old # None
            THEN Replays(c, old.request_hash, old) /\ UNCHANGED jobs
            ELSE /\ jobs' = WithRows(c, request[c].words, None)
                 /\ Says(c, Snapshot(JobId(c), jobs'[JobId(c)]))
    /\ UNCHANGED <<store, keys, objects, request>>

NoWords(c) == normalize_words(request[c].words) = <<>>

\* create and create_partitioned_build of SQLite up to the commit.
SQLiteCreate(c) ==
    LET r   == request[c]
        old == IF Keyed(c) THEN keys[JobId(c)] ELSE None
    IN /\ pc[c] = "create" /\ store = "sqlite"
       /\ IF r.kind = "REDUCE_GRAPH" /\ NoWords(c)
            THEN Says(c, [code |-> "refused"]) /\ UNCHANGED <<jobs, keys>>
          ELSE IF old # None
            THEN Replays(c, old.request_hash, jobs[old.job]) /\ UNCHANGED <<jobs, keys>>
          ELSE /\ jobs' = WithRows(c, IF r.kind = "GRAPH_BUILD" THEN r.words
                                        ELSE normalize_words(r.words), None)
               /\ keys' = IF Keyed(c)
                            THEN [keys EXCEPT ![JobId(c)] =
                                    [request_hash |-> RequestHash(c), job |-> JobId(c)]]
                            ELSE keys
               /\ Goes(c, "get")
       /\ UNCHANGED <<store, objects, request>>

\* return self.get(job_id), on another connection.
SQLiteGet(c) ==
    /\ pc[c] = "get"
    /\ Says(c, Snapshot(JobId(c), jobs[JobId(c)]))
    /\ UNCHANGED <<store, jobs, keys, objects, request>>

\* _replay before anything is written.
AwsReplay(c) ==
    /\ pc[c] = "replay"
    /\ LET old == IF Keyed(c) THEN jobs[JobId(c)] ELSE None
       IN IF old = None THEN Goes(c, "payload")
                        ELSE Replays(c, old.request_hash, old)
    /\ UNCHANGED <<store, jobs, keys, objects, request>>

\* _payload: the words go to S3, the row gets their key.
AwsPayload(c) ==
    /\ pc[c] = "payload"
    /\ IF NoWords(c)
         THEN Says(c, [code |-> "refused"]) /\ UNCHANGED objects
         ELSE /\ objects' = [objects EXCEPT ![c] = normalize_words(request[c].words)]
              /\ Goes(c, "put")
    /\ UNCHANGED <<store, jobs, keys, request>>

Fits_Always(c) == TRUE

Fits(c) == jobs[JobId(c)] = None
Applied(c) == Fits(c) /\ jobs' = WithRows(c, None, c)

\* The conditional put, or the transaction of conditional puts.
AwsPut(c) == pc[c] = "put" /\ Applied(c) /\ Says(c, Snapshot(JobId(c), jobs'[JobId(c)]))

\* The put is applied and its answer lost.  The client's second try of put_item
\* meets its own row; that of a transaction carries the same request token, and is
\* answered as the first was.
AwsPutTwice(c) ==
    /\ pc[c] = "put" /\ request[c].kind = "GRAPH_BUILD" /\ Applied(c)
    /\ IF Keyed(c) THEN Goes(c, "reread") ELSE Says(c, [code |-> "error"])

\* The put is applied, and the second try fails as well.
AwsPutUnknown(c) == pc[c] = "put" /\ Applied(c) /\ Says(c, [code |-> "error"])

\* Refused: there is a row, or, for a transaction, another one is under way on it.
Contended(c) ==
    /\ request[c].kind = "REDUCE_GRAPH"
    /\ \E d \in Calls \ {c} : pc[d] = "put" /\ JobId(d) = JobId(c)

AwsRefused(c) ==
    /\ pc[c] = "put" /\ (~Fits(c) \/ Contended(c))
    /\ Goes(c, "reread")
    /\ UNCHANGED jobs

AwsStore(c) ==
    /\ AwsPut(c) \/ AwsPutTwice(c) \/ AwsPutUnknown(c) \/ AwsRefused(c)
    /\ UNCHANGED <<store, keys, objects, request>>

\* _replay after a refusal; no row, and the refusal is raised.
AwsReread(c) ==
    /\ pc[c] = "reread"
    /\ LET old == jobs[JobId(c)]
       IN IF old = None THEN Says(c, [code |-> "error"])
                        ELSE Replays(c, old.request_hash, old)
    /\ UNCHANGED <<store, jobs, keys, objects, request>>

\* A call to the store raises what no route catches, the process ends, or the answer
\* does not arrive.
Break(c) ==
    /\ pc[c] \notin {"idle", "done"}
    /\ Says(c, [code |-> "error"])
    /\ UNCHANGED <<store, jobs, keys, objects, request>>

Handle(c) ==
    \/ MemoryCreate(c)
    \/ SQLiteCreate(c) \/ SQLiteGet(c)
    \/ AwsReplay(c) \/ AwsPayload(c) \/ AwsStore(c) \/ AwsReread(c)

Next ==
    \E c \in Calls :
        (\E r \in Requests : Post(c, r)) \/ Handle(c) \/ Break(c)

Spec == Init /\ [][Next]_vars

-----------------------------------------------------------------------------
(* Properties.                                                             *)

Lists == {r.words : r \in Requests} \cup {normalize_words(r.words) : r \in Requests}
Hashes == {Fingerprint(r) : r \in Requests}

Rows == [kind : {"GRAPH_BUILD", "REDUCE_GRAPH", "BUILD_PARTITION"},
         words : Lists \cup {None}, inputs : Calls \cup {None},
         partitions : Partitions \cup {None}, parts : SUBSET PartIds,
         source : {r.source : r \in Requests} \cup {None},
         request_hash : Hashes \cup {None}, created : Calls]

Answers == [code : {"accepted"}, job : TopIds, created : Calls]
             \cup [code : {"conflict", "refused", "error"}]

KeyRows == [request_hash : Hashes, job : TopIds]

\* Every variable has its type, and a call has its answer exactly when it has ended.
TypeOK ==
    /\ store \in {"memory", "sqlite", "aws"}
    /\ jobs \in [JobIds -> Rows \cup {None}]
    /\ keys \in [StableIds -> KeyRows \cup {None}]
    /\ objects \in [Calls -> Lists \cup {None}]
    /\ pc \in [Calls -> {"idle", "create", "get", "replay", "payload", "put",
                         "reread", "done"}]
    /\ request \in [Calls -> Requests \cup {None}]
    /\ answer \in [Calls -> Answers \cup {None}]
    /\ \A c \in Calls : /\ answer[c] # None <=> pc[c] = "done"
                        /\ request[c] = None <=> pc[c] = "idle"

Stored == {i \in JobIds : jobs[i] # None}

\* The words a worker that reserves the row will read.
InputOf(row) == IF row.inputs = None THEN row.words ELSE objects[row.inputs]

\* Whatever breaks off, and whoever submits at the same time: a row's input is there
\* before the row is, a reducer is stored with all its partitions, each over the whole
\* list, and no partition without its reducer.  create_partitioned_build (SQLite: one
\* transaction; AWS: the upload, then transact_write_items) relies on it, and a worker
\* that met the opposite would spend all its attempts.
StoredWhole ==
    \A i \in Stored :
        LET row == jobs[i]
        IN /\ row.kind # "REDUCE_GRAPH" => InputOf(row) \notin {None, <<>>}
           /\ row.kind = "REDUCE_GRAPH" =>
                 /\ row.parts \subseteq Stored
                 /\ \A p \in row.parts :
                       /\ jobs[p].kind = "BUILD_PARTITION"
                       /\ jobs[p].partitions = Cardinality(row.parts)
                       /\ InputOf(jobs[p]) = normalize_words(request[row.created].words)
           /\ row.kind = "BUILD_PARTITION" =>
                 \E j \in Stored : i \in jobs[j].parts

-----------------------------------------------------------------------------
(* The contract.  What a call means and what a stored job means are said   *)
(* without digests: the kind, the set of words, the number of partitions   *)
(* and the source.                                                         *)

Meaning(r) == [kind |-> r.kind, words |-> WordsIn(r.words),
               partitions |-> r.partitions, source |-> r.source]

MeaningOf(row) ==
    LET parts == {jobs[p] : p \in row.parts}
        builds == IF row.kind = "REDUCE_GRAPH" THEN parts \ {None} ELSE {row}
    IN [kind |-> row.kind,
        words |-> UNION {WordsIn(InputOf(b)) : b \in builds},
        partitions |-> IF row.kind = "REDUCE_GRAPH" THEN Cardinality(row.parts)
                                                    ELSE row.partitions,
        source |-> row.source]

\* What the repository finds under an id: SQLite looks in submission_keys.
Found(i) == IF store = "sqlite" /\ i \in StableIds
              THEN IF keys[i] = None THEN None ELSE jobs[keys[i].job]
              ELSE jobs[i]

\* Calls turned away at the door ask for nothing.
Inside(c) == /\ request[c] # None /\ Valid(request[c])
             /\ ~(store = "memory" /\ request[c].kind = "REDUCE_GRAPH")

Meanings == {Meaning(r) : r \in Requests}

Asked == [c \in Calls |-> IF Inside(c) THEN [id |-> JobId(c), meaning |-> Meaning(request[c])]
                                        ELSE None]

Book == [i \in TopIds |->
           IF Found(i) = None THEN None
           ELSE [by |-> Found(i).created, meaning |-> MeaningOf(Found(i))]]

Told == [c \in Calls |->
           IF ~Inside(c) \/ answer[c] = None THEN None
           ELSE IF answer[c].code = "accepted"
             THEN [code |-> "accepted", by |-> answer[c].created]
             ELSE answer[c]]

ASSUME NoneAssumption ==
    /\ None \notin Requests /\ None \notin Calls /\ None \notin Lists
    /\ None \notin Rows /\ None \notin KeyRows /\ None \notin Answers
    /\ None \notin [id : TopIds, meaning : Meanings] \cup [by : Calls, meaning : Meanings]
                       \cup [code : {"accepted"}, by : Calls]

Contract == INSTANCE SubmissionContract WITH
    Ids <- TopIds, Meanings <- Meanings, asked <- Asked, book <- Book, answer <- Told

\* One key stands for one job and one request, in all three repositories: calls that
\* repeat it, in any spelling and order of the words, at the same time or after an
\* answer was lost, get that job; a call that means something else gets a conflict,
\* and a refused call has stored nothing.
KeepsPromise == Contract!ContractSpec
=============================================================================
