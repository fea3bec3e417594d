-------------------------- MODULE SubmissionsProofs --------------------------
(***************************************************************************)
(* Submissions keep their promise, for any number of calls, keys and       *)
(* requests, in each of the three repositories.                            *)
(*                                                                         *)
(* The argument: an id belongs to one request or to one call, so the rows  *)
(* under it are the rows of one call, the one whose row was the first      *)
(* (WritersWhole, RowsWritten); and equal digests are equal meanings, as   *)
(* normalize_words gives each set of words one list (WordsFacts).          *)
(***************************************************************************)
EXTENDS Submissions, FiniteSetTheorems, TLAPS

\* The rows a call writes, and what it writes there.
WordsOf(c) ==
    CASE store = "memory" -> request[c].words
      [] store = "sqlite" -> IF request[c].kind = "GRAPH_BUILD" THEN request[c].words
                             ELSE normalize_words(request[c].words)
      [] store = "aws"    -> None

InputsOf(c) == IF store = "aws" THEN c ELSE None

Members(c) ==
    {JobId(c)} \cup IF request[c].kind = "REDUCE_GRAPH" THEN PartsOfCall(c) ELSE {}

RowOf(c, i) ==
    IF i # JobId(c) THEN Part(c, WordsOf(c), InputsOf(c))
    ELSE IF request[c].kind = "GRAPH_BUILD" THEN Single(c, WordsOf(c), InputsOf(c))
    ELSE Reducer(c)

Wrote(c) == request[c] # None /\ jobs[JobId(c)] # None /\ jobs[JobId(c)].created = c

\* The words are where a worker will read them, and there are some.
HasInput(c) ==
    /\ store = "aws" => objects[c] = normalize_words(request[c].words)
    /\ store = "aws" \/ request[c].kind = "REDUCE_GRAPH" => ~ NoWords(c)

WritersWhole ==
    \A c \in Calls : Wrote(c) =>
        /\ Inside(c) /\ HasInput(c) /\ pc[c] \in {"get", "reread", "done"}
        /\ \A i \in Members(c) : jobs[i] = RowOf(c, i)

RowsWritten == \A i \in Stored : \E c \in Calls : Wrote(c) /\ i \in Members(c)

KeysTrue ==
    store = "sqlite" => \A i \in StableIds :
        keys[i] = IF jobs[i] = None THEN None
                  ELSE [request_hash |-> jobs[i].request_hash, job |-> i]

CallShape ==
    \A c \in Calls :
        /\ pc[c] \notin {"idle", "done"} => Inside(c)
        /\ pc[c] = "create" => store # "aws"
        /\ pc[c] = "get" => store = "sqlite" /\ Wrote(c)
        /\ pc[c] \in {"replay", "payload", "put", "reread"} => store = "aws"
        /\ pc[c] = "put" => HasInput(c)
        /\ pc[c] = "reread" => Keyed(c)

IInv == TypeOK /\ CallShape /\ WritersWhole /\ RowsWritten /\ KeysTrue

-----------------------------------------------------------------------------
(* The list of a set of words.                                             *)

\* A finite set of words has an alphabetical list: the place of a word is the number
\* of words up to it.
LEMMA AlphabeticalExists ==
    ASSUME NEW S \in SUBSET Int, IsFiniteSet(S)
    PROVE  Alphabetical(S) # {}
<1> DEFINE n == Cardinality(S)
           UpTo(x) == {y \in S : y <= x}
           place == [x \in S |-> Cardinality(UpTo(x))]
<1>1. n \in Nat /\ IsFiniteSet(1..n) /\ Cardinality(1..n) = n
    BY FS_CardinalityType, FS_Interval
<1>2. \A x \in S : IsFiniteSet(UpTo(x)) /\ place[x] \in 1..n
  <2> SUFFICES ASSUME NEW x \in S
               PROVE  IsFiniteSet(UpTo(x)) /\ place[x] \in 1..n
    OBVIOUS
  <2>1. UpTo(x) \in SUBSET S /\ x \in UpTo(x)
    OBVIOUS
  <2>2. IsFiniteSet(UpTo(x)) /\ Cardinality(UpTo(x)) <= n
    BY <2>1, FS_Subset
  <2>3. Cardinality(UpTo(x)) \in Nat \ {0}
    BY <2>1, <2>2, FS_CardinalityType, FS_EmptySet
  <2>. QED
    BY <1>1, <2>2, <2>3
<1>3. \A x, z \in S : x < z => place[x] < place[z]
  <2> SUFFICES ASSUME NEW x \in S, NEW z \in S, x < z
               PROVE  place[x] < place[z]
    OBVIOUS
  <2>1. UpTo(x) \in SUBSET UpTo(z) /\ z \in UpTo(z) /\ z \notin UpTo(x)
    <3>1. x \in Int /\ z \in Int /\ \A y \in S : y \in Int
      OBVIOUS
    <3>2. z \in UpTo(z) /\ ~ (z <= x)
      BY <3>1
    <3>3. \A y \in S : y <= x => y <= z
      BY <3>1
    <3>4. UpTo(x) \subseteq UpTo(z)
      BY <3>3
    <3>. QED
      BY <3>2, <3>4
  <2>2. Cardinality(UpTo(x)) <= Cardinality(UpTo(z)) /\ Cardinality(UpTo(z)) # Cardinality(UpTo(x))
    BY <1>2, <2>1, FS_Subset
  <2>. QED
    BY <1>2, <2>2
<1> HIDE DEF place
<1>4. place \in [S -> 1..n]
    BY <1>2 DEF place
<1>5. \A x, z \in S : place[x] = place[z] => x = z
    BY <1>3, <1>4
<1>6. place \in Injection(S, 1..n)
    BY <1>4, <1>5 DEF Injection, IsInjective
<1>7. place \in Surjection(S, 1..n)
    BY <1>1, <1>6, FS_Injection
<1>8. \A i \in 1..n : \E x \in S : place[x] = i
    BY <1>7 DEF Surjection
<1> DEFINE list == [i \in 1..n |-> CHOOSE x \in S : place[x] = i]
<1>9. \A i \in 1..n : list[i] \in S /\ place[list[i]] = i
    BY <1>8
<1>10. list \in [1..n -> S]
    BY <1>9
<1> HIDE DEF list, n
<1>11. \A i, j \in 1..n : i < j => list[i] < list[j]
  <2> SUFFICES ASSUME NEW i \in 1..n, NEW j \in 1..n, i < j, ~ (list[i] < list[j])
               PROVE  FALSE
    OBVIOUS
  <2>1. list[i] \in Int /\ list[j] \in Int /\ place[list[i]] = i /\ place[list[j]] = j
    BY <1>9
  <2>2. list[i] = list[j] \/ list[j] < list[i]
    BY <2>1
  <2>3. list[i] # list[j]
    BY <1>1, <2>1
  <2>4. j < i
    BY <1>3, <1>9, <2>1, <2>2, <2>3
  <2>. QED
    BY <1>1, <2>4
<1>. QED
  <2>1. list \in Alphabetical(S)
    BY <1>10, <1>11 DEF Alphabetical, n
  <2>. QED
    BY <2>1

LEMMA AlphabeticalFacts ==
    ASSUME NEW S \in SUBSET Int, IsFiniteSet(S), NEW s \in Alphabetical(S)
    PROVE  s \in Seq(S) /\ Range(s) = S
<1> DEFINE n == Cardinality(S)
<1>1. n \in Nat /\ IsFiniteSet(1..n) /\ Cardinality(1..n) = n
    BY FS_CardinalityType, FS_Interval
<1>2. s \in [1..n -> S] /\ \A i, j \in 1..n : i < j => s[i] < s[j]
    BY DEF Alphabetical
<1>3. \A i, j \in 1..n : s[i] = s[j] => i = j
  <2> SUFFICES ASSUME NEW i \in 1..n, NEW j \in 1..n, i < j PROVE s[i] # s[j]
    BY <1>1
  <2>1. s[i] \in Int /\ s[j] \in Int /\ s[i] < s[j]
    BY <1>2
  <2>. QED
    BY <2>1
<1>4. s \in Injection(1..n, S)
    BY <1>2, <1>3 DEF Injection, IsInjective
<1>5. s \in Surjection(1..n, S)
    BY <1>1, <1>4, FS_Injection
<1>6. Range(s) = S
    BY <1>5 DEF Surjection, Range
<1>7. s \in Seq(S)
    BY <1>1, <1>2
<1>. QED
    BY <1>6, <1>7

LEMMA WordsInFacts ==
    ASSUME NEW lines \in Seq(DOMAIN Normal)
    PROVE  WordsIn(lines) \subseteq Int \cap DOMAIN Normal /\ IsFiniteSet(WordsIn(lines))
<1> DEFINE n == Len(lines)
           spelt == [i \in 1..n |-> Normal[lines[i]]]
           all == {Normal[t] : t \in Range(lines)}
<1>1. n \in Nat /\ DOMAIN lines = 1..n /\ \A i \in 1..n : lines[i] \in DOMAIN Normal
    OBVIOUS
<1>2. WordsIn(lines) \subseteq Int \cap DOMAIN Normal
    BY <1>1, WordsAssumption DEF WordsIn, Range
<1>3. spelt \in Surjection(1..n, all)
  <2>1. spelt \in [1..n -> all]
    BY <1>1 DEF Range
  <2>2. \A w \in all : \E i \in 1..n : spelt[i] = w
    BY <1>1 DEF Range
  <2>. QED
    BY <2>1, <2>2 DEF Surjection
<1>4. IsFiniteSet(all)
    BY <1>1, <1>3, FS_Surjection, FS_Interval
<1>5. WordsIn(lines) \in SUBSET all
    BY DEF WordsIn
<1>. QED
    BY <1>2, <1>4, <1>5, FS_Subset

\* normalize_words keeps the words, and spells them as they are spelt.
LEMMA WordsFacts ==
    ASSUME NEW lines \in Seq(DOMAIN Normal)
    PROVE  /\ Range(normalize_words(lines)) = WordsIn(lines)
           /\ WordsIn(normalize_words(lines)) = WordsIn(lines)
           /\ normalize_words(lines) \in Seq(DOMAIN Normal)
<1> DEFINE S == WordsIn(lines)
           s == normalize_words(lines)
<1>1. S \in SUBSET Int /\ S \subseteq DOMAIN Normal /\ IsFiniteSet(S)
    BY WordsInFacts
<1>2. s \in Alphabetical(S)
    BY <1>1, AlphabeticalExists DEF normalize_words
<1>3. s \in Seq(S) /\ Range(s) = S
  <2> HIDE DEF S, s
  <2>. QED
    BY <1>1, <1>2, AlphabeticalFacts
<1>4. WordsIn(s) = S
  <2>1. \A w \in S : Normal[w] = w /\ w # NoWord
    BY WordsAssumption DEF WordsIn, Range
  <2>. QED
    BY <1>3, <2>1 DEF WordsIn
<1>5. s \in Seq(DOMAIN Normal)
  <2> HIDE DEF S, s
  <2>1. Len(s) \in Nat /\ s \in [1..Len(s) -> S]
    BY <1>3
  <2>2. s \in [1..Len(s) -> DOMAIN Normal]
    BY <1>1, <2>1
  <2>. QED
    BY <2>1, <2>2
<1>. QED
    BY <1>3, <1>4, <1>5

-----------------------------------------------------------------------------
(* Identity.                                                               *)

LEMMA RequestFacts ==
    ASSUME NEW r \in Requests
    PROVE  /\ r.kind \in {"GRAPH_BUILD", "REDUCE_GRAPH"}
           /\ r.key \in Keys \cup {NoKey} /\ r.partitions \in Int
           /\ r.words \in Seq(DOMAIN Normal)
           /\ r.kind = "GRAPH_BUILD" => r.source = None
    BY SubmissionsAssumption

\* Equal digests are equal meanings.
LEMMA DigestIsMeaning ==
    ASSUME NEW r \in Requests, NEW s \in Requests
    PROVE  Fingerprint(r) = Fingerprint(s) <=> Meaning(r) = Meaning(s)
<1>1. normalize_words(r.words) = normalize_words(s.words) <=> WordsIn(r.words) = WordsIn(s.words)
  <2>1. WordsIn(r.words) = WordsIn(s.words) => normalize_words(r.words) = normalize_words(s.words)
    BY DEF normalize_words
  <2>2. /\ Range(normalize_words(r.words)) = WordsIn(r.words)
        /\ Range(normalize_words(s.words)) = WordsIn(s.words)
    BY RequestFacts, WordsFacts
  <2>. QED
    BY <2>1, <2>2
<1>. QED
  BY <1>1 DEF Fingerprint, Meaning

\* What call c asks for is one of the requests.
LEMMA CallFacts ==
    ASSUME TypeOK, NEW c \in Calls, request[c] # None
    PROVE  /\ request[c] \in Requests
           /\ JobId(c) \in TopIds /\ JobId(c) \in JobIds
           /\ Keyed(c) <=> JobId(c) \in StableIds
           /\ ~ Keyed(c) => JobId(c) = <<"uuid4", c>>
           /\ PartsOfCall(c) \subseteq PartIds /\ Members(c) \subseteq JobIds
<1>1. request[c] \in Requests
    BY DEF TypeOK
<1>2. JobId(c) \in TopIds /\ (Keyed(c) <=> JobId(c) \in StableIds)
      /\ (~ Keyed(c) => JobId(c) = <<"uuid4", c>>)
  <2>1. request[c].kind # "uuid4"
    BY <1>1, RequestFacts
  <2>. QED
    BY <1>1, <2>1, RequestFacts DEF JobId, Keyed, TopIds, StableIds
<1>3. PartsOfCall(c) \subseteq PartIds
    BY <1>1 DEF PartsOfCall, PartIds
<1>. QED
    BY <1>1, <1>2, <1>3 DEF JobIds, Members

\* Two calls that ask under one id both sent its key.
LEMMA SameId ==
    ASSUME TypeOK, NEW c \in Calls, NEW d \in Calls, request[c] # None, request[d] # None,
           JobId(c) = JobId(d), c # d
    PROVE  Keyed(c) /\ Keyed(d) /\ request[c].kind = request[d].kind
<1>1. request[c].kind # "uuid4" /\ request[d].kind # "uuid4"
    BY CallFacts, RequestFacts
<1>. QED
    BY <1>1 DEF JobId, Keyed

\* The ids of the partitions belong to one call.
LEMMA PartsApart ==
    ASSUME TypeOK, NEW c \in Calls, NEW i \in PartsOfCall(c)
    PROVE  /\ i \notin TopIds
           /\ \A d \in Calls : i \in PartsOfCall(d) => d = c
<1>1. PICK p : i = <<"uuid4", c, p>>
    BY DEF PartsOfCall, PartId
<1>2. \A a, b : <<a, b>> # i
    BY <1>1
<1>3. i \notin TopIds
    BY <1>2 DEF TopIds, StableIds
<1>. QED
    BY <1>1, <1>3 DEF PartsOfCall, PartId

LEMMA MembersApart ==
    ASSUME TypeOK, NEW c \in Calls, NEW d \in Calls, request[c] # None, request[d] # None,
           NEW i \in Members(c), i \in Members(d), c # d
    PROVE  i = JobId(c) /\ i = JobId(d)
    BY CallFacts, PartsApart DEF Members

\* A submission has as many partitions as it asks for.
LEMMA PartsCounted ==
    ASSUME TypeOK, NEW c \in Calls, request[c] # None, Valid(request[c])
    PROVE  /\ Cardinality(PartsOfCall(c)) = request[c].partitions
           /\ PartsOfCall(c) # {}
<1> DEFINE n == request[c].partitions
           name == [p \in 0..(n - 1) |-> PartId(c, p)]
<1>1. n \in 1..64
    BY DEF Valid, Partitions
<1>2. name \in Surjection(0..(n - 1), PartsOfCall(c))
    BY DEF PartsOfCall, Surjection
<1>3. name \in Injection(0..(n - 1), PartsOfCall(c))
    BY <1>2 DEF Surjection, Injection, IsInjective, PartId
<1>4. IsFiniteSet(0..(n - 1)) /\ Cardinality(0..(n - 1)) = n
  <2> HIDE DEF n
  <2>1. 0 \in Int /\ n - 1 \in Int /\ ~ (0 > n - 1) /\ (n - 1) - 0 + 1 = n
    BY <1>1
  <2>. QED
    BY <2>1, FS_Interval
<1>5. Cardinality(PartsOfCall(c)) = n
  <2> HIDE DEF name
  <2>. QED
    BY <1>2, <1>3, <1>4, FS_Surjection
<1>6. 0 \in 0..(n - 1)
    BY <1>1
<1>7. PartId(c, 0) \in PartsOfCall(c)
    BY <1>6 DEF PartsOfCall
<1>. QED
    BY <1>5, <1>7

-----------------------------------------------------------------------------
(* Rows.                                                                   *)

\* A row is what the call that created it writes there.
LEMMA RowOwner ==
    ASSUME IInv, NEW i \in JobIds, jobs[i] # None
    PROVE  LET c == jobs[i].created
           IN c \in Calls /\ Wrote(c) /\ i \in Members(c) /\ jobs[i] = RowOf(c, i)
<1>1. PICK c \in Calls : Wrote(c) /\ i \in Members(c)
    BY DEF IInv, RowsWritten, Stored
<1>2. jobs[i] = RowOf(c, i)
    BY <1>1 DEF IInv, WritersWhole
<1>3. RowOf(c, i).created = c
    BY DEF RowOf, Part, Single, Reducer
<1>. QED
    BY <1>1, <1>2, <1>3

LEMMA RowTyped ==
    ASSUME TypeOK, NEW c \in Calls, Inside(c), NEW i
    PROVE  RowOf(c, i) \in Rows
<1> DEFINE r == request[c]
<1>1. r \in Requests /\ r.partitions \in Partitions /\ PartsOfCall(c) \in SUBSET PartIds
    BY CallFacts DEF Inside, Valid
<1>2. WordsOf(c) \in Lists \cup {None}
  <2>1. r.words \in Lists /\ normalize_words(r.words) \in Lists
    BY <1>1 DEF Lists
  <2>. QED
    BY <2>1 DEF WordsOf, TypeOK
<1>3. InputsOf(c) \in Calls \cup {None}
    BY DEF InputsOf
<1>4. RequestHash(c) \in Hashes \cup {None}
    BY <1>1 DEF RequestHash, Hashes
<1>5. r.source \in {q.source : q \in Requests}
    BY <1>1
<1>. HIDE DEF r
<1>6. Single(c, WordsOf(c), InputsOf(c)) \in Rows
    BY <1>1, <1>2, <1>3, <1>4 DEF Single, Rows, r
<1>7. Part(c, WordsOf(c), InputsOf(c)) \in Rows
    BY <1>1, <1>2, <1>3 DEF Part, Rows, r
<1>8. Reducer(c) \in Rows
    BY <1>1, <1>4, <1>5 DEF Reducer, Rows, r
<1>. QED
    BY <1>6, <1>7, <1>8 DEF RowOf

Writes(c) == jobs' = WithRows(c, WordsOf(c), InputsOf(c))

\* A call whose id has no row finds none of its ids taken, and writes them all.
LEMMA WritesFacts ==
    ASSUME IInv, NEW c \in Calls, Inside(c), jobs[JobId(c)] = None, Writes(c)
    PROVE  /\ \A i \in Members(c) : jobs[i] = None
           /\ \A i \in Members(c) : jobs'[i] = RowOf(c, i) /\ RowOf(c, i) # None
           /\ \A i \in JobIds \ Members(c) : jobs'[i] = jobs[i]
           /\ jobs' \in [JobIds -> Rows \cup {None}]
<1>1. TypeOK /\ request[c] # None /\ request[c] \in Requests
    BY CallFacts DEF IInv, Inside
<1>2. Members(c) \subseteq JobIds /\ JobId(c) \in Members(c) /\ JobId(c) \in JobIds
    BY <1>1, CallFacts DEF Members
<1>3. ASSUME NEW i \in Members(c), jobs[i] # None
      PROVE  FALSE
  <2>1. PICK d \in Calls : Wrote(d) /\ i \in Members(d)
    BY <1>2, <1>3 DEF IInv, RowsWritten, Stored
  <2>2. d # c /\ request[d] # None
    BY <2>1 DEF Wrote
  <2>3. i = JobId(c)
    BY <1>1, <2>1, <2>2, MembersApart
  <2>. QED
    BY <1>3, <2>3
<1>4. jobs \in [JobIds -> Rows \cup {None}]
    BY <1>1 DEF TypeOK
<1>5. \A i \in JobIds : jobs'[i] = IF i \in Members(c) THEN RowOf(c, i) ELSE jobs[i]
  <2>1. CASE request[c].kind = "GRAPH_BUILD"
    <3>1. jobs' = [jobs EXCEPT ![JobId(c)] = Single(c, WordsOf(c), InputsOf(c))]
      BY <2>1 DEF Writes, WithRows
    <3>2. Members(c) = {JobId(c)}
      BY <2>1 DEF Members
    <3>. QED
      BY <1>2, <1>4, <2>1, <3>1, <3>2 DEF RowOf
  <2>2. CASE request[c].kind = "REDUCE_GRAPH"
    <3>1. jobs' = [i \in JobIds |-> IF i = JobId(c) THEN Reducer(c)
                                    ELSE IF i \in PartsOfCall(c)
                                      THEN Part(c, WordsOf(c), InputsOf(c))
                                    ELSE jobs[i]]
      BY <2>2 DEF Writes, WithRows
    <3>2. Members(c) = {JobId(c)} \cup PartsOfCall(c)
      BY <2>2 DEF Members
    <3>. QED
      BY <2>2, <3>1, <3>2 DEF RowOf
  <2>. QED
    BY <1>1, <2>1, <2>2, RequestFacts
<1>6. \A i : RowOf(c, i) \in Rows /\ RowOf(c, i) # None
    BY <1>1, RowTyped, NoneAssumption
<1>7. jobs' \in [JobIds -> Rows \cup {None}]
  <2>1. jobs' = [i \in JobIds |-> jobs'[i]]
    BY <1>4 DEF Writes, WithRows
  <2>. QED
    BY <1>4, <1>5, <1>6, <2>1
<1>. QED
    BY <1>2, <1>3, <1>5, <1>6, <1>7

-----------------------------------------------------------------------------
(* Steps.                                                                  *)

\* Call c, and no other, comes to a step; it has its answer there if it is the last.
Moves(c, step) ==
    /\ pc' = [pc EXCEPT ![c] = step]
    /\ answer' \in [Calls -> Answers \cup {None}]
    /\ answer'[c] # None <=> step = "done"
    /\ \A d \in Calls \ {c} : answer'[d] = answer[d]

LEMMA SaysMoves ==
    ASSUME TypeOK, NEW c \in Calls, NEW a \in Answers, Says(c, a)
    PROVE  Moves(c, "done") /\ answer'[c] = a
    BY NoneAssumption DEF TypeOK, Says, Moves

LEMMA GoesMoves ==
    ASSUME TypeOK, NEW c \in Calls, NEW step, step # "done", pc[c] # "done", Goes(c, step)
    PROVE  Moves(c, step)
    BY DEF TypeOK, Goes, Moves

\* What is said of a call depends on its request and on the repository.
LEMMA SameCall ==
    ASSUME NEW d \in Calls, request'[d] = request[d], store' = store
    PROVE  /\ JobId(d)' = JobId(d) /\ Members(d)' = Members(d)
           /\ Keyed(d)' <=> Keyed(d)
           /\ Inside(d)' <=> Inside(d)
           /\ \A i : RowOf(d, i)' = RowOf(d, i)
           /\ objects'[d] = objects[d] => (HasInput(d)' <=> HasInput(d))
<1>1. JobId(d)' = JobId(d) /\ (Keyed(d)' <=> Keyed(d)) /\ (Inside(d)' <=> Inside(d))
    BY DEF JobId, Keyed, Inside
<1>2. PartsOfCall(d)' = PartsOfCall(d) /\ RequestHash(d)' = RequestHash(d)
    BY DEF PartsOfCall, RequestHash, Keyed
<1>3. Members(d)' = Members(d)
    BY <1>1, <1>2 DEF Members
<1>4. WordsOf(d)' = WordsOf(d) /\ InputsOf(d)' = InputsOf(d)
    BY DEF WordsOf, InputsOf
<1>5. ASSUME NEW i
      PROVE  RowOf(d, i)' = RowOf(d, i)
    BY <1>1, <1>2, <1>4 DEF RowOf, Single, Part, Reducer
<1>6. objects'[d] = objects[d] => (HasInput(d)' <=> HasInput(d))
    BY DEF HasInput, NoWords
<1>. QED
    BY <1>1, <1>3, <1>5, <1>6

\* A step of c that writes no row: it goes on, or it is the last and c is told of an
\* error, of a refusal, or of what is stored under its id.
Silent(c, step) ==
    /\ Moves(c, step) /\ pc[c] \notin {"idle", "done"}
    /\ UNCHANGED <<store, jobs, keys, request>>
    /\ objects' \in [Calls -> Lists \cup {None}]
    /\ \A d \in Calls \ {c} : objects'[d] = objects[d]
    /\ \/ step = "done" /\ objects' = objects
       \/ step = "payload" /\ pc[c] = "replay" /\ objects' = objects
       \/ step = "put" /\ pc[c] = "payload" /\ HasInput(c)'
       \/ step = "reread" /\ pc[c] = "put" /\ Keyed(c) /\ objects' = objects
    /\ step = "done" =>
          \/ answer'[c] = [code |-> "error"]
          \/ answer'[c] = [code |-> "refused"] /\ ~ Wrote(c)
          \/ LET old == jobs[JobId(c)]
             IN /\ old # None /\ (Keyed(c) \/ Wrote(c))
                /\ answer'[c] = IF old.request_hash = RequestHash(c)
                                  THEN Snapshot(JobId(c), old) ELSE [code |-> "conflict"]

LEMMA QuietStep ==
    ASSUME IInv, NEW c \in Calls, NEW step, Silent(c, step)
    PROVE  IInv'
<1>. /\ Moves(c, step) /\ pc[c] \notin {"idle", "done"}
     /\ UNCHANGED <<store, jobs, keys, request>>
     /\ objects' \in [Calls -> Lists \cup {None}]
     /\ \A d \in Calls \ {c} : objects'[d] = objects[d]
     /\ \/ step = "done" /\ objects' = objects
        \/ step = "payload" /\ pc[c] = "replay" /\ objects' = objects
        \/ step = "put" /\ pc[c] = "payload" /\ HasInput(c)'
        \/ step = "reread" /\ pc[c] = "put" /\ Keyed(c) /\ objects' = objects
    BY DEF Silent
<1>1. TypeOK /\ \A d \in Calls : pc'[d] = IF d = c THEN step ELSE pc[d]
    BY DEF IInv, TypeOK, Moves
<1>2. TypeOK'
    BY <1>1 DEF TypeOK, Moves
<1>3. \A d \in Calls : Wrote(d)' <=> Wrote(d)
    BY SameCall DEF Wrote
<1>4. WritersWhole'
  <2> SUFFICES ASSUME NEW d \in Calls, Wrote(d)
               PROVE  /\ Inside(d)' /\ HasInput(d)' /\ pc'[d] \in {"get", "reread", "done"}
                      /\ \A i \in Members(d)' : jobs'[i] = RowOf(d, i)'
    BY <1>3 DEF WritersWhole
  <2>1. /\ Inside(d) /\ HasInput(d) /\ pc[d] \in {"get", "reread", "done"}
        /\ \A i \in Members(d) : jobs[i] = RowOf(d, i)
    BY DEF IInv, WritersWhole
  <2>2. objects'[d] = objects[d] /\ pc'[d] \in {"get", "reread", "done"}
    BY <1>1, <2>1
  <2>. QED
    BY <2>1, <2>2, SameCall
<1>5. RowsWritten'
    BY <1>3, SameCall DEF IInv, RowsWritten, Stored
<1>6. KeysTrue'
    BY DEF IInv, KeysTrue
<1>7. CallShape'
  <2> SUFFICES ASSUME NEW d \in Calls
               PROVE  /\ pc'[d] \notin {"idle", "done"} => Inside(d)'
                      /\ pc'[d] = "create" => store' # "aws"
                      /\ pc'[d] = "get" => store' = "sqlite" /\ Wrote(d)'
                      /\ pc'[d] \in {"replay", "payload", "put", "reread"} => store' = "aws"
                      /\ pc'[d] = "put" => HasInput(d)'
                      /\ pc'[d] = "reread" => Keyed(d)'
    BY DEF CallShape
  <2>1. /\ pc[d] \notin {"idle", "done"} => Inside(d)
        /\ pc[d] = "create" => store # "aws"
        /\ pc[d] = "get" => store = "sqlite" /\ Wrote(d)
        /\ pc[d] \in {"replay", "payload", "put", "reread"} => store = "aws"
        /\ pc[d] = "put" => HasInput(d)
        /\ pc[d] = "reread" => Keyed(d)
    BY DEF IInv, CallShape
  <2>2. CASE d # c
    BY <1>1, <1>3, <2>1, <2>2, SameCall
  <2>3. CASE d = c
    BY <1>1, <2>1, <2>3, SameCall
  <2>. QED
    BY <2>2, <2>3
<1>. QED
    BY <1>2, <1>4, <1>5, <1>6, <1>7 DEF IInv

LEMMA PostStep ==
    ASSUME IInv, NEW c \in Calls, NEW r \in Requests, Post(c, r)
    PROVE  IInv'
<1>1. TypeOK /\ pc[c] = "idle" /\ request[c] = None /\ request' = [request EXCEPT ![c] = r]
      /\ UNCHANGED <<store, jobs, keys, objects>>
    BY DEF IInv, TypeOK, Post
<1>2. request'[c] = r /\ r # None /\ \A d \in Calls \ {c} : request'[d] = request[d]
    BY <1>1, NoneAssumption DEF TypeOK
<1>3. PICK step \in {"done", "create", "replay"} :
         /\ Moves(c, step)
         /\ step # "done" => Inside(c)' /\ (step = "create" <=> store # "aws")
  <2>1. CASE ~ Valid(r) \/ (store = "memory" /\ r.kind = "REDUCE_GRAPH")
    <3>1. \E a \in Answers : Says(c, a)
      BY <2>1 DEF Post, Answers
    <3>. QED
      BY <1>1, <3>1, SaysMoves
  <2>2. CASE Valid(r) /\ ~ (store = "memory" /\ r.kind = "REDUCE_GRAPH")
    <3>1. Goes(c, IF store = "aws" THEN "replay" ELSE "create")
      BY <2>2 DEF Post
    <3>2. Inside(c)'
      BY <1>1, <1>2, <2>2 DEF Inside
    <3>. QED
      BY <1>1, <3>1, <3>2, GoesMoves
  <2>. QED
    BY <2>1, <2>2
<1>4. \A d \in Calls : pc'[d] = IF d = c THEN step ELSE pc[d]
    BY <1>1, <1>3 DEF TypeOK, Moves
<1>5. TypeOK'
  <2>1. request' \in [Calls -> Requests \cup {None}]
    BY <1>1 DEF TypeOK
  <2>. QED
    BY <1>1, <1>2, <1>3, <1>4, <2>1 DEF TypeOK, Moves
<1>6. \A d \in Calls : Wrote(d)' <=> d # c /\ Wrote(d)
  <2>1. ASSUME Wrote(c)'
        PROVE  FALSE
    <3>1. JobId(c)' \in JobIds
      BY <1>2, RequestFacts DEF JobId, JobIds, TopIds, StableIds
    <3>2. jobs[JobId(c)'] # None /\ jobs[JobId(c)'].created = c
      BY <1>1, <2>1 DEF Wrote
    <3>3. Wrote(c)
      BY <3>1, <3>2, RowOwner
    <3>. QED
      BY <1>1, <3>3 DEF Wrote
  <2>2. ASSUME NEW d \in Calls \ {c}
        PROVE  Wrote(d)' <=> Wrote(d)
    BY <1>1, <1>2, SameCall DEF Wrote
  <2>. QED
    BY <2>1, <2>2
<1>7. WritersWhole'
  <2> SUFFICES ASSUME NEW d \in Calls \ {c}, Wrote(d)
               PROVE  /\ Inside(d)' /\ HasInput(d)' /\ pc'[d] \in {"get", "reread", "done"}
                      /\ \A i \in Members(d)' : jobs'[i] = RowOf(d, i)'
    BY <1>6 DEF WritersWhole
  <2>. QED
    BY <1>1, <1>2, <1>4, SameCall DEF IInv, WritersWhole
<1>8. RowsWritten'
  <2> SUFFICES ASSUME NEW i \in JobIds, jobs[i] # None
               PROVE  \E d \in Calls : Wrote(d)' /\ i \in Members(d)'
    BY <1>1 DEF RowsWritten, Stored
  <2>1. PICK d \in Calls : Wrote(d) /\ i \in Members(d)
    BY DEF IInv, RowsWritten, Stored
  <2>2. d # c
    BY <1>1, <2>1 DEF Wrote
  <2>. QED
    BY <1>1, <1>2, <1>6, <2>1, <2>2, SameCall
<1>9. KeysTrue'
    BY <1>1 DEF IInv, KeysTrue
<1>10. CallShape'
  <2> SUFFICES ASSUME NEW d \in Calls
               PROVE  /\ pc'[d] \notin {"idle", "done"} => Inside(d)'
                      /\ pc'[d] = "create" => store' # "aws"
                      /\ pc'[d] = "get" => store' = "sqlite" /\ Wrote(d)'
                      /\ pc'[d] \in {"replay", "payload", "put", "reread"} => store' = "aws"
                      /\ pc'[d] = "put" => HasInput(d)'
                      /\ pc'[d] = "reread" => Keyed(d)'
    BY DEF CallShape
  <2>1. CASE d # c
    BY <1>1, <1>2, <1>4, <1>6, <2>1, SameCall DEF IInv, CallShape
  <2>2. CASE d = c
    BY <1>1, <1>3, <1>4, <2>2
  <2>. QED
    BY <2>1, <2>2
<1>. QED
    BY <1>5, <1>7, <1>8, <1>9, <1>10 DEF IInv

\* A step of c that writes its rows, and that may be its last.
Writing(c, step) ==
    /\ Moves(c, step) /\ step \in {"done", "get", "reread"}
    /\ pc[c] \in {"create", "put"} /\ jobs[JobId(c)] = None /\ Writes(c) /\ HasInput(c)
    /\ UNCHANGED <<store, objects, request>>
    /\ step = "get" => store = "sqlite"
    /\ step = "reread" => store = "aws" /\ Keyed(c)
    /\ keys' = IF store = "sqlite" /\ Keyed(c)
                 THEN [keys EXCEPT ![JobId(c)] =
                         [request_hash |-> RequestHash(c), job |-> JobId(c)]]
                 ELSE keys
    /\ step = "done" => answer'[c] \in {[code |-> "error"], Snapshot(JobId(c), RowOf(c, JobId(c)))}

LEMMA WriteStep ==
    ASSUME IInv, NEW c \in Calls, NEW step, Writing(c, step)
    PROVE  IInv' /\ Wrote(c)'
<1>. /\ Moves(c, step) /\ step \in {"done", "get", "reread"}
     /\ pc[c] \in {"create", "put"} /\ jobs[JobId(c)] = None /\ Writes(c) /\ HasInput(c)
     /\ UNCHANGED <<store, objects, request>>
     /\ step = "get" => store = "sqlite"
     /\ step = "reread" => store = "aws" /\ Keyed(c)
     /\ keys' = IF store = "sqlite" /\ Keyed(c)
                  THEN [keys EXCEPT ![JobId(c)] =
                          [request_hash |-> RequestHash(c), job |-> JobId(c)]]
                  ELSE keys
    BY DEF Writing
<1>1. /\ TypeOK /\ Inside(c) /\ request[c] # None
      /\ \A d \in Calls : pc'[d] = IF d = c THEN step ELSE pc[d]
    BY DEF IInv, CallShape, TypeOK, Moves, Inside
<1>2. /\ \A i \in Members(c) : jobs[i] = None
      /\ \A i \in Members(c) : jobs'[i] = RowOf(c, i) /\ RowOf(c, i) # None
      /\ \A i \in JobIds \ Members(c) : jobs'[i] = jobs[i]
      /\ jobs' \in [JobIds -> Rows \cup {None}]
    BY <1>1, WritesFacts
<1>3. JobId(c) \in Members(c) /\ Members(c) \subseteq JobIds
    BY <1>1, CallFacts DEF Members
<1>4. \A i : RowOf(c, i).created = c /\ (i = JobId(c) => RowOf(c, i).request_hash = RequestHash(c))
    BY DEF RowOf, Single, Reducer, Part
<1>5. Wrote(c)'
    BY <1>1, <1>2, <1>3, <1>4, SameCall DEF Wrote
<1>6. \A d \in Calls \ {c} : Wrote(d) => \A i \in Members(d) : i \in JobIds \ Members(c)
  <2> SUFFICES ASSUME NEW d \in Calls \ {c}, Wrote(d), NEW i \in Members(d)
               PROVE  i \in JobIds /\ i \notin Members(c)
    OBVIOUS
  <2>1. Inside(d) /\ jobs[i] = RowOf(d, i)
    BY DEF IInv, WritersWhole
  <2>2. jobs[i] # None
    BY <1>1, <2>1, RowTyped, NoneAssumption
  <2>3. i \in JobIds
    BY <1>1, <2>1, CallFacts DEF Inside
  <2>. QED
    BY <1>2, <2>2, <2>3
<1>7. \A d \in Calls \ {c} : Wrote(d)' <=> Wrote(d)
  <2> SUFFICES ASSUME NEW d \in Calls \ {c}, request[d] # None
               PROVE  jobs'[JobId(d)] # None /\ jobs'[JobId(d)].created = d
                         <=> jobs[JobId(d)] # None /\ jobs[JobId(d)].created = d
    BY SameCall DEF Wrote
  <2>1. JobId(d) \in JobIds /\ JobId(d) \in Members(d)
    BY <1>1, CallFacts DEF Members
  <2>2. CASE JobId(d) \in Members(c)
    BY <1>2, <1>4, <2>2
  <2>3. CASE JobId(d) \notin Members(c)
    BY <1>2, <2>1, <2>3
  <2>. QED
    BY <2>2, <2>3
<1>8. KeysTrue'
  <2> SUFFICES ASSUME store = "sqlite", NEW i \in StableIds
               PROVE  keys'[i] = IF jobs'[i] = None THEN None
                                 ELSE [request_hash |-> jobs'[i].request_hash, job |-> i]
    BY DEF KeysTrue
  <2>1. keys \in [StableIds -> KeyRows \cup {None}] /\ i \in TopIds /\ i \in JobIds
    BY <1>1 DEF TypeOK, TopIds, JobIds
  <2>2. keys[i] = IF jobs[i] = None THEN None
                  ELSE [request_hash |-> jobs[i].request_hash, job |-> i]
    BY DEF IInv, KeysTrue
  <2>3. CASE i = JobId(c)
    BY <1>1, <1>2, <1>3, <1>4, <2>1, <2>3, CallFacts
  <2>4. CASE i # JobId(c)
    <3>1. i \notin Members(c)
      BY <1>1, <2>1, <2>4, PartsApart DEF Members
    <3>2. keys'[i] = keys[i]
      BY <2>1, <2>4
    <3>. QED
      BY <1>2, <2>1, <2>2, <3>1, <3>2
  <2>. QED
    BY <2>3, <2>4
<1>9. TypeOK'
  <2>1. keys' \in [StableIds -> KeyRows \cup {None}]
    <3>1. Keyed(c) => [request_hash |-> RequestHash(c), job |-> JobId(c)] \in KeyRows
      BY <1>1, CallFacts DEF KeyRows, Hashes, RequestHash
    <3>. QED
      BY <1>1, <3>1 DEF TypeOK
  <2>2. pc' \in [Calls -> {"idle", "create", "get", "replay", "payload", "put", "reread", "done"}]
    BY <1>1 DEF TypeOK, Moves
  <2>. QED
    BY <1>1, <1>2, <2>1, <2>2 DEF TypeOK, Moves
<1>10. WritersWhole'
  <2> SUFFICES ASSUME NEW d \in Calls, Wrote(d)'
               PROVE  /\ Inside(d)' /\ HasInput(d)' /\ pc'[d] \in {"get", "reread", "done"}
                      /\ \A i \in Members(d)' : jobs'[i] = RowOf(d, i)'
    BY DEF WritersWhole
  <2>1. CASE d = c
    BY <1>1, <1>2, <2>1, SameCall
  <2>2. CASE d # c
    <3>1. /\ Inside(d) /\ HasInput(d) /\ pc[d] \in {"get", "reread", "done"}
          /\ \A i \in Members(d) : jobs[i] = RowOf(d, i)
      BY <1>7, <2>2 DEF IInv, WritersWhole
    <3>2. \A i \in Members(d) : jobs'[i] = RowOf(d, i)
      BY <1>2, <1>6, <1>7, <2>2, <3>1
    <3>. QED
      BY <1>1, <2>2, <3>1, <3>2, SameCall
  <2>. QED
    BY <2>1, <2>2
<1>11. RowsWritten'
  <2> SUFFICES ASSUME NEW i \in JobIds, jobs'[i] # None
               PROVE  \E d \in Calls : Wrote(d)' /\ i \in Members(d)'
    BY DEF RowsWritten, Stored
  <2>1. CASE i \in Members(c)
    BY <1>5, <2>1, SameCall
  <2>2. CASE i \notin Members(c)
    <3>1. jobs[i] # None
      BY <1>2, <2>2
    <3>2. PICK d \in Calls : Wrote(d) /\ i \in Members(d)
      BY <3>1 DEF IInv, RowsWritten, Stored
    <3>. QED
      BY <1>7, <2>2, <3>2, SameCall
  <2>. QED
    BY <2>1, <2>2
<1>12. CallShape'
  <2> SUFFICES ASSUME NEW d \in Calls
               PROVE  /\ pc'[d] \notin {"idle", "done"} => Inside(d)'
                      /\ pc'[d] = "create" => store' # "aws"
                      /\ pc'[d] = "get" => store' = "sqlite" /\ Wrote(d)'
                      /\ pc'[d] \in {"replay", "payload", "put", "reread"} => store' = "aws"
                      /\ pc'[d] = "put" => HasInput(d)'
                      /\ pc'[d] = "reread" => Keyed(d)'
    BY DEF CallShape
  <2>1. CASE d # c
    BY <1>1, <1>7, <2>1, SameCall DEF IInv, CallShape
  <2>2. CASE d = c
    BY <1>1, <1>5, <2>2, SameCall
  <2>. QED
    BY <2>1, <2>2
<1>. QED
    BY <1>5, <1>8, <1>9, <1>10, <1>11, <1>12 DEF IInv

\* A row stored before its call had written belongs to another call with its key.
LEMMA RowOfAnother ==
    ASSUME IInv, NEW c \in Calls, pc[c] \in {"create", "replay", "payload", "put"},
           jobs[JobId(c)] # None
    PROVE  Keyed(c) /\ ~ Wrote(c)
<1>1. TypeOK /\ Inside(c) /\ request[c] # None
    BY DEF IInv, CallShape, Inside
<1>2. ~ Wrote(c)
    BY DEF IInv, WritersWhole
<1>3. JobId(c) \in JobIds /\ JobId(c) \in Members(c)
    BY <1>1, CallFacts DEF Members
<1>4. PICK d \in Calls : Wrote(d) /\ JobId(c) \in Members(d)
    BY <1>3, RowOwner
<1>5. JobId(c) = JobId(d)
    BY <1>1, <1>2, <1>3, <1>4, MembersApart DEF Wrote
<1>. QED
    BY <1>1, <1>2, <1>4, <1>5, SameId DEF Wrote

\* A call answered from the stored row writes nothing.
LEMMA ReplaysSilent ==
    ASSUME IInv, NEW c \in Calls, pc[c] \notin {"idle", "done"}, NEW old, old = jobs[JobId(c)],
           old # None, Keyed(c) \/ Wrote(c), Replays(c, old.request_hash, old),
           UNCHANGED <<store, jobs, keys, objects, request>>
    PROVE  Silent(c, "done")
<1>1. TypeOK /\ JobId(c) \in TopIds /\ JobId(c) \in JobIds
    BY CallFacts DEF IInv, CallShape, Inside
<1>2. old.created \in Calls
    BY <1>1, RowOwner
<1> DEFINE a == IF old.request_hash = RequestHash(c)
                  THEN Snapshot(JobId(c), old) ELSE [code |-> "conflict"]
<1>3. a \in Answers
    BY <1>1, <1>2 DEF Snapshot, Answers
<1>4. Says(c, a)
    BY DEF Replays
<1>5. Moves(c, "done") /\ answer'[c] = a
  <2> HIDE DEF a
  <2>. QED
    BY <1>1, <1>3, <1>4, SaysMoves
<1>. QED
    BY <1>1, <1>5 DEF Silent, TypeOK

\* A call told of an error, or refused before it wrote.
LEMMA TurnedAway ==
    ASSUME IInv, NEW c \in Calls, pc[c] \notin {"idle", "done"}, NEW a,
           a = [code |-> "error"] \/ (a = [code |-> "refused"] /\ ~ Wrote(c)), Says(c, a),
           UNCHANGED <<store, jobs, keys, objects, request>>
    PROVE  Silent(c, "done")
<1>1. TypeOK /\ a \in Answers
    BY DEF IInv, Answers
<1>2. Moves(c, "done") /\ answer'[c] = a
    BY <1>1, SaysMoves
<1>. QED
    BY <1>1, <1>2 DEF Silent, TypeOK

\* What a call is told of the rows it has just written.
LEMMA ToldOfOwn ==
    ASSUME IInv, NEW c \in Calls, Inside(c), jobs[JobId(c)] = None, Writes(c)
    PROVE  /\ Snapshot(JobId(c), jobs'[JobId(c)]) \in Answers
           /\ Snapshot(JobId(c), jobs'[JobId(c)]) = Snapshot(JobId(c), RowOf(c, JobId(c)))
<1>1. JobId(c) \in TopIds /\ JobId(c) \in Members(c)
    BY CallFacts DEF IInv, Inside, Members
<1>2. jobs'[JobId(c)] = RowOf(c, JobId(c))
    BY <1>1, WritesFacts
<1>3. RowOf(c, JobId(c)).created = c
    BY DEF RowOf, Single, Reducer
<1>. QED
    BY <1>1, <1>2, <1>3 DEF Snapshot, Answers

LEMMA MemoryCreateShape ==
    ASSUME IInv, NEW c \in Calls, MemoryCreate(c)
    PROVE  Silent(c, "done") \/ Writing(c, "done")
<1>1. TypeOK /\ Inside(c) /\ request[c] # None /\ store = "memory" /\ pc[c] = "create"
    BY DEF IInv, CallShape, MemoryCreate, Inside
<1>2. CASE jobs[JobId(c)] # None
    BY <1>1, <1>2, RowOfAnother, ReplaysSilent DEF MemoryCreate
<1>3. CASE jobs[JobId(c)] = None
  <2>1. jobs' = WithRows(c, request[c].words, None) /\ Says(c, Snapshot(JobId(c), jobs'[JobId(c)]))
        /\ UNCHANGED <<store, keys, objects, request>>
    BY <1>3 DEF MemoryCreate
  <2>2. Writes(c)
    BY <1>1, <2>1 DEF Writes, WordsOf, InputsOf
  <2>3. HasInput(c)
    BY <1>1 DEF HasInput, Inside
  <2>4. Moves(c, "done") /\ answer'[c] = Snapshot(JobId(c), RowOf(c, JobId(c)))
    BY <1>1, <1>3, <2>1, <2>2, ToldOfOwn, SaysMoves
  <2>. QED
    BY <1>1, <1>3, <2>1, <2>2, <2>3, <2>4 DEF Writing
<1>. QED
    BY <1>2, <1>3

LEMMA SQLiteCreateShape ==
    ASSUME IInv, NEW c \in Calls, SQLiteCreate(c)
    PROVE  Silent(c, "done") \/ Writing(c, "get")
<1>1. TypeOK /\ Inside(c) /\ request[c] # None /\ store = "sqlite" /\ pc[c] = "create"
    BY DEF IInv, CallShape, SQLiteCreate, Inside
<1> DEFINE r == request[c]
           old == IF Keyed(c) THEN keys[JobId(c)] ELSE None
<1>2. JobId(c) \in JobIds /\ r \in Requests /\ (Keyed(c) => JobId(c) \in StableIds)
    BY <1>1, CallFacts
<1>3. Keyed(c) => old = IF jobs[JobId(c)] = None THEN None
                        ELSE [request_hash |-> jobs[JobId(c)].request_hash, job |-> JobId(c)]
    BY <1>1, <1>2 DEF IInv, KeysTrue
<1>4. ~ Keyed(c) => jobs[JobId(c)] = None /\ old = None
    BY <1>1, RowOfAnother
<1>5. CASE r.kind = "REDUCE_GRAPH" /\ NoWords(c)
  <2>1. Says(c, [code |-> "refused"]) /\ UNCHANGED <<store, jobs, keys, objects, request>>
    BY <1>5 DEF SQLiteCreate
  <2>2. ~ Wrote(c)
    BY <1>1 DEF IInv, WritersWhole
  <2>. QED
    BY <1>1, <2>1, <2>2, TurnedAway
<1>6. CASE ~ (r.kind = "REDUCE_GRAPH" /\ NoWords(c)) /\ old # None
  <2>1. Replays(c, old.request_hash, jobs[old.job])
        /\ UNCHANGED <<store, jobs, keys, objects, request>>
    BY <1>6 DEF SQLiteCreate
  <2>2. Keyed(c) /\ jobs[JobId(c)] # None /\ old.job = JobId(c)
        /\ old.request_hash = jobs[JobId(c)].request_hash
    BY <1>3, <1>6
  <2>3. Replays(c, jobs[JobId(c)].request_hash, jobs[JobId(c)])
    BY <2>1, <2>2
  <2>. QED
    BY <1>1, <2>1, <2>2, <2>3, ReplaysSilent
<1>7. CASE ~ (r.kind = "REDUCE_GRAPH" /\ NoWords(c)) /\ old = None
  <2>1. /\ jobs' = WithRows(c, IF r.kind = "GRAPH_BUILD" THEN r.words
                                ELSE normalize_words(r.words), None)
        /\ keys' = IF Keyed(c)
                     THEN [keys EXCEPT ![JobId(c)] =
                             [request_hash |-> RequestHash(c), job |-> JobId(c)]]
                     ELSE keys
        /\ Goes(c, "get") /\ UNCHANGED <<store, objects, request>>
    BY <1>7 DEF SQLiteCreate
  <2>2. jobs[JobId(c)] = None
    <3>1. [request_hash |-> jobs[JobId(c)].request_hash, job |-> JobId(c)] # None \/ jobs[JobId(c)] = None
      <4>1. keys[JobId(c)] = None /\ Keyed(c) /\ jobs[JobId(c)] # None
              => [request_hash |-> jobs[JobId(c)].request_hash, job |-> JobId(c)] \in KeyRows
        <5> SUFFICES ASSUME Keyed(c), jobs[JobId(c)] # None
                     PROVE  [request_hash |-> jobs[JobId(c)].request_hash, job |-> JobId(c)]
                              \in KeyRows
          OBVIOUS
        <5>1. PICK d \in Calls : Wrote(d) /\ JobId(c) \in Members(d) /\ jobs[JobId(c)] = RowOf(d, JobId(c))
          BY <1>2, RowOwner
        <5>2. JobId(c) \in TopIds /\ JobId(c) = JobId(d) /\ request[d] # None
          BY <1>1, <5>1, CallFacts, PartsApart DEF Members, Wrote
        <5>3. Keyed(d)
          BY <1>1, <5>2, CallFacts
        <5>4. RowOf(d, JobId(d)).request_hash = Fingerprint(request[d])
          BY <5>3 DEF RowOf, Single, Reducer, RequestHash
        <5>5. request[d] \in Requests
          BY <1>1, <5>2, CallFacts
        <5>. QED
          BY <5>1, <5>2, <5>4, <5>5 DEF KeyRows, Hashes
      <4>. QED
        BY <1>3, <1>4, <1>7, <4>1, NoneAssumption
    <3>. QED
      BY <1>3, <1>4, <1>7, <3>1
  <2>3. Writes(c)
    BY <1>1, <2>1 DEF Writes, WordsOf, InputsOf
  <2>4. HasInput(c)
    BY <1>1, <1>7 DEF HasInput
  <2>5. Moves(c, "get")
    BY <1>1, <2>1, GoesMoves
  <2>. QED
    BY <1>1, <2>1, <2>2, <2>3, <2>4, <2>5 DEF Writing
<1>. QED
    BY <1>5, <1>6, <1>7

LEMMA GoesOnSilent ==
    ASSUME IInv, NEW c \in Calls, NEW step, Goes(c, step),
           UNCHANGED <<store, jobs, keys, objects, request>>,
           \/ step = "payload" /\ pc[c] = "replay"
           \/ step = "reread" /\ pc[c] = "put" /\ Keyed(c)
    PROVE  Silent(c, step)
<1>1. TypeOK
    BY DEF IInv
<1>2. Moves(c, step)
    BY <1>1, GoesMoves
<1>. QED
    BY <1>1, <1>2 DEF Silent, TypeOK

LEMMA LookupShape ==
    ASSUME IInv, NEW c \in Calls, AwsReplay(c) \/ SQLiteGet(c) \/ AwsReread(c) \/ Break(c)
    PROVE  Silent(c, "done") \/ Silent(c, "payload")
<1>1. TypeOK /\ pc[c] \notin {"idle", "done"} /\ UNCHANGED <<store, jobs, keys, objects, request>>
    BY DEF IInv, AwsReplay, SQLiteGet, AwsReread, Break
<1>2. CASE AwsReplay(c)
  <2>1. CASE ~ Keyed(c) \/ jobs[JobId(c)] = None
    BY <1>1, <1>2, <2>1, GoesOnSilent DEF AwsReplay
  <2>2. CASE Keyed(c) /\ jobs[JobId(c)] # None
    BY <1>1, <1>2, <2>2, ReplaysSilent DEF AwsReplay
  <2>. QED
    BY <2>1, <2>2
<1>3. CASE SQLiteGet(c)
  <2>1. Wrote(c) /\ Says(c, Snapshot(JobId(c), jobs[JobId(c)])) /\ JobId(c) \in Members(c)
    BY <1>3 DEF IInv, CallShape, SQLiteGet, Members
  <2>2. jobs[JobId(c)] = RowOf(c, JobId(c)) /\ jobs[JobId(c)] # None
    BY <2>1 DEF IInv, WritersWhole, Wrote
  <2>3. jobs[JobId(c)].request_hash = RequestHash(c)
    BY <2>2 DEF RowOf, Single, Reducer
  <2>4. Replays(c, jobs[JobId(c)].request_hash, jobs[JobId(c)])
    BY <2>1, <2>3 DEF Replays
  <2>. QED
    BY <1>1, <2>1, <2>2, <2>4, ReplaysSilent
<1>4. CASE AwsReread(c)
  <2>1. Keyed(c)
    BY <1>4 DEF IInv, CallShape, AwsReread
  <2>2. CASE jobs[JobId(c)] = None
    BY <1>1, <1>4, <2>2, TurnedAway DEF AwsReread
  <2>3. CASE jobs[JobId(c)] # None
    BY <1>1, <1>4, <2>1, <2>3, ReplaysSilent DEF AwsReread
  <2>. QED
    BY <2>2, <2>3
<1>5. CASE Break(c)
    BY <1>1, <1>5, TurnedAway DEF Break
<1>. QED
    BY <1>2, <1>3, <1>4, <1>5

LEMMA AwsPayloadShape ==
    ASSUME IInv, NEW c \in Calls, AwsPayload(c)
    PROVE  Silent(c, "done") \/ Silent(c, "put")
<1>1. TypeOK /\ Inside(c) /\ store = "aws" /\ pc[c] = "payload" /\ UNCHANGED <<store, jobs, keys, request>>
    BY DEF IInv, CallShape, AwsPayload
<1>2. CASE NoWords(c)
  <2>1. ~ Wrote(c)
    BY <1>1 DEF IInv, WritersWhole
  <2>. QED
    BY <1>1, <1>2, <2>1, TurnedAway DEF AwsPayload
<1>3. CASE ~ NoWords(c)
  <2>1. objects' = [objects EXCEPT ![c] = normalize_words(request[c].words)] /\ Goes(c, "put")
    BY <1>3 DEF AwsPayload
  <2>2. Moves(c, "put")
    BY <1>1, <2>1, GoesMoves
  <2>3. normalize_words(request[c].words) \in Lists
    BY <1>1, CallFacts DEF Lists, Inside
  <2>4. /\ objects' \in [Calls -> Lists \cup {None}]
        /\ \A d \in Calls \ {c} : objects'[d] = objects[d]
        /\ objects'[c] = normalize_words(request[c].words)
    BY <1>1, <2>1, <2>3 DEF TypeOK
  <2>5. HasInput(c)'
    BY <1>1, <1>3, <2>4 DEF HasInput, NoWords
  <2>. QED
    BY <1>1, <2>2, <2>4, <2>5 DEF Silent
<1>. QED
    BY <1>2, <1>3

LEMMA AwsStoreShape ==
    ASSUME IInv, NEW c \in Calls, AwsStore(c)
    PROVE  Silent(c, "reread") \/ Writing(c, "done") \/ Writing(c, "reread")
<1>1. TypeOK /\ pc[c] = "put" /\ UNCHANGED <<store, keys, objects, request>>
    BY DEF IInv, AwsStore, AwsPut, AwsPutTwice, AwsPutUnknown, AwsRefused
<1>2. Inside(c) /\ request[c] # None /\ store = "aws" /\ HasInput(c)
    BY <1>1 DEF IInv, CallShape, Inside
<1>3. ASSUME Applied(c)
      PROVE  jobs[JobId(c)] = None /\ Writes(c)
    BY <1>2, <1>3 DEF Applied, Fits, Writes, WordsOf, InputsOf
<1>4. CASE AwsPut(c)
  <2>1. Moves(c, "done") /\ answer'[c] = Snapshot(JobId(c), RowOf(c, JobId(c)))
    BY <1>1, <1>2, <1>3, <1>4, ToldOfOwn, SaysMoves DEF AwsPut
  <2>. QED
    BY <1>1, <1>2, <1>3, <1>4, <2>1 DEF Writing, AwsPut
<1>5. ASSUME Applied(c), Says(c, [code |-> "error"])
      PROVE  Writing(c, "done")
  <2>1. [code |-> "error"] \in Answers
    BY DEF Answers
  <2>2. Moves(c, "done") /\ answer'[c] = [code |-> "error"]
    BY <1>1, <1>5, <2>1, SaysMoves
  <2>. QED
    BY <1>1, <1>2, <1>3, <1>5, <2>2 DEF Writing
<1>6. CASE AwsPutTwice(c)
  <2>1. CASE Keyed(c)
    <3>1. Moves(c, "reread") /\ Applied(c)
      BY <1>1, <1>6, <2>1, GoesMoves DEF AwsPutTwice
    <3>. QED
      BY <1>1, <1>2, <1>3, <2>1, <3>1 DEF Writing
  <2>2. CASE ~ Keyed(c)
    BY <1>5, <1>6, <2>2 DEF AwsPutTwice
  <2>. QED
    BY <2>1, <2>2
<1>7. CASE AwsPutUnknown(c)
    BY <1>5, <1>7 DEF AwsPutUnknown
<1>8. CASE AwsRefused(c)
  <2>1. Keyed(c)
    <3>1. CASE jobs[JobId(c)] # None
      BY <1>1, <3>1, RowOfAnother
    <3>2. CASE Contended(c)
      <4>1. PICK d \in Calls \ {c} : pc[d] = "put" /\ JobId(d) = JobId(c)
        BY <3>2 DEF Contended
      <4>2. request[d] # None
        BY <4>1 DEF IInv, CallShape, Inside
      <4>. QED
        BY <1>1, <1>2, <4>1, <4>2, SameId
    <3>. QED
      BY <1>8, <3>1, <3>2 DEF AwsRefused, Fits
  <2>. QED
    BY <1>1, <1>8, <2>1, GoesOnSilent DEF AwsRefused
<1>. QED
    BY <1>4, <1>6, <1>7, <1>8 DEF AwsStore

\* A step is a call coming in, one that writes nothing, or one that writes its rows.
LEMMA StepShape ==
    ASSUME IInv, Next
    PROVE  \E c \in Calls :
              \/ \E r \in Requests : Post(c, r)
              \/ \E step : Silent(c, step) \/ Writing(c, step)
<1>1. PICK c \in Calls : (\E r \in Requests : Post(c, r)) \/ Handle(c) \/ Break(c)
    BY DEF Next
<1>2. CASE Handle(c)
    BY <1>2, MemoryCreateShape, SQLiteCreateShape, LookupShape, AwsPayloadShape, AwsStoreShape
       DEF Handle
<1>. QED
    BY <1>1, <1>2, LookupShape

LEMMA InitInv == Init => IInv
<1> SUFFICES ASSUME Init PROVE IInv
    OBVIOUS
<1>1. \A i \in JobIds : jobs[i] = None
    BY DEF Init
<1>2. \A c \in Calls : ~ Wrote(c) /\ pc[c] = "idle"
    BY DEF Init, Wrote
<1>3. TypeOK
    BY DEF Init, TypeOK
<1>4. KeysTrue
  <2>1. StableIds \subseteq JobIds
    BY DEF JobIds, TopIds
  <2>. QED
    BY <1>1, <2>1 DEF Init, KeysTrue
<1>. QED
    BY <1>1, <1>2, <1>3, <1>4 DEF IInv, CallShape, WritersWhole, RowsWritten, Stored

LEMMA IdleInv ==
    ASSUME IInv, UNCHANGED vars
    PROVE  IInv'
<1>1. \A c \in Calls : /\ Wrote(c)' <=> Wrote(c)
                       /\ Members(c)' = Members(c) /\ (Keyed(c)' <=> Keyed(c))
                       /\ Inside(c)' <=> Inside(c)
                       /\ HasInput(c)' <=> HasInput(c)
                       /\ \A i : RowOf(c, i)' = RowOf(c, i)
    BY SameCall DEF vars, Wrote
<1>2. TypeOK'
    BY DEF IInv, TypeOK, vars
<1>3. CallShape' /\ WritersWhole' /\ RowsWritten' /\ KeysTrue'
    BY <1>1 DEF IInv, CallShape, WritersWhole, RowsWritten, KeysTrue, Stored, vars
<1>. QED
    BY <1>2, <1>3 DEF IInv

LEMMA NextInv ==
    ASSUME IInv, [Next]_vars
    PROVE  IInv'
<1>1. CASE UNCHANGED vars
    BY <1>1, IdleInv
<1>2. CASE Next
    BY <1>2, StepShape, PostStep, QuietStep, WriteStep
<1>. QED
    BY <1>1, <1>2

\* Whoever submits, repeats or breaks off: a row is there because one call wrote it, with
\* all the others that call writes.
THEOREM InvariantHolds == Spec => []IInv
<1>. QED
    BY InitInv, NextInv, PTL DEF Spec

-----------------------------------------------------------------------------
(* What is stored.                                                         *)

\* The rows of a call that wrote: they are there, and those that are built from words
\* have the words it sent, normalised or as they came.
LEMMA OwnRows ==
    ASSUME IInv, NEW c \in Calls, Wrote(c)
    PROVE  /\ \A i \in Members(c) : i \in JobIds /\ jobs[i] = RowOf(c, i) /\ jobs[i] # None
           /\ \A i \in Members(c) : i # JobId(c) \/ request[c].kind = "GRAPH_BUILD" =>
                 LET input == InputOf(jobs[i])
                 IN /\ WordsIn(input) = WordsIn(request[c].words)
                    /\ input \notin {None, <<>>}
                    /\ request[c].kind = "REDUCE_GRAPH" =>
                          input = normalize_words(request[c].words)
<1>1. /\ TypeOK /\ Inside(c) /\ HasInput(c) /\ request[c] # None /\ request[c] \in Requests
      /\ \A i \in Members(c) : jobs[i] = RowOf(c, i)
    BY CallFacts DEF IInv, WritersWhole, Wrote
<1>2. \A i \in Members(c) : i \in JobIds /\ jobs[i] = RowOf(c, i) /\ jobs[i] # None
    BY <1>1, CallFacts, RowTyped, NoneAssumption
<1> DEFINE words == request[c].words
           normal == normalize_words(words)
<1>3. WordsIn(normal) = WordsIn(words)
    BY <1>1, RequestFacts, WordsFacts
<1>4. words \in Lists /\ normal \in Lists /\ words # None /\ normal # None /\ words # <<>>
    BY <1>1, NoneAssumption DEF Lists, Inside, Valid
<1>5. ASSUME NEW i \in Members(c), i # JobId(c) \/ request[c].kind = "GRAPH_BUILD"
      PROVE  \/ InputOf(jobs[i]) = normal /\ normal # <<>>
             \/ InputOf(jobs[i]) = words /\ request[c].kind = "GRAPH_BUILD"
  <2>1. jobs[i].words = WordsOf(c) /\ jobs[i].inputs = InputsOf(c)
    BY <1>1, <1>5 DEF RowOf, Part, Single
  <2>2. CASE store = "aws"
    <3>1. InputOf(jobs[i]) = objects[c]
      BY <2>1, <2>2, NoneAssumption DEF InputsOf, InputOf
    <3>. QED
      BY <1>1, <2>2, <3>1 DEF HasInput, NoWords
  <2>3. CASE store # "aws"
    <3>1. InputOf(jobs[i]) = WordsOf(c)
      BY <2>1, <2>3 DEF InputsOf, InputOf
    <3>2. request[c].kind \in {"GRAPH_BUILD", "REDUCE_GRAPH"}
      BY <1>1, RequestFacts
    <3>. QED
      BY <1>1, <2>3, <3>1, <3>2 DEF WordsOf, HasInput, NoWords, Inside, TypeOK
  <2>. QED
    BY <2>2, <2>3
<1>. QED
  <2> HIDE DEF words, normal
  <2>1. \A i \in Members(c) : i # JobId(c) \/ request[c].kind = "GRAPH_BUILD" =>
           /\ WordsIn(InputOf(jobs[i])) = WordsIn(words)
           /\ InputOf(jobs[i]) \notin {None, <<>>}
           /\ request[c].kind = "REDUCE_GRAPH" => InputOf(jobs[i]) = normal
    BY <1>3, <1>4, <1>5
  <2>. QED
    BY <1>2, <2>1 DEF words, normal

LEMMA WholeStored ==
    ASSUME IInv
    PROVE  StoredWhole
<1> SUFFICES ASSUME NEW i \in JobIds, jobs[i] # None
             PROVE  LET row == jobs[i]
                    IN /\ row.kind # "REDUCE_GRAPH" => InputOf(row) \notin {None, <<>>}
                       /\ row.kind = "REDUCE_GRAPH" =>
                             /\ row.parts \subseteq Stored
                             /\ \A p \in row.parts :
                                   /\ jobs[p].kind = "BUILD_PARTITION"
                                   /\ jobs[p].partitions = Cardinality(row.parts)
                                   /\ InputOf(jobs[p]) = normalize_words(request[row.created].words)
                       /\ row.kind = "BUILD_PARTITION" =>
                             \E j \in Stored : i \in jobs[j].parts
    BY DEF StoredWhole, Stored
<1>1. PICK c \in Calls : Wrote(c) /\ i \in Members(c) /\ c = jobs[i].created
    BY RowOwner
<1>2. TypeOK /\ Inside(c) /\ request[c] # None /\ request[c] \in Requests /\ JobId(c) \in Members(c)
    BY <1>1, CallFacts DEF IInv, Wrote, WritersWhole, Members
<1>3. /\ \A j \in Members(c) : j \in Stored /\ jobs[j] = RowOf(c, j)
      /\ \A j \in Members(c) : j # JobId(c) \/ request[c].kind = "GRAPH_BUILD" =>
            /\ InputOf(jobs[j]) \notin {None, <<>>}
            /\ request[c].kind = "REDUCE_GRAPH" =>
                  InputOf(jobs[j]) = normalize_words(request[c].words)
  <2>1. \A j \in Members(c) : j \in Stored /\ jobs[j] = RowOf(c, j)
    BY <1>1, OwnRows DEF Stored
  <2>2. \A j \in Members(c) : j # JobId(c) \/ request[c].kind = "GRAPH_BUILD" =>
           /\ InputOf(jobs[j]) \notin {None, <<>>}
           /\ request[c].kind = "REDUCE_GRAPH" =>
                 InputOf(jobs[j]) = normalize_words(request[c].words)
    BY <1>1, OwnRows
  <2>. QED
    BY <2>1, <2>2
<1>4. CASE i = JobId(c) /\ request[c].kind = "GRAPH_BUILD"
  <2>1. jobs[i] = Single(c, WordsOf(c), InputsOf(c))
    BY <1>1, <1>3, <1>4 DEF RowOf
  <2>2. jobs[i].kind = "GRAPH_BUILD"
    BY <2>1 DEF Single
  <2>. QED
    BY <1>1, <1>3, <1>4, <2>2
<1>5. CASE i = JobId(c) /\ request[c].kind = "REDUCE_GRAPH"
  <2>1. jobs[i] = Reducer(c)
    BY <1>1, <1>3, <1>5 DEF RowOf
  <2>2. jobs[i].kind = "REDUCE_GRAPH" /\ jobs[i].parts = PartsOfCall(c)
    BY <2>1 DEF Reducer
  <2>3. Cardinality(PartsOfCall(c)) = request[c].partitions
    BY <1>2, PartsCounted DEF Inside
  <2>4. \A p \in PartsOfCall(c) : p \in Members(c) /\ p # JobId(c)
    BY <1>2, <1>5, CallFacts, PartsApart DEF Members
  <2>5. \A p \in PartsOfCall(c) : jobs[p] = Part(c, WordsOf(c), InputsOf(c))
    BY <1>3, <2>4 DEF RowOf
  <2>6. \A p \in PartsOfCall(c) : jobs[p].kind = "BUILD_PARTITION"
                                  /\ jobs[p].partitions = request[c].partitions
    BY <2>5 DEF Part
  <2>. QED
    BY <1>1, <1>3, <1>5, <2>2, <2>3, <2>4, <2>6
<1>6. CASE i # JobId(c)
  <2>1. request[c].kind = "REDUCE_GRAPH" /\ i \in PartsOfCall(c)
    BY <1>1, <1>6 DEF Members
  <2>2. jobs[i].kind = "BUILD_PARTITION"
    BY <1>1, <1>3, <1>6 DEF RowOf, Part
  <2>3. jobs[JobId(c)].parts = PartsOfCall(c) /\ JobId(c) \in Stored
    BY <1>2, <1>3, <2>1 DEF RowOf, Reducer
  <2>. QED
    BY <1>1, <1>3, <1>6, <2>1, <2>2, <2>3
<1>7. request[c].kind \in {"GRAPH_BUILD", "REDUCE_GRAPH"}
    BY <1>2, RequestFacts
<1>. QED
    BY <1>4, <1>5, <1>6, <1>7

\* Every variable keeps its type, whoever submits what at the same time.
THEOREM TypesHold == Spec => []TypeOK
<1>1. IInv => TypeOK
    BY DEF IInv
<1>. QED
    BY InvariantHolds, <1>1, PTL

\* Whatever breaks off and whoever submits at the same time, a row's input is there
\* before the row is, and a reducer is stored with all its partitions: in one critical
\* section, in one transaction of SQLite, or in one transact_write_items after the
\* upload.
THEOREM StoredWholeHolds == Spec => []StoredWhole
<1>1. IInv => StoredWhole
    BY WholeStored
<1>. QED
    BY InvariantHolds, <1>1, PTL

-----------------------------------------------------------------------------
(* The contract.                                                           *)

\* What the book says of an id: the call whose row is there, and what that call meant.
Entry(i) ==
    IF jobs[i] = None THEN None
    ELSE [by |-> jobs[i].created, meaning |-> Meaning(request[jobs[i].created])]

BookTrue == Book = [i \in TopIds |-> Entry(i)]

\* SQLite's table of keys finds the row that is stored under the id.
LEMMA FoundIsStored ==
    ASSUME IInv, NEW i \in TopIds
    PROVE  Found(i) = jobs[i]
<1>1. CASE ~ (store = "sqlite" /\ i \in StableIds)
    BY <1>1 DEF Found
<1>2. CASE store = "sqlite" /\ i \in StableIds /\ jobs[i] = None
    BY <1>2 DEF Found, IInv, KeysTrue
<1>3. CASE store = "sqlite" /\ i \in StableIds /\ jobs[i] # None
  <2>1. TypeOK /\ i \in JobIds
    BY DEF IInv, JobIds
  <2>2. PICK d \in Calls : Wrote(d) /\ i \in Members(d) /\ jobs[i] = RowOf(d, i)
    BY <1>3, <2>1, RowOwner
  <2>3. i = JobId(d) /\ request[d] # None
    BY <2>1, <2>2, PartsApart DEF Members, Wrote
  <2>4. Keyed(d) /\ request[d] \in Requests
    BY <1>3, <2>1, <2>3, CallFacts
  <2>5. jobs[i].request_hash \in Hashes
    BY <2>2, <2>3, <2>4 DEF RowOf, Single, Reducer, RequestHash, Hashes
  <2>6. [request_hash |-> jobs[i].request_hash, job |-> i] \in KeyRows
    BY <2>5 DEF KeyRows
  <2>7. keys[i] = [request_hash |-> jobs[i].request_hash, job |-> i]
    BY <1>3 DEF IInv, KeysTrue
  <2>8. keys[i] # None /\ keys[i].job = i
    BY <2>6, <2>7, NoneAssumption
  <2>. QED
    BY <1>3, <2>8 DEF Found
<1>. QED
    BY <1>1, <1>2, <1>3

\* What is stored under an id means what its call meant.
LEMMA StoredMeaning ==
    ASSUME IInv, NEW c \in Calls, Wrote(c)
    PROVE  MeaningOf(jobs[JobId(c)]) = Meaning(request[c])
<1> DEFINE r == request[c]
           row == jobs[JobId(c)]
<1>1. /\ TypeOK /\ Inside(c) /\ r # None /\ r \in Requests /\ JobId(c) \in Members(c)
      /\ r.kind \in {"GRAPH_BUILD", "REDUCE_GRAPH"}
    BY CallFacts, RequestFacts DEF IInv, Wrote, WritersWhole, Members
<1>2. \A i \in Members(c) : jobs[i] = RowOf(c, i) /\ jobs[i] # None
    BY OwnRows
<1>3. \A i \in Members(c) : i # JobId(c) \/ r.kind = "GRAPH_BUILD" =>
           WordsIn(InputOf(jobs[i])) = WordsIn(r.words)
    BY OwnRows
<1>4. CASE r.kind = "GRAPH_BUILD"
  <2>1. row = Single(c, WordsOf(c), InputsOf(c))
    BY <1>1, <1>2, <1>4 DEF RowOf
  <2>2. row.kind = "GRAPH_BUILD" /\ row.partitions = r.partitions
    BY <2>1 DEF Single
  <2>3. row.source = r.source
    BY <1>1, <1>4, <2>1, RequestFacts DEF Single
  <2>. QED
    BY <1>1, <1>3, <1>4, <2>2, <2>3 DEF MeaningOf, Meaning
<1>5. CASE r.kind = "REDUCE_GRAPH"
  <2>1. row = Reducer(c)
    BY <1>1, <1>2, <1>5 DEF RowOf
  <2>2. row.kind = "REDUCE_GRAPH" /\ row.parts = PartsOfCall(c) /\ row.source = r.source
    BY <2>1 DEF Reducer
  <2>3. Cardinality(PartsOfCall(c)) = r.partitions /\ PartsOfCall(c) # {}
    BY <1>1, PartsCounted DEF Inside
  <2>4. \A p \in PartsOfCall(c) : p \in Members(c) /\ p # JobId(c)
    BY <1>1, <1>5, CallFacts, PartsApart DEF Members
  <2> DEFINE builds == {jobs[p] : p \in row.parts} \ {None}
  <2>5. \A b \in builds : WordsIn(InputOf(b)) = WordsIn(r.words)
    BY <1>3, <2>2, <2>4
  <2>6. builds # {}
    BY <1>2, <2>2, <2>3, <2>4
  <2>7. UNION {WordsIn(InputOf(b)) : b \in builds} = WordsIn(r.words)
    <3> HIDE DEF builds
    <3>. QED
      BY <2>5, <2>6
  <2>8. MeaningOf(row) = [kind |-> row.kind, words |-> UNION {WordsIn(InputOf(b)) : b \in builds},
                          partitions |-> Cardinality(row.parts), source |-> row.source]
    BY <2>2 DEF MeaningOf
  <2>. QED
    BY <1>5, <2>2, <2>3, <2>7, <2>8 DEF Meaning
<1>. QED
    BY <1>1, <1>4, <1>5

LEMMA BookTold == IInv => BookTrue
<1> SUFFICES ASSUME IInv, NEW i \in TopIds
             PROVE  IF Found(i) = None THEN Entry(i) = None
                    ELSE Entry(i) = [by |-> Found(i).created, meaning |-> MeaningOf(Found(i))]
    BY DEF BookTrue, Book
<1>1. Found(i) = jobs[i] /\ i \in JobIds /\ TypeOK
    BY FoundIsStored DEF JobIds, IInv
<1>2. CASE jobs[i] = None
    BY <1>1, <1>2 DEF Entry
<1>3. CASE jobs[i] # None
  <2>1. PICK d \in Calls : Wrote(d) /\ i \in Members(d) /\ d = jobs[i].created
    BY <1>1, <1>3, RowOwner
  <2>2. i = JobId(d)
    BY <1>1, <2>1, PartsApart DEF Members
  <2>3. MeaningOf(jobs[i]) = Meaning(request[d])
    BY <2>1, <2>2, StoredMeaning
  <2>. QED
    BY <1>1, <1>3, <2>1, <2>3 DEF Entry
<1>. QED
    BY <1>2, <1>3

LEMMA BookToldNext == IInv' => BookTrue'
    BY BookTold, PTL

\* The row under an id a call can ask for is the one that its creator wrote.
LEMMA EntryFacts ==
    ASSUME IInv, NEW i \in TopIds, jobs[i] # None
    PROVE  LET d == jobs[i].created
           IN /\ d \in Calls /\ Wrote(d) /\ i = JobId(d) /\ request[d] \in Requests
              /\ jobs[i].request_hash = RequestHash(d)
              /\ Entry(i) = [by |-> d, meaning |-> Meaning(request[d])]
              /\ Entry(i) # None
<1>1. TypeOK /\ i \in JobIds
    BY DEF IInv, JobIds
<1>2. PICK d \in Calls : Wrote(d) /\ i \in Members(d) /\ d = jobs[i].created /\ jobs[i] = RowOf(d, i)
    BY <1>1, RowOwner
<1>3. i = JobId(d) /\ request[d] \in Requests
    BY <1>1, <1>2, PartsApart, CallFacts DEF Members, Wrote
<1>4. jobs[i].request_hash = RequestHash(d)
  <2>1. RowOf(d, JobId(d)).request_hash = RequestHash(d)
    BY DEF RowOf, Single, Reducer
  <2>. QED
    BY <1>2, <1>3, <2>1
<1>5. Entry(i) = [by |-> d, meaning |-> Meaning(request[d])]
    BY <1>2 DEF Entry
<1>6. Entry(i) \in [by : Calls, meaning : Meanings]
    BY <1>3, <1>5 DEF Meanings
<1>. QED
    BY <1>2, <1>3, <1>4, <1>5, <1>6, NoneAssumption

\* A call keeps asking for what it asked.
LEMMA AskedKept ==
    ASSUME UNCHANGED <<store, request>>
    PROVE  Asked' = Asked
<1>1. \A c \in Calls : /\ Inside(c)' <=> Inside(c)
                       /\ JobId(c)' = JobId(c)
                       /\ Meaning(request[c])' = Meaning(request[c])
    BY SameCall DEF Meaning
<1>. QED
    BY <1>1 DEF Asked

\* A call on its way is open.
LEMMA OpenCall ==
    ASSUME IInv, NEW c \in Calls, pc[c] \notin {"idle", "done"}
    PROVE  /\ Inside(c) /\ request[c] \in Requests /\ JobId(c) \in TopIds
           /\ Asked[c].id = JobId(c) /\ Asked[c].meaning = Meaning(request[c])
           /\ Contract!Open(c)
<1>1. Inside(c) /\ TypeOK /\ answer[c] = None
    BY DEF IInv, CallShape, TypeOK
<1>2. request[c] \in Requests /\ JobId(c) \in TopIds
    BY <1>1, CallFacts DEF Inside
<1>3. Asked[c] = [id |-> JobId(c), meaning |-> Meaning(request[c])]
    BY <1>1 DEF Asked
<1>4. Asked[c] \in [id : TopIds, meaning : Meanings]
    BY <1>2, <1>3 DEF Meanings
<1>5. Told[c] = None
    BY <1>1 DEF Told
<1>. QED
    BY <1>1, <1>2, <1>3, <1>4, <1>5, NoneAssumption DEF Contract!Open

\* What an answer is in the words of the contract.
Heard(a) == IF a.code = "accepted" THEN [code |-> "accepted", by |-> a.created] ELSE a

LEMMA ToldStep ==
    ASSUME IInv, NEW c \in Calls, NEW step, Moves(c, step), pc[c] \notin {"idle", "done"},
           UNCHANGED <<store, request>>
    PROVE  Told' = IF step = "done" THEN [Told EXCEPT ![c] = Heard(answer'[c])] ELSE Told
<1>1. \A d \in Calls : Inside(d)' <=> Inside(d)
    BY SameCall
<1>2. Inside(c) /\ answer[c] = None
    BY DEF IInv, CallShape, TypeOK
<1>3. \A d \in Calls \ {c} : answer'[d] = answer[d]
    BY DEF Moves
<1>4. answer'[c] # None <=> step = "done"
    BY DEF Moves
<1> DEFINE said(d) == IF ~ Inside(d) \/ answer[d] = None THEN None ELSE Heard(answer[d])
<1>5. Told = [d \in Calls |-> said(d)]
    BY DEF Told, Heard
<1>6. Told' = [d \in Calls |-> IF ~ Inside(d) \/ answer'[d] = None THEN None ELSE Heard(answer'[d])]
  <2>1. Told' = [d \in Calls |-> IF ~ Inside(d)' \/ answer'[d] = None THEN None
                                 ELSE Heard(answer'[d])]
    BY DEF Told, Heard
  <2>. QED
    BY <1>1, <2>1
<1>. QED
    BY <1>2, <1>3, <1>4, <1>5, <1>6

\* A call's step that writes nothing is a stutter, or its answer.
LEMMA SilentMaps ==
    ASSUME IInv, NEW c \in Calls, NEW step, Silent(c, step)
    PROVE  [Contract!ContractNext]_(Contract!contractVars)
<1>1. /\ Moves(c, step) /\ pc[c] \notin {"idle", "done"}
      /\ UNCHANGED <<store, jobs, keys, request>> /\ TypeOK
    BY DEF Silent, IInv
<1>2. Asked' = Asked
    BY <1>1, AskedKept
<1>3. Book' = Book
  <2>1. BookTrue /\ BookTrue'
    BY QuietStep, BookTold, BookToldNext
  <2>2. [i \in TopIds |-> Entry(i)]' = [i \in TopIds |-> Entry(i)]
    BY <1>1 DEF Entry
  <2>. QED
    BY <2>1, <2>2 DEF BookTrue
<1>4. Told' = IF step = "done" THEN [Told EXCEPT ![c] = Heard(answer'[c])] ELSE Told
    BY <1>1, ToldStep
<1>5. /\ Inside(c) /\ request[c] \in Requests /\ JobId(c) \in TopIds /\ Contract!Open(c)
      /\ Asked[c].id = JobId(c) /\ Asked[c].meaning = Meaning(request[c])
    BY <1>1, OpenCall
<1>6. CASE step # "done"
    BY <1>2, <1>3, <1>4, <1>6 DEF Contract!contractVars
<1>7. CASE step = "done" /\ answer'[c] = [code |-> "error"]
  <2>1. Heard(answer'[c]) = [code |-> "error"]
    BY <1>7 DEF Heard
  <2>2. Contract!Break(c)
    BY <1>2, <1>3, <1>4, <1>7, <2>1 DEF Contract!Break, Contract!Answered
  <2>. QED
    BY <1>5, <2>2 DEF Contract!ContractNext
<1>8. Book[JobId(c)] = Entry(JobId(c))
    BY <1>5, BookTold DEF BookTrue
<1>9. CASE step = "done" /\ answer'[c] = [code |-> "refused"] /\ ~ Wrote(c)
  <2>1. Heard(answer'[c]) = [code |-> "refused"]
    BY <1>9 DEF Heard
  <2>2. Book[JobId(c)] = None \/ Book[JobId(c)].by # c
    <3>1. request[c] # None
      BY <1>5 DEF Inside
    <3>. QED
      BY <1>8, <1>9, <3>1 DEF Entry, Wrote
  <2>3. Contract!Refuse(c)
    <3>1. Book[Asked[c].id] = None \/ Book[Asked[c].id].by # c
      BY <1>5, <2>2
    <3>2. Contract!Answered(c, [code |-> "refused"])
      BY <1>2, <1>4, <1>9, <2>1 DEF Contract!Answered
    <3>. QED
      BY <1>3, <3>1, <3>2 DEF Contract!Refuse
  <2>. QED
    BY <1>5, <2>3 DEF Contract!ContractNext
<1> DEFINE old == jobs[JobId(c)]
           d == old.created
<1>10. CASE /\ step = "done" /\ old # None /\ (Keyed(c) \/ Wrote(c))
            /\ answer'[c] = IF old.request_hash = RequestHash(c)
                              THEN Snapshot(JobId(c), old) ELSE [code |-> "conflict"]
  <2>1. /\ d \in Calls /\ Wrote(d) /\ JobId(c) = JobId(d) /\ request[d] \in Requests
        /\ old.request_hash = RequestHash(d) /\ Entry(JobId(c)) # None
        /\ Entry(JobId(c)) = [by |-> d, meaning |-> Meaning(request[d])]
    BY <1>5, <1>10, EntryFacts
  <2>2. old.request_hash = RequestHash(c) <=> Meaning(request[d]) = Meaning(request[c])
    <3>1. CASE d = c
      BY <2>1, <3>1
    <3>2. CASE d # c
      <4>1. Keyed(c) /\ Keyed(d)
        BY <1>1, <1>5, <2>1, <3>2, SameId DEF Inside, Wrote
      <4>2. RequestHash(c) = Fingerprint(request[c]) /\ RequestHash(d) = Fingerprint(request[d])
        BY <4>1 DEF RequestHash
      <4>. QED
        BY <1>5, <2>1, <4>2, DigestIsMeaning
    <3>. QED
      BY <3>1, <3>2
  <2> HIDE DEF d, old
  <2>3. CASE old.request_hash = RequestHash(c)
    <3>1. Heard(answer'[c]) = [code |-> "accepted", by |-> d]
      BY <1>10, <2>3 DEF Heard, Snapshot, d
    <3>2. Contract!Accept(c)
      <4>1. Book'[Asked[c].id] # None /\ Book'[Asked[c].id].meaning = Asked[c].meaning
            /\ Book'[Asked[c].id].by = d
        BY <1>3, <1>5, <1>8, <2>1, <2>2, <2>3
      <4>2. Contract!Answered(c, [code |-> "accepted", by |-> d])
        BY <1>2, <1>4, <1>10, <3>1 DEF Contract!Answered
      <4>. QED
        BY <1>3, <4>1, <4>2 DEF Contract!Accept
    <3>. QED
      BY <1>5, <3>2 DEF Contract!ContractNext
  <2>4. CASE old.request_hash # RequestHash(c)
    <3>1. Heard(answer'[c]) = [code |-> "conflict"]
      BY <1>10, <2>4 DEF Heard
    <3>2. Contract!Conflict(c)
      <4>1. Book[Asked[c].id] # None /\ Book[Asked[c].id].meaning # Asked[c].meaning
        BY <1>5, <1>8, <2>1, <2>2, <2>4
      <4>2. Contract!Answered(c, [code |-> "conflict"])
        BY <1>2, <1>4, <1>10, <3>1 DEF Contract!Answered
      <4>. QED
        BY <1>3, <4>1, <4>2 DEF Contract!Conflict
    <3>. QED
      BY <1>5, <3>2 DEF Contract!ContractNext
  <2>. QED
    BY <2>3, <2>4
<1>. QED
    BY <1>6, <1>7, <1>9, <1>10 DEF Silent

\* A call's step that writes its rows enters it in the book.
LEMMA WritingMaps ==
    ASSUME IInv, NEW c \in Calls, NEW step, Writing(c, step)
    PROVE  Contract!ContractNext
<1>1. /\ Moves(c, step) /\ pc[c] \notin {"idle", "done"} /\ jobs[JobId(c)] = None /\ Writes(c)
      /\ UNCHANGED <<store, request>> /\ TypeOK
    BY DEF Writing, IInv
<1>2. Asked' = Asked
    BY <1>1, AskedKept
<1>3. Told' = IF step = "done" THEN [Told EXCEPT ![c] = Heard(answer'[c])] ELSE Told
    BY <1>1, ToldStep
<1>4. /\ Inside(c) /\ request[c] \in Requests /\ JobId(c) \in TopIds /\ Contract!Open(c)
      /\ Asked[c].id = JobId(c) /\ Asked[c].meaning = Meaning(request[c])
    BY <1>1, OpenCall
<1> DEFINE entry == [by |-> c, meaning |-> Meaning(request[c])]
<1>5. entry # None
  <2>1. entry \in [by : Calls, meaning : Meanings]
    BY <1>4 DEF Meanings
  <2>. QED
    BY <2>1, NoneAssumption
<1>6. Book[JobId(c)] = None /\ Book' = [Book EXCEPT ![JobId(c)] = entry]
  <2>1. Book = [i \in TopIds |-> Entry(i)] /\ Book' = [i \in TopIds |-> Entry(i)']
    BY WriteStep, BookTold, BookToldNext DEF BookTrue
  <2>2. ASSUME NEW i \in TopIds
        PROVE  Entry(i)' = IF i = JobId(c) THEN entry ELSE Entry(i)
    <3>1. CASE i = JobId(c)
      <4>1. jobs'[i] = RowOf(c, i) /\ jobs'[i] # None
        BY <1>1, <1>4, <3>1, WritesFacts DEF Members
      <4>2. RowOf(c, i).created = c
        BY <3>1 DEF RowOf, Single, Reducer
      <4>. QED
        BY <1>1, <3>1, <4>1, <4>2 DEF Entry
    <3>2. CASE i # JobId(c)
      <4>1. i \in JobIds \ Members(c)
        BY <1>1, <3>2, PartsApart DEF Members, JobIds
      <4>2. jobs'[i] = jobs[i]
        BY <1>1, <1>4, <4>1, WritesFacts
      <4>. QED
        BY <1>1, <3>2, <4>2 DEF Entry
    <3>. QED
      BY <3>1, <3>2
  <2>3. Entry(JobId(c)) = None
    BY <1>1 DEF Entry
  <2> HIDE DEF entry
  <2>. QED
    BY <1>4, <2>1, <2>2, <2>3
<1>7. Contract!Enters(c)
    BY <1>4, <1>6 DEF Contract!Enters
<1>8. CASE step # "done"
  <2>1. Contract!Register(c)
    BY <1>2, <1>3, <1>7, <1>8 DEF Contract!Register
  <2>. QED
    BY <1>4, <2>1 DEF Contract!ContractNext
<1>9. CASE step = "done" /\ answer'[c] = [code |-> "error"]
  <2>1. Heard(answer'[c]) = [code |-> "error"]
    BY <1>9 DEF Heard
  <2>2. Contract!Break(c)
    BY <1>2, <1>3, <1>7, <1>9, <2>1 DEF Contract!Break, Contract!Answered
  <2>. QED
    BY <1>4, <2>2 DEF Contract!ContractNext
<1>10. CASE step = "done" /\ answer'[c] = Snapshot(JobId(c), RowOf(c, JobId(c)))
  <2>1. RowOf(c, JobId(c)).created = c
    BY DEF RowOf, Single, Reducer
  <2>2. Heard(answer'[c]) = [code |-> "accepted", by |-> c]
    BY <1>10, <2>1 DEF Heard, Snapshot
  <2>3. Book'[JobId(c)] = entry
    <3>1. JobId(c) \in DOMAIN Book
      BY <1>4 DEF Book
    <3>. QED
      BY <1>6, <3>1
  <2>4. Contract!Accept(c)
    <3>1. Book'[Asked[c].id] # None /\ Book'[Asked[c].id].meaning = Asked[c].meaning
          /\ Book'[Asked[c].id].by = c
      BY <1>4, <1>5, <2>3
    <3>2. Contract!Answered(c, [code |-> "accepted", by |-> c])
      BY <1>2, <1>3, <1>10, <2>2 DEF Contract!Answered
    <3>. QED
      BY <1>7, <3>1, <3>2 DEF Contract!Accept
  <2>. QED
    BY <1>4, <2>4 DEF Contract!ContractNext
<1>. QED
    BY <1>8, <1>9, <1>10 DEF Writing

\* A call coming in asks, or is turned away at the door.
LEMMA PostMaps ==
    ASSUME IInv, NEW c \in Calls, NEW r \in Requests, Post(c, r)
    PROVE  [Contract!ContractNext]_(Contract!contractVars)
<1>1. /\ TypeOK /\ pc[c] = "idle" /\ request[c] = None /\ answer[c] = None
      /\ UNCHANGED <<store, jobs, keys, objects>>
    BY DEF IInv, TypeOK, Post
<1>2. request'[c] = r /\ \A d \in Calls \ {c} : request'[d] = request[d]
    BY <1>1 DEF TypeOK, Post
<1>3. Book' = Book
  <2>1. Book = [i \in TopIds |-> Entry(i)] /\ Book' = [i \in TopIds |-> Entry(i)']
    BY PostStep, BookTold, BookToldNext DEF BookTrue
  <2>2. ASSUME NEW i \in TopIds
        PROVE  Entry(i)' = Entry(i)
    <3>1. CASE jobs[i] = None
      BY <1>1, <3>1 DEF Entry
    <3>2. CASE jobs[i] # None
      <4>1. jobs[i].created \in Calls /\ Wrote(jobs[i].created)
        BY <3>2, EntryFacts
      <4>2. request'[jobs[i].created] = request[jobs[i].created]
        BY <1>1, <1>2, <4>1 DEF Wrote
      <4>. QED
        BY <1>1, <3>2, <4>2 DEF Entry
    <3>. QED
      BY <3>1, <3>2
  <2>. QED
    BY <2>1, <2>2
<1>4. ~ Inside(c) /\ Asked[c] = None
    BY <1>1 DEF Inside, Asked
<1>5. \A d \in Calls \ {c} : /\ Inside(d)' <=> Inside(d)
                             /\ JobId(d)' = JobId(d)
                             /\ Meaning(request[d])' = Meaning(request[d])
    BY <1>1, <1>2, SameCall DEF Meaning
<1>6. Told' = Told
  <2>1. \A d \in Calls \ {c} : answer'[d] = answer[d]
    BY <1>1 DEF Post, Says, Goes, TypeOK
  <2>2. Inside(c)' => answer'[c] = None
    BY <1>1, <1>2 DEF Inside, Post, Goes
  <2> DEFINE said(d) == IF answer[d].code = "accepted"
                          THEN [code |-> "accepted", by |-> answer[d].created] ELSE answer[d]
  <2>3. /\ Told = [d \in Calls |-> IF ~ Inside(d) \/ answer[d] = None THEN None ELSE said(d)]
        /\ Told' = [d \in Calls |-> IF ~ Inside(d)' \/ answer'[d] = None THEN None ELSE said(d)']
    BY DEF Told
  <2>4. \A d \in Calls \ {c} : said(d)' = said(d)
    BY <2>1
  <2>5. \A d \in Calls : (IF ~ Inside(d)' \/ answer'[d] = None THEN None ELSE said(d)')
                         = IF ~ Inside(d) \/ answer[d] = None THEN None ELSE said(d)
    <3> HIDE DEF said
    <3>. QED
      BY <1>4, <1>5, <2>1, <2>2, <2>4
  <2>. QED
    BY <2>3, <2>5
<1>7. CASE ~ Inside(c)'
  <2>1. Asked' = Asked
    BY <1>4, <1>5, <1>7 DEF Asked
  <2>. QED
    BY <1>3, <1>6, <2>1 DEF Contract!contractVars
<1>8. CASE Inside(c)'
  <2>1. r.kind # "uuid4" /\ r.key \in Keys \cup {NoKey} /\ r.kind \in {"GRAPH_BUILD", "REDUCE_GRAPH"}
    BY RequestFacts
  <2>2. JobId(c)' \in TopIds /\ Meaning(request[c])' \in Meanings
    BY <1>2, <2>1 DEF JobId, TopIds, StableIds, Meanings, Meaning
  <2>3. Asked' = [Asked EXCEPT ![c] = [id |-> JobId(c)', meaning |-> Meaning(request[c])']]
    BY <1>5, <1>8 DEF Asked
  <2>4. Asked'[c] = [id |-> JobId(c)', meaning |-> Meaning(request[c])']
    BY <1>8 DEF Asked
  <2>5. Asked' = [Asked EXCEPT ![c] = Asked'[c]]
    BY <2>3, <2>4
  <2>6. Asked'[c] \in [id : TopIds, meaning : Meanings]
    BY <2>2, <2>4
  <2>7. Contract!Ask(c)
    BY <1>3, <1>4, <1>6, <2>5, <2>6 DEF Contract!Ask
  <2>. QED
    BY <2>7 DEF Contract!ContractNext
<1>. QED
    BY <1>7, <1>8

LEMMA InitMaps == Init => Contract!ContractInit
<1> SUFFICES ASSUME Init PROVE Contract!ContractInit
    OBVIOUS
<1>1. \A c \in Calls : ~ Inside(c) /\ answer[c] = None
    BY DEF Init, Inside
<1>2. Book = [i \in TopIds |-> None]
  <2>1. BookTrue
    BY InitInv, BookTold
  <2>2. \A i \in TopIds : Entry(i) = None
    BY DEF Init, Entry, JobIds
  <2>. QED
    BY <2>1, <2>2 DEF BookTrue
<1>3. Asked = [c \in Calls |-> None] /\ Told = [c \in Calls |-> None]
    BY <1>1 DEF Asked, Told
<1>. QED
    BY <1>2, <1>3 DEF Contract!ContractInit

LEMMA StepMaps ==
    ASSUME IInv, [Next]_vars
    PROVE  [Contract!ContractNext]_(Contract!contractVars)
<1>1. CASE Next
    BY <1>1, StepShape, PostMaps, SilentMaps, WritingMaps
<1>2. CASE UNCHANGED vars
  <2>1. Asked' = Asked
    BY <1>2, AskedKept DEF vars
  <2>2. Told' = Told
    BY <1>2, SameCall DEF Told, vars
  <2>3. Book' = Book
    <3>1. BookTrue /\ BookTrue'
      BY <1>2, IdleInv, BookTold, BookToldNext
    <3>. QED
      BY <1>2, <3>1 DEF BookTrue, Entry, vars
  <2>. QED
    BY <2>1, <2>2, <2>3 DEF Contract!contractVars
<1>. QED
    BY <1>1, <1>2

\* Submissions implement their contract: one key stands for one job and one request in
\* all three repositories, whatever is repeated, raced or broken off.
THEOREM KeepsPromiseHolds == Spec => KeepsPromise
<1>1. Init => Contract!ContractInit
    BY InitMaps
<1>2. IInv /\ [Next]_vars => [Contract!ContractNext]_(Contract!contractVars)
    BY StepMaps
<1>. QED
    BY InvariantHolds, <1>1, <1>2, PTL DEF Spec, KeepsPromise, Contract!ContractSpec
=============================================================================
