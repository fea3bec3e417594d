------------------------- MODULE DictionaryCatalog -------------------------
(***************************************************************************)
(* The catalogue of dictionaries: publish_dictionaries, which uploads the  *)
(* corpus of a checkout to S3, the deployments that point an API at it,    *)
(* and S3DictionaryRepository, through which the API reads it.             *)
(*                                                                         *)
(* Nothing ties these together: several deployments may run at a time, the *)
(* corpus may be built anew under a publication that reads it, and a       *)
(* publication may end anywhere.  The design rests on two things: objects  *)
(* are stored under the digest of the manifest, and the catalogue is       *)
(* stored last.                                                            *)
(*                                                                         *)
(* A version is a manifest (and its digest).  S3 that is out of reach only *)
(* adds answers 503, and is left out on the reading side.                  *)
(***************************************************************************)
EXTENDS Integers

CONSTANTS
    Versions,       \* the manifests
    Lengths,        \* the lists of a corpus, by the length of their words
    Contents,       \* what the file of a list may hold
    Expected,       \* Expected[v][n]: the content whose digest v gives for list n
    Oversized,      \* versions with a list of more than 100 000 words
    Publishers,     \* runs of a deployment script
    Requests,       \* requests an API handles at a time
    None

ASSUME CatalogAssumption ==
    /\ Lengths \subseteq Nat
    /\ Expected \in [Versions -> [Lengths -> Contents]]
    /\ Oversized \subseteq Versions
    /\ None \notin Contents \cup Versions

VARIABLES
    manifest,       \* data/curated/manifest.json
    lists,          \* data/curated/words*.txt
    corpus,         \* the version build_corpus is writing, or None
    written,        \* the lists it has written
    objects,        \* objects[v][n]: the list n under the prefix of v in S3
    catalogs,       \* the versions whose catalog.json is in S3
    pc, version, held, sent,    \* a publication: step, prefix, files read, lists put
    serving,        \* the versions APIs are configured with
    request         \* what a request has asked for, and how far it came

local    == <<manifest, lists, corpus, written>>
bucket   == <<objects, catalogs>>
progress == <<pc, version, held, sent>>
vars     == <<local, bucket, progress, serving, request>>

Unread == [n \in Lengths |-> None]

Ended == {"loaded", "unavailable", "invalid"}

\* A request in progress, or its answer.
Asked == [step : {"listed"} \cup Ended, version : Versions, list : Lengths]

TypeOK ==
    /\ manifest \in Versions
    /\ lists \in [Lengths -> Contents]
    /\ corpus \in Versions \cup {None}
    /\ written \subseteq Lengths
    /\ objects \in [Versions -> [Lengths -> Contents \cup {None}]]
    /\ catalogs \subseteq Versions
    /\ pc \in [Publishers -> {"idle", "read", "upload", "configure"}]
    /\ version \in [Publishers -> Versions \cup {None}]
    /\ held \in [Publishers -> [Lengths -> Contents \cup {None}]]
    /\ sent \in [Publishers -> SUBSET Lengths]
    /\ \A p \in Publishers :
          /\ pc[p] # "idle" <=> version[p] # None
          /\ pc[p] \in {"upload", "configure"} => \A n \in Lengths : held[p][n] # None
    /\ serving \subseteq Versions
    /\ request \in [Requests -> Asked \cup {None}]

\* A checkout holds a whole corpus; nothing is published so far.
Init ==
    /\ manifest \in Versions
    /\ lists = Expected[manifest]
    /\ corpus = None
    /\ written = {}
    /\ objects = [v \in Versions |-> Unread]
    /\ catalogs = {}
    /\ pc = [p \in Publishers |-> "idle"]
    /\ version = [p \in Publishers |-> None]
    /\ held = [p \in Publishers |-> Unread]
    /\ sent = [p \in Publishers |-> {}]
    /\ serving = {}
    /\ request = [r \in Requests |-> None]

\* n comes next when the lists of S are dealt with.
IsNext(n, S) == n \in Lengths \ S /\ \A m \in Lengths \ S : n <= m

-----------------------------------------------------------------------------
(* build_corpus: the lists one by one, then the manifest.                  *)

StartCorpus(v) ==
    /\ corpus = None
    /\ corpus' = v
    /\ UNCHANGED <<manifest, lists, written, bucket, progress, serving, request>>

WriteList(n) ==
    /\ corpus # None
    /\ IsNext(n, written)
    /\ lists' = [lists EXCEPT ![n] = Expected[corpus][n]]
    /\ written' = written \cup {n}
    /\ UNCHANGED <<manifest, corpus, bucket, progress, serving, request>>

WriteManifest ==
    /\ corpus # None
    /\ written = Lengths
    /\ manifest' = corpus
    /\ corpus' = None
    /\ written' = {}
    /\ UNCHANGED <<lists, bucket, progress, serving, request>>

\* It is stopped, and leaves what it has written.
StopCorpus ==
    /\ corpus # None
    /\ corpus' = None
    /\ written' = {}
    /\ UNCHANGED <<manifest, lists, bucket, progress, serving, request>>

-----------------------------------------------------------------------------
(* publish_dictionaries, and the deployment that called it.                *)

\* The variables of the script are gone.
Ends(p) ==
    /\ pc' = [pc EXCEPT ![p] = "idle"]
    /\ version' = [version EXCEPT ![p] = None]
    /\ held' = [held EXCEPT ![p] = Unread]
    /\ sent' = [sent EXCEPT ![p] = {}]

ReadManifest(p) ==
    /\ pc[p] = "idle"
    /\ pc' = [pc EXCEPT ![p] = "read"]
    /\ version' = [version EXCEPT ![p] = manifest]
    /\ UNCHANGED <<held, sent, local, bucket, serving, request>>

Read(p) == {n \in Lengths : held[p][n] # None}

\* Fault: the digests are not compared.
ReadList_Unchecked(p) ==
    /\ pc[p] = "read"
    /\ \E n \in Lengths :
        /\ IsNext(n, Read(p))
        /\ held' = [held EXCEPT ![p][n] = lists[n]]
        /\ pc' = [pc EXCEPT ![p] = IF Read(p) \cup {n} = Lengths THEN "upload" ELSE "read"]
    /\ UNCHANGED <<version, sent, local, bucket, serving, request>>

\* The file is read once, and must be what the manifest says.
ReadList(p) ==
    /\ pc[p] = "read"
    /\ \E n \in Lengths :
        /\ IsNext(n, Read(p))
        /\ IF lists[n] = Expected[version[p]][n]
           THEN /\ held' = [held EXCEPT ![p][n] = lists[n]]
                /\ pc' = [pc EXCEPT ![p] =
                            IF Read(p) \cup {n} = Lengths THEN "upload" ELSE "read"]
                /\ UNCHANGED <<version, sent>>
           ELSE Ends(p)
    /\ UNCHANGED <<local, bucket, serving, request>>

\* One put of the loop over the files.
PutList(p) ==
    /\ pc[p] = "upload"
    /\ \E n \in Lengths :
        /\ IsNext(n, sent[p])
        /\ objects' = [objects EXCEPT ![version[p]][n] = held[p][n]]
        /\ sent' = [sent EXCEPT ![p] = @ \cup {n}]
    /\ UNCHANGED <<catalogs, pc, version, held, local, serving, request>>

\* Fault: the catalogue is put before the last list.
PutCatalog_Early(p) ==
    /\ pc[p] = "upload"
    /\ \A n \in Lengths \ sent[p] : IsNext(n, sent[p])
    /\ catalogs' = catalogs \cup {version[p]}
    /\ pc' = [pc EXCEPT ![p] = "configure"]
    /\ UNCHANGED <<objects, version, held, sent, local, serving, request>>

\* The catalogue is put when every file has been.
PutCatalog(p) ==
    /\ pc[p] = "upload"
    /\ sent[p] = Lengths
    /\ catalogs' = catalogs \cup {version[p]}
    /\ pc' = [pc EXCEPT ![p] = "configure"]
    /\ UNCHANGED <<objects, version, held, sent, local, serving, request>>

\* The deployment starts an API with DictionaryCatalogKey.  APIs of earlier
\* deployments keep theirs.
Configure(p) ==
    /\ pc[p] = "configure"
    /\ serving' = serving \cup {version[p]}
    /\ Ends(p)
    /\ UNCHANGED <<local, bucket, request>>

\* An error or the end of the process, also after a put that was applied.
Abandon(p) ==
    /\ pc[p] # "idle"
    /\ Ends(p)
    /\ UNCHANGED <<local, bucket, serving, request>>

-----------------------------------------------------------------------------
(* S3DictionaryRepository.load, and its answer.                            *)

\* list(): the catalogue the API is configured with.
List(r) ==
    /\ request[r] = None
    /\ \E v \in serving, n \in Lengths :
          request' = [request EXCEPT ![r] =
              [step |-> IF v \notin catalogs THEN "unavailable"
                        ELSE IF v \in Oversized THEN "invalid" ELSE "listed",
               version |-> v, list |-> n]]
    /\ UNCHANGED <<local, bucket, progress, serving>>

\* The object the entry names, and its digest.
Load(r) ==
    /\ request[r] # None
    /\ request[r].step = "listed"
    /\ LET content == objects[request[r].version][request[r].list] IN
          request' = [request EXCEPT ![r].step =
              IF content = None THEN "unavailable"
              ELSE IF content # Expected[request[r].version][request[r].list] THEN "invalid"
              ELSE "loaded"]
    /\ UNCHANGED <<local, bucket, progress, serving>>

Answer(r) ==
    /\ request[r] # None
    /\ request[r].step \in Ended
    /\ request' = [request EXCEPT ![r] = None]
    /\ UNCHANGED <<local, bucket, progress, serving>>

Corpus == \/ \E v \in Versions : StartCorpus(v)
          \/ \E n \in Lengths : WriteList(n)
          \/ WriteManifest
          \/ StopCorpus

Publish(p) == \/ ReadManifest(p) \/ ReadList(p) \/ PutList(p) \/ PutCatalog(p)
              \/ Configure(p) \/ Abandon(p)

Next ==
    \/ Corpus
    \/ \E p \in Publishers : Publish(p)
    \/ \E r \in Requests : List(r) \/ Load(r) \/ Answer(r)

Spec == Init /\ [][Next]_vars

-----------------------------------------------------------------------------
\* A catalogue names only objects that are there and are what it says, and stays
\* so: also while the corpus changes, when two deployments publish the same or
\* different versions, and when one of them ends half-way.
CatalogWhole ==
    \A v \in catalogs : \A n \in Lengths : objects[v][n] = Expected[v][n]

\* An API never answers that a dictionary of its catalogue is missing or corrupt,
\* unless it is a version whose lists list() does not accept.
LoadsSucceed ==
    \A r \in Requests :
        request[r] # None /\ request[r].step \in {"unavailable", "invalid"}
            => request[r].version \in Oversized
=============================================================================
