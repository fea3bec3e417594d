---------------------- MODULE DictionaryCatalogProofs ----------------------
(***************************************************************************)
(* The catalogue can be relied on for any number of versions, lists,       *)
(* deployments and requests.                                               *)
(*                                                                         *)
(* The argument: a publication holds only what its version expects         *)
(* (HeldTrue), so whatever it puts, and however often, under the prefix of *)
(* its version is what belongs there; and a version is listed, and served, *)
(* only when all of its objects have been put (SentTrue, ServingTrue).     *)
(***************************************************************************)
EXTENDS DictionaryCatalog, TLAPS

HeldTrue ==
    \A p \in Publishers : \A n \in Lengths :
        held[p][n] # None => /\ version[p] \in Versions
                             /\ held[p][n] = Expected[version[p]][n]

SentTrue ==
    \A p \in Publishers :
        /\ \A n \in sent[p] : /\ version[p] \in Versions
                              /\ objects[version[p]][n] = Expected[version[p]][n]
        /\ pc[p] = "configure" => version[p] \in catalogs

ServingTrue ==
    /\ serving \subseteq catalogs
    /\ \A r \in Requests : request[r] # None => request[r].version \in catalogs

IInv == TypeOK /\ HeldTrue /\ SentTrue /\ CatalogWhole /\ ServingTrue /\ LoadsSucceed

-----------------------------------------------------------------------------
LEMMA InitInv == Init => IInv
<1> SUFFICES ASSUME Init PROVE IInv
    OBVIOUS
<1>. USE CatalogAssumption DEF Init
<1>1. TypeOK
    BY DEF TypeOK, Unread
<1>2. HeldTrue /\ SentTrue
    BY DEF HeldTrue, SentTrue, Unread
<1>3. CatalogWhole /\ ServingTrue /\ LoadsSucceed
    BY DEF CatalogWhole, ServingTrue, LoadsSucceed
<1>. QED
    BY <1>1, <1>2, <1>3 DEF IInv

\* Building the corpus concerns the checkout alone.
LEMMA CorpusStep ==
    ASSUME IInv, Corpus
    PROVE  IInv'
<1>. USE DEF IInv
<1>1. UNCHANGED <<objects, catalogs, pc, version, held, sent, serving, request>>
    BY DEF Corpus, StartCorpus, WriteList, WriteManifest, StopCorpus, bucket, progress
<1>2. /\ manifest' \in Versions /\ corpus' \in Versions \cup {None}
      /\ lists' \in [Lengths -> Contents] /\ written' \subseteq Lengths
  <2>1. CASE \E v \in Versions : StartCorpus(v)
    BY <2>1 DEF StartCorpus, TypeOK
  <2>2. CASE \E n \in Lengths : WriteList(n)
    BY <2>2, CatalogAssumption DEF WriteList, TypeOK
  <2>3. CASE WriteManifest
    BY <2>3 DEF WriteManifest, TypeOK
  <2>4. CASE StopCorpus
    BY <2>4 DEF StopCorpus, TypeOK
  <2>. QED
    BY <2>1, <2>2, <2>3, <2>4 DEF Corpus
<1>3. TypeOK'
    BY <1>1, <1>2 DEF TypeOK
<1>. QED
    BY <1>1, <1>3 DEF HeldTrue, SentTrue, CatalogWhole, ServingTrue, LoadsSucceed

\* A script that ends forgets what it knew.
LEMMA EndsStep ==
    ASSUME IInv, NEW p \in Publishers, Ends(p),
           UNCHANGED <<local, bucket, request>>,
           serving' \subseteq catalogs
    PROVE  IInv'
<1>. USE DEF IInv
<1>1. UNCHANGED <<manifest, lists, corpus, written, objects, catalogs, request>>
    BY DEF local, bucket
<1>2. TypeOK'
    BY <1>1, CatalogAssumption DEF TypeOK, Ends, Unread
<1>3. HeldTrue'
    BY <1>1 DEF TypeOK, Ends, Unread, HeldTrue
<1>4. SentTrue'
    BY <1>1 DEF TypeOK, Ends, SentTrue
<1>. QED
    BY <1>1, <1>2, <1>3, <1>4 DEF CatalogWhole, ServingTrue, LoadsSucceed

\* What is read is compared with the manifest.
LEMMA ReadListStep ==
    ASSUME IInv, NEW p \in Publishers, ReadList(p)
    PROVE  IInv'
<1>. USE DEF IInv
<1>1. PICK n \in Lengths :
        /\ IsNext(n, Read(p))
        /\ IF lists[n] = Expected[version[p]][n]
           THEN /\ held' = [held EXCEPT ![p][n] = lists[n]]
                /\ pc' = [pc EXCEPT ![p] =
                            IF Read(p) \cup {n} = Lengths THEN "upload" ELSE "read"]
                /\ UNCHANGED <<version, sent>>
           ELSE Ends(p)
    BY DEF ReadList
<1>2. UNCHANGED <<local, bucket, serving, request>> /\ pc[p] = "read"
    BY DEF ReadList
<1>3. CASE lists[n] = Expected[version[p]][n]
  <2>1. UNCHANGED <<manifest, lists, corpus, written, objects, catalogs,
                    version, sent, serving, request>>
    BY <1>1, <1>2, <1>3 DEF local, bucket
  <2>2. /\ held' = [held EXCEPT ![p][n] = lists[n]]
        /\ pc' = [pc EXCEPT ![p] = IF Read(p) \cup {n} = Lengths THEN "upload" ELSE "read"]
    BY <1>1, <1>3
  <2>3. lists[n] \in Contents /\ lists[n] # None
    BY CatalogAssumption DEF TypeOK
  <2>4. version[p] \in Versions
    BY <1>2 DEF TypeOK
  <2>5. /\ held' \in [Publishers -> [Lengths -> Contents \cup {None}]]
        /\ \A q \in Publishers : q # p => held'[q] = held[q] /\ pc'[q] = pc[q]
        /\ \A m \in Lengths : held'[p][m] = IF m = n THEN lists[n] ELSE held[p][m]
    BY <2>2, <2>3 DEF TypeOK
  <2>6. pc'[p] = "upload" => \A m \in Lengths : held'[p][m] # None
    <3>1. SUFFICES ASSUME Read(p) \cup {n} = Lengths, NEW m \in Lengths
                   PROVE  held'[p][m] # None
      BY <2>2 DEF TypeOK
    <3>. QED
      BY <2>3, <2>5, <3>1 DEF Read
  <2>7. pc' \in [Publishers -> {"idle", "read", "upload", "configure"}]
        /\ pc'[p] \in {"read", "upload"}
    BY <2>2 DEF TypeOK
  <2>8. TypeOK'
    BY <1>2, <2>1, <2>5, <2>6, <2>7 DEF TypeOK
  <2>9. HeldTrue'
    BY <1>3, <2>1, <2>4, <2>5 DEF HeldTrue
  <2>10. SentTrue'
    BY <2>1, <2>5, <2>7 DEF SentTrue
  <2>. QED
    BY <2>1, <2>8, <2>9, <2>10 DEF CatalogWhole, ServingTrue, LoadsSucceed
<1>4. CASE lists[n] # Expected[version[p]][n]
    BY <1>1, <1>2, <1>4, EndsStep DEF ServingTrue, bucket
<1>. QED
    BY <1>3, <1>4

\* A put stores what the version expects, over nothing or over the same.
LEMMA PutListStep ==
    ASSUME IInv, NEW p \in Publishers, PutList(p)
    PROVE  IInv'
<1>. USE DEF IInv
<1>1. PICK n \in Lengths :
        /\ objects' = [objects EXCEPT ![version[p]][n] = held[p][n]]
        /\ sent' = [sent EXCEPT ![p] = @ \cup {n}]
    BY DEF PutList
<1>2. UNCHANGED <<manifest, lists, corpus, written, catalogs, pc, version, held,
                  serving, request>> /\ pc[p] = "upload"
    BY DEF PutList, local
<1>3. /\ version[p] \in Versions /\ held[p][n] # None /\ held[p][n] \in Contents
      /\ held[p][n] = Expected[version[p]][n]
    BY <1>2 DEF TypeOK, HeldTrue
<1>4. /\ objects' \in [Versions -> [Lengths -> Contents \cup {None}]]
      /\ \A v \in Versions : \A m \in Lengths :
            objects'[v][m] = IF v = version[p] /\ m = n THEN Expected[v][n] ELSE objects[v][m]
    BY <1>1, <1>3 DEF TypeOK
<1>5. /\ sent' \in [Publishers -> SUBSET Lengths]
      /\ \A q \in Publishers : \A m \in sent'[q] : m \in sent[q] \/ (q = p /\ m = n)
    BY <1>1 DEF TypeOK
<1>6. TypeOK'
    BY <1>2, <1>4, <1>5 DEF TypeOK
<1>7. SentTrue'
  <2>1. ASSUME NEW q \in Publishers, NEW m \in sent'[q]
        PROVE  /\ version[q] \in Versions
               /\ objects'[version[q]][m] = Expected[version[q]][m]
    <3>1. m \in Lengths /\ version[q] \in Versions
      BY <1>3, <1>5, <2>1 DEF SentTrue
    <3>2. m \in sent[q] => objects[version[q]][m] = Expected[version[q]][m]
      BY DEF SentTrue
    <3>. QED
      BY <1>4, <1>5, <3>1, <3>2
  <2>. QED
    BY <1>2, <2>1 DEF SentTrue
<1>8. CatalogWhole'
    BY <1>2, <1>4 DEF CatalogWhole, TypeOK
<1>. QED
    BY <1>2, <1>6, <1>7, <1>8 DEF HeldTrue, ServingTrue, LoadsSucceed

LEMMA PublishStep ==
    ASSUME IInv, NEW p \in Publishers, Publish(p)
    PROVE  IInv'
<1>. USE DEF IInv
<1>1. CASE ReadManifest(p)
  <2>1. UNCHANGED <<manifest, lists, corpus, written, objects, catalogs, held, sent,
                    serving, request>>
    BY <1>1 DEF ReadManifest, local, bucket
  <2>2. /\ pc[p] = "idle" /\ version[p] = None /\ manifest \in Versions
        /\ pc' = [pc EXCEPT ![p] = "read"]
        /\ version' = [version EXCEPT ![p] = manifest]
    BY <1>1 DEF ReadManifest, TypeOK
  <2>3. sent[p] = {} /\ \A n \in Lengths : held[p][n] = None
    BY <2>2, CatalogAssumption DEF SentTrue, HeldTrue, TypeOK
  <2>4. TypeOK'
    BY <2>1, <2>2, CatalogAssumption DEF TypeOK
  <2>5. HeldTrue' /\ SentTrue'
    BY <2>1, <2>2, <2>3 DEF HeldTrue, SentTrue, TypeOK
  <2>. QED
    BY <2>1, <2>4, <2>5 DEF CatalogWhole, ServingTrue, LoadsSucceed
<1>2. CASE ReadList(p)
    BY <1>2, ReadListStep
<1>3. CASE PutList(p)
    BY <1>3, PutListStep
<1>4. CASE PutCatalog(p)
  <2>1. UNCHANGED <<manifest, lists, corpus, written, objects, version, held, sent,
                    serving, request>>
    BY <1>4 DEF PutCatalog, local
  <2>2. /\ pc[p] = "upload" /\ sent[p] = Lengths /\ version[p] \in Versions
        /\ catalogs' = catalogs \cup {version[p]}
        /\ pc' = [pc EXCEPT ![p] = "configure"]
    BY <1>4 DEF PutCatalog, TypeOK
  <2>3. TypeOK'
    BY <2>1, <2>2 DEF TypeOK
  <2>4. SentTrue' /\ HeldTrue'
    BY <2>1, <2>2 DEF SentTrue, HeldTrue, TypeOK
  <2>5. CatalogWhole'
    BY <2>1, <2>2 DEF SentTrue, CatalogWhole
  <2>. QED
    BY <2>1, <2>2, <2>3, <2>4, <2>5 DEF ServingTrue, LoadsSucceed
<1>5. CASE Configure(p)
  <2>1. Ends(p) /\ UNCHANGED <<local, bucket, request>>
        /\ serving' = serving \cup {version[p]} /\ pc[p] = "configure"
    BY <1>5 DEF Configure
  <2>2. serving' \subseteq catalogs
    BY <2>1 DEF SentTrue, ServingTrue
  <2>. QED
    BY <2>1, <2>2, EndsStep
<1>6. CASE Abandon(p)
    BY <1>6, EndsStep DEF Abandon, ServingTrue
<1>. QED
    BY <1>1, <1>2, <1>3, <1>4, <1>5, <1>6 DEF Publish

LEMMA RequestStep ==
    ASSUME IInv, NEW r \in Requests, List(r) \/ Load(r) \/ Answer(r)
    PROVE  IInv'
<1>. USE DEF IInv
<1>1. UNCHANGED <<manifest, lists, corpus, written, objects, catalogs, pc, version,
                  held, sent, serving>>
    BY DEF List, Load, Answer, local, bucket, progress
<1>2. HeldTrue' /\ SentTrue' /\ CatalogWhole'
    BY <1>1 DEF HeldTrue, SentTrue, CatalogWhole
<1>3. request \in [Requests -> Asked \cup {None}]
    BY DEF TypeOK
<1> DEFINE Fine(a) ==
      a # None => /\ a.version \in catalogs
                  /\ a.step \in {"unavailable", "invalid"} => a.version \in Oversized
<1>4. \A q \in Requests : Fine(request[q])
    BY DEF ServingTrue, LoadsSucceed
<1>5. PICK a \in Asked \cup {None} : request' = [request EXCEPT ![r] = a] /\ Fine(a)
  <2>1. CASE List(r)
    <3>1. PICK v \in serving, n \in Lengths :
            request' = [request EXCEPT ![r] =
              [step |-> IF v \notin catalogs THEN "unavailable"
                        ELSE IF v \in Oversized THEN "invalid" ELSE "listed",
               version |-> v, list |-> n]]
      BY <2>1 DEF List
    <3>2. v \in catalogs /\ v \in Versions
      BY DEF ServingTrue, TypeOK
    <3> DEFINE b == [step |-> IF v \in Oversized THEN "invalid" ELSE "listed",
                     version |-> v, list |-> n]
    <3>3. b \in Asked /\ Fine(b)
      BY <3>2 DEF Asked, Ended
    <3>4. request' = [request EXCEPT ![r] = b]
      BY <3>1, <3>2
    <3>. QED
      BY <3>3, <3>4
  <2>2. CASE Load(r)
    <3> DEFINE old == request[r]
               content == objects[old.version][old.list]
               b == [old EXCEPT !.step =
                        IF content = None THEN "unavailable"
                        ELSE IF content # Expected[old.version][old.list] THEN "invalid"
                        ELSE "loaded"]
    <3>1. old \in Asked /\ old # None /\ old.version \in catalogs
      BY <1>3, <2>2 DEF Load, ServingTrue
    <3>2. old.list \in Lengths /\ old.version \in Versions
      BY <3>1 DEF Asked
    <3>3. content = Expected[old.version][old.list] /\ content # None
      <4>1. \A v \in catalogs : \A n \in Lengths : objects[v][n] = Expected[v][n]
        BY DEF CatalogWhole
      <4>2. \A v \in Versions : \A n \in Lengths : Expected[v][n] \in Contents
        BY CatalogAssumption
      <4>3. None \notin Contents
        BY CatalogAssumption
      <4> HIDE DEF old
      <4>. QED
        BY <3>1, <3>2, <4>1, <4>2, <4>3
    <3>4. b = [old EXCEPT !.step = "loaded"]
      BY <3>3
    <3>5. b \in Asked /\ b.version = old.version /\ b.step = "loaded"
      BY <3>1, <3>4 DEF Asked, Ended
    <3>6. request' = [request EXCEPT ![r] = b]
      BY <1>3, <2>2 DEF Load
    <3>. QED
      BY <3>1, <3>5, <3>6
  <2>3. CASE Answer(r)
    BY <2>3 DEF Answer
  <2>. QED
    BY <2>1, <2>2, <2>3
<1> HIDE DEF Fine
<1>6. request' \in [Requests -> Asked \cup {None}] /\ \A q \in Requests : Fine(request'[q])
    BY <1>3, <1>4, <1>5
<1>7. TypeOK'
    BY <1>1, <1>6 DEF TypeOK
<1>8. ServingTrue' /\ LoadsSucceed'
    BY <1>1, <1>6 DEF ServingTrue, LoadsSucceed, Fine
<1>. QED
    BY <1>2, <1>7, <1>8

-----------------------------------------------------------------------------
\* The invariant is inductive.
THEOREM InvariantHolds == Spec => []IInv
<1>1. IInv /\ [Next]_vars => IInv'
  <2> SUFFICES ASSUME IInv, [Next]_vars PROVE IInv'
    OBVIOUS
  <2>1. CASE Corpus
    BY <2>1, CorpusStep
  <2>2. CASE \E p \in Publishers : Publish(p)
    BY <2>2, PublishStep
  <2>3. CASE \E r \in Requests : List(r) \/ Load(r) \/ Answer(r)
    BY <2>3, RequestStep
  <2>4. CASE UNCHANGED vars
    BY <2>4 DEF vars, local, bucket, progress, IInv, TypeOK, HeldTrue, SentTrue,
                CatalogWhole, ServingTrue, LoadsSucceed
  <2>. QED
    BY <2>1, <2>2, <2>3, <2>4 DEF Next
<1>. QED
    BY InitInv, <1>1, PTL DEF Spec

\* Type correctness: in particular nothing is put that was not read.
THEOREM TypesHold == Spec => []TypeOK
<1>1. IInv => TypeOK
    BY DEF IInv
<1>. QED
    BY <1>1, InvariantHolds, PTL

\* A catalogue names only objects that are there and are what it says.
THEOREM CatalogWholeHolds == Spec => []CatalogWhole
<1>1. IInv => CatalogWhole
    BY DEF IInv
<1>. QED
    BY <1>1, InvariantHolds, PTL

\* An API never answers that a dictionary of its catalogue is missing or corrupt.
THEOREM LoadsSucceedHolds == Spec => []LoadsSucceed
<1>1. IInv => LoadsSucceed
    BY DEF IInv
<1>. QED
    BY <1>1, InvariantHolds, PTL
=============================================================================
