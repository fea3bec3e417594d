------------------------ MODULE GraphPartitionProofs ------------------------
(***************************************************************************)
(* The parts and the merged graph are right for every set of words, every  *)
(* number of partitions and every assignment of patterns to partitions.    *)
(*                                                                         *)
(* The argument is about patterns: two words have a pattern in common if   *)
(* and only if they differ in one letter, and then at the place of the     *)
(* star, so the pattern and with it the partition is determined by the     *)
(* pair.  The rest is bookkeeping: a builder has joined exactly the pairs  *)
(* of its partition among the words it has visited.                        *)
(***************************************************************************)
EXTENDS GraphPartition, TLAPS

\* A pattern spells its word but for the star.
LEMMA PatternFacts ==
    ASSUME NEW w \in Words, NEW i \in 1..Len(w)
    PROVE  /\ Len(PatternOf(w, i)) = Len(w)
           /\ PatternOf(w, i)[i] = "*"
           /\ \A k \in 1..Len(w) : k # i => PatternOf(w, i)[k] = w[k]
<1>1. w \in Seq(Letters)
    BY GraphAssumption
<1>. QED
    BY <1>1 DEF PatternOf

\* Words with a pattern in common have the star at the same place and are one
\* letter apart there.
LEMMA CommonPattern ==
    ASSUME NEW w \in Words, NEW v \in Words, v # w,
           NEW i \in 1..Len(w), NEW k \in 1..Len(v),
           PatternOf(w, i) = PatternOf(v, k)
    PROVE  i = k /\ OneApart(w, v, i)
<1>1. w \in Seq(Letters) /\ v \in Seq(Letters)
    BY GraphAssumption
<1>2. Len(v) = Len(w)
    BY PatternFacts
<1>3. i = k
  <2>1. PatternOf(v, k)[i] = "*"
    BY PatternFacts
  <2>2. SUFFICES ASSUME i # k PROVE FALSE
    OBVIOUS
  <2>3. v[i] = "*"
    BY <1>2, <2>1, <2>2, PatternFacts
  <2>4. v[i] \in Letters
    BY <1>1, <1>2
  <2>. QED
    BY <2>3, <2>4, GraphAssumption
<1>4. \A n \in 1..Len(w) : n # i => v[n] = w[n]
    BY <1>2, <1>3, PatternFacts
<1>5. v[i] # w[i]
  <2>1. SUFFICES ASSUME v[i] = w[i] PROVE FALSE
    OBVIOUS
  <2>2. \A n \in 1..Len(w) : v[n] = w[n]
    BY <1>4, <2>1
  <2>3. v = w
    BY <1>1, <1>2, <2>2
  <2>. QED
    BY <2>3
<1>. QED
    BY <1>2, <1>3, <1>4, <1>5 DEF OneApart

\* And the other way round: words one letter apart share the pattern there.
LEMMA SharedPattern ==
    ASSUME NEW w \in Words, NEW v \in Words, NEW i \in 1..Len(w), OneApart(w, v, i)
    PROVE  /\ v # w
           /\ i \in 1..Len(v)
           /\ PatternOf(w, i) = PatternOf(v, i)
           /\ OneApart(v, w, i)
<1>1. w \in Seq(Letters) /\ v \in Seq(Letters)
    BY GraphAssumption
<1>2. v # w /\ i \in 1..Len(v) /\ OneApart(v, w, i)
    BY DEF OneApart
<1>3. w \in [1..Len(w) -> Letters] /\ v \in [1..Len(w) -> Letters]
    BY <1>1 DEF OneApart
<1>4. \A k \in 1..Len(w) : k # i => v[k] = w[k]
    BY DEF OneApart
<1>5. [w EXCEPT ![i] = "*"] = [v EXCEPT ![i] = "*"]
    BY <1>3, <1>4
<1>. QED
    BY <1>2, <1>5 DEF PatternOf

\* The buckets offer a word its neighbours of this partition among the words
\* visited before it, and nothing else.
LEMMA MetFacts ==
    ASSUME NEW p \in Parts, NEW before \in SUBSET Words, NEW w \in Words \ before
    PROVE  Met(p, w, before) = before \cap NeighboursIn(p, w)
<1>1. ASSUME NEW v \in Met(p, w, before)
      PROVE  v \in before \cap NeighboursIn(p, w)
  <2>1. PICK i \in 1..Len(w), k \in 1..Len(v) :
            PatternOf(w, i) = PatternOf(v, k) /\ home[PatternOf(w, i)] = p
    BY <1>1 DEF Met
  <2>2. v \in before /\ v \in Words /\ v # w
    BY <1>1 DEF Met
  <2>3. OneApart(w, v, i)
    BY <2>1, <2>2, CommonPattern
  <2>. QED
    BY <2>1, <2>2, <2>3 DEF NeighboursIn
<1>2. ASSUME NEW v \in before \cap NeighboursIn(p, w)
      PROVE  v \in Met(p, w, before)
  <2>1. PICK i \in 1..Len(w) : OneApart(w, v, i) /\ home[PatternOf(w, i)] = p
    BY <1>2 DEF NeighboursIn
  <2>2. i \in 1..Len(v) /\ PatternOf(w, i) = PatternOf(v, i)
    BY <1>2, <2>1, SharedPattern
  <2>. QED
    BY <1>2, <2>1, <2>2 DEF Met
<1>. QED
    BY <1>1, <1>2

\* To be neighbours in a partition is mutual, and never of a word with itself.
LEMMA Mutual ==
    ASSUME NEW p \in Parts, NEW w \in Words, NEW v \in Words
    PROVE  /\ v \in NeighboursIn(p, w) <=> w \in NeighboursIn(p, v)
           /\ w \notin NeighboursIn(p, w)
<1>1. ASSUME NEW a \in Words, NEW b \in NeighboursIn(p, a)
      PROVE  a \in NeighboursIn(p, b) /\ a # b
  <2>1. PICK i \in 1..Len(a) : OneApart(a, b, i) /\ home[PatternOf(a, i)] = p
    BY DEF NeighboursIn
  <2>2. b \in Words
    BY DEF NeighboursIn
  <2>. QED
    BY <2>1, <2>2, SharedPattern DEF NeighboursIn
<1>. QED
    BY <1>1

-----------------------------------------------------------------------------
\* A builder has joined exactly the pairs of its partition it has visited.
PartsTrue ==
    \A p \in Parts, w \in Words :
        part[p][w] = IF w \in visited[p] THEN visited[p] \cap NeighboursIn(p, w) ELSE {}

\* The parts merged are finished, and the merged graph is their union.
MergeTrue ==
    /\ \A p \in added : visited[p] = Words
    /\ IF added = {} THEN merged = NoWords
       ELSE merged = [w \in Words |-> UNION {part[p][w] : p \in added}]

IInv == TypeOK /\ PartsTrue /\ MergeTrue

LEMMA InitInv == Init => IInv
    BY DEF Init, IInv, TypeOK, PartsTrue, MergeTrue, Graphs, NoEdges

\* One visit keeps the invariant of the part.
LEMMA VisitStep ==
    ASSUME IInv, NEW q \in Parts, NEW w \in Words, Visit(q, w)
    PROVE  IInv'
<1>. USE DEF IInv, TypeOK, Graphs
<1> DEFINE met == Met(q, w, visited[q])
<1>1. visited[q] \subseteq Words /\ w \in Words \ visited[q]
    BY DEF Visit
<1>2. met = visited[q] \cap NeighboursIn(q, w)
    BY <1>1, MetFacts
<1>3. /\ visited' = [visited EXCEPT ![q] = @ \cup {w}]
      /\ part' = [part EXCEPT ![q] = Joined(part[q], w, met)]
      /\ UNCHANGED <<home, merged, added>>
    BY DEF Visit
<1>4. \A p \in Parts, u \in Words : NeighboursIn(p, u)' = NeighboursIn(p, u)
    BY <1>3 DEF NeighboursIn
<1> HIDE DEF met
<1>5. TypeOK'
    BY <1>1, <1>2, <1>3 DEF Joined
<1>6. PartsTrue'
  <2> SUFFICES ASSUME NEW p \in Parts, NEW u \in Words
               PROVE  part'[p][u] = IF u \in visited'[p]
                                    THEN visited'[p] \cap NeighboursIn(p, u) ELSE {}
    BY <1>4 DEF PartsTrue
  <2>1. CASE p # q
    BY <1>3, <2>1 DEF PartsTrue
  <2>2. CASE p = q
    <3>1. /\ visited'[q] = visited[q] \cup {w}
          /\ part'[q][u] = part[q][u] \cup (IF u = w THEN met ELSE {})
                                      \cup (IF u \in met THEN {w} ELSE {})
      BY <1>3 DEF Joined
    <3>2. part[q][u] = IF u \in visited[q] THEN visited[q] \cap NeighboursIn(q, u) ELSE {}
      BY DEF PartsTrue
    <3>3. w \notin NeighboursIn(q, w) /\ (u \in NeighboursIn(q, w) <=> w \in NeighboursIn(q, u))
      BY Mutual
    <3>. QED
      BY <1>1, <1>2, <2>2, <3>1, <3>2, <3>3
  <2>. QED
    BY <2>1, <2>2
<1>7. MergeTrue'
  <2>1. \A p \in added : p # q /\ visited'[p] = visited[p] /\ part'[p] = part[p]
    BY <1>1, <1>3 DEF MergeTrue
  <2>. QED
    BY <1>3, <2>1 DEF MergeTrue
<1>. QED
    BY <1>5, <1>6, <1>7

\* One merge keeps the invariant of the merged graph.
LEMMA MergeStep ==
    ASSUME IInv, NEW q \in Parts, Merge(q)
    PROVE  IInv'
<1>. USE DEF IInv, TypeOK, Graphs
<1>1. /\ UNCHANGED <<home, visited, part>> /\ visited[q] = Words /\ added' = added \cup {q}
      /\ merged' = [w \in Words |->
                       part[q][w] \cup (IF w \in DOMAIN merged THEN merged[w] ELSE {})]
    BY DEF Merge
<1>2. ASSUME NEW w \in Words
      PROVE  /\ part[q][w] \cup (IF w \in DOMAIN merged THEN merged[w] ELSE {})
                    = UNION {part[p][w] : p \in added'}
             /\ UNION {part[p][w] : p \in added'} \subseteq Words
  <2>1. CASE added = {}
    <3>1. w \notin DOMAIN merged /\ added' = {q}
      BY <1>1, <2>1 DEF MergeTrue, NoWords
    <3>. QED
      BY <1>1, <3>1
  <2>2. CASE added # {}
    <3>1. w \in DOMAIN merged /\ merged[w] = UNION {part[p][w] : p \in added}
      BY <2>2 DEF MergeTrue
    <3>. QED
      BY <1>1, <3>1
  <2>. QED
    BY <2>1, <2>2
<1>3. merged' = [w \in Words |-> UNION {part[p][w] : p \in added'}]
    BY <1>1, <1>2
<1>4. TypeOK'
    BY <1>1, <1>2, <1>3
<1>5. PartsTrue'
  <2>1. \A p \in Parts, u \in Words : NeighboursIn(p, u)' = NeighboursIn(p, u)
    BY <1>1 DEF NeighboursIn
  <2>2. visited' = visited /\ part' = part
    BY <1>1
  <2>. QED
    BY <2>1, <2>2 DEF PartsTrue
<1>6. MergeTrue'
  <2>1. \A p \in added' : visited'[p] = Words
    BY <1>1 DEF MergeTrue
  <2>2. added' # {} /\ part' = part
    BY <1>1
  <2>. QED
    BY <1>3, <2>1, <2>2 DEF MergeTrue
<1>. QED
    BY <1>4, <1>5, <1>6

\* Whatever is reachable satisfies the invariant.
THEOREM InvariantHolds == Spec => []IInv
<1>1. IInv /\ [Next]_vars => IInv'
  <2> SUFFICES ASSUME IInv, [Next]_vars
               PROVE  IInv'
    OBVIOUS
  <2>1. ASSUME NEW p \in Parts, NEW w \in Words, Visit(p, w)
        PROVE  IInv'
    BY <2>1, VisitStep
  <2>2. ASSUME NEW p \in Parts, Merge(p)
        PROVE  IInv'
    BY <2>2, MergeStep
  <2>3. CASE UNCHANGED vars
    <3>1. UNCHANGED <<home, visited, part, merged, added>>
      BY <2>3 DEF vars
    <3>2. \A p \in Parts, u \in Words : NeighboursIn(p, u)' = NeighboursIn(p, u)
      BY <3>1 DEF NeighboursIn
    <3>3. TypeOK'
      BY <3>1 DEF IInv, TypeOK
    <3>4. PartsTrue'
      BY <3>1, <3>2 DEF IInv, PartsTrue
    <3>5. MergeTrue'
      BY <3>1 DEF IInv, MergeTrue
    <3>. QED
      BY <3>3, <3>4, <3>5 DEF IInv
  <2>. QED
    BY <2>1, <2>2, <2>3 DEF Next
<1>. QED
    BY InitInv, <1>1, PTL DEF Spec

\* Every finished part holds exactly the pairs of its own patterns.
THEOREM PartsExactHolds == Spec => []PartsExact
<1>1. IInv => PartsExact
  <2> SUFFICES ASSUME IInv, NEW p \in Parts, visited[p] = Words
               PROVE  part[p] = [w \in Words |-> NeighboursIn(p, w)]
    BY DEF PartsExact
  <2>1. \A w \in Words : part[p][w] = NeighboursIn(p, w)
    BY DEF IInv, PartsTrue, NeighboursIn
  <2>2. part[p] \in [Words -> SUBSET Words]
    BY DEF IInv, TypeOK, Graphs
  <2>. QED
    BY <2>1, <2>2
<1>. QED
    BY <1>1, InvariantHolds, PTL

\* With every part merged the result is the whole graph, whatever the number of
\* partitions and the digests: partitions neither lose nor invent an edge.
THEOREM MergedWholeHolds == Spec => []MergedWhole
<1>1. IInv => MergedWhole
  <2> SUFFICES ASSUME IInv, added = Parts
               PROVE  merged = [w \in Words |-> Neighbours(w)]
    BY DEF MergedWhole
  <2>1. 0 \in Parts
    BY GraphAssumption DEF Parts
  <2>2. merged = [w \in Words |-> UNION {part[p][w] : p \in Parts}]
    BY <2>1 DEF IInv, MergeTrue
  <2>3. ASSUME NEW w \in Words
        PROVE  UNION {part[p][w] : p \in Parts} = Neighbours(w)
    <3>1. ASSUME NEW p \in Parts
          PROVE  part[p][w] = NeighboursIn(p, w)
      <4>1. visited[p] = Words
        BY DEF IInv, MergeTrue
      <4>2. NeighboursIn(p, w) \subseteq Words
        BY DEF NeighboursIn
      <4>3. part[p][w] = IF w \in visited[p] THEN visited[p] \cap NeighboursIn(p, w) ELSE {}
        BY DEF IInv, PartsTrue
      <4>. QED
        BY <4>1, <4>2, <4>3
    <3>2. \A i \in 1..Len(w) : home[PatternOf(w, i)] \in Parts
      BY DEF IInv, TypeOK, Patterns
    <3>. QED
      BY <3>1, <3>2 DEF Neighbours, NeighboursIn
  <2>. QED
    BY <2>2, <2>3
<1>. QED
    BY <1>1, InvariantHolds, PTL
=============================================================================
