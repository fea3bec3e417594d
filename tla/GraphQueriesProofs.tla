------------------------- MODULE GraphQueriesProofs -------------------------
(***************************************************************************)
(* The answers of the queries are right for every graph, every query and   *)
(* every order in which neighbours may be looked at.                       *)
(*                                                                         *)
(* The limited search (PathSearch): every path there is has been found     *)
(* already or extends an entry of the stack (Covered), and what was found  *)
(* and what is on the stack are in alphabetical order (Ordered, MetFirst). *)
(*                                                                         *)
(* The core (Peeling): the degrees are exact, so that a neighbour passes   *)
(* the threshold exactly once (LowAreQueued), and no word of a dense part  *)
(* is ever removed (DenseStays).  When nobody of low degree remains, what  *)
(* remains is dense itself.                                                *)
(*                                                                         *)
(* The groups (DenseSubgraphs): a word that is looked at has its           *)
(* neighbours in its group, and a part of the core that has one of them    *)
(* and is closed under neighbours has them all (GroupsTrue).               *)
(*                                                                         *)
(* The path (ShortestPath): words wait in the order of the ways by which   *)
(* they were found, so that the first to reach a word comes the soonest    *)
(* way (InOrder, Soonest).                                                 *)
(***************************************************************************)
EXTENDS GraphQueries, PathSearch, FiniteSetTheorems, NaturalsInduction,
        WellFoundedInduction, TLAPS

-----------------------------------------------------------------------------
(* The limited search: the alphabetical order of lists.                    *)

LEMMA Ranks ==
    ASSUME NEW p \in Seq(Nodes)
    PROVE  \A i \in 1..Len(p) : p[i] \in Nat
<1>1. \A i \in 1..Len(p) : p[i] \in Nodes
    OBVIOUS
<1>. QED
    BY <1>1, NodesAssumption

LEMMA BeforeAsymmetric ==
    ASSUME NEW p \in Seq(Nodes), NEW q \in Seq(Nodes), Before(p, q)
    PROVE  ~ Before(q, p)
<1>1. \A i \in 1..Len(p) : p[i] \in Nat
    BY Ranks
<1>2. \A i \in 1..Len(q) : q[i] \in Nat
    BY Ranks
<1>3. PICK i \in 1..Len(p) : i <= Len(q) /\ p[i] < q[i] /\ \A h \in 1..(i - 1) : p[h] = q[h]
    BY DEF Before
<1>4. ASSUME NEW j \in 1..Len(q), j <= Len(p), q[j] < p[j], \A h \in 1..(j - 1) : q[h] = p[h]
      PROVE  FALSE
  <2>1. CASE i < j
    BY <1>1, <1>2, <1>3, <1>4, <2>1
  <2>2. CASE j < i
    BY <1>1, <1>2, <1>3, <1>4, <2>2
  <2>3. CASE i = j
    BY <1>1, <1>2, <1>3, <1>4, <2>3
  <2>. QED
    BY <2>1, <2>2, <2>3
<1>. QED
    BY <1>4 DEF Before

\* What begins with a list stands where the list stands.
LEMMA BeforeExtended ==
    ASSUME NEW p \in Seq(Nodes), NEW q \in Seq(Nodes), NEW r \in Seq(Nodes),
           Begins(q, r)
    PROVE  /\ Before(p, q) => Before(p, r)
           /\ Before(q, p) => Before(r, p)
<1>1. ASSUME Before(p, q) PROVE Before(p, r)
  <2>1. PICK i \in 1..Len(p) : i <= Len(q) /\ p[i] < q[i] /\ \A h \in 1..(i - 1) : p[h] = q[h]
    BY <1>1 DEF Before
  <2>2. i <= Len(r) /\ p[i] < r[i] /\ \A h \in 1..(i - 1) : p[h] = r[h]
    BY <2>1 DEF Begins
  <2>. QED
    BY <2>2 DEF Before
<1>2. ASSUME Before(q, p) PROVE Before(r, p)
  <2>1. PICK i \in 1..Len(q) : i <= Len(p) /\ q[i] < p[i] /\ \A h \in 1..(i - 1) : q[h] = p[h]
    BY <1>2 DEF Before
  <2>2. i \in 1..Len(r) /\ r[i] < p[i] /\ \A h \in 1..(i - 1) : r[h] = p[h]
    BY <2>1 DEF Begins
  <2>. QED
    BY <2>1, <2>2 DEF Before
<1>. QED
    BY <1>1, <1>2

\* Lists with a common beginning are ordered by what follows it.
LEMMA BeforeAppended ==
    ASSUME NEW q \in Seq(Nodes), NEW a \in Nodes, NEW b \in Nodes, a < b
    PROVE  Before(Append(q, a), Append(q, b))
<1>1. /\ Len(Append(q, a)) = Len(q) + 1 /\ Len(Append(q, b)) = Len(q) + 1
      /\ Append(q, a)[Len(q) + 1] = a /\ Append(q, b)[Len(q) + 1] = b
      /\ \A h \in 1..Len(q) : Append(q, a)[h] = Append(q, b)[h]
    OBVIOUS
<1>2. Len(q) + 1 \in 1..Len(Append(q, a))
    BY <1>1
<1>. QED
    BY <1>1, <1>2 DEF Before

\* A path has no more words than the graph.
LEMMA PathIsCandidate ==
    ASSUME NEW p \in Seq(Nodes), Joins(p)
    PROVE  p \in Candidates
<1>1. Cardinality(Nodes) \in Nat
    BY NodesAssumption, FS_CardinalityType
<1>2. Len(p) \in Nat /\ Len(p) >= 1 /\ p \in [1..Len(p) -> Nodes]
    BY DEF Joins
<1>3. IsFiniteSet(1..Len(p)) /\ Cardinality(1..Len(p)) = Len(p)
    BY <1>2, FS_Interval
<1>4. ASSUME Cardinality(Nodes) < Len(p) PROVE FALSE
  <2>1. PICK i, j \in 1..Len(p) : i # j /\ p[i] = p[j]
    BY <1>2, <1>3, <1>4, NodesAssumption, FS_PigeonHole
  <2>. QED
    BY <2>1 DEF Joins, IsPath
<1>. QED
    BY <1>1, <1>2, <1>4 DEF Candidates

-----------------------------------------------------------------------------
(* The inductive invariant.                                                *)

Entry(q) ==
    /\ q \in Seq(Nodes) /\ q # <<>> /\ q[1] = query.from
    /\ IsPath(graph, q) /\ Within(q)

Answer(p) == p \in Seq(Nodes) /\ Joins(p) /\ Within(p)

\* b is as good an answer of longest_simple_path as p.
Dominates(b, p) ==
    b = p \/ Len(b) > Len(p) \/ (Len(b) = Len(p) /\ Before(b, p))

\* p is dealt with: found, if paths are collected, and compared with best.
Settled(p) ==
    /\ Collects => \E i \in 1..Len(paths) : paths[i] = p
    /\ Dominates(best, p)

StackTrue == \A i \in 1..Len(stack) : Entry(stack[i])

FoundTrue ==
    /\ \A i \in 1..Len(paths) : Answer(paths[i]) /\ Dominates(best, paths[i])
    /\ best # <<>> => Answer(best)
    /\ Collects /\ best # <<>> => \E i \in 1..Len(paths) : paths[i] = best

\* What was found comes before what is on the stack.
Ordered ==
    /\ \A i, j \in 1..Len(stack) : i < j => Before(stack[i], stack[j])
    /\ \A i, j \in 1..Len(paths) : i < j => Before(paths[i], paths[j])
    /\ \A i \in 1..Len(paths), j \in 1..Len(stack) : Before(paths[i], stack[j])
    /\ best # <<>> => \A j \in 1..Len(stack) : Before(best, stack[j])

\* Every path has been dealt with or extends an entry of the stack.
Covered ==
    \A p \in Seq(Nodes) : Joins(p) /\ (Within(p) \/ ~ pruned) =>
        Settled(p) \/ \E i \in 1..Len(stack) : Begins(stack[i], p)

\* An answer that is met comes before what is on the stack, collected or not.
MetFirst ==
    \A p \in Seq(Nodes) :
        Answer(p) /\ (\A i \in 1..Len(stack) : ~ Begins(stack[i], p)) =>
            \A j \in 1..Len(stack) : Before(p, stack[j])

EndTrue ==
    /\ outcome \in {"complete", "max_depth"} => stack = <<>>
    /\ outcome = "complete" => ~ pruned

BoundedInv ==
    BoundedTypeOK /\ StackTrue /\ FoundTrue /\ Ordered /\ Covered /\ MetFirst /\ EndTrue

LEMMA BoundedInitInv == BoundedInit => BoundedInv
<1> SUFFICES ASSUME BoundedInit PROVE BoundedInv
    OBVIOUS
<1>. USE DEF BoundedInit
<1>1. query.from \in Nodes /\ query.maxStates \in Nat /\ query.maxDepth \in Nat \cup {None}
    BY LimitsAssumption DEF Queries
<1>2. /\ stack \in Seq(Seq(Nodes) \ {<<>>}) /\ Len(stack) = 1 /\ stack[1] = <<query.from>>
      /\ Len(stack[1]) = 1 /\ stack[1][1] = query.from
    BY <1>1
<1>3. BoundedTypeOK
  <2>1. <<>> \in Seq(Seq(Nodes)) /\ <<>> \in Seq(Nodes) /\ 0 \in 0..query.maxStates
    BY <1>1
  <2>. QED
    BY <1>2, <2>1 DEF BoundedTypeOK, Outcomes
<1>4. StackTrue
  <2>1. stack[1] \in Seq(Nodes) /\ stack[1] # <<>>
    BY <1>1, <1>2
  <2>2. IsPath(graph, stack[1])
    BY <1>2 DEF IsPath
  <2>3. Within(stack[1])
    BY <1>1, <1>2 DEF Within
  <2>4. Entry(stack[1])
    BY <1>2, <2>1, <2>2, <2>3 DEF Entry
  <2>5. \A i \in 1..Len(stack) : i = 1
    BY <1>2
  <2>. QED
    BY <2>4, <2>5 DEF StackTrue
<1>5. FoundTrue /\ Ordered /\ EndTrue
    BY <1>2 DEF FoundTrue, Ordered, EndTrue
<1>6. Covered
    BY <1>2 DEF Covered, Begins, Joins
<1>7. MetFirst
    BY <1>2 DEF MetFirst, Begins, Answer, Joins
<1>. QED
    BY <1>3, <1>4, <1>5, <1>6, <1>7 DEF BoundedInv

\* What a query is about does not change while it runs.
LEMMA QueryKept ==
    ASSUME UNCHANGED <<graph, query>>
    PROVE  /\ Collects' = Collects
           /\ \A p : Entry(p)' = Entry(p)
           /\ \A p : Answer(p)' = Answer(p)
           /\ \A p : Joins(p)' = Joins(p)
           /\ \A p : Within(p)' = Within(p)
    BY DEF Collects, Entry, Answer, Joins, Within

\* The top of the stack and what is below it.
LEMMA PopFacts ==
    ASSUME BoundedTypeOK, Pops
    PROVE  /\ Head(stack) = stack[1] /\ Head(stack) \in Seq(Nodes) /\ Head(stack) # <<>>
           /\ Len(Head(stack)) \in Nat \ {0} /\ Here(Head(stack)) \in Nodes
           /\ Tail(stack) \in Seq(Seq(Nodes) \ {<<>>})
           /\ Len(stack) \in Nat \ {0} /\ Len(Tail(stack)) = Len(stack) - 1
           /\ \A i \in 1..Len(Tail(stack)) : Tail(stack)[i] = stack[i + 1]
<1>1. stack \in Seq(Seq(Nodes) \ {<<>>}) /\ stack # <<>>
    BY DEF BoundedTypeOK, Pops
<1>2. Head(stack) = stack[1] /\ Head(stack) \in Seq(Nodes) \ {<<>>}
    BY <1>1
<1>3. Len(Head(stack)) \in Nat \ {0}
    BY <1>2
<1>. QED
    BY <1>1, <1>2, <1>3 DEF Here

\* Whatever happens to the stack, a path that only its top begins is a path on.
LEMMA NextWord ==
    ASSUME BoundedTypeOK, NEW q \in Seq(Nodes), q # <<>>, Here(q) # query.to,
           NEW p \in Seq(Nodes), Joins(p), Begins(q, p)
    PROVE  /\ Len(p) > Len(q)
           /\ p[Len(q) + 1] \in Unvisited(q)
           /\ Begins(Append(q, p[Len(q) + 1]), p)
<1>1. Len(q) \in Nat \ {0} /\ Len(p) \in Nat /\ Len(q) <= Len(p)
    BY DEF Begins
<1>2. Len(p) # Len(q)
    BY <1>1 DEF Begins, Joins, Here
<1>3. Len(q) + 1 \in 1..Len(p) /\ Len(q) \in 1..(Len(p) - 1)
    BY <1>1, <1>2
<1>4. p[Len(q) + 1] \in graph[Here(q)]
    BY <1>3 DEF Joins, IsPath, Begins, Here
<1>5. \A i \in 1..Len(q) : q[i] # p[Len(q) + 1]
    BY <1>1, <1>3 DEF Joins, IsPath, Begins
<1>6. Begins(Append(q, p[Len(q) + 1]), p)
    BY <1>1, <1>3 DEF Begins
<1>. QED
    BY <1>1, <1>2, <1>4, <1>5, <1>6 DEF Unvisited

\* A path that has reached the other word does not go on.
LEMMA OnlyItself ==
    ASSUME NEW q \in Seq(Nodes), q # <<>>, Here(q) = query.to,
           NEW p \in Seq(Nodes), Joins(p), Begins(q, p)
    PROVE  p = q
<1>1. Len(q) \in 1..Len(p) /\ p[Len(q)] = q[Len(q)] /\ Len(p) \in Nat
    BY DEF Begins
<1>2. p[Len(q)] = p[Len(p)]
    BY <1>1 DEF Joins, Here
<1>3. Len(q) = Len(p)
    BY <1>1, <1>2 DEF Joins, IsPath
<1>. QED
    BY <1>3 DEF Begins

-----------------------------------------------------------------------------
(* A path between the words is on the top of the stack.                    *)

LEMMA BoundedArriveStep ==
    ASSUME BoundedInv, Arrive
    PROVE  BoundedInv'
<1> DEFINE q == Head(stack)
<1>. USE DEF BoundedInv
<1>1. /\ q = stack[1] /\ q \in Seq(Nodes) /\ q # <<>> /\ Len(q) \in Nat \ {0}
      /\ stack' \in Seq(Seq(Nodes) \ {<<>>})
      /\ Len(stack) \in Nat \ {0} /\ Len(stack') = Len(stack) - 1
      /\ \A i \in 1..Len(stack') : stack'[i] = stack[i + 1]
    BY PopFacts DEF Arrive
<1>2. /\ UNCHANGED <<graph, query, pruned>> /\ outcome = "searching"
      /\ Here(q) = query.to
      /\ explored < query.maxStates /\ explored' = explored + 1
      /\ best' = IF Better(q) THEN q ELSE best
      /\ paths' = IF Collects THEN Append(paths, q) ELSE paths
      /\ outcome' \in {"searching", "max_paths"}
    BY DEF Arrive, Pops
<1>3. Answer(q)
  <2>1. Entry(q)
    BY <1>1 DEF StackTrue
  <2>. QED
    BY <1>2, <2>1 DEF Entry, Answer, Joins
<1>4. /\ paths \in Seq(Seq(Nodes)) /\ best \in Seq(Nodes) /\ Len(paths) \in Nat
      /\ Collects => /\ Len(paths') = Len(paths) + 1 /\ paths'[Len(paths) + 1] = q
                     /\ \A i \in 1..Len(paths) : paths'[i] = paths[i]
      /\ ~ Collects => paths' = paths /\ Len(paths) = 0
    BY <1>1, <1>2 DEF BoundedTypeOK
<1>5. best # <<>> => Before(best, q)
    BY <1>1 DEF Ordered
<1>6. best' # <<>> /\ (best' = q \/ (best' = best /\ best # <<>>))
    BY <1>1, <1>2 DEF Better
<1> HIDE DEF q
<1>7. Dominates(best', q)
  <2>1. CASE Better(q)
    BY <1>2, <2>1 DEF Dominates
  <2>2. CASE ~ Better(q)
    <3>1. best' = best /\ best # <<>> /\ ~ (Len(q) > Len(best))
      BY <1>2, <2>2 DEF Better
    <3>. QED
      BY <1>1, <1>4, <1>5, <3>1 DEF Dominates
  <2>. QED
    BY <2>1, <2>2
<1>8. ASSUME NEW p \in Seq(Nodes), p # <<>>, Dominates(best, p)
      PROVE  Dominates(best', p)
  <2>1. CASE Better(q)
    <3>1. best' = q
      BY <1>2, <2>1
    <3>2. best # <<>> \/ Len(p) > 0
      BY <1>8
    <3>3. CASE best = <<>>
      BY <1>8, <3>3 DEF Dominates
    <3>4. CASE best # <<>> /\ Len(q) > Len(best)
      BY <1>1, <1>4, <1>8, <3>1, <3>4 DEF Dominates
    <3>5. CASE best # <<>> /\ Len(q) = Len(best) /\ Before(q, best)
      BY <1>1, <1>4, <1>5, <3>5, BeforeAsymmetric
    <3>. QED
      BY <2>1, <3>3, <3>4, <3>5 DEF Better
  <2>2. CASE ~ Better(q)
    BY <1>2, <1>8, <2>2
  <2>. QED
    BY <2>1, <2>2
<1>9. BoundedTypeOK'
  <2>1. explored' \in 0..query.maxStates
    <3>1. query.maxStates \in Nat /\ explored \in 0..query.maxStates
      BY LimitsAssumption DEF BoundedTypeOK, Queries
    <3>. QED
      BY <1>2, <3>1
  <2>2. paths' \in Seq(Seq(Nodes)) /\ best' \in Seq(Nodes)
    BY <1>1, <1>2, <1>4
  <2>3. (~ Collects)' => paths' = <<>>
    BY <1>2, <1>4 DEF BoundedTypeOK, Collects
  <2>. QED
    BY <1>1, <1>2, <2>1, <2>2, <2>3 DEF BoundedTypeOK, Outcomes
<1>10. StackTrue'
  <2>1. \A i \in 1..Len(stack') : i + 1 \in 1..Len(stack) /\ stack'[i] = stack[i + 1]
    BY <1>1
  <2>2. \A i \in 1..Len(stack') : Entry(stack'[i])
    BY <2>1 DEF StackTrue
  <2>. QED
    BY <1>2, <2>2, QueryKept DEF StackTrue
<1>11. FoundTrue'
  <2>1. ASSUME NEW i \in 1..Len(paths')
        PROVE  Answer(paths'[i]) /\ Dominates(best', paths'[i])
    <3>1. CASE Collects /\ i = Len(paths) + 1
      BY <1>3, <1>4, <1>7, <3>1
    <3>2. CASE i \in 1..Len(paths)
      <4>1. Answer(paths[i]) /\ Dominates(best, paths[i]) /\ paths'[i] = paths[i]
        BY <1>4, <3>2 DEF FoundTrue
      <4>. QED
        BY <1>8, <4>1 DEF Answer, Joins
    <3>. QED
      BY <1>4, <3>1, <3>2
  <2>2. Answer(best')
    BY <1>3, <1>6 DEF FoundTrue
  <2>3. Collects => \E i \in 1..Len(paths') : paths'[i] = best'
    <3>1. SUFFICES ASSUME Collects
                   PROVE  \E i \in 1..Len(paths') : paths'[i] = best'
      OBVIOUS
    <3>2. CASE best' = q
      BY <1>4, <3>1, <3>2
    <3>3. CASE best' = best /\ best # <<>>
      <4>1. PICK i \in 1..Len(paths) : paths[i] = best
        BY <3>1, <3>3 DEF FoundTrue
      <4>. QED
        BY <1>4, <3>1, <3>3, <4>1
    <3>. QED
      BY <1>6, <3>2, <3>3
  <2>. QED
    BY <1>2, <2>1, <2>2, <2>3, QueryKept DEF FoundTrue
<1>12. Ordered'
  <2>0. /\ 1 \in 1..Len(stack)
        /\ \A i \in 1..Len(stack') : /\ i + 1 \in 1..Len(stack) /\ 1 < i + 1
                                     /\ stack'[i] = stack[i + 1]
    BY <1>1
  <2>1. \A i, j \in 1..Len(stack') : i < j => Before(stack'[i], stack'[j])
    <3> SUFFICES ASSUME NEW i \in 1..Len(stack'), NEW j \in 1..Len(stack'), i < j
                 PROVE  Before(stack'[i], stack'[j])
      OBVIOUS
    <3>1. i + 1 < j + 1
      OBVIOUS
    <3>. QED
      BY <2>0, <3>1 DEF Ordered
  <2>2. \A j \in 1..Len(stack') : Before(q, stack'[j])
    BY <1>1, <2>0 DEF Ordered
  <2>3. \A i \in 1..Len(paths), j \in 1..Len(stack') : Before(paths[i], stack'[j])
    BY <2>0 DEF Ordered
  <2>4. \A i \in 1..Len(paths) : Before(paths[i], q)
    BY <1>1, <2>0 DEF Ordered
  <2>5. ASSUME NEW i \in 1..Len(paths'), NEW j \in 1..Len(paths'), i < j
        PROVE  Before(paths'[i], paths'[j])
    <3>1. CASE j \in 1..Len(paths)
      <4>1. i \in 1..Len(paths) /\ paths'[i] = paths[i] /\ paths'[j] = paths[j]
        BY <1>4, <2>5, <3>1
      <4>. QED
        BY <2>5, <3>1, <4>1 DEF Ordered
    <3>2. CASE Collects /\ j = Len(paths) + 1
      <4>1. i \in 1..Len(paths) /\ paths'[i] = paths[i] /\ paths'[j] = q
        BY <1>4, <2>5, <3>2
      <4>. QED
        BY <2>4, <4>1
    <3>. QED
      BY <1>4, <3>1, <3>2
  <2>6. ASSUME NEW i \in 1..Len(paths'), NEW j \in 1..Len(stack')
        PROVE  Before(paths'[i], stack'[j])
    <3>1. CASE i \in 1..Len(paths)
      <4>1. paths'[i] = paths[i]
        BY <1>4, <3>1
      <4>. QED
        BY <2>3, <3>1, <4>1
    <3>2. CASE Collects /\ i = Len(paths) + 1
      <4>1. paths'[i] = q
        BY <1>4, <3>2
      <4>. QED
        BY <2>2, <4>1
    <3>. QED
      BY <1>4, <3>1, <3>2
  <2>7. \A j \in 1..Len(stack') : Before(best', stack'[j])
    BY <1>1, <1>6, <2>2 DEF Ordered
  <2>. QED
    BY <2>1, <2>5, <2>6, <2>7 DEF Ordered
<1>13. Covered'
  <2> SUFFICES ASSUME NEW p \in Seq(Nodes), Joins(p), Within(p) \/ ~ pruned,
                      ~ Settled(p)'
               PROVE  \E i \in 1..Len(stack') : Begins(stack'[i], p)
    BY <1>2, QueryKept DEF Covered
  <2>1. ~ Settled(p)
    <3>1. SUFFICES ASSUME Settled(p) PROVE Settled(p)'
      OBVIOUS
    <3>2. Dominates(best', p)
      BY <1>8, <3>1 DEF Settled, Joins
    <3>3. Collects => \E i \in 1..Len(paths') : paths'[i] = p
      BY <1>4, <3>1 DEF Settled
    <3>. QED
      BY <1>2, <3>2, <3>3, QueryKept DEF Settled, Dominates
  <2>2. p # q
    <3>1. SUFFICES ASSUME p = q PROVE Settled(p)'
      OBVIOUS
    <3>2. Collects => \E i \in 1..Len(paths') : paths'[i] = p
      <4>1. Collects => Len(paths) + 1 \in 1..Len(paths') /\ paths'[Len(paths) + 1] = p
        BY <1>4, <3>1
      <4>. QED
        BY <4>1
    <3>. QED
      BY <1>2, <1>7, <3>1, <3>2, QueryKept DEF Settled, Dominates
  <2>3. PICK i \in 1..Len(stack) : Begins(stack[i], p)
    BY <2>1 DEF Covered
  <2>4. i # 1
    BY <1>1, <1>2, <2>2, <2>3, OnlyItself
  <2>5. i - 1 \in 1..Len(stack') /\ stack'[i - 1] = stack[i]
    <3>1. i - 1 \in 1..Len(stack') /\ (i - 1) + 1 = i
      BY <1>1, <2>4
    <3>. QED
      BY <1>1, <3>1
  <2>. QED
    BY <2>3, <2>5
<1>14. MetFirst'
  <2> SUFFICES ASSUME NEW p \in Seq(Nodes), Answer(p),
                      \A i \in 1..Len(stack') : ~ Begins(stack'[i], p)
               PROVE  \A j \in 1..Len(stack') : Before(p, stack'[j])
    BY <1>2, QueryKept DEF MetFirst
  <2>1. /\ 1 \in 1..Len(stack)
        /\ \A j \in 1..Len(stack') : /\ j + 1 \in 1..Len(stack) /\ 1 < j + 1
                                     /\ stack'[j] = stack[j + 1]
    BY <1>1
  <2>2. CASE p = q
    BY <1>1, <2>1, <2>2 DEF Ordered
  <2>3. CASE p # q
    <3>1. ASSUME NEW i \in 1..Len(stack), Begins(stack[i], p) PROVE FALSE
      <4>1. CASE i = 1
        BY <1>1, <1>2, <2>3, <3>1, <4>1, OnlyItself DEF Answer
      <4>2. CASE i # 1
        <5>1. i - 1 \in 1..Len(stack') /\ (i - 1) + 1 = i
          BY <1>1, <4>2
        <5>. QED
          BY <1>1, <3>1, <5>1
      <4>. QED
        BY <4>1, <4>2
    <3>. QED
      BY <1>1, <2>1, <3>1 DEF MetFirst
  <2>. QED
    BY <2>2, <2>3
<1>15. EndTrue'
    BY <1>2 DEF EndTrue
<1>. QED
    BY <1>9, <1>10, <1>11, <1>12, <1>13, <1>14, <1>15

-----------------------------------------------------------------------------
(* The top of the stack is as deep as the query allows.                    *)

LEMMA TurnBackStep ==
    ASSUME BoundedInv, TurnBack
    PROVE  BoundedInv'
<1> DEFINE q == Head(stack)
<1>. USE DEF BoundedInv
<1>1. /\ q = stack[1] /\ q \in Seq(Nodes) /\ q # <<>> /\ Len(q) \in Nat \ {0}
      /\ stack' \in Seq(Seq(Nodes) \ {<<>>})
      /\ Len(stack) \in Nat \ {0} /\ Len(stack') = Len(stack) - 1
      /\ \A i \in 1..Len(stack') : stack'[i] = stack[i + 1]
    BY PopFacts DEF TurnBack
<1>2. /\ UNCHANGED <<graph, query, paths, best, outcome>> /\ outcome = "searching"
      /\ Here(q) # query.to /\ AtDepth(q)
      /\ explored < query.maxStates /\ explored' = explored + 1
      /\ pruned' = (pruned \/ Unvisited(q) # {})
    BY DEF TurnBack, Pops
<1>3. /\ 1 \in 1..Len(stack)
      /\ \A i \in 1..Len(stack') : /\ i + 1 \in 1..Len(stack)
                                   /\ stack'[i] = stack[i + 1]
    BY <1>1
<1> HIDE DEF q
<1>4. BoundedTypeOK'
  <2>1. explored' \in 0..query.maxStates
    <3>1. query.maxStates \in Nat /\ explored \in 0..query.maxStates
      BY LimitsAssumption DEF BoundedTypeOK, Queries
    <3>. QED
      BY <1>2, <3>1
  <2>2. pruned' \in BOOLEAN
    BY <1>2 DEF BoundedTypeOK
  <2>. QED
    BY <1>1, <1>2, <2>1, <2>2 DEF BoundedTypeOK, Collects
<1>5. StackTrue'
  <2>1. \A i \in 1..Len(stack') : Entry(stack'[i])
    BY <1>3 DEF StackTrue
  <2>. QED
    BY <1>2, <2>1, QueryKept DEF StackTrue
<1>6. FoundTrue'
    BY <1>2, QueryKept DEF FoundTrue, Dominates
<1>7. Ordered'
  <2>1. \A i, j \in 1..Len(stack') : i < j => Before(stack'[i], stack'[j])
    <3> SUFFICES ASSUME NEW i \in 1..Len(stack'), NEW j \in 1..Len(stack'), i < j
                 PROVE  Before(stack'[i], stack'[j])
      OBVIOUS
    <3>1. i + 1 < j + 1
      OBVIOUS
    <3>. QED
      BY <1>3, <3>1 DEF Ordered
  <2>. QED
    BY <1>2, <1>3, <2>1 DEF Ordered
<1>8. ASSUME NEW p \in Seq(Nodes), Joins(p), Begins(q, p)
      PROVE  ~ Within(p) /\ Unvisited(q) # {}
  <2>1. Len(p) > Len(q) /\ p[Len(q) + 1] \in Unvisited(q)
    BY <1>1, <1>2, <1>8, NextWord
  <2>2. query.maxDepth \in Nat /\ query.maxDepth # None /\ Len(q) - 1 >= query.maxDepth
    BY <1>2, LimitsAssumption DEF AtDepth, BoundedTypeOK, Queries
  <2>. QED
    BY <1>1, <2>1, <2>2 DEF Within
<1>9. Covered'
  <2> SUFFICES ASSUME NEW p \in Seq(Nodes), Joins(p), Within(p) \/ ~ pruned',
                      ~ Settled(p)
               PROVE  \E i \in 1..Len(stack') : Begins(stack'[i], p)
    BY <1>2, QueryKept DEF Covered, Settled, Dominates
  <2>1. PICK i \in 1..Len(stack) : Begins(stack[i], p)
    BY <1>2 DEF Covered
  <2>2. i # 1
    BY <1>1, <1>2, <1>8, <2>1
  <2>3. i - 1 \in 1..Len(stack') /\ stack'[i - 1] = stack[i]
    <3>1. i - 1 \in 1..Len(stack') /\ (i - 1) + 1 = i
      BY <1>1, <2>2
    <3>. QED
      BY <1>1, <3>1
  <2>. QED
    BY <2>1, <2>3
<1>10. MetFirst'
  <2> SUFFICES ASSUME NEW p \in Seq(Nodes), Answer(p),
                      \A i \in 1..Len(stack') : ~ Begins(stack'[i], p)
               PROVE  \A j \in 1..Len(stack') : Before(p, stack'[j])
    BY <1>2, QueryKept DEF MetFirst
  <2>1. ASSUME NEW i \in 1..Len(stack), Begins(stack[i], p) PROVE FALSE
    <3>1. CASE i = 1
      BY <1>1, <1>8, <2>1, <3>1 DEF Answer
    <3>2. CASE i # 1
      <4>1. i - 1 \in 1..Len(stack') /\ (i - 1) + 1 = i
        BY <1>1, <3>2
      <4>. QED
        BY <1>1, <2>1, <4>1
    <3>. QED
      BY <3>1, <3>2
  <2>. QED
    BY <1>3, <2>1 DEF MetFirst
<1>11. EndTrue'
    BY <1>2 DEF EndTrue
<1>. QED
    BY <1>4, <1>5, <1>6, <1>7, <1>9, <1>10, <1>11

-----------------------------------------------------------------------------
(* The top of the stack is followed further.                               *)

LEMMA SortedFacts ==
    ASSUME NEW S \in SUBSET Nodes, NEW s \in Sorted(S)
    PROVE  /\ s \in Seq(S) /\ Len(s) \in Nat
           /\ \A n \in S : \E i \in 1..Len(s) : s[i] = n
           /\ \A i, j \in 1..Len(s) : i < j => s[i] < s[j]
<1>1. Cardinality(S) \in Nat
    BY NodesAssumption, FS_Subset, FS_CardinalityType
<1>2. s \in [1..Cardinality(S) -> S]
    BY DEF Sorted, Arrangements
<1>3. s \in Seq(S) /\ Len(s) = Cardinality(S) /\ DOMAIN s = 1..Len(s)
    BY <1>1, <1>2
<1>. QED
    BY <1>1, <1>3 DEF Sorted, Arrangements

\* The stack after an expansion: the pushed entries and what was below.
LEMMA PushFacts ==
    ASSUME BoundedTypeOK, Expand
    PROVE  \E s \in Sorted(Unvisited(Head(stack))) :
              /\ Unvisited(Head(stack)) \subseteq Nodes
              /\ stack' \in Seq(Seq(Nodes) \ {<<>>})
              /\ Len(stack') = Len(s) + Len(stack) - 1
              /\ \A i \in 1..Len(s) : stack'[i] = Append(Head(stack), s[i])
              /\ \A i \in 2..Len(stack) : stack'[Len(s) + i - 1] = stack[i]
<1> DEFINE q == Head(stack)
           T == Tail(stack)
<1>1. /\ q \in Seq(Nodes) /\ Here(q) \in Nodes
      /\ T \in Seq(Seq(Nodes) \ {<<>>})
      /\ Len(stack) \in Nat \ {0} /\ Len(T) = Len(stack) - 1
      /\ \A i \in 1..Len(T) : T[i] = stack[i + 1]
    BY PopFacts DEF Expand
<1>2. Unvisited(q) \subseteq Nodes
    BY <1>1 DEF Unvisited, BoundedTypeOK, Graphs
<1>3. PICK s \in Sorted(Unvisited(q)) :
          stack' = [i \in DOMAIN s |-> Append(q, s[i])] \o T
    BY DEF Expand
<1> DEFINE new == [i \in DOMAIN s |-> Append(q, s[i])]
<1>4. s \in Seq(Nodes) /\ Len(s) \in Nat /\ DOMAIN s = 1..Len(s)
  <2>1. s \in Seq(Unvisited(q)) /\ Len(s) \in Nat
    BY <1>2, <1>3, SortedFacts
  <2>. QED
    BY <1>2, <2>1
<1> HIDE DEF q, T
<1>5. \A i \in 1..Len(s) : Append(q, s[i]) \in Seq(Nodes) \ {<<>>}
  <2> SUFFICES ASSUME NEW i \in 1..Len(s)
               PROVE  Append(q, s[i]) \in Seq(Nodes) \ {<<>>}
    OBVIOUS
  <2>1. s[i] \in Nodes
    BY <1>4
  <2>2. Append(q, s[i]) \in Seq(Nodes) /\ Len(Append(q, s[i])) = Len(q) + 1
    BY <1>1, <2>1
  <2>. QED
    BY <1>1, <2>2
<1>6. new \in Seq(Seq(Nodes) \ {<<>>}) /\ Len(new) = Len(s)
    BY <1>4, <1>5
<1>7. \A i \in 1..Len(s) : new[i] = Append(q, s[i])
    BY <1>4
<1> HIDE DEF new
<1>8. /\ new \o T \in Seq(Seq(Nodes) \ {<<>>})
      /\ Len(new \o T) = Len(s) + Len(stack) - 1
      /\ \A i \in 1..Len(s) : (new \o T)[i] = new[i]
      /\ \A i \in 2..Len(stack) : (new \o T)[Len(s) + i - 1] = T[i - 1]
  <2> DEFINE E == Seq(Nodes) \ {<<>>}
  <2>1. new \in Seq(E) /\ T \in Seq(E)
    BY <1>1, <1>6
  <2> HIDE DEF E
  <2>2. /\ new \o T \in Seq(E) /\ Len(new \o T) = Len(new) + Len(T)
        /\ \A i \in 1..Len(new) : (new \o T)[i] = new[i]
        /\ \A i \in 1..Len(T) : (new \o T)[Len(new) + i] = T[i]
    BY <2>1
  <2>3. \A i \in 2..Len(stack) : /\ i - 1 \in 1..Len(T)
                                 /\ Len(new) + (i - 1) = Len(s) + i - 1
    BY <1>1, <1>4, <1>6
  <2>. QED
    BY <1>1, <1>4, <1>6, <2>2, <2>3 DEF E
<1>9. \A i \in 2..Len(stack) : T[i - 1] = stack[i]
    BY <1>1
<1>10. stack' = new \o T
    BY <1>3 DEF new
<1>. QED
    BY <1>2, <1>3, <1>7, <1>8, <1>9, <1>10 DEF q

\* A pushed entry is a path within the depth.
LEMMA AppendEntry ==
    ASSUME BoundedTypeOK, NEW q, Entry(q), ~ AtDepth(q), NEW n \in Unvisited(q), n \in Nodes
    PROVE  Entry(Append(q, n))
<1> DEFINE r == Append(q, n)
<1>1. q \in Seq(Nodes) /\ Len(q) \in Nat \ {0} /\ q[1] = query.from
    BY DEF Entry
<1>2. /\ r \in Seq(Nodes) /\ r # <<>> /\ Len(r) = Len(q) + 1 /\ r[Len(q) + 1] = n
      /\ \A h \in 1..Len(q) : r[h] = q[h]
    BY <1>1
<1> HIDE DEF r
<1>3. IsPath(graph, r)
  <2>1. ASSUME NEW i \in 1..(Len(r) - 1) PROVE r[i + 1] \in graph[r[i]]
    <3>1. CASE i < Len(q)
      <4>1. i \in 1..(Len(q) - 1) /\ r[i] = q[i] /\ r[i + 1] = q[i + 1]
        BY <1>1, <1>2, <3>1
      <4>. QED
        BY <4>1 DEF Entry, IsPath
    <3>2. CASE i = Len(q)
      <4>1. r[i] = Here(q) /\ r[i + 1] = n
        BY <1>1, <1>2, <3>2 DEF Here
      <4>. QED
        BY <4>1 DEF Unvisited
    <3>. QED
      BY <1>1, <1>2, <3>1, <3>2
  <2>2. ASSUME NEW i \in 1..Len(r), NEW j \in 1..Len(r), i # j PROVE r[i] # r[j]
    <3>1. CASE i \in 1..Len(q) /\ j \in 1..Len(q)
      <4>1. r[i] = q[i] /\ r[j] = q[j]
        BY <1>2, <3>1
      <4>. QED
        BY <2>2, <3>1, <4>1 DEF Entry, IsPath
    <3>2. CASE i = Len(q) + 1 /\ j \in 1..Len(q)
      BY <1>2, <3>2 DEF Unvisited
    <3>3. CASE j = Len(q) + 1 /\ i \in 1..Len(q)
      BY <1>2, <3>3 DEF Unvisited
    <3>. QED
      BY <1>1, <1>2, <2>2, <3>1, <3>2, <3>3
  <2>. QED
    BY <2>1, <2>2 DEF IsPath
<1>4. Within(r)
  <2>1. query.maxDepth = None \/ (query.maxDepth \in Nat /\ Len(q) - 1 < query.maxDepth)
    <3>1. query.maxDepth \in Nat \cup {None}
      BY LimitsAssumption DEF BoundedTypeOK, Queries
    <3>2. query.maxDepth = None \/ ~ (Len(q) - 1 >= query.maxDepth)
      BY DEF AtDepth
    <3>. QED
      BY <1>1, <3>1, <3>2
  <2>. QED
    BY <1>1, <1>2, <2>1 DEF Within
<1>5. r[1] = query.from
    BY <1>1, <1>2
<1>. QED
    BY <1>2, <1>3, <1>4, <1>5 DEF Entry, r

LEMMA ExpandStep ==
    ASSUME BoundedInv, Expand
    PROVE  BoundedInv'
<1> DEFINE q == Head(stack)
<1>. USE DEF BoundedInv
<1>1. /\ q = stack[1] /\ q \in Seq(Nodes) /\ q # <<>> /\ Len(q) \in Nat \ {0}
      /\ Len(stack) \in Nat \ {0} /\ 1 \in 1..Len(stack)
  <2>1. /\ q = stack[1] /\ q \in Seq(Nodes) /\ q # <<>> /\ Len(q) \in Nat \ {0}
        /\ Len(stack) \in Nat \ {0}
    BY PopFacts DEF Expand
  <2>. QED
    BY <2>1
<1>2. /\ UNCHANGED <<graph, query, paths, best, pruned, outcome>> /\ outcome = "searching"
      /\ Here(q) # query.to /\ ~ AtDepth(q)
      /\ explored < query.maxStates /\ explored' = explored + 1
    BY DEF Expand, Pops
<1>3. PICK s \in Sorted(Unvisited(q)) :
          /\ Unvisited(q) \subseteq Nodes
          /\ stack' \in Seq(Seq(Nodes) \ {<<>>})
          /\ Len(stack') = Len(s) + Len(stack) - 1
          /\ \A i \in 1..Len(s) : stack'[i] = Append(q, s[i])
          /\ \A i \in 2..Len(stack) : stack'[Len(s) + i - 1] = stack[i]
    BY PushFacts
<1>4. /\ s \in Seq(Unvisited(q)) /\ Len(s) \in Nat
      /\ \A n \in Unvisited(q) : \E i \in 1..Len(s) : s[i] = n
      /\ \A i, j \in 1..Len(s) : i < j => s[i] < s[j]
    BY <1>3, SortedFacts
<1>5. \A i \in 1..Len(s) : s[i] \in Unvisited(q) /\ s[i] \in Nodes
    BY <1>3, <1>4
<1>6. Entry(q)
    BY <1>1 DEF StackTrue
<1> HIDE DEF q
<1> DEFINE Old(i) == i - Len(s) + 1
<1>7. \A i \in 1..Len(stack') :
          i \in 1..Len(s) \/ (Old(i) \in 2..Len(stack) /\ stack'[i] = stack[Old(i)]
                              /\ Old(i) \in 1..Len(stack) /\ 1 < Old(i) /\ i > Len(s))
  <2> SUFFICES ASSUME NEW i \in 1..Len(stack'), i \notin 1..Len(s)
               PROVE  Old(i) \in 2..Len(stack) /\ stack'[i] = stack[Old(i)] /\ i > Len(s)
    BY <1>1
  <2>1. Old(i) \in 2..Len(stack) /\ i = Len(s) + Old(i) - 1 /\ i > Len(s)
    BY <1>1, <1>3, <1>4
  <2>. QED
    BY <1>3, <2>1
<1>8. /\ \A i, j \in 1..Len(stack') : i < j => Old(i) < Old(j)
      /\ \A i \in 1..Len(stack'), j \in 1..Len(s) : i < j => i \in 1..Len(s)
    BY <1>1, <1>3, <1>4
<1> HIDE DEF Old
<1>9. \A i \in 1..Len(s) : Append(q, s[i]) \in Seq(Nodes) /\ Begins(q, Append(q, s[i]))
  <2> SUFFICES ASSUME NEW i \in 1..Len(s)
               PROVE  Append(q, s[i]) \in Seq(Nodes) /\ Begins(q, Append(q, s[i]))
    OBVIOUS
  <2>1. s[i] \in Nodes
    BY <1>5
  <2>. QED
    BY <1>1, <2>1 DEF Begins
<1>10. BoundedTypeOK'
  <2>1. explored' \in 0..query.maxStates
    <3>1. query.maxStates \in Nat /\ explored \in 0..query.maxStates
      BY LimitsAssumption DEF BoundedTypeOK, Queries
    <3>. QED
      BY <1>2, <3>1
  <2>. QED
    BY <1>2, <1>3, <2>1 DEF BoundedTypeOK, Collects
<1>11. StackTrue'
  <2>1. ASSUME NEW i \in 1..Len(stack') PROVE Entry(stack'[i])
    <3>1. CASE i \in 1..Len(s)
      BY <1>2, <1>3, <1>5, <1>6, <3>1, AppendEntry
    <3>2. CASE i \notin 1..Len(s)
      BY <1>7, <3>2 DEF StackTrue
    <3>. QED
      BY <3>1, <3>2
  <2>. QED
    BY <1>2, <2>1, QueryKept DEF StackTrue
<1>12. FoundTrue'
    BY <1>2, QueryKept DEF FoundTrue, Dominates
<1>13. ASSUME NEW p \in Seq(Nodes), \A j \in 1..Len(stack) : Before(p, stack[j])
      PROVE  \A j \in 1..Len(stack') : Before(p, stack'[j])
  <2> SUFFICES ASSUME NEW j \in 1..Len(stack') PROVE Before(p, stack'[j])
    OBVIOUS
  <2>1. CASE j \in 1..Len(s)
    <3>1. stack'[j] \in Seq(Nodes) /\ Begins(q, stack'[j])
      BY <1>3, <1>9, <2>1
    <3>2. Before(p, q)
      BY <1>1, <1>13
    <3>. QED
      BY <1>1, <1>13, <3>1, <3>2, BeforeExtended
  <2>2. CASE j \notin 1..Len(s)
    BY <1>7, <1>13, <2>2
  <2>. QED
    BY <2>1, <2>2
<1>14. Ordered'
  <2>1. ASSUME NEW i \in 1..Len(stack'), NEW j \in 1..Len(stack'), i < j
        PROVE  Before(stack'[i], stack'[j])
    <3>1. CASE j \in 1..Len(s)
      <4>1. i \in 1..Len(s) /\ s[i] < s[j]
        BY <1>4, <1>8, <2>1, <3>1
      <4>. QED
        <5>1. s[i] \in Nodes /\ s[j] \in Nodes /\ q \in Seq(Nodes)
          BY <1>1, <1>5, <3>1, <4>1
        <5>2. stack'[i] = Append(q, s[i]) /\ stack'[j] = Append(q, s[j])
          BY <1>3, <3>1, <4>1
        <5>. QED
          BY <4>1, <5>1, <5>2, BeforeAppended
    <3>2. CASE i \in 1..Len(s) /\ j \notin 1..Len(s)
      <4>1. stack'[j] = stack[Old(j)] /\ Old(j) \in 1..Len(stack) /\ 1 < Old(j)
        BY <1>7, <3>2
      <4>2. stack[Old(j)] \in Seq(Nodes)
        BY <4>1 DEF StackTrue, Entry
      <4>3. Before(q, stack[Old(j)])
        BY <1>1, <4>1 DEF Ordered
      <4>4. stack'[i] \in Seq(Nodes) /\ Begins(q, stack'[i])
        BY <1>3, <1>9, <3>2
      <4>. QED
        BY <1>1, <4>1, <4>2, <4>3, <4>4, BeforeExtended
    <3>3. CASE i \notin 1..Len(s) /\ j \notin 1..Len(s)
      BY <1>7, <1>8, <2>1, <3>3 DEF Ordered
    <3>. QED
      BY <1>8, <2>1, <3>1, <3>2, <3>3
  <2>3. \A i \in 1..Len(paths), j \in 1..Len(stack') : Before(paths[i], stack'[j])
    <3>1. \A i \in 1..Len(paths) : paths[i] \in Seq(Nodes)
      BY DEF FoundTrue, Answer
    <3>. QED
      BY <1>13, <3>1 DEF Ordered
  <2>4. best # <<>> => \A j \in 1..Len(stack') : Before(best, stack'[j])
    BY <1>13 DEF Ordered, BoundedTypeOK
  <2>. QED
    BY <1>2, <2>1, <2>3, <2>4 DEF Ordered
<1>15. ASSUME NEW p \in Seq(Nodes), Joins(p), NEW i \in 1..Len(stack), Begins(stack[i], p)
       PROVE  \E h \in 1..Len(stack') : Begins(stack'[h], p)
  <2>1. CASE i = 1
    <3>1. p[Len(q) + 1] \in Unvisited(q) /\ Begins(Append(q, p[Len(q) + 1]), p)
      BY <1>1, <1>2, <1>15, <2>1, NextWord
    <3>2. PICK h \in 1..Len(s) : s[h] = p[Len(q) + 1]
      BY <1>4, <3>1
    <3>3. h \in 1..Len(stack')
      BY <1>1, <1>3, <1>4
    <3>4. stack'[h] = Append(q, s[h])
      BY <1>3
    <3>. QED
      BY <3>1, <3>2, <3>3, <3>4
  <2>2. CASE i # 1
    <3>1. i \in 2..Len(stack) /\ Len(s) + i - 1 \in 1..Len(stack')
      BY <1>1, <1>3, <1>4, <2>2
    <3>. QED
      BY <1>3, <1>15, <3>1
  <2>. QED
    BY <2>1, <2>2
<1>16. Covered'
  <2> SUFFICES ASSUME NEW p \in Seq(Nodes), Joins(p), Within(p) \/ ~ pruned,
                      ~ Settled(p)
               PROVE  \E i \in 1..Len(stack') : Begins(stack'[i], p)
    BY <1>2, QueryKept DEF Covered, Settled, Dominates
  <2>. QED
    BY <1>15 DEF Covered
<1>17. MetFirst'
  <2> SUFFICES ASSUME NEW p \in Seq(Nodes), Answer(p),
                      \A i \in 1..Len(stack') : ~ Begins(stack'[i], p)
               PROVE  \A j \in 1..Len(stack') : Before(p, stack'[j])
    BY <1>2, QueryKept DEF MetFirst
  <2>1. \A i \in 1..Len(stack) : ~ Begins(stack[i], p)
    BY <1>15 DEF Answer
  <2>. QED
    BY <1>13, <2>1 DEF MetFirst
<1>18. EndTrue'
    BY <1>2 DEF EndTrue
<1>. QED
    BY <1>10, <1>11, <1>12, <1>14, <1>16, <1>17, <1>18

-----------------------------------------------------------------------------
(* The theorems.                                                           *)

\* A stop only changes the outcome.
LEMMA StopStep ==
    ASSUME BoundedInv, UNCHANGED <<graph, query, stack, paths, best, explored, pruned>>,
           outcome' \in Outcomes, EndTrue'
    PROVE  BoundedInv'
<1>. USE DEF BoundedInv
<1>1. BoundedTypeOK'
    BY DEF BoundedTypeOK, Collects
<1>2. StackTrue' /\ FoundTrue' /\ Ordered'
    BY QueryKept DEF StackTrue, FoundTrue, Ordered, Dominates
<1>3. Covered'
    BY QueryKept DEF Covered, Settled, Dominates
<1>4. MetFirst'
    BY QueryKept DEF MetFirst
<1>. QED
    BY <1>1, <1>2, <1>3, <1>4

\* The invariant is inductive: one case per action.
THEOREM BoundedInvariantHolds == BoundedSpec => []BoundedInv
<1>1. BoundedInv /\ [BoundedNext]_boundedVars => BoundedInv'
  <2> SUFFICES ASSUME BoundedInv, [BoundedNext]_boundedVars PROVE BoundedInv'
    OBVIOUS
  <2>1. CASE Timeout
    BY <2>1, StopStep DEF Timeout, Outcomes, EndTrue
  <2>2. CASE StopAtStates
    BY <2>2, StopStep DEF StopAtStates, Outcomes, EndTrue
  <2>3. CASE Arrive
    BY <2>3, BoundedArriveStep
  <2>4. CASE TurnBack
    BY <2>4, TurnBackStep
  <2>5. CASE Expand
    BY <2>5, ExpandStep
  <2>6. CASE Finish
    BY <2>6, StopStep DEF Finish, Outcomes, EndTrue
  <2>7. CASE UNCHANGED boundedVars
    BY <2>7, StopStep DEF boundedVars, BoundedInv, BoundedTypeOK, EndTrue
  <2>. QED
    BY <2>1, <2>2, <2>3, <2>4, <2>5, <2>6, <2>7 DEF BoundedNext
<1>. QED
    BY BoundedInitInv, <1>1, PTL DEF BoundedSpec

\* Type correctness: in particular no more states are explored than the query
\* allows.
THEOREM BoundedTypesHold == BoundedSpec => []BoundedTypeOK
<1>1. BoundedInv => BoundedTypeOK
    BY DEF BoundedInv
<1>. QED
    BY <1>1, BoundedInvariantHolds, PTL

LEMMA AnswersAreCandidates ==
    /\ \A p : Answer(p) => p \in Answers /\ p \in Candidates
    /\ \A p \in Candidates : Joins(p) => p \in Seq(Nodes)
<1>1. \A p : Answer(p) => p \in Candidates
    BY PathIsCandidate DEF Answer
<1>2. Cardinality(Nodes) \in Nat
    BY NodesAssumption, FS_CardinalityType
<1>3. \A p \in Candidates : p \in Seq(Nodes)
    BY <1>2 DEF Candidates
<1>. QED
    BY <1>1, <1>3 DEF Answers, Answer

\* Whatever stops the search, the paths found are the first of the answers.
THEOREM FirstInOrderHolds == BoundedSpec => []FirstInOrder
<1>1. BoundedInv => FirstInOrder
  <2> SUFFICES ASSUME BoundedInv, Collects
               PROVE  /\ Found \subseteq Answers
                      /\ \A i, j \in 1..Len(paths) : i < j => Before(paths[i], paths[j])
                      /\ \A p \in Answers : (\E q \in Found : Before(p, q)) => p \in Found
    BY DEF FirstInOrder
  <2>1. Found \subseteq Answers
    BY AnswersAreCandidates DEF BoundedInv, FoundTrue, Found
  <2>2. \A i, j \in 1..Len(paths) : i < j => Before(paths[i], paths[j])
    BY DEF BoundedInv, Ordered
  <2>3. ASSUME NEW p \in Answers, NEW h \in 1..Len(paths), Before(p, paths[h])
        PROVE  p \in Found
    <3>1. p \in Seq(Nodes) /\ Joins(p) /\ Within(p)
      BY AnswersAreCandidates DEF Answers
    <3>2. ASSUME NEW i \in 1..Len(stack), Begins(stack[i], p) PROVE FALSE
      <4>1. stack[i] \in Seq(Nodes) /\ paths[h] \in Seq(Nodes) /\ Before(paths[h], stack[i])
        BY DEF BoundedInv, StackTrue, Entry, FoundTrue, Answer, Ordered
      <4>2. Before(paths[h], p)
        BY <3>1, <3>2, <4>1, BeforeExtended
      <4>. QED
        BY <2>3, <3>1, <4>1, <4>2, BeforeAsymmetric
    <3>3. Settled(p)
      BY <3>1, <3>2 DEF BoundedInv, Covered
    <3>. QED
      BY <3>3 DEF Settled, Found
  <2>. QED
    BY <2>1, <2>2, <2>3 DEF Found
<1>. QED
    BY <1>1, BoundedInvariantHolds, PTL

\* The best of a set of paths it dominates.
LEMMA BestIsLongest ==
    ASSUME BoundedInv, NEW S, S # {}, \A p \in S : Answer(p) \/ (p \in Seq(Nodes) /\ Joins(p)),
           \A p \in S : Dominates(best, p),
           best # <<>> => best \in S
    PROVE  IsLongest(best, S)
<1>1. PICK p \in S : p \in Seq(Nodes) /\ p # <<>>
    BY DEF Answer, Joins
<1>2. best # <<>>
  <2>1. Len(p) > 0 /\ best \in Seq(Nodes)
    BY <1>1 DEF BoundedInv, BoundedTypeOK
  <2>2. best = p \/ Len(best) > Len(p) \/ Len(best) = Len(p)
    BY DEF Dominates
  <2>. QED
    BY <1>1, <2>1, <2>2
<1>. QED
    BY <1>2 DEF IsLongest, Dominates

\* The report of the search is true, at whatever limits it was run.
THEOREM ReportExactHolds == BoundedSpec => []ReportExact
<1>1. BoundedInv => ReportExact
  <2> SUFFICES ASSUME BoundedInv, outcome \in {"complete", "max_depth"},
                      NEW S,
                      S = IF outcome = "complete" THEN {p \in Candidates : Joins(p)} ELSE Answers
               PROVE  /\ Collects => Found = S
                      /\ IF S = {} THEN best = <<>> ELSE IsLongest(best, S)
    BY DEF ReportExact
  <2>1. stack = <<>> /\ (outcome = "complete" => ~ pruned)
    BY DEF BoundedInv, EndTrue
  <2>2. \A p \in S : p \in Seq(Nodes) /\ Joins(p) /\ (Within(p) \/ ~ pruned)
    BY <2>1, AnswersAreCandidates DEF Answers
  <2>3. \A p \in S : Settled(p)
    BY <2>1, <2>2 DEF BoundedInv, Covered
  <2>4. \A p : Answer(p) => p \in S
    BY AnswersAreCandidates DEF Answers
  <2>5. Collects => Found = S
    <3>1. Found \subseteq S
      BY <2>4 DEF BoundedInv, FoundTrue, Found
    <3>2. Collects => S \subseteq Found
      BY <2>3 DEF Settled, Found
    <3>. QED
      BY <3>1, <3>2
  <2>6. best # <<>> => best \in S
    BY <2>4 DEF BoundedInv, FoundTrue
  <2>7. CASE S = {}
    BY <2>5, <2>6, <2>7
  <2>8. CASE S # {}
    BY <2>2, <2>3, <2>5, <2>6, <2>8, BestIsLongest DEF Settled
  <2>. QED
    BY <2>5, <2>7, <2>8
<1>. QED
    BY <1>1, BoundedInvariantHolds, PTL

\* What comes before everything that is still to be followed extends none of it.
LEMMA BeforeAllIsMet ==
    ASSUME BoundedInv, NEW p, Answer(p), \A j \in 1..Len(stack) : Before(p, stack[j])
    PROVE  p \in Met
<1>1. p \in Seq(Nodes) /\ p \in Answers
    BY AnswersAreCandidates DEF Answer
<1>2. ASSUME NEW j \in 1..Len(stack), Begins(stack[j], p) PROVE FALSE
  <2>1. stack[j] \in Seq(Nodes)
    BY DEF BoundedInv, StackTrue, Entry
  <2>2. Before(p, p)
    BY <1>1, <1>2, <2>1, BeforeExtended
  <2>. QED
    BY <1>1, <2>2, BeforeAsymmetric
<1>. QED
    BY <1>1, <1>2 DEF Met

\* Whatever stops the search, and whether or not it collects the paths, the answers met
\* are the first of all answers and best is the longest of them.
THEOREM BestOfMetHolds == BoundedSpec => []BestOfMet
<1>1. BoundedInv => BestOfMet
  <2> SUFFICES ASSUME BoundedInv
               PROVE  BestOfMet
    OBVIOUS
  <2>1. \A p \in Answers : p \in Seq(Nodes) /\ Joins(p) /\ Within(p) /\ Answer(p)
    BY AnswersAreCandidates DEF Answers, Answer
  <2>2. \A p \in Met : p \in Answers /\ Settled(p)
    BY <2>1 DEF BoundedInv, Covered, Met
  <2>3. best # <<>> => best \in Met
    BY BeforeAllIsMet DEF BoundedInv, FoundTrue, Ordered
  <2>4. ASSUME NEW p \in Met, NEW q \in Answers \ Met
        PROVE  Before(p, q)
    <3>1. PICK i \in 1..Len(stack) : Begins(stack[i], q)
      BY DEF Met
    <3>2. Before(p, stack[i])
      BY <2>1, <2>2 DEF BoundedInv, MetFirst, Met
    <3>3. stack[i] \in Seq(Nodes)
      BY DEF BoundedInv, StackTrue, Entry
    <3>. QED
      BY <2>1, <2>2, <3>1, <3>2, <3>3, BeforeExtended
  <2>5. ASSUME Collects
        PROVE  Found = Met
    <3>1. Found \subseteq Met
      BY BeforeAllIsMet DEF BoundedInv, FoundTrue, Ordered, Found
    <3>2. Met \subseteq Found
      BY <2>2, <2>5 DEF Settled, Found
    <3>. QED
      BY <3>1, <3>2
  <2>6. CASE Met = {}
    BY <2>3, <2>4, <2>5, <2>6 DEF BestOfMet
  <2>7. CASE Met # {}
    <3>1. IsLongest(best, Met)
      BY <2>1, <2>2, <2>3, <2>7, BestIsLongest DEF Settled
    <3>. QED
      BY <2>4, <2>5, <2>7, <3>1 DEF BestOfMet
  <2>. QED
    BY <2>6, <2>7
<1>. QED
    BY <1>1, BoundedInvariantHolds, PTL

-----------------------------------------------------------------------------
(* The core.                                                               *)

\* No word of a dense part is removed.
DenseStays == \A S \in Dense : S \subseteq remaining

PeelInv == TypeOK /\ LowAreQueued /\ DenseStays

-----------------------------------------------------------------------------
(* The groups.                                                             *)

\* The words of the groups returned so far, and those of the group being looked at.
Returned == {regions[i] : i \in 1..Len(regions)}
Done == UNION Returned
Current == group \cup frontier

\* The first word of a group comes before all that are in no group up to it.
Leads(n, S, earlier) == n \in S /\ \A m \in remaining \ (S \cup earlier) : n < m

Earlier(i) == UNION {regions[j] : j \in 1..(i - 1)}

\* Every group is a part of the core that was not known before, and whole in the sense
\* that whoever has one of its words and their neighbours has them all.
GroupsTyped ==
    /\ seen \subseteq remaining /\ group \subseteq remaining /\ frontier \subseteq remaining
    /\ regions \in Seq(SUBSET remaining)
    /\ ~ Peeled => seen = {} /\ Current = {} /\ regions = <<>>

GroupsTrue ==
    /\ seen = Done \cup Current /\ Done \cap Current = {} /\ group \cap frontier = {}
    /\ \A n \in group : Neighbours(n) \subseteq Current
    /\ \A S \in Returned : Connected(S) /\ \A n \in S : Neighbours(n) \subseteq S
    /\ \A i, j \in 1..Len(regions) : i # j => regions[i] \cap regions[j] = {}
    /\ Peeled => \A T \in SUBSET Nodes : Apart(T) /\ T \cap Current # {} => Current \subseteq T
    /\ Current # {} => \E n \in Current : Leads(n, Current, Done)
    /\ \A i \in 1..Len(regions) : \E n \in regions[i] : Leads(n, regions[i], Earlier(i))

-----------------------------------------------------------------------------
(* The shortest path.                                                      *)

Known == Shortest!Known
InQueue == {queue[i] : i \in 1..Len(queue)}
Visited == Known \ InQueue

\* A way along edges from the first word to n; it may pass a word twice.
IsRoute(p, n) ==
    /\ p \in Seq(Nodes) /\ p # <<>> /\ p[1] = from /\ p[Len(p)] = n
    /\ \A i \in 1..(Len(p) - 1) : p[i + 1] \in graph[p[i]]

\* The order in which the search meets ways: shorter first, then alphabetical.
Sooner(p, q) == Len(p) < Len(q) \/ (Len(p) = Len(q) /\ Before(p, q))

Soonest(p, n) == \A q : IsRoute(q, n) => q = p \/ Sooner(p, q)

SearchTyped ==
    /\ from \in Nodes /\ to \in Nodes
    /\ previous \in [Nodes -> Nodes \cup {None, Start}]
    /\ queue \in Seq(Nodes) /\ InQueue \subseteq Known
    /\ \A n \in Nodes : previous[n] = Start <=> n = from
    /\ \A n \in Visited : graph[n] \subseteq Known
    /\ to \in Known => to \in InQueue

\* way[n] is how the search came to n.
Ways(way) ==
    /\ way \in [Known -> Seq(Nodes)]
    /\ way[from] = <<from>>
    /\ \A n \in Known \ {from} :
          /\ previous[n] \in Visited /\ n \in graph[previous[n]]
          /\ way[n] = Append(way[previous[n]], n)
    /\ \A n \in Known : IsRoute(way[n], n)
    /\ \A n \in Known : \A i \in 1..Len(way[n]) : way[n][i] \in Known /\ Len(way[way[n][i]]) = i

\* Words are visited in the order of their ways, and no way is sooner than the one found.
InOrder(way) ==
    /\ \A i, j \in 1..Len(queue) : i < j => Sooner(way[queue[i]], way[queue[j]])
    /\ \A v \in Visited, n \in InQueue : Sooner(way[v], way[n])

SearchInv ==
    IF from = None THEN Shortest!NotAsked
    ELSE /\ SearchTyped
         /\ \E way : Ways(way) /\ InOrder(way) /\ \A n \in Known : Soonest(way[n], n)
         /\ FirstOfShortest

IInv == PeelInv /\ GroupsTyped /\ GroupsTrue /\ SearchInv

-----------------------------------------------------------------------------
(* The core.                                                               *)

LEMMA ArrangementFacts ==
    ASSUME NEW S \in SUBSET Nodes, NEW s \in Arrangements(S)
    PROVE  /\ s \in Seq(S) /\ Len(s) \in Nat
           /\ \A n \in S : \E i \in 1..Len(s) : s[i] = n
           /\ \A i, j \in 1..Len(s) : i # j => s[i] # s[j]
<1>1. Cardinality(S) \in Nat
    BY NodesAssumption, FS_Subset, FS_CardinalityType
<1>2. s \in [1..Cardinality(S) -> S]
    BY DEF Arrangements
<1>3. s \in Seq(S) /\ Len(s) = Cardinality(S) /\ DOMAIN s = 1..Len(s)
    BY <1>1, <1>2
<1>. QED
    BY <1>1, <1>3 DEF Arrangements

LEMMA GraphFacts ==
    ASSUME graph \in Graphs, NEW n \in Nodes
    PROVE  /\ graph[n] \subseteq Nodes
           /\ \A m \in Nodes : m \in graph[n] <=> n \in graph[m]
    BY DEF Graphs

\* Sets of words are finite and have a size.
LEMMA Sizes ==
    ASSUME NEW S \in SUBSET Nodes
    PROVE  IsFiniteSet(S) /\ Cardinality(S) \in Nat
    BY NodesAssumption, FS_Subset, FS_CardinalityType

LEMMA PeelInit == Init => PeelInv
<1> SUFFICES ASSUME Init PROVE PeelInv
    OBVIOUS
<1>1. degrees \in [Nodes -> Nat] /\ \A n \in Nodes : graph[n] \cap remaining = graph[n]
    BY GraphFacts, Sizes DEF Init
<1> DEFINE Low == {n \in Nodes : degrees[n] < k}
<1>2. pending \in Arrangements(Low)
    BY DEF Init, Sorted
<1>3. /\ pending \in Seq(Low)
      /\ \A n \in Low : \E i \in 1..Len(pending) : pending[i] = n
      /\ \A i, j \in 1..Len(pending) : i # j => pending[i] # pending[j]
  <2>1. Low \in SUBSET Nodes
    OBVIOUS
  <2> HIDE DEF Low
  <2>. QED
    BY <1>2, <2>1, ArrangementFacts
<1>4. TypeOK
  <2>1. pending \in Seq(Nodes)
    BY <1>3
  <2>. QED
    BY <1>1, <2>1 DEF Init, TypeOK
<1>5. LowAreQueued
  <2>1. \A n \in Nodes : n \in Low <=> \E i \in 1..Len(pending) : pending[i] = n
    BY <1>3
  <2>2. \A n \in Nodes : n \in Low <=> n \in remaining /\ degrees[n] < k
    BY DEF Init
  <2> HIDE DEF Low
  <2>3. \A n \in remaining : degrees[n] = Cardinality(graph[n] \cap remaining)
    BY <1>1 DEF Init
  <2>. QED
    BY <1>3, <2>1, <2>2, <2>3 DEF LowAreQueued
<1>6. DenseStays
    BY DEF DenseStays, Dense, Init
<1>. QED
    BY <1>4, <1>5, <1>6 DEF PeelInv

\* r is the queue q without its head, with the members of S after it, each once.
IsNextQueue(q, S, r) ==
    /\ r \in Seq(Nodes)
    /\ \A n : (\E i \in 1..Len(r) : r[i] = n)
                 <=> n \in S \/ (n # q[1] /\ \E i \in 1..Len(q) : q[i] = n)
    /\ \A i, j \in 1..Len(r) : i # j => r[i] # r[j]

\* q is a queue of words without repetition and none of them is in S.
IsQueueApart(q, S) ==
    /\ q \in Seq(Nodes) /\ q # <<>>
    /\ \A i, j \in 1..Len(q) : i # j => q[i] # q[j]
    /\ \A i \in 1..Len(q) : q[i] \notin S

\* The queue after a round, place by place: those behind the head, then the members of S.
LEMMA AfterHead ==
    ASSUME NEW S \in SUBSET Nodes, NEW s \in Arrangements(S),
           NEW q \in Seq(Nodes), q # <<>>
    PROVE  LET m == Len(q) - 1
               r == Tail(q) \o s
           IN  /\ r \in Seq(Nodes) /\ Len(r) = m + Len(s) /\ m \in Nat /\ Len(s) \in Nat
               /\ \A i \in 1..m : i + 1 \in 1..Len(q) /\ i + 1 # 1 /\ r[i] = q[i + 1]
               /\ \A i \in 1..Len(s) : r[m + i] = s[i] /\ s[i] \in S
               /\ \A i \in 1..Len(r) : i > m => /\ i - m \in 1..Len(s)
                                                /\ r[i] = s[i - m] /\ r[i] \in S
<1> DEFINE m == Len(q) - 1
           r == Tail(q) \o s
<1>1. s \in Seq(S) /\ Len(s) \in Nat
    BY ArrangementFacts
<1>2. s \in Seq(Nodes) /\ \A i \in 1..Len(s) : s[i] \in S
    BY <1>1
<1>3. /\ Tail(q) \in Seq(Nodes) /\ Len(q) \in Nat \ {0} /\ m \in Nat /\ Len(Tail(q)) = m
      /\ \A i \in 1..m : Tail(q)[i] = q[i + 1]
    OBVIOUS
<1>4. /\ r \in Seq(Nodes) /\ Len(r) = m + Len(s)
      /\ \A i \in 1..m : r[i] = Tail(q)[i]
      /\ \A i \in 1..Len(s) : r[m + i] = s[i]
    BY <1>2, <1>3
<1> HIDE DEF r
<1>5. \A i \in 1..m : i + 1 \in 1..Len(q) /\ i + 1 # 1 /\ r[i] = q[i + 1]
    BY <1>3, <1>4
<1> HIDE DEF m
<1>6. \A i \in 1..Len(s) : r[m + i] = s[i] /\ s[i] \in S
    BY <1>2, <1>4
<1>7. ASSUME NEW i \in 1..Len(r), i > m
      PROVE  i - m \in 1..Len(s) /\ r[i] = s[i - m] /\ r[i] \in S
  <2> DEFINE g == i - m
  <2>1. g \in 1..Len(s) /\ m + g = i
    BY <1>1, <1>3, <1>4, <1>7
  <2> HIDE DEF g
  <2>2. g \in 1..Len(s) /\ r[i] = s[g] /\ r[i] \in S
    BY <1>6, <2>1
  <2>. QED
    BY <2>2 DEF g
<1>8. r \in Seq(Nodes) /\ Len(r) = m + Len(s) /\ m \in Nat /\ Len(s) \in Nat
    BY <1>1, <1>3, <1>4
<1>. QED
    BY <1>5, <1>6, <1>7, <1>8 DEF m, r

\* The queue after a round: its members are those below the head and, once each,
\* those that have just passed the threshold.
LEMMA QueueFacts ==
    ASSUME NEW S \in SUBSET Nodes, NEW s \in Arrangements(S),
           NEW q, IsQueueApart(q, S)
    PROVE  IsNextQueue(q, S, Tail(q) \o s)
<1> DEFINE m == Len(q) - 1
           r == Tail(q) \o s
<1>. USE DEF IsQueueApart
<1>1. /\ s \in Seq(S) /\ Len(s) \in Nat
      /\ \A n \in S : \E i \in 1..Len(s) : s[i] = n
      /\ \A i, j \in 1..Len(s) : i # j => s[i] # s[j]
    BY ArrangementFacts
<1>2. q \in Seq(Nodes) /\ q # <<>>
    OBVIOUS
<1>3. /\ r \in Seq(Nodes) /\ Len(r) = m + Len(s) /\ m \in Nat
      /\ \A i \in 1..m : i + 1 \in 1..Len(q) /\ i + 1 # 1 /\ r[i] = q[i + 1]
      /\ \A i \in 1..Len(s) : r[m + i] = s[i]
      /\ \A i \in 1..Len(r) : i > m => i - m \in 1..Len(s) /\ r[i] = s[i - m] /\ r[i] \in S
    BY <1>2, AfterHead
<1>4. 1 \in 1..Len(q) /\ Len(q) = m + 1
    BY <1>2
<1> HIDE DEF r, m
<1>5. \A i \in 1..Len(r) : i \in 1..m \/ i > m
    BY <1>3
<1>6. \A i \in 1..m : r[i] # q[1] /\ r[i] \notin S /\ \E j \in 1..Len(q) : q[j] = r[i]
    BY <1>3, <1>4
<1>7. ASSUME NEW i \in 1..Len(r)
      PROVE  r[i] \in S \/ (r[i] # q[1] /\ \E j \in 1..Len(q) : q[j] = r[i])
    BY <1>3, <1>5, <1>6
<1>8. ASSUME NEW n \in S PROVE \E i \in 1..Len(r) : r[i] = n
  <2>1. PICK i \in 1..Len(s) : s[i] = n
    BY <1>1
  <2>2. m + i \in 1..Len(r)
    BY <1>1, <1>3
  <2>. QED
    BY <1>3, <2>1, <2>2
<1>9. ASSUME NEW j \in 1..Len(q), q[j] # q[1]
      PROVE  \E i \in 1..Len(r) : r[i] = q[j]
  <2>1. j - 1 \in 1..m /\ j - 1 \in 1..Len(r) /\ (j - 1) + 1 = j
    BY <1>1, <1>3, <1>4, <1>9
  <2>. QED
    BY <1>3, <2>1
<1>10. ASSUME NEW i \in 1..Len(r), NEW j \in 1..Len(r), i # j PROVE r[i] # r[j]
  <2>1. CASE i \in 1..m /\ j \in 1..m
    <3>1. i + 1 # j + 1
      BY <1>10
    <3>. QED
      BY <1>3, <2>1, <3>1
  <2>2. CASE i \in 1..m /\ j > m
    BY <1>3, <1>6, <2>2
  <2>3. CASE i > m /\ j \in 1..m
    BY <1>3, <1>6, <2>3
  <2>4. CASE i > m /\ j > m
    <3>1. i - m # j - m
      BY <1>3, <1>10
    <3>2. /\ i - m \in 1..Len(s) /\ j - m \in 1..Len(s)
          /\ r[i] = s[i - m] /\ r[j] = s[j - m]
      BY <1>3, <2>4
    <3>3. s[i - m] # s[j - m]
      BY <1>1, <3>1, <3>2
    <3>. QED
      BY <3>2, <3>3
  <2>. QED
    BY <1>5, <2>1, <2>2, <2>3, <2>4
<1>11. ASSUME NEW n
       PROVE  (\E i \in 1..Len(r) : r[i] = n)
                  <=> n \in S \/ (n # q[1] /\ \E i \in 1..Len(q) : q[i] = n)
  <2>1. ASSUME \E i \in 1..Len(r) : r[i] = n
        PROVE  n \in S \/ (n # q[1] /\ \E i \in 1..Len(q) : q[i] = n)
    BY <1>7, <2>1
  <2>2. ASSUME n \in S PROVE \E i \in 1..Len(r) : r[i] = n
    BY <1>8, <2>2
  <2>3. ASSUME n # q[1], NEW i \in 1..Len(q), q[i] = n
        PROVE  \E j \in 1..Len(r) : r[j] = n
    BY <1>9, <2>3
  <2>. QED
    BY <2>1, <2>2, <2>3
<1>. QED
  <2>1. IsNextQueue(q, S, r)
    BY <1>3, <1>10, <1>11 DEF IsNextQueue
  <2>. QED
    BY <2>1 DEF r

LEMMA PeelStep ==
    ASSUME PeelInv, Peel
    PROVE  PeelInv'
<1> DEFINE n == Head(pending)
<1>. USE DEF PeelInv
<1>1. /\ graph \in Graphs /\ k \in Nat /\ remaining \subseteq Nodes
      /\ degrees \in [Nodes -> Nat] /\ pending \in Seq(Nodes) /\ pending # <<>>
    BY ThresholdsAssumption DEF TypeOK, Peel
<1>2. 1 \in 1..Len(pending) /\ n = pending[1] /\ n \in Nodes
    BY <1>1
<1>3. n \in remaining /\ degrees[n] < k
    BY <1>2 DEF LowAreQueued
<1> DEFINE New == {m \in Losers(n) : degrees'[m] = k - 1}
<1>4. /\ remaining' = remaining \ {n} /\ UNCHANGED <<graph, k>>
      /\ degrees' = [m \in Nodes |-> IF m \in Losers(n) THEN degrees[m] - 1 ELSE degrees[m]]
      /\ \E s \in Arrangements(New) : pending' = Tail(pending) \o s
    BY <1>3 DEF Peel
<1> HIDE DEF n
<1>5. \A m \in remaining' : m \in Nodes /\ m \in remaining /\ m # n
    BY <1>1, <1>4
<1>6. \A m \in remaining' :
          /\ degrees'[m] = IF m \in Losers(n) THEN degrees[m] - 1 ELSE degrees[m]
          /\ m \in Losers(n) <=> n \in graph[m]
    BY <1>1, <1>2, <1>4, <1>5, GraphFacts DEF Losers
<1>7. \A m \in remaining' : degrees'[m] = Cardinality(graph[m] \cap remaining')
  <2> SUFFICES ASSUME NEW m \in remaining'
               PROVE  degrees'[m] = Cardinality(graph[m] \cap remaining')
    OBVIOUS
  <2> DEFINE G == graph[m] \cap remaining
  <2>1. G \in SUBSET Nodes /\ graph[m] \cap remaining' = G \ {n} /\ (n \in G <=> n \in graph[m])
    BY <1>1, <1>3, <1>4
  <2>2. degrees[m] = Cardinality(G)
    BY <1>5 DEF LowAreQueued
  <2> HIDE DEF G
  <2>3. IsFiniteSet(G)
    BY <2>1, Sizes
  <2>4. Cardinality(G \ {n}) = IF n \in G THEN Cardinality(G) - 1 ELSE Cardinality(G)
    BY <2>3, FS_RemoveElement
  <2>. QED
    BY <1>6, <2>1, <2>2, <2>4
<1>8. degrees' \in [Nodes -> Nat]
  <2> SUFFICES ASSUME NEW m \in Nodes PROVE degrees'[m] \in Nat
    BY <1>4
  <2>1. CASE m \in Losers(n)
    <3>1. m \in remaining'
      BY <1>4, <2>1 DEF Losers
    <3>. QED
      BY <1>1, <1>4, <1>7, <3>1, Sizes
  <2>2. CASE m \notin Losers(n)
    BY <1>1, <1>4, <2>2
  <2>. QED
    BY <2>1, <2>2
<1>9. \A m \in remaining' :
          degrees'[m] < k <=> degrees[m] < k \/ m \in New
    BY <1>1, <1>5, <1>6, <1>8
<1>10. \A m \in New : m \in remaining' /\ m \in Nodes /\ ~ (degrees[m] < k)
  <2> SUFFICES ASSUME NEW m \in New
               PROVE  m \in remaining' /\ m \in Nodes /\ ~ (degrees[m] < k)
    OBVIOUS
  <2>1. m \in remaining' /\ m \in Losers(n) /\ degrees'[m] = k - 1
    BY <1>4 DEF Losers
  <2>. QED
    BY <1>1, <1>5, <1>6, <2>1
<1> HIDE DEF New
<1>11. /\ pending' \in Seq(Nodes)
       /\ \A m : (\E i \in 1..Len(pending') : pending'[i] = m)
                    <=> m \in New \/ (m # n /\ \E i \in 1..Len(pending) : pending[i] = m)
       /\ \A i, j \in 1..Len(pending') : i # j => pending'[i] # pending'[j]
  <2>1. PICK s \in Arrangements(New) : pending' = Tail(pending) \o s
    BY <1>4
  <2>2. \A i \in 1..Len(pending) : pending[i] \notin New
    <3>1. \A i \in 1..Len(pending) : pending[i] \in Nodes
      BY <1>1
    <3>. QED
      BY <1>10, <3>1 DEF LowAreQueued
  <2>3. \A i, j \in 1..Len(pending) : i # j => pending[i] # pending[j]
    BY DEF LowAreQueued
  <2>4. New \in SUBSET Nodes
    BY <1>10
  <2>5. IsQueueApart(pending, New)
    BY <1>1, <2>2, <2>3 DEF IsQueueApart
  <2>6. IsNextQueue(pending, New, Tail(pending) \o s)
    BY <2>4, <2>5, QueueFacts
  <2>. QED
    BY <1>2, <2>1, <2>6 DEF IsNextQueue
<1>12. TypeOK'
    BY <1>1, <1>4, <1>8, <1>11 DEF TypeOK
<1>13. \A m \in Nodes : (m \in remaining' /\ degrees'[m] < k)
                            <=> \E i \in 1..Len(pending') : pending'[i] = m
  <2> SUFFICES ASSUME NEW m \in Nodes
               PROVE  (m \in remaining' /\ degrees'[m] < k)
                          <=> m \in New \/ (m # n /\ m \in remaining /\ degrees[m] < k)
    BY <1>11 DEF LowAreQueued
  <2>. QED
    BY <1>4, <1>9, <1>10
<1>14. LowAreQueued'
  <2>1. \A m \in remaining' : degrees'[m] = Cardinality(graph'[m] \cap remaining')
    BY <1>4, <1>7
  <2>2. \A i, j \in 1..Len(pending') : i # j => pending'[i] # pending'[j]
    BY <1>11
  <2>3. graph' = graph /\ k' = k
    BY <1>4
  <2>. QED
    BY <1>13, <2>1, <2>2, <2>3 DEF LowAreQueued
<1>15. DenseStays'
  <2>1. Dense' = Dense
    BY <1>4 DEF Dense
  <2>2. ASSUME NEW S \in Dense PROVE n \notin S
    <3>1. SUFFICES ASSUME n \in S PROVE FALSE
      OBVIOUS
    <3>2. Cardinality(graph[n] \cap S) >= k /\ S \subseteq remaining
      BY <3>1 DEF Dense, DenseStays
    <3>3. IsFiniteSet(graph[n] \cap remaining) /\ Cardinality(graph[n] \cap remaining) \in Nat
      BY <1>1, <1>2, Sizes
    <3>4. graph[n] \cap S \in SUBSET (graph[n] \cap remaining)
      BY <3>2
    <3>5. Cardinality(graph[n] \cap S) <= Cardinality(graph[n] \cap remaining)
      BY <3>3, <3>4, FS_Subset
    <3>6. Cardinality(graph[n] \cap S) \in Nat
      BY <1>1, <1>2, <3>4, Sizes
    <3>7. degrees[n] = Cardinality(graph[n] \cap remaining)
      BY <1>3 DEF LowAreQueued
    <3>. QED
      BY <1>1, <1>3, <3>2, <3>3, <3>5, <3>6, <3>7
  <2>. QED
    BY <1>4, <2>1, <2>2 DEF DenseStays
<1>. QED
    BY <1>12, <1>14, <1>15

LEMMA CoreIsLeft ==
    ASSUME PeelInv, pending = <<>>
    PROVE  remaining = Core
<1>1. Core \subseteq remaining
    BY DEF PeelInv, DenseStays, Core
<1>2. \A n \in remaining : ~ (degrees[n] < k)
    BY DEF PeelInv, LowAreQueued, TypeOK
<1>3. \A n \in remaining : Cardinality(graph[n] \cap remaining) >= k
    BY <1>2, ThresholdsAssumption DEF PeelInv, LowAreQueued, TypeOK
<1>4. remaining \in Dense
    BY <1>3 DEF Dense, PeelInv, TypeOK
<1>. QED
    BY <1>1, <1>4 DEF Core

LEMMA PeelKept ==
    ASSUME PeelInv, UNCHANGED vars
    PROVE  PeelInv'
    BY DEF vars, PeelInv, TypeOK, LowAreQueued, DenseStays, Dense

-----------------------------------------------------------------------------
(* The groups.                                                             *)

\* To be neighbours in the core is mutual.
LEMMA NeighbourFacts ==
    ASSUME PeelInv, NEW n \in remaining
    PROVE  /\ Neighbours(n) \subseteq remaining /\ remaining \subseteq Nodes
           /\ \A m \in remaining : m \in Neighbours(n) <=> n \in Neighbours(m)
    BY GraphFacts DEF Neighbours, PeelInv, TypeOK

LEMMA GroupsInit == Init /\ RegionsInit => GroupsTyped /\ GroupsTrue
<1> SUFFICES ASSUME Init, RegionsInit PROVE GroupsTyped /\ GroupsTrue
    OBVIOUS
<1>1. seen = {} /\ group = {} /\ frontier = {} /\ regions = <<>> /\ Current = {}
    BY DEF RegionsInit, Current
<1>2. Len(regions) = 0 /\ \A i \in 1..Len(regions) : FALSE
    BY <1>1
<1>3. Returned = {} /\ Done = {}
    BY <1>2 DEF Done, Returned
<1>. QED
    BY <1>1, <1>2, <1>3 DEF GroupsTyped, GroupsTrue

\* While words are peeled off there are no groups.
LEMMA GroupsPeel ==
    ASSUME GroupsTyped, GroupsTrue, Peel, UNCHANGED regionVars
    PROVE  GroupsTyped' /\ GroupsTrue'
<1>1. seen = {} /\ Current = {} /\ regions = <<>> /\ group = {} /\ frontier = {}
    BY DEF GroupsTyped, Peel, Peeled, Current
<1>2. seen' = {} /\ group' = {} /\ frontier' = {} /\ regions' = <<>> /\ Current' = {}
    BY <1>1 DEF regionVars, Current
<1>3. Len(regions') = 0 /\ \A i \in 1..Len(regions') : FALSE
    BY <1>2
<1>4. Returned' = {} /\ Done' = {}
    BY <1>3 DEF Done, Returned
<1>. QED
    BY <1>2, <1>3, <1>4 DEF GroupsTyped, GroupsTrue

\* What is said of the groups depends on no more than this.
LEMMA GroupsKept ==
    ASSUME GroupsTyped, GroupsTrue, UNCHANGED <<vars, regionVars>>
    PROVE  GroupsTyped' /\ GroupsTrue'
<1>1. /\ Done' = Done /\ Returned' = Returned /\ Current' = Current /\ Core' = Core
      /\ \A i : Earlier(i)' = Earlier(i)
    BY DEF Done, Returned, Earlier, Current, Core, Dense, vars, regionVars
<1>2. \A S : Apart(S)' <=> Apart(S)
    BY <1>1 DEF Apart, vars
<1>3. \A S : Connected(S)' <=> Connected(S)
    BY <1>2 DEF Connected
<1>. QED
    BY <1>1, <1>2, <1>3 DEF GroupsTyped, GroupsTrue, Leads, Neighbours, Peeled, vars, regionVars

\* A part of the core closed under neighbours, said of steps that leave the core alone.
LEMMA ApartKept ==
    ASSUME UNCHANGED vars
    PROVE  /\ Core' = Core /\ (Peeled' <=> Peeled)
           /\ \A S : (Apart(S)' <=> Apart(S)) /\ (Connected(S)' <=> Connected(S))
           /\ \A n : Neighbours(n)' = Neighbours(n)
<1>1. Core' = Core
    BY DEF Core, Dense, vars
<1>2. \A S : Apart(S)' <=> Apart(S)
    BY <1>1 DEF Apart, vars
<1>. QED
    BY <1>1, <1>2 DEF Connected, Neighbours, Peeled, vars

LEMMA OpenStep ==
    ASSUME PeelInv, GroupsTyped, GroupsTrue, OpenGroup
    PROVE  GroupsTyped' /\ GroupsTrue'
<1>1. /\ Peeled /\ Current = {} /\ UNCHANGED vars /\ UNCHANGED <<group, regions>> /\ group = {}
      /\ remaining \subseteq Nodes
    BY DEF OpenGroup, Current, PeelInv, TypeOK
<1>2. PICK n \in remaining \ seen :
          /\ \A m \in remaining \ seen : n <= m
          /\ seen' = seen \cup {n} /\ frontier' = {n}
    BY DEF OpenGroup
<1>3. /\ Current' = {n} /\ seen = Done /\ remaining' = remaining
      /\ Done' = Done /\ Returned' = Returned /\ regions' = regions
      /\ \A i : Earlier(i)' = Earlier(i)
    BY <1>1, <1>2 DEF Current, Done, Returned, Earlier, GroupsTrue, vars
<1>4. \A m \in remaining \ ({n} \cup Done) : n < m
  <2> SUFFICES ASSUME NEW m \in remaining \ ({n} \cup Done) PROVE n < m
    OBVIOUS
  <2>1. n <= m /\ n # m
    BY <1>2, <1>3
  <2>2. n \in Nat /\ m \in Nat
    BY <1>1, <1>2, NodesAssumption
  <2>. QED
    BY <2>1, <2>2
<1>5. GroupsTyped'
    BY <1>1, <1>2, <1>3 DEF GroupsTyped, Peeled, vars
<1>6. GroupsTrue'
  <2>1. seen' = Done' \cup Current' /\ Done' \cap Current' = {} /\ group' \cap frontier' = {}
    BY <1>1, <1>2, <1>3
  <2>2. \A m \in group' : Neighbours(m)' \subseteq Current'
    BY <1>1
  <2>3. /\ \A S \in Returned' : Connected(S)' /\ \A m \in S : Neighbours(m)' \subseteq S
        /\ \A i, j \in 1..Len(regions') : i # j => regions'[i] \cap regions'[j] = {}
    BY <1>1, <1>3, ApartKept DEF GroupsTrue
  <2>4. \A T \in SUBSET Nodes : Apart(T)' /\ T \cap Current' # {} => Current' \subseteq T
    BY <1>3
  <2>5. (\E m \in Current : Leads(m, Current, Done))'
    BY <1>3, <1>4 DEF Leads
  <2>6. (\A i \in 1..Len(regions) : \E m \in regions[i] : Leads(m, regions[i], Earlier(i)))'
    BY <1>3 DEF GroupsTrue, Leads
  <2>. QED
    BY <2>1, <2>2, <2>3, <2>4, <2>5, <2>6 DEF GroupsTrue
<1>. QED
    BY <1>5, <1>6

LEMMA FollowStep ==
    ASSUME PeelInv, GroupsTyped, GroupsTrue, Follow
    PROVE  GroupsTyped' /\ GroupsTrue'
<1>1. PICK n \in frontier :
          /\ group' = group \cup {n} /\ seen' = seen \cup Neighbours(n)
          /\ frontier' = (frontier \ {n}) \cup (Neighbours(n) \ seen)
    BY DEF Follow
<1>2. UNCHANGED vars /\ regions' = regions
    BY DEF Follow
<1>3. Peeled /\ n \in Current /\ n \in remaining /\ remaining \subseteq Nodes /\ remaining = Core
    BY <1>1, CoreIsLeft DEF GroupsTyped, Current, Peeled, PeelInv, TypeOK
<1>4. /\ Neighbours(n) \subseteq remaining
      /\ \A m \in remaining : m \in Neighbours(n) <=> n \in Neighbours(m)
    BY <1>3, NeighbourFacts
<1>5. /\ remaining' = remaining /\ Done' = Done /\ Returned' = Returned
      /\ \A i : Earlier(i)' = Earlier(i)
    BY <1>2 DEF vars, Done, Returned, Earlier
<1>6. Current' = Current \cup (Neighbours(n) \ seen)
    BY <1>1 DEF Current
<1>7. Neighbours(n) \cap Done = {}
  <2> SUFFICES ASSUME NEW m \in Neighbours(n), NEW S \in Returned, m \in S
               PROVE  FALSE
    BY DEF Done
  <2>1. n \in Neighbours(m) /\ Neighbours(m) \subseteq S
    BY <1>4 DEF GroupsTrue
  <2>. QED
    BY <1>3, <2>1 DEF GroupsTrue, Done
<1>8. seen = Done \cup Current
    BY DEF GroupsTrue
<1>9. GroupsTyped'
    BY <1>1, <1>2, <1>3, <1>4, <1>5, ApartKept DEF GroupsTyped
<1>10. GroupsTrue'
  <2>1. seen' = Done' \cup Current' /\ Done' \cap Current' = {} /\ group' \cap frontier' = {}
    BY <1>1, <1>5, <1>6, <1>7, <1>8 DEF GroupsTrue, Current
  <2>2. \A m \in group' : Neighbours(m)' \subseteq Current'
    <3> SUFFICES ASSUME NEW m \in group' PROVE Neighbours(m) \subseteq Current'
      BY <1>2, ApartKept
    <3>1. CASE m = n
      BY <1>6, <1>7, <1>8, <3>1
    <3>2. CASE m # n
      BY <1>1, <1>6, <3>2 DEF GroupsTrue
    <3>. QED
      BY <3>1, <3>2
  <2>3. /\ \A S \in Returned' : Connected(S)' /\ \A m \in S : Neighbours(m)' \subseteq S
        /\ \A i, j \in 1..Len(regions') : i # j => regions'[i] \cap regions'[j] = {}
    BY <1>2, <1>5, ApartKept DEF GroupsTrue
  <2>4. \A T \in SUBSET Nodes : Apart(T)' /\ T \cap Current' # {} => Current' \subseteq T
    <3> SUFFICES ASSUME NEW T \in SUBSET Nodes, Apart(T), NEW m \in T \cap Current'
                 PROVE  Current' \subseteq T
      BY <1>2, ApartKept
    <3>1. \A a \in T : Neighbours(a) \subseteq T
      BY <1>3 DEF Apart, Neighbours
    <3>2. T \cap Current # {}
      <4>1. CASE m \in Current
        BY <4>1
      <4>2. CASE m \in Neighbours(n)
        BY <1>3, <1>4, <3>1, <4>2
      <4>. QED
        BY <1>6, <4>1, <4>2
    <3>3. Current \subseteq T
      BY <1>3, <3>2 DEF GroupsTrue
    <3>. QED
      BY <1>3, <1>6, <3>1, <3>3
  <2>5. (\E m \in Current : Leads(m, Current, Done))'
    BY <1>3, <1>5, <1>6 DEF GroupsTrue, Leads
  <2>6. (\A i \in 1..Len(regions) : \E m \in regions[i] : Leads(m, regions[i], Earlier(i)))'
    BY <1>2, <1>5 DEF GroupsTrue, Leads
  <2>. QED
    BY <2>1, <2>2, <2>3, <2>4, <2>5, <2>6 DEF GroupsTrue
<1>. QED
    BY <1>9, <1>10

\* A group nobody is left to look at in is a connected part of the core.
LEMMA GroupConnected ==
    ASSUME PeelInv, GroupsTyped, GroupsTrue, group # {}, frontier = {}
    PROVE  Connected(group)
<1>1. Peeled /\ Current = group /\ remaining = Core /\ group \subseteq remaining
      /\ remaining \subseteq Nodes
    BY CoreIsLeft DEF GroupsTyped, Current, Peeled, PeelInv, TypeOK
<1>2. \A n \in group : graph[n] \cap Core \subseteq group
    BY <1>1 DEF GroupsTrue, Neighbours
<1>3. Apart(group)
    BY <1>1, <1>2 DEF Apart
<1>4. ASSUME NEW T \in SUBSET group, Apart(T) PROVE T = group
  <2>1. T \cap Current # {} /\ T \in SUBSET Nodes
    BY <1>1, <1>4 DEF Apart
  <2>. QED
    BY <1>1, <1>4, <2>1 DEF GroupsTrue
<1>. QED
    BY <1>3, <1>4 DEF Connected

LEMMA CloseStep ==
    ASSUME PeelInv, GroupsTyped, GroupsTrue, CloseGroup
    PROVE  GroupsTyped' /\ GroupsTrue'
<1> DEFINE n == Len(regions)
<1>1. /\ group # {} /\ frontier = {} /\ UNCHANGED <<seen, frontier>> /\ UNCHANGED vars
      /\ regions' = Append(regions, group) /\ group' = {}
      /\ Peeled /\ Current = group /\ group \subseteq remaining
    BY DEF CloseGroup, GroupsTyped, Current
<1>2. /\ n \in Nat /\ Len(regions') = n + 1 /\ regions' \in Seq(SUBSET remaining)
      /\ regions'[n + 1] = group /\ \A i \in 1..n : regions'[i] = regions[i]
  <2>1. regions \in Seq(SUBSET remaining)
    BY DEF GroupsTyped
  <2>. QED
    BY <1>1, <2>1
<1> HIDE DEF n
<1>3. Current' = {} /\ remaining' = remaining
    BY <1>1 DEF Current, vars
<1>4. \A i \in 1..(n + 1) : i \in 1..n \/ i = n + 1
    BY <1>2
<1>5. 1..n \subseteq 1..(n + 1) /\ n + 1 \in 1..(n + 1)
    BY <1>2
<1>6. Returned' = Returned \cup {group} /\ Done' = Done \cup group
  <2>1. Returned = {regions[i] : i \in 1..n} /\ Returned' = {regions'[i] : i \in 1..(n + 1)}
    BY <1>2 DEF Returned, n
  <2>2. Returned' = Returned \cup {group}
    BY <1>2, <1>4, <1>5, <2>1
  <2>. QED
    BY <2>2 DEF Done
<1>7. \A i \in 1..(n + 1) : Earlier(i)' = Earlier(i)
  <2> SUFFICES ASSUME NEW i \in 1..(n + 1)
               PROVE  UNION {regions'[j] : j \in 1..(i - 1)} = UNION {regions[j] : j \in 1..(i - 1)}
    BY DEF Earlier
  <2>1. 1..(i - 1) \subseteq 1..n
    BY <1>2
  <2>2. \A j \in 1..(i - 1) : regions'[j] = regions[j]
    BY <1>2, <2>1
  <2>. QED
    BY <2>2
<1>8. Earlier(n + 1) = Done
  <2>1. (n + 1) - 1 = n
    BY <1>2
  <2>. QED
    BY <2>1 DEF Earlier, Done, Returned, n
<1>9. GroupsTyped'
    BY <1>1, <1>2, <1>3, ApartKept DEF GroupsTyped
<1>10. GroupsTrue'
  <2>1. seen' = Done' \cup Current' /\ Done' \cap Current' = {} /\ group' \cap frontier' = {}
    BY <1>1, <1>3, <1>6 DEF GroupsTrue
  <2>2. Connected(group) /\ \A m \in group : Neighbours(m) \subseteq group
    BY <1>1, GroupConnected DEF GroupsTrue
  <2>3. \A S \in Returned' : Connected(S)' /\ \A m \in S : Neighbours(m)' \subseteq S
    BY <1>1, <1>6, <2>2, ApartKept DEF GroupsTrue
  <2>4. \A i, j \in 1..Len(regions') : i # j => regions'[i] \cap regions'[j] = {}
    <3>1. \A i \in 1..n : regions[i] \cap group = {} /\ regions[i] \subseteq Done
      BY <1>1 DEF GroupsTrue, Done, Returned, n
    <3>2. \A i, j \in 1..n : i # j => regions[i] \cap regions[j] = {}
      BY DEF GroupsTrue, n
    <3>. QED
      BY <1>2, <1>4, <3>1, <3>2
  <2>5. \A i \in 1..(n + 1) : (\E m \in regions[i] : Leads(m, regions[i], Earlier(i)))'
    <3> SUFFICES ASSUME NEW i \in 1..(n + 1)
                 PROVE  \E m \in regions'[i] :
                           \A l \in remaining \ (regions'[i] \cup Earlier(i)) : m < l
      BY <1>3, <1>7 DEF Leads
    <3>1. CASE i = n + 1
      BY <1>1, <1>2, <1>8, <3>1 DEF GroupsTrue, Leads
    <3>2. CASE i \in 1..n
      <4>1. \E m \in regions[i] : Leads(m, regions[i], Earlier(i))
        BY <3>2 DEF GroupsTrue, n
      <4>. QED
        BY <1>2, <3>2, <4>1 DEF Leads
    <3>. QED
      BY <1>4, <3>1, <3>2
  <2>6. (\A i \in 1..Len(regions) : \E m \in regions[i] : Leads(m, regions[i], Earlier(i)))'
    BY <1>2, <2>5
  <2>. QED
    BY <1>1, <1>3, <2>1, <2>3, <2>4, <2>6 DEF GroupsTrue
<1>. QED
    BY <1>9, <1>10

LEMMA GroupsStep ==
    ASSUME PeelInv, GroupsTyped, GroupsTrue, Regions
    PROVE  PeelInv' /\ GroupsTyped' /\ GroupsTrue'
<1>1. CASE Peel /\ UNCHANGED regionVars
    BY <1>1, PeelStep, GroupsPeel
<1>2. CASE OpenGroup \/ Follow \/ CloseGroup
  <2>1. UNCHANGED vars
    BY <1>2 DEF OpenGroup, Follow, CloseGroup
  <2>. QED
    BY <1>2, <2>1, PeelKept, OpenStep, FollowStep, CloseStep
<1>. QED
    BY <1>1, <1>2 DEF Regions

LEMMA RegionsAreExact ==
    ASSUME PeelInv, GroupsTyped, GroupsTrue
    PROVE  RegionsExact
<1>1. \A i \in 1..Len(regions) : regions[i] \in Returned /\ regions[i] \subseteq remaining
    BY DEF Returned, GroupsTyped
<1>2. \A i \in 1..Len(regions) : Connected(regions[i])
    BY <1>1 DEF GroupsTrue
<1>3. ASSUME NEW i \in 1..Len(regions), NEW j \in 1..Len(regions), i < j
      PROVE  \E n \in regions[i] : \A m \in regions[j] : n < m
  <2>1. PICK n \in regions[i] : Leads(n, regions[i], Earlier(i))
    BY DEF GroupsTrue
  <2>2. ASSUME NEW m \in regions[j]
        PROVE  m \in remaining \ (regions[i] \cup Earlier(i))
    <3>1. \A l \in 1..i : l \in 1..Len(regions) /\ l # j
      BY <1>3
    <3>2. \A l \in 1..i : m \notin regions[l]
      BY <3>1 DEF GroupsTrue
    <3>3. i \in 1..i /\ \A l \in 1..(i - 1) : l \in 1..i
      OBVIOUS
    <3>. QED
      BY <1>1, <3>2, <3>3 DEF Earlier
  <2>. QED
    BY <2>1, <2>2 DEF Leads
<1>4. Finished => UNION {regions[i] : i \in 1..Len(regions)} = Core
  <2> SUFFICES ASSUME Finished PROVE Done = Core
    BY DEF Done, Returned
  <2>1. remaining = Core /\ Current = {} /\ remaining = seen
    BY CoreIsLeft DEF Finished, Peeled, Current, GroupsTyped
  <2>. QED
    BY <2>1 DEF GroupsTrue
<1>. QED
    BY <1>2, <1>3, <1>4 DEF RegionsExact

-----------------------------------------------------------------------------
(* The order of ways.                                                      *)

Less == {ss \in Nat \X Nat : ss[1] < ss[2]}

\* Of some numbers there is a least.
LEMMA Least ==
    ASSUME NEW T \in SUBSET Nat, T # {}
    PROVE  \E x \in T : \A y \in T : x <= y
<1>1. IsWellFoundedOn(Less, Nat)
    BY NatLessThanWellFounded DEF OpToRel, Less
<1>2. PICK x \in T : \A y \in T : ~ (<<y, x>> \in Less)
    BY <1>1, WFMin
<1>3. \A y \in T : ~ (y < x)
    BY <1>2 DEF Less
<1>. QED
    BY <1>3

\* Nothing is sooner than itself.
LEMMA SoonerIsStrict ==
    ASSUME NEW p \in Seq(Nodes)
    PROVE  ~ Sooner(p, p)
<1>1. \A i \in 1..Len(p) : p[i] \in Nat
    BY Ranks
<1>. QED
    BY <1>1 DEF Sooner, Before

LEMMA SoonerIsTransitive ==
    ASSUME NEW p \in Seq(Nodes), NEW q \in Seq(Nodes), NEW r \in Seq(Nodes),
           Sooner(p, q), Sooner(q, r)
    PROVE  Sooner(p, r)
<1>1. /\ \A i \in 1..Len(p) : p[i] \in Nat
      /\ \A i \in 1..Len(q) : q[i] \in Nat
      /\ \A i \in 1..Len(r) : r[i] \in Nat
      /\ Len(p) \in Nat /\ Len(q) \in Nat /\ Len(r) \in Nat
    BY Ranks
<1>2. CASE Len(p) = Len(q) /\ Len(q) = Len(r)
  <2>1. PICK i \in 1..Len(p) : p[i] < q[i] /\ \A h \in 1..(i - 1) : p[h] = q[h]
    BY <1>1, <1>2 DEF Sooner, Before
  <2>2. PICK j \in 1..Len(p) : q[j] < r[j] /\ \A h \in 1..(j - 1) : q[h] = r[h]
    BY <1>1, <1>2 DEF Sooner, Before
  <2>3. CASE i <= j
    <3>1. p[i] < r[i]
        BY <2>1, <2>2, <2>3, <1>1, <1>2
    <3>2. \A h \in 1..(i - 1) : p[h] = r[h]
        BY <2>1, <2>2, <2>3
    <3>. QED
        BY <3>1, <3>2, <1>2 DEF Sooner, Before
  <2>4. CASE j < i
    <3>1. p[j] < r[j]
        BY <2>1, <2>2, <2>4, <1>1, <1>2
    <3>2. \A h \in 1..(j - 1) : p[h] = r[h]
        BY <2>1, <2>2, <2>4
    <3>. QED
        BY <3>1, <3>2, <1>2 DEF Sooner, Before
  <2>. QED
    BY <2>3, <2>4
<1>3. CASE Len(p) < Len(r)
    BY <1>3 DEF Sooner
<1>. QED
    BY <1>1, <1>2, <1>3 DEF Sooner

\* The order is that of the ways without their last words, and of these if there is
\* no other difference.
LEMMA SoonerByOneMore ==
    ASSUME NEW p \in Seq(Nodes), NEW q \in Seq(Nodes), NEW x \in Nodes, NEW y \in Nodes,
           Sooner(p, q) \/ (p = q /\ x < y)
    PROVE  Sooner(Append(p, x), Append(q, y))
<1> DEFINE pp == Append(p, x)
           qq == Append(q, y)
<1>1. /\ Len(p) \in Nat /\ Len(q) \in Nat
      /\ Len(pp) = Len(p) + 1 /\ Len(qq) = Len(q) + 1
      /\ pp[Len(p) + 1] = x /\ qq[Len(q) + 1] = y
      /\ \A i \in 1..Len(p) : pp[i] = p[i]
      /\ \A i \in 1..Len(q) : qq[i] = q[i]
    OBVIOUS
<1> SUFFICES Sooner(pp, qq)
    OBVIOUS
<1> HIDE DEF pp, qq
<1>2. CASE Len(p) < Len(q)
    BY <1>1, <1>2 DEF Sooner
<1>3. CASE Len(p) = Len(q) /\ Before(p, q)
  <2>1. PICK i \in 1..Len(p) : p[i] < q[i] /\ \A h \in 1..(i - 1) : p[h] = q[h]
    BY <1>3 DEF Before
  <2>2. i \in 1..Len(pp) /\ i <= Len(qq) /\ pp[i] < qq[i]
    BY <1>1, <1>3, <2>1
  <2>3. \A h \in 1..(i - 1) : pp[h] = qq[h]
    BY <1>1, <1>3, <2>1
  <2>. QED
    BY <2>2, <2>3, <1>1, <1>3 DEF Sooner, Before
<1>4. CASE p = q /\ x < y
  <2>1. Len(p) + 1 \in 1..Len(pp) /\ Len(p) + 1 <= Len(qq) /\ pp[Len(p) + 1] < qq[Len(p) + 1]
    BY <1>1, <1>4
  <2>2. \A h \in 1..(Len(p) + 1 - 1) : pp[h] = qq[h]
    BY <1>1, <1>4
  <2>. QED
    BY <2>1, <2>2, <1>1, <1>4 DEF Sooner, Before
<1>. QED
    BY <1>2, <1>3, <1>4 DEF Sooner

\* A way to a word, and on to one of its neighbours.
LEMMA OneMore ==
    ASSUME graph \in Graphs, NEW m \in Nodes, NEW n \in graph[m],
           NEW p, IsRoute(p, m)
    PROVE  IsRoute(Append(p, n), n)
<1>1. n \in Nodes
    BY GraphFacts
<1>2. p \in Seq(Nodes) /\ Len(p) \in Nat \ {0} /\ p[1] = from /\ p[Len(p)] = m
    BY DEF IsRoute
<1> DEFINE pp == Append(p, n)
<1>3. /\ pp \in Seq(Nodes) /\ pp # <<>> /\ Len(pp) = Len(p) + 1 /\ pp[Len(p) + 1] = n
      /\ \A i \in 1..Len(p) : pp[i] = p[i]
    BY <1>1, <1>2
<1> HIDE DEF pp
<1>4. \A i \in 1..(Len(pp) - 1) : pp[i + 1] \in graph[pp[i]]
  <2> SUFFICES ASSUME NEW i \in 1..(Len(pp) - 1) PROVE pp[i + 1] \in graph[pp[i]]
    OBVIOUS
  <2>1. CASE i = Len(p)
    BY <2>1, <1>2, <1>3
  <2>2. CASE i < Len(p)
    <3>1. i \in 1..(Len(p) - 1) /\ i + 1 \in 1..Len(p) /\ i \in 1..Len(p)
        BY <2>2, <1>2, <1>3
    <3>. QED
        BY <3>1, <1>3 DEF IsRoute
  <2>. QED
    BY <2>1, <2>2, <1>2, <1>3
<1>5. pp[1] = from /\ pp[Len(pp)] = n
    BY <1>2, <1>3
<1>6. IsRoute(pp, n)
    BY <1>3, <1>4, <1>5 DEF IsRoute
<1>. QED
    BY <1>6 DEF pp

\* The beginning of a way is one.
LEMMA OneLess ==
    ASSUME NEW n, NEW q, IsRoute(q, n), NEW i \in 1..(Len(q) - 1)
    PROVE  /\ IsRoute(SubSeq(q, 1, i), q[i]) /\ Len(SubSeq(q, 1, i)) = i
           /\ i + 1 = Len(q) => q = Append(SubSeq(q, 1, i), n)
<1>1. q \in Seq(Nodes) /\ Len(q) \in Nat \ {0} /\ q[1] = from /\ q[Len(q)] = n
    BY DEF IsRoute
<1> DEFINE r == SubSeq(q, 1, i)
<1>2. r \in Seq(Nodes) /\ Len(r) = i /\ \A h \in 1..i : r[h] = q[h]
    BY <1>1
<1> HIDE DEF r
<1>3. IsRoute(r, q[i])
  <2>1. \A h \in 1..(Len(q) - 1) : q[h + 1] \in graph[q[h]]
    BY DEF IsRoute
  <2>2. ASSUME NEW h \in 1..(Len(r) - 1) PROVE r[h + 1] \in graph[r[h]]
    <3>1. h \in 1..(Len(q) - 1) /\ h \in 1..i /\ h + 1 \in 1..i
        BY <1>1, <1>2
    <3>. QED
        BY <1>2, <2>1, <3>1
  <2>. QED
    BY <2>2, <1>1, <1>2 DEF IsRoute
<1>4. ASSUME i + 1 = Len(q) PROVE q = Append(r, n)
    BY <1>1, <1>2, <1>4
<1>. QED
    BY <1>2, <1>3, <1>4 DEF r

-----------------------------------------------------------------------------
(* A round of the search.                                                  *)

\* A way to a word that is not known has a last word in the queue, from which it goes
\* on to an unknown one.
LEMMA WayOut ==
    ASSUME graph \in Graphs, SearchTyped, NEW n \in Nodes \ Known, NEW q, IsRoute(q, n)
    PROVE  \E i \in 1..(Len(q) - 1) : q[i] \in InQueue /\ q[i + 1] \in Nodes \ Known
<1>1. /\ q \in Seq(Nodes) /\ Len(q) \in Nat \ {0} /\ q[1] = from /\ q[Len(q)] = n
      /\ \A i \in 1..Len(q) : q[i] \in Nodes
      /\ \A i \in 1..(Len(q) - 1) : q[i + 1] \in graph[q[i]]
    BY DEF IsRoute
<1>2. from \in Known
    BY MarksAssumption DEF SearchTyped, Known, Shortest!Known
<1> DEFINE T == {i \in 1..Len(q) : q[i] \notin Known}
<1>3. T \subseteq Nat /\ Len(q) \in T
    BY <1>1
<1>4. PICK j \in T : \A i \in T : j <= i
    BY <1>3, Least
<1>5. j \in 2..Len(q) /\ q[j] \in Nodes \ Known
    BY <1>1, <1>2, <1>4
<1>6. j - 1 \in 1..Len(q) /\ j - 1 \notin T
    BY <1>1, <1>4, <1>5
<1>7. j - 1 \in 1..(Len(q) - 1) /\ q[j - 1] \in Known /\ q[j] \in graph[q[j - 1]]
    BY <1>1, <1>5, <1>6
<1>8. q[j - 1] \in InQueue
    BY <1>5, <1>7 DEF SearchTyped, Visited
<1>. QED
    BY <1>5, <1>7, <1>8

LEMMA SameSize == \A S : Shortest!Cardinality(S) = Cardinality(S)
    BY DEF Shortest!Cardinality, Shortest!IsFiniteSet, Cardinality, IsFiniteSet

LEMMA ShortestSorted ==
    ASSUME NEW S \in SUBSET Nodes, NEW s \in Shortest!Sorted(S)
    PROVE  s \in Arrangements(S) /\ \A i, j \in 1..Len(s) : i < j => s[i] < s[j]
<1>1. s \in Arrangements(S) /\ \A i, j \in DOMAIN s : i < j => s[i] < s[j]
    BY SameSize DEF Shortest!Sorted, Shortest!Arrangements, Arrangements
<1>2. s \in Seq(S)
    BY <1>1, ArrangementFacts
<1>. QED
    BY <1>1, <1>2

\* What there is of the search while it goes on.
Searching(way) ==
    /\ graph \in Graphs /\ from # None /\ SearchTyped
    /\ Ways(way) /\ InOrder(way) /\ \A n \in Known : Soonest(way[n], n)

\* The words that are new after a visit, and how they were found.
New == Shortest!Unseen(Head(queue))
FoundBy(way) ==
    [n \in Known \cup New |-> IF n \in Known THEN way[n] ELSE Append(way[Head(queue)], n)]

\* The head is in no other place of the queue, and visited now.
LEMMA HeadFacts ==
    ASSUME NEW way, Searching(way), queue # <<>>
    PROVE  LET h == Head(queue) IN
           /\ h \in Known /\ h \in Nodes /\ h = queue[1] /\ 1 \in 1..Len(queue)
           /\ h \in InQueue /\ IsRoute(way[h], h) /\ way[h] \in Seq(Nodes)
           /\ Len(way[h]) \in Nat \ {0}
           /\ \A i \in 2..Len(queue) : queue[i] # h /\ Sooner(way[h], way[queue[i]])
           /\ \A n \in InQueue : n = h \/ Sooner(way[h], way[n])
           /\ \A v \in Visited : Sooner(way[v], way[h])
           /\ New \cap Known = {} /\ New \subseteq graph[h] /\ New \subseteq Nodes
           /\ graph[h] \subseteq Known \cup New /\ from \notin New /\ Known \subseteq Nodes
<1> DEFINE h == Head(queue)
<1>1. queue \in Seq(Nodes) /\ InQueue \subseteq Known /\ graph \in Graphs /\ Known \subseteq Nodes
    BY DEF Searching, SearchTyped, Known, Shortest!Known
<1>2. h = queue[1] /\ 1 \in 1..Len(queue) /\ h \in Nodes
    BY <1>1
<1>3. h \in InQueue /\ h \in Known
    BY <1>1, <1>2 DEF InQueue
<1>4. IsRoute(way[h], h) /\ way[h] \in Seq(Nodes) /\ Len(way[h]) \in Nat \ {0}
    BY <1>3 DEF Searching, Ways, IsRoute
<1>5. \A i \in 2..Len(queue) : Sooner(way[h], way[queue[i]])
  <2>1. \A i \in 2..Len(queue) : i \in 1..Len(queue) /\ 1 < i
    BY <1>1
  <2>. QED
    BY <2>1, <1>2 DEF Searching, InOrder
<1>6. \A i \in 2..Len(queue) : queue[i] # h
    BY <1>4, <1>5, SoonerIsStrict
<1>7. \A n \in InQueue : n = h \/ Sooner(way[h], way[n])
  <2> SUFFICES ASSUME NEW n \in InQueue, n # h PROVE Sooner(way[h], way[n])
    OBVIOUS
  <2>1. PICK i \in 1..Len(queue) : queue[i] = n
    BY DEF InQueue
  <2>2. i \in 2..Len(queue)
    BY <2>1, <1>1, <1>2
  <2>. QED
    BY <2>1, <2>2, <1>5
<1>8. \A v \in Visited : Sooner(way[v], way[h])
    BY <1>3 DEF Searching, InOrder
<1>9. /\ New \cap Known = {} /\ New \subseteq graph[h] /\ New \subseteq Nodes
      /\ graph[h] \subseteq Known \cup New
    BY <1>1, <1>2, GraphFacts DEF New, Shortest!Unseen, Known, Shortest!Known
<1>10. from \notin New
    BY MarksAssumption DEF New, Shortest!Unseen, Searching, SearchTyped
<1>. QED
    BY <1>1, <1>2, <1>3, <1>4, <1>5, <1>6, <1>7, <1>8, <1>9, <1>10

\* What a visit changes.
LEMMA VisitFacts ==
    ASSUME NEW way, Searching(way), Shortest!Visit
    PROVE  LET h == Head(queue)
               m == Len(queue) - 1
           IN  /\ queue # <<>> /\ h # to
               /\ graph' = graph /\ from' = from /\ to' = to /\ path' = path
               /\ previous' \in [Nodes -> Nodes \cup {None, Start}]
               /\ \A n \in Known : previous'[n] = previous[n]
               /\ \A n \in New : previous'[n] = h
               /\ \A n \in Nodes \ (Known \cup New) : previous'[n] = None
               /\ Known' = Known \cup New
               /\ queue' \in Seq(Nodes) /\ Len(queue') \in Nat /\ m \in Nat
               /\ \A i \in 1..m : i + 1 \in 2..Len(queue) /\ queue'[i] = queue[i + 1]
               /\ \A i \in 1..Len(queue') : i > m => queue'[i] \in New
               /\ \A i, j \in 1..Len(queue') : m < i /\ i < j => queue'[i] < queue'[j]
               /\ InQueue' = (InQueue \ {h}) \cup New
               /\ Visited' = Visited \cup {h}
<1> DEFINE h == Head(queue)
           m == Len(queue) - 1
<1>1. /\ queue # <<>> /\ h # to
      /\ graph' = graph /\ from' = from /\ to' = to /\ path' = path
    BY DEF Shortest!Visit
<1>2. /\ h \in Known /\ h \in Nodes /\ h = queue[1] /\ 1 \in 1..Len(queue) /\ h \in InQueue
      /\ \A i \in 2..Len(queue) : queue[i] # h
      /\ New \cap Known = {} /\ New \subseteq Nodes /\ Known \subseteq Nodes
    BY <1>1, HeadFacts
<1>3. queue \in Seq(Nodes) /\ previous \in [Nodes -> Nodes \cup {None, Start}]
    BY DEF Searching, SearchTyped
<1>4. previous' = [n \in Nodes |-> IF n \in New THEN h ELSE previous[n]]
    BY DEF Shortest!Visit, Shortest!Reach, New
<1>5. /\ previous' \in [Nodes -> Nodes \cup {None, Start}]
      /\ \A n \in Known : previous'[n] = previous[n]
      /\ \A n \in New : previous'[n] = h
      /\ \A n \in Nodes \ (Known \cup New) : previous'[n] = None
    BY <1>2, <1>3, <1>4 DEF Known, Shortest!Known
<1>6. Known' = Known \cup New
    BY <1>2, <1>4, MarksAssumption DEF Known, Shortest!Known
<1>7. PICK s \in Shortest!Sorted(New) : queue' = Tail(queue) \o s
    BY DEF Shortest!Visit, Shortest!Reach, New
<1>8. s \in Arrangements(New) /\ \A i, j \in 1..Len(s) : i < j => s[i] < s[j]
    BY <1>2, ShortestSorted
<1>9. /\ queue' \in Seq(Nodes) /\ Len(queue') = m + Len(s) /\ m \in Nat /\ Len(s) \in Nat
      /\ \A i \in 1..m : i + 1 \in 1..Len(queue) /\ queue'[i] = queue[i + 1]
      /\ \A i \in 1..Len(s) : queue'[m + i] = s[i]
      /\ \A i \in 1..Len(queue') : i > m => /\ i - m \in 1..Len(s)
                                            /\ queue'[i] = s[i - m] /\ queue'[i] \in New
    BY <1>1, <1>2, <1>3, <1>7, <1>8, AfterHead
<1>10. \A n \in New : \E i \in 1..Len(s) : s[i] = n
    BY <1>2, <1>8, ArrangementFacts
<1>11. \A i \in 1..m : i + 1 \in 2..Len(queue) /\ queue'[i] = queue[i + 1]
    BY <1>9
<1>12. \A i, j \in 1..Len(queue') : m < i /\ i < j => queue'[i] < queue'[j]
  <2> SUFFICES ASSUME NEW i \in 1..Len(queue'), NEW j \in 1..Len(queue'), m < i, i < j
               PROVE  queue'[i] < queue'[j]
    OBVIOUS
  <2>1. /\ i - m \in 1..Len(s) /\ j - m \in 1..Len(s) /\ i - m < j - m
        /\ queue'[i] = s[i - m] /\ queue'[j] = s[j - m]
    BY <1>9
  <2>. QED
    BY <2>1, <1>8
<1>13. InQueue' = {queue'[i] : i \in 1..Len(queue')}
    BY DEF InQueue
<1>14. InQueue' = (InQueue \ {h}) \cup New
  <2>1. InQueue' \subseteq (InQueue \ {h}) \cup New
    <3> SUFFICES ASSUME NEW i \in 1..Len(queue')
                 PROVE  queue'[i] \in (InQueue \ {h}) \cup New
        BY <1>13
    <3>1. CASE i > m
        BY <3>1, <1>9
    <3>2. CASE ~ (i > m)
      <4>1. i \in 1..m
        BY <3>2, <1>9
      <4>2. i + 1 \in 2..Len(queue) /\ i + 1 \in 1..Len(queue) /\ queue'[i] = queue[i + 1]
        BY <4>1, <1>9, <1>11
      <4>3. queue[i + 1] # h /\ queue[i + 1] \in InQueue
        BY <4>2, <1>2 DEF InQueue
      <4>. QED
        BY <4>2, <4>3
    <3>. QED
        BY <3>1, <3>2
  <2>2. New \subseteq InQueue'
    <3> SUFFICES ASSUME NEW n \in New PROVE n \in InQueue'
        OBVIOUS
    <3>1. PICK i \in 1..Len(s) : s[i] = n
        BY <1>10
    <3>2. m + i \in 1..Len(queue') /\ queue'[m + i] = n
        BY <3>1, <1>9
    <3>. QED
        BY <3>2, <1>13
  <2>3. InQueue \ {h} \subseteq InQueue'
    <3> SUFFICES ASSUME NEW i \in 1..Len(queue), queue[i] # h PROVE queue[i] \in InQueue'
        BY DEF InQueue
    <3> DEFINE g == i - 1
    <3>1. g \in 1..m /\ g + 1 = i
        BY <1>2, <1>3
    <3> HIDE DEF g
    <3>2. g \in 1..Len(queue') /\ queue'[g] = queue[i]
        BY <3>1, <1>9
    <3>. QED
        BY <3>2, <1>13
  <2>. QED
    BY <2>1, <2>2, <2>3
<1>15. Visited' = Visited \cup {h}
    BY <1>2, <1>6, <1>14 DEF Visited
<1>. QED
    BY <1>1, <1>5, <1>6, <1>9, <1>11, <1>12, <1>14, <1>15

\* How the words are found after a visit.
LEMMA FoundByFacts ==
    ASSUME NEW way, Searching(way), queue # <<>>
    PROVE  LET w == FoundBy(way) IN
           /\ w \in [Known \cup New -> Seq(Nodes)]
           /\ \A n \in Known : w[n] = way[n]
           /\ \A n \in New : /\ w[n] = Append(way[Head(queue)], n)
                             /\ Len(w[n]) = Len(way[Head(queue)]) + 1
<1> DEFINE h == Head(queue)
<1>1. way[h] \in Seq(Nodes) /\ New \subseteq Nodes /\ New \cap Known = {}
    BY HeadFacts
<1>2. way \in [Known -> Seq(Nodes)]
    BY DEF Searching, Ways
<1>3. \A n \in New : /\ Append(way[h], n) \in Seq(Nodes)
                     /\ Len(Append(way[h], n)) = Len(way[h]) + 1
    BY <1>1
<1>. QED
    BY <1>1, <1>2, <1>3 DEF FoundBy

LEMMA VisitTyped ==
    ASSUME NEW way, Searching(way), Shortest!Visit
    PROVE  SearchTyped'
<1> DEFINE h == Head(queue)
<1>. USE DEF Searching
<1>1. /\ graph' = graph /\ from' = from /\ to' = to
      /\ previous' \in [Nodes -> Nodes \cup {None, Start}]
      /\ \A n \in Known : previous'[n] = previous[n]
      /\ \A n \in New : previous'[n] = h
      /\ \A n \in Nodes \ (Known \cup New) : previous'[n] = None
      /\ Known' = Known \cup New /\ queue' \in Seq(Nodes)
      /\ InQueue' = (InQueue \ {h}) \cup New /\ Visited' = Visited \cup {h} /\ h # to
      /\ queue # <<>>
    BY VisitFacts
<1>2. /\ New \cap Known = {} /\ graph[h] \subseteq Known \cup New /\ from \notin New
      /\ h \in Nodes
    BY <1>1, HeadFacts
<1>3. from \in Known /\ \A n \in Known : previous[n] = Start <=> n = from
    BY MarksAssumption DEF SearchTyped, Known, Shortest!Known
<1>4. \A n \in Nodes : previous'[n] = Start <=> n = from
  <2> SUFFICES ASSUME NEW n \in Nodes PROVE previous'[n] = Start <=> n = from
    OBVIOUS
  <2>1. CASE n \in Known
    BY <2>1, <1>1, <1>3
  <2>2. CASE n \in New
    BY <2>2, <1>1, <1>2, MarksAssumption
  <2>3. CASE n \notin Known \cup New
    BY <2>3, <1>1, <1>3, MarksAssumption
  <2>. QED
    BY <2>1, <2>2, <2>3
<1>5. \A n \in Visited' : graph'[n] \subseteq Known'
    BY <1>1, <1>2 DEF SearchTyped
<1>6. InQueue' \subseteq Known' /\ (to' \in Known' => to' \in InQueue')
    BY <1>1 DEF SearchTyped
<1>7. from' \in Nodes /\ to' \in Nodes
    BY <1>1 DEF SearchTyped
<1>. QED
    BY <1>1, <1>4, <1>5, <1>6, <1>7 DEF SearchTyped

LEMMA VisitWays ==
    ASSUME NEW way, Searching(way), Shortest!Visit, NEW w, w = FoundBy(way)
    PROVE  Ways(w)'
<1> DEFINE h == Head(queue)
<1>. USE DEF Searching
<1>1. /\ graph' = graph /\ from' = from /\ queue # <<>>
      /\ \A n \in Known : previous'[n] = previous[n]
      /\ \A n \in New : previous'[n] = h
      /\ Known' = Known \cup New /\ Visited' = Visited \cup {h}
    BY VisitFacts
<1>2. /\ New \subseteq graph[h] /\ from \notin New /\ h \in Known /\ h \in Nodes
      /\ IsRoute(way[h], h) /\ Len(way[h]) \in Nat \ {0} /\ way[h] \in Seq(Nodes)
      /\ New \cap Known = {} /\ New \subseteq Nodes /\ Known \subseteq Nodes
    BY <1>1, HeadFacts
<1>3. /\ w \in [Known' -> Seq(Nodes)]
      /\ \A n \in Known : w[n] = way[n]
      /\ \A n \in New : w[n] = Append(way[h], n) /\ Len(w[n]) = Len(way[h]) + 1
    BY <1>1, FoundByFacts
<1>4. from \in Known
    BY MarksAssumption DEF SearchTyped, Known, Shortest!Known
<1>5. w[from'] = <<from'>>
    BY <1>1, <1>3, <1>4 DEF Ways
<1>6. \A n \in Known' \ {from'} :
          /\ previous'[n] \in Visited' /\ n \in graph'[previous'[n]]
          /\ w[n] = Append(w[previous'[n]], n)
  <2> SUFFICES ASSUME NEW n \in Known' \ {from'}
               PROVE  /\ previous'[n] \in Visited' /\ n \in graph'[previous'[n]]
                      /\ w[n] = Append(w[previous'[n]], n)
    OBVIOUS
  <2>1. CASE n \in New
    BY <2>1, <1>1, <1>2, <1>3
  <2>2. CASE n \in Known
    <3>1. /\ previous[n] \in Visited /\ n \in graph[previous[n]]
          /\ way[n] = Append(way[previous[n]], n)
        BY <2>2, <1>1 DEF Ways
    <3>2. previous[n] \in Known
        BY <3>1 DEF Visited
    <3>. QED
        BY <2>2, <3>1, <3>2, <1>1, <1>3
  <2>. QED
    BY <2>1, <2>2, <1>1
<1>7. \A p, n : IsRoute(p, n)' <=> IsRoute(p, n)
    BY <1>1 DEF IsRoute
<1>8. \A n \in Known' : IsRoute(w[n], n)
  <2>1. \A n \in New : IsRoute(w[n], n)
    <3> SUFFICES ASSUME NEW n \in New PROVE IsRoute(w[n], n)
        OBVIOUS
    <3>1. n \in graph[h] /\ graph \in Graphs
        BY <1>2
    <3>2. IsRoute(Append(way[h], n), n)
        BY <3>1, <1>2, OneMore
    <3>. QED
        BY <3>2, <1>3
  <2>. QED
    BY <2>1, <1>1, <1>3 DEF Ways
<1>9. \A n \in Known' : \A i \in 1..Len(w[n]) : w[n][i] \in Known' /\ Len(w[w[n][i]]) = i
  <2> SUFFICES ASSUME NEW n \in Known', NEW i \in 1..Len(w[n])
               PROVE  w[n][i] \in Known' /\ Len(w[w[n][i]]) = i
    OBVIOUS
  <2>1. CASE n \in Known
    BY <2>1, <1>1, <1>3 DEF Ways
  <2>2. CASE n \in New /\ i = Len(way[h]) + 1
    <3>1. w[n][i] = n
        BY <2>2, <1>2, <1>3
    <3>. QED
        BY <2>2, <3>1, <1>3
  <2>3. CASE n \in New /\ i # Len(way[h]) + 1
    <3>1. i \in 1..Len(way[h]) /\ w[n][i] = way[h][i]
        BY <2>3, <1>2, <1>3
    <3>2. way[h][i] \in Known /\ Len(way[way[h][i]]) = i
        BY <3>1, <1>2 DEF Ways
    <3>. QED
        BY <3>1, <3>2, <1>1, <1>3
  <2>. QED
    BY <2>1, <2>2, <2>3, <1>1
<1>10. \A n \in Known' : IsRoute(w[n], n)'
    BY <1>7, <1>8
<1>. QED
    BY <1>3, <1>5, <1>6, <1>9, <1>10 DEF Ways

\* A word further back in the queue was found sooner than the new ones.
LEMMA NewComesLater ==
    ASSUME NEW way, Searching(way), Shortest!Visit,
           NEW n \in New, NEW i \in 2..Len(queue)
    PROVE  Sooner(way[queue[i]], Append(way[Head(queue)], n))
<1> DEFINE h == Head(queue)
           x == queue[i]
<1>. USE DEF Searching
<1>1. queue # <<>> /\ i \in 1..Len(queue)
    BY VisitFacts
<1>2. /\ h \in Known /\ IsRoute(way[h], h) /\ way[h] \in Seq(Nodes) /\ Len(way[h]) \in Nat \ {0}
      /\ Sooner(way[h], way[x]) /\ h \in InQueue /\ n \in Nodes
      /\ \A v \in Visited : Sooner(way[v], way[h])
    BY <1>1, HeadFacts
<1>3. x \in Known /\ way[x] \in Seq(Nodes) /\ x \in Nodes
    BY <1>1 DEF SearchTyped, InQueue, Ways, Known, Shortest!Known
<1>4. CASE x = from
  <2>1. way[x] = <<from>> /\ Len(way[x]) = 1
    <3>1. way[from] = <<from>> /\ Len(<<from>>) = 1
        BY DEF Ways
    <3>. QED
        BY <3>1, <1>4
  <2>2. Len(Append(way[h], n)) = Len(way[h]) + 1
    BY <1>2
  <2>. QED
    BY <2>1, <2>2, <1>2 DEF Sooner
<1>5. CASE x # from
  <2>1. previous[x] \in Visited /\ way[x] = Append(way[previous[x]], x)
    BY <1>3, <1>5 DEF Ways
  <2>2. previous[x] \in Known /\ way[previous[x]] \in Seq(Nodes)
    BY <2>1 DEF Visited, Ways
  <2>3. Sooner(way[previous[x]], way[h])
    BY <2>1, <1>2
  <2>4. Sooner(Append(way[previous[x]], x), Append(way[h], n))
    BY <2>2, <2>3, <1>2, <1>3, SoonerByOneMore
  <2>. QED
    BY <2>1, <2>4
<1>. QED
    BY <1>4, <1>5

LEMMA VisitOrder ==
    ASSUME NEW way, Searching(way), Shortest!Visit, NEW w, w = FoundBy(way)
    PROVE  InOrder(w)'
<1> DEFINE h == Head(queue)
           m == Len(queue) - 1
<1>. USE DEF Searching
<1>1. /\ queue # <<>> /\ Known' = Known \cup New /\ Visited' = Visited \cup {h}
      /\ queue' \in Seq(Nodes) /\ Len(queue') \in Nat /\ m \in Nat
      /\ \A i \in 1..m : i + 1 \in 2..Len(queue) /\ queue'[i] = queue[i + 1]
      /\ \A i \in 1..Len(queue') : i > m => queue'[i] \in New
      /\ \A i, j \in 1..Len(queue') : m < i /\ i < j => queue'[i] < queue'[j]
      /\ InQueue' = (InQueue \ {h}) \cup New
    BY VisitFacts
<1>2. /\ h \in Known /\ way[h] \in Seq(Nodes) /\ Len(way[h]) \in Nat \ {0}
      /\ New \subseteq Nodes /\ New \cap Known = {} /\ h \in InQueue
      /\ \A n \in InQueue : n = h \/ Sooner(way[h], way[n])
      /\ \A v \in Visited : Sooner(way[v], way[h])
    BY <1>1, HeadFacts
<1>3. /\ \A n \in Known : w[n] = way[n]
      /\ \A n \in New : w[n] = Append(way[h], n) /\ Len(w[n]) = Len(way[h]) + 1
    BY <1>1, FoundByFacts
<1>4. InQueue \subseteq Known /\ Visited \subseteq Known /\ queue \in Seq(Nodes)
    BY DEF SearchTyped, Visited
<1>5. \A i \in 1..m : /\ queue'[i] = queue[i + 1] /\ i + 1 \in 2..Len(queue)
                      /\ i + 1 \in 1..Len(queue) /\ queue[i + 1] \in Known
    BY <1>1, <1>4 DEF InQueue
<1>6. \A i, j \in 1..Len(queue') : i < j => Sooner(w[queue'[i]], w[queue'[j]])
  <2> SUFFICES ASSUME NEW i \in 1..Len(queue'), NEW j \in 1..Len(queue'), i < j
               PROVE  Sooner(w[queue'[i]], w[queue'[j]])
    OBVIOUS
  <2>1. CASE j <= m
    <3>1. i \in 1..m /\ j \in 1..m /\ i + 1 < j + 1
        BY <2>1, <1>1
    <3>2. Sooner(way[queue[i + 1]], way[queue[j + 1]])
        BY <3>1, <1>5 DEF InOrder
    <3>. QED
        BY <3>1, <3>2, <1>3, <1>5
  <2>2. CASE i <= m /\ m < j
    <3>1. i \in 1..m /\ queue'[j] \in New
        BY <2>2, <1>1
    <3>2. Sooner(way[queue[i + 1]], Append(way[h], queue'[j]))
        BY <3>1, <1>5, NewComesLater
    <3>. QED
        BY <3>1, <3>2, <1>3, <1>5
  <2>3. CASE m < i
    <3>1. queue'[i] \in New /\ queue'[j] \in New /\ queue'[i] < queue'[j]
        BY <2>3, <1>1
    <3>2. Sooner(Append(way[h], queue'[i]), Append(way[h], queue'[j]))
        BY <3>1, <1>2, SoonerByOneMore
    <3>. QED
        BY <3>1, <3>2, <1>3
  <2>. QED
    BY <2>1, <2>2, <2>3, <1>1
<1>7. \A v \in Visited', n \in InQueue' : Sooner(w[v], w[n])
  <2> SUFFICES ASSUME NEW v \in Visited', NEW n \in InQueue' PROVE Sooner(w[v], w[n])
    OBVIOUS
  <2>1. v \in Known /\ w[v] = way[v] /\ (v = h \/ Sooner(way[v], way[h]))
    BY <1>1, <1>2, <1>3, <1>4
  <2>2. CASE n \in New
    <3>1. Len(w[v]) <= Len(way[h])
        BY <2>1, <1>2 DEF Sooner
    <3>2. Len(w[n]) = Len(way[h]) + 1 /\ Len(w[v]) \in Nat
        BY <2>1, <2>2, <1>3 DEF Ways
    <3>. QED
        BY <3>1, <3>2, <1>2 DEF Sooner
  <2>3. CASE n \in InQueue \ {h}
    <3>1. w[n] = way[n] /\ Sooner(way[h], way[n])
        BY <2>3, <1>2, <1>3, <1>4
    <3>2. v = h \/ v \in Visited
        BY <1>1
    <3>3. v \in Visited => Sooner(way[v], way[n])
        BY <2>3 DEF InOrder
    <3>. QED
        BY <3>1, <3>2, <3>3, <2>1
  <2>. QED
    BY <2>2, <2>3, <1>1
<1>. QED
    BY <1>6, <1>7 DEF InOrder

LEMMA VisitSoonest ==
    ASSUME NEW way, Searching(way), Shortest!Visit, NEW w, w = FoundBy(way), NEW n \in Known'
    PROVE  Soonest(w[n], n)'
<1> DEFINE h == Head(queue)
<1>. USE DEF Searching
<1>1. /\ graph' = graph /\ from' = from /\ queue # <<>> /\ Known' = Known \cup New
    BY VisitFacts
<1>2. /\ h \in Known /\ way[h] \in Seq(Nodes) /\ Len(way[h]) \in Nat \ {0}
      /\ New \subseteq Nodes /\ New \cap Known = {}
      /\ \A m \in InQueue : m = h \/ Sooner(way[h], way[m])
    BY <1>1, HeadFacts
<1>3. /\ \A m \in Known : w[m] = way[m]
      /\ \A m \in New : w[m] = Append(way[h], m) /\ Len(w[m]) = Len(way[h]) + 1
    BY <1>1, FoundByFacts
<1>4. \A p, m : IsRoute(p, m)' <=> IsRoute(p, m)
    BY <1>1 DEF IsRoute
<1>5. SUFFICES ASSUME NEW q, IsRoute(q, n) PROVE q = w[n] \/ Sooner(w[n], q)
    BY <1>4 DEF Soonest
<1>6. CASE n \in Known
    BY <1>6, <1>3, <1>5 DEF Soonest
<1>7. CASE n \in New
  <2>1. n \in Nodes \ Known
    BY <1>2, <1>7
  <2>2. PICK i \in 1..(Len(q) - 1) : q[i] \in InQueue /\ q[i + 1] \in Nodes \ Known
    BY <2>1, <1>5, WayOut
  <2> DEFINE r == SubSeq(q, 1, i)
             m == q[i]
  <2>3. /\ IsRoute(r, m) /\ Len(r) = i
        /\ i + 1 = Len(q) => q = Append(r, n)
    BY <1>5, OneLess
  <2>4. q \in Seq(Nodes) /\ Len(q) \in Nat /\ r \in Seq(Nodes)
    BY <1>5, <2>3 DEF IsRoute
  <2> HIDE DEF r
  <2>5. m \in Known /\ way[m] \in Seq(Nodes)
    BY <2>2 DEF SearchTyped, Ways
  <2>6. r = way[m] \/ Sooner(way[m], r)
    BY <2>3, <2>5 DEF Soonest
  <2>7. m = h \/ Sooner(way[h], way[m])
    BY <2>2, <1>2
  <2>8. r = way[h] \/ Sooner(way[h], r)
    BY <2>4, <2>5, <2>6, <2>7, <1>2, SoonerIsTransitive
  <2>9. CASE i + 1 < Len(q)
    <3>1. Len(way[h]) <= i
        BY <2>3, <2>8, <1>2 DEF Sooner
    <3>. QED
        BY <3>1, <2>9, <2>4, <1>2, <1>3, <1>7 DEF Sooner
  <2>10. CASE i + 1 = Len(q)
    <3>1. q = Append(r, n) /\ w[n] = Append(way[h], n)
        BY <2>3, <2>10, <1>3, <1>7
    <3>2. Sooner(way[h], r) => Sooner(Append(way[h], n), Append(r, n))
        BY <2>1, <2>4, <1>2, SoonerByOneMore
    <3>. QED
        BY <3>1, <3>2, <2>8
  <2>. QED
    BY <2>9, <2>10, <2>4
<1>. QED
    BY <1>1, <1>6, <1>7

LEMMA VisitStep ==
    ASSUME graph \in Graphs, SearchInv, Shortest!Visit
    PROVE  SearchInv'
<1>1. from # None /\ path' = None /\ from' = from /\ graph' = graph
    BY DEF Shortest!Visit
<1>2. PICK way : Searching(way)
    BY <1>1 DEF SearchInv, Searching
<1>3. PICK w : w = FoundBy(way)
    OBVIOUS
<1>4. SearchTyped'
    BY <1>2, VisitTyped
<1>5. Ways(w)' /\ InOrder(w)'
    BY <1>2, <1>3, VisitWays, VisitOrder
<1>6. \A n \in Known' : Soonest(w[n], n)'
    BY <1>2, <1>3, VisitSoonest
<1>7. FirstOfShortest'
    BY <1>1 DEF FirstOfShortest, Shortest!FirstOfShortest
<1>8. \E v : Ways(v)' /\ InOrder(v)' /\ \A n \in Known' : Soonest(v[n], n)'
    BY <1>5, <1>6
<1>. QED
    BY <1>1, <1>4, <1>7, <1>8 DEF SearchInv

\* The way that is read back is the one by which the target was found.
LEMMA WayIsRead ==
    ASSUME NEW way, Searching(way), to \in Known
    PROVE  Shortest!WayTo(to) = way[to]
<1>. USE DEF Searching
<1> DEFINE F(v) == [n \in Known |-> IF previous[n] = Start THEN <<n>>
                                                           ELSE Append(v[previous[n]], n)]
<1>1. /\ way \in [Known -> Seq(Nodes)] /\ from \in Known /\ Visited \subseteq Known
      /\ \A n \in Known : previous[n] = Start <=> n = from
      /\ \A n \in Known \ {from} : previous[n] \in Known /\ way[n] = Append(way[previous[n]], n)
      /\ way[from] = <<from>>
    BY MarksAssumption DEF Ways, SearchTyped, Visited, Known, Shortest!Known
<1>2. way = F(way)
    BY <1>1
<1>3. ASSUME NEW v, v = F(v) PROVE v = way
  <2>1. v = [n \in Known |-> v[n]] /\ \A n \in Known : v[n] = F(v)[n]
    BY <1>3
  <2>2. v[from] = way[from]
    BY <2>1, <1>1
  <2>3. \A n \in Known \ {from} : v[n] = Append(v[previous[n]], n)
    BY <2>1, <1>1
  <2> HIDE DEF F
  <2> DEFINE T == {Len(way[n]) : n \in {m \in Known : v[m] # way[m]}}
  <2>4. T = {}
    <3> SUFFICES ASSUME T # {} PROVE FALSE
        OBVIOUS
    <3>1. T \subseteq Nat
        BY <1>1
    <3>2. PICK x \in T : \A y \in T : x <= y
        BY <3>1, Least
    <3>3. PICK n \in Known : v[n] # way[n] /\ Len(way[n]) = x
        BY <3>2
    <3>4. n # from /\ previous[n] \in Known
        BY <3>3, <2>2, <1>1
    <3>5. v[previous[n]] # way[previous[n]]
        BY <3>3, <3>4, <2>3, <1>1
    <3>6. Len(way[n]) = Len(way[previous[n]]) + 1
        BY <3>4, <1>1
    <3>7. Len(way[previous[n]]) \in T
        BY <3>4, <3>5
    <3>8. x <= Len(way[previous[n]])
        BY <3>2, <3>7
    <3>9. Len(way[previous[n]]) \in Nat
        BY <3>1, <3>7
    <3>. QED
        BY <3>3, <3>6, <3>8, <3>9
  <2>5. \A n \in Known : v[n] = way[n]
    BY <2>4
  <2>. QED
    BY <2>1, <2>5, <1>1
<1>4. (CHOOSE v : v = F(v)) = way
    BY <1>2, <1>3
<1>5. Shortest!WayTo(to) = (CHOOSE v : v = F(v))[to]
    BY DEF Shortest!WayTo, Known
<1>. QED
    BY <1>4, <1>5

\* An answer changes nothing of what it is read from.
LEMMA SearchKept ==
    ASSUME NEW way, Searching(way), UNCHANGED <<graph, from, to, previous, queue>>
    PROVE  SearchTyped' /\ \E v : Ways(v)' /\ InOrder(v)' /\ \A n \in Known' : Soonest(v[n], n)'
<1>1. /\ graph' = graph /\ from' = from /\ to' = to /\ previous' = previous /\ queue' = queue
    OBVIOUS
<1>2. Known' = Known /\ InQueue' = InQueue
    BY <1>1 DEF Known, Shortest!Known, InQueue
<1>3. Visited' = Visited
    BY <1>2 DEF Visited
<1>4. SearchTyped'
    BY <1>1, <1>2, <1>3 DEF Searching, SearchTyped
<1>5. \A p, n : IsRoute(p, n)' <=> IsRoute(p, n)
    BY <1>1 DEF IsRoute
<1>6. \A n \in Known : IsRoute(way[n], n)'
    BY <1>5 DEF Searching, Ways
<1>7. Ways(way)'
    BY <1>1, <1>2, <1>3, <1>6 DEF Searching, Ways
<1>8. InOrder(way)'
    BY <1>1, <1>2, <1>3 DEF Searching, InOrder
<1>9. \A n \in Known' : Soonest(way[n], n)'
    BY <1>2, <1>5 DEF Searching, Soonest
<1>. QED
    BY <1>4, <1>7, <1>8, <1>9

LEMMA ArriveStep ==
    ASSUME graph \in Graphs, SearchInv, Shortest!Arrive
    PROVE  SearchInv'
<1>1. /\ from # None /\ queue # <<>> /\ Head(queue) = to /\ path' = Shortest!WayTo(to)
      /\ graph' = graph /\ from' = from /\ to' = to /\ previous' = previous /\ queue' = queue
    BY DEF Shortest!Arrive
<1>2. PICK way : Searching(way)
    BY <1>1 DEF SearchInv, Searching
<1>3. to \in Known /\ IsRoute(way[to], to)
    BY <1>1, <1>2, HeadFacts
<1>4. path' = way[to]
    BY <1>1, <1>2, <1>3, WayIsRead
<1> DEFINE p == way[to]
<1>5. /\ p \in Seq(Nodes) /\ p # <<>> /\ Len(p) \in Nat \ {0} /\ p[1] = from /\ p[Len(p)] = to
      /\ p \in [1..Len(p) -> Nodes] /\ \A i \in 1..(Len(p) - 1) : p[i + 1] \in graph[p[i]]
  <2> HIDE DEF p
  <2>1. IsRoute(p, to)
    BY <1>3 DEF p
  <2>. QED
    BY <2>1 DEF IsRoute
<1>6. \A i \in 1..Len(p) : Len(way[p[i]]) = i
    BY <1>2, <1>3 DEF Searching, Ways
<1>7. Soonest(p, to)
    BY <1>2, <1>3 DEF Searching
<1> HIDE DEF p
<1>8. \A i, j \in 1..Len(p) : i # j => p[i] # p[j]
    BY <1>6
<1>9. p \in Shortest!PathsOf(Len(p))
    BY <1>5, <1>8 DEF Shortest!PathsOf, Shortest!IsPath
<1>10. \A n \in Nat : \A q \in Shortest!PathsOf(n) : n # 0 => IsRoute(q, to) /\ Len(q) = n
  <2> SUFFICES ASSUME NEW n \in Nat, NEW q \in Shortest!PathsOf(n), n # 0
               PROVE  IsRoute(q, to) /\ Len(q) = n
    OBVIOUS
  <2>1. q \in [1..n -> Nodes] /\ q[1] = from /\ q[n] = to /\ Shortest!IsPath(graph, q)
    BY DEF Shortest!PathsOf
  <2>2. q \in Seq(Nodes) /\ Len(q) = n /\ q # <<>>
    BY <2>1
  <2>. QED
    BY <2>1, <2>2 DEF IsRoute, Shortest!IsPath
<1>11. \A n \in 1..(Len(p) - 1) : Shortest!PathsOf(n) = {}
  <2> SUFFICES ASSUME NEW n \in 1..(Len(p) - 1), NEW q \in Shortest!PathsOf(n) PROVE FALSE
    OBVIOUS
  <2>1. IsRoute(q, to) /\ Len(q) = n
    BY <1>10
  <2>. QED
    BY <2>1, <1>5, <1>7 DEF Soonest, Sooner
<1>12. \A q \in Shortest!PathsOf(Len(p)) \ {p} : Shortest!Before(p, q)
  <2> SUFFICES ASSUME NEW q \in Shortest!PathsOf(Len(p)) \ {p} PROVE Before(p, q)
    BY DEF Before, Shortest!Before
  <2>1. IsRoute(q, to) /\ Len(q) = Len(p)
    BY <1>5, <1>10
  <2>. QED
    BY <2>1, <1>5, <1>7 DEF Soonest, Sooner
<1>13. \A n : Shortest!PathsOf(n)' = Shortest!PathsOf(n)
    BY <1>1 DEF Shortest!PathsOf
<1>14. path' = p
    BY <1>4 DEF p
<1>15. FirstOfShortest'
    BY <1>5, <1>9, <1>11, <1>12, <1>13, <1>14 DEF FirstOfShortest, Shortest!FirstOfShortest
<1>16. SearchTyped' /\ \E v : Ways(v)' /\ InOrder(v)' /\ \A n \in Known' : Soonest(v[n], n)'
    BY <1>1, <1>2, SearchKept
<1>. QED
    BY <1>1, <1>15, <1>16 DEF SearchInv

LEMMA GiveUpStep ==
    ASSUME graph \in Graphs, SearchInv, Shortest!GiveUp
    PROVE  SearchInv'
<1>1. /\ from # None /\ queue = <<>> /\ path' = <<>>
      /\ graph' = graph /\ from' = from /\ to' = to /\ previous' = previous /\ queue' = queue
    BY DEF Shortest!GiveUp
<1>2. PICK way : Searching(way)
    BY <1>1 DEF SearchInv, Searching
<1>3. SearchTyped
    BY <1>2 DEF Searching
<1>4. InQueue = {} /\ Visited = Known
    BY <1>1 DEF InQueue, Visited
<1>5. Known \in SUBSET Nodes /\ from \in Known
    BY <1>3, MarksAssumption DEF SearchTyped, Known, Shortest!Known
<1>6. to \notin Known /\ \A n \in Known : graph[n] \subseteq Known
    BY <1>3, <1>4 DEF SearchTyped
<1>7. Shortest!Separated
    BY <1>5, <1>6 DEF Shortest!Separated
<1>8. FirstOfShortest'
    BY <1>1, <1>7 DEF FirstOfShortest, Shortest!FirstOfShortest, Shortest!Separated
<1>9. SearchTyped' /\ \E v : Ways(v)' /\ InOrder(v)' /\ \A n \in Known' : Soonest(v[n], n)'
    BY <1>1, <1>2, SearchKept
<1>. QED
    BY <1>1, <1>8, <1>9 DEF SearchInv

LEMMA SearchStep ==
    ASSUME graph \in Graphs, SearchInv, Shortest!Search
    PROVE  SearchInv'
    BY VisitStep, ArriveStep, GiveUpStep DEF Shortest!Search

-----------------------------------------------------------------------------
LEMMA InitInv == QueriesInit => IInv
<1> SUFFICES ASSUME QueriesInit PROVE IInv
    OBVIOUS
<1>1. PeelInv /\ GroupsTyped /\ GroupsTrue
    BY PeelInit, GroupsInit DEF QueriesInit
<1>2. CASE Shortest!NotAsked
  <2>1. from = None
    BY <1>2 DEF Shortest!NotAsked
  <2>. QED
    BY <1>1, <1>2, <2>1 DEF SearchInv, IInv
<1>3. CASE Shortest!SearchInit
  <2>1. /\ from \in Nodes /\ to \in Nodes /\ queue = <<from>> /\ path = None /\ from # None
        /\ previous = [n \in Nodes |-> IF n = from THEN Start ELSE None]
    BY <1>3, MarksAssumption DEF Shortest!SearchInit
  <2>2. Known = {from}
    BY <2>1, MarksAssumption DEF Known, Shortest!Known
  <2>3. queue \in Seq(Nodes) /\ Len(queue) = 1 /\ queue[1] = from
    BY <2>1
  <2>4. InQueue = {from} /\ Visited = {}
    BY <2>2, <2>3 DEF InQueue, Visited
  <2>5. previous \in [Nodes -> Nodes \cup {None, Start}]
    BY <2>1
  <2>6. \A n \in Nodes : previous[n] = Start <=> n = from
    BY <2>1, MarksAssumption
  <2>7. SearchTyped
    BY <2>1, <2>2, <2>3, <2>4, <2>5, <2>6 DEF SearchTyped
  <2> DEFINE p == <<from>>
             way == [n \in Known |-> p]
  <2>8. /\ p \in Seq(Nodes) /\ p # <<>> /\ Len(p) = 1 /\ p[1] = from
        /\ \A i \in 1..Len(p) : i = 1
        /\ 1..(Len(p) - 1) = {}
    BY <2>1
  <2> HIDE DEF p
  <2>9. way \in [Known -> Seq(Nodes)] /\ way[from] = p
    BY <2>2, <2>8
  <2> HIDE DEF way
  <2>10. IsRoute(p, from)
    BY <2>8 DEF IsRoute
  <2>11. Ways(way)
    <3>1. \A n \in Known : \A i \in 1..Len(way[n]) :
              way[n][i] \in Known /\ Len(way[way[n][i]]) = i
        BY <2>2, <2>8, <2>9
    <3>. QED
        BY <2>2, <2>9, <2>10, <3>1 DEF Ways, p
  <2>12. InOrder(way)
    BY <2>3, <2>4 DEF InOrder
  <2>13. Soonest(p, from)
    <3> SUFFICES ASSUME NEW q, IsRoute(q, from) PROVE q = p \/ Sooner(p, q)
        BY DEF Soonest
    <3>1. q \in Seq(Nodes) /\ Len(q) \in Nat \ {0} /\ q[1] = from
        BY DEF IsRoute
    <3>2. Len(q) = 1 => q = p
        BY <3>1, <2>8
    <3>. QED
        BY <3>1, <3>2, <2>8 DEF Sooner
  <2>14. \A n \in Known : Soonest(way[n], n)
    BY <2>2, <2>9, <2>13
  <2>15. FirstOfShortest
    BY <2>1 DEF FirstOfShortest, Shortest!FirstOfShortest
  <2>16. \E v : Ways(v) /\ InOrder(v) /\ \A n \in Known : Soonest(v[n], n)
    BY <2>11, <2>12, <2>14
  <2>. QED
    BY <1>1, <2>1, <2>7, <2>15, <2>16 DEF SearchInv, IInv
<1>. QED
    BY <1>2, <1>3 DEF QueriesInit

\* The invariant is inductive: a question about paths changes nothing of the groups,
\* and while there is none nothing is searched for.
THEOREM InvariantHolds == QueriesSpec => []IInv
<1>1. IInv /\ [QueriesNext]_<<vars, regionVars, searchVars>> => IInv'
  <2> SUFFICES ASSUME IInv, [QueriesNext]_<<vars, regionVars, searchVars>> PROVE IInv'
    OBVIOUS
  <2>. USE DEF IInv
  <2>1. CASE Shortest!NotAsked /\ Regions /\ UNCHANGED searchVars
    <3>1. PeelInv' /\ GroupsTyped' /\ GroupsTrue'
        BY <2>1, GroupsStep
    <3>2. from' = None /\ Shortest!NotAsked'
        BY <2>1 DEF Shortest!NotAsked, searchVars
    <3>. QED
        BY <3>1, <3>2 DEF SearchInv
  <2>2. CASE Shortest!Search /\ UNCHANGED <<vars, regionVars>>
    <3>1. UNCHANGED vars /\ graph \in Graphs
        BY <2>2 DEF PeelInv, TypeOK
    <3>2. PeelInv' /\ GroupsTyped' /\ GroupsTrue'
        BY <2>2, <3>1, PeelKept, GroupsKept
    <3>3. SearchInv'
        BY <2>2, <3>1, SearchStep
    <3>. QED
        BY <3>2, <3>3
  <2>3. CASE UNCHANGED <<vars, regionVars, searchVars>>
    <3>1. UNCHANGED vars /\ UNCHANGED <<vars, regionVars>> /\ UNCHANGED searchVars
        BY <2>3
    <3>2. PeelInv' /\ GroupsTyped' /\ GroupsTrue'
        BY <3>1, PeelKept, GroupsKept
    <3>3. CASE from = None
      <4>1. from' = None /\ Shortest!NotAsked'
        BY <3>1, <3>3 DEF SearchInv, Shortest!NotAsked, searchVars
      <4>. QED
        BY <3>2, <4>1 DEF SearchInv
    <3>4. CASE from # None
      <4>1. /\ graph' = graph /\ from' = from /\ to' = to /\ path' = path
            /\ UNCHANGED <<graph, from, to, previous, queue>>
        BY <3>1 DEF vars, searchVars
      <4>2. PICK way : Searching(way)
        BY <3>4 DEF SearchInv, Searching, PeelInv, TypeOK
      <4>3. /\ SearchTyped'
            /\ \E v : Ways(v)' /\ InOrder(v)' /\ \A n \in Known' : Soonest(v[n], n)'
        BY <4>1, <4>2, SearchKept
      <4>4. \A n : Shortest!PathsOf(n)' = Shortest!PathsOf(n)
        BY <4>1 DEF Shortest!PathsOf
      <4>5. FirstOfShortest
        BY <3>4 DEF SearchInv
      <4>6. FirstOfShortest'
        BY <4>1, <4>4, <4>5 DEF FirstOfShortest, Shortest!FirstOfShortest, Shortest!Separated
      <4>. QED
        BY <3>2, <3>4, <4>1, <4>3, <4>6 DEF SearchInv
    <3>. QED
        BY <3>3, <3>4
  <2>. QED
    BY <2>1, <2>2, <2>3 DEF QueriesNext
<1>. QED
    BY InitInv, <1>1, PTL DEF QueriesSpec

\* Type correctness: in particular no degree falls below zero.
THEOREM TypesHold == QueriesSpec => []TypeOK
<1>1. IInv => TypeOK
    BY DEF IInv, PeelInv
<1>. QED
    BY <1>1, InvariantHolds, PTL

\* The queue of k_core holds exactly the words of low degree that remain, once each.
THEOREM LowAreQueuedHolds == QueriesSpec => []LowAreQueued
<1>1. IInv => LowAreQueued
    BY DEF IInv, PeelInv
<1>. QED
    BY <1>1, InvariantHolds, PTL

\* k_core returns the greatest part of the graph in which every word has at least
\* k neighbours.
THEOREM CoreFoundHolds == QueriesSpec => []CoreFound
<1>1. IInv => CoreFound
    BY CoreIsLeft DEF IInv, CoreFound
<1>. QED
    BY <1>1, InvariantHolds, PTL

\* The dense subgraphs are the connected parts of the core, each of them once and all of
\* them in the end, in the order of their first words.
THEOREM RegionsExactHolds == QueriesSpec => []RegionsExact
<1>1. IInv => RegionsExact
    BY RegionsAreExact DEF IInv
<1>. QED
    BY <1>1, InvariantHolds, PTL

\* The answer about a path is the first in alphabetical order of the shortest, and empty
\* exactly when no way leads from the one word to the other.
THEOREM FirstOfShortestHolds == QueriesSpec => []FirstOfShortest
<1>1. IInv => FirstOfShortest
  <2>1. Shortest!NotAsked => FirstOfShortest
    BY DEF Shortest!NotAsked, FirstOfShortest, Shortest!FirstOfShortest
  <2>. QED
    BY <2>1 DEF IInv, SearchInv
<1>. QED
    BY <1>1, InvariantHolds, PTL
=============================================================================
