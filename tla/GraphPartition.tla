--------------------------- MODULE GraphPartition ---------------------------
(***************************************************************************)
(* Building the word graph in partitions and merging them, motor/graph.py: *)
(* partition_for, build_partition and merge_partitions.                    *)
(*                                                                         *)
(* Two words are neighbours when they differ in one letter.  Nobody        *)
(* compares words two by two: words that share a pattern such as "c*t" are *)
(* put together, and each pattern belongs to one partition.  That this     *)
(* finds every pair, each in one partition, is what the module is about.   *)
(*                                                                         *)
(* Each partition is built by a worker that visits the words one by one,   *)
(* in the order of the alphabet in the code, in any order here.  The       *)
(* bucket of a pattern holds the words visited so far that have it.        *)
(***************************************************************************)
EXTENDS Integers, Sequences

CONSTANTS
    Letters,        \* a-z
    Words,          \* the normalised words of the submission
    Partitions      \* how many partitions

ASSUME GraphAssumption ==
    /\ "*" \notin Letters
    /\ Words \subseteq Seq(Letters)
    /\ Partitions \in Nat \ {0}

VARIABLES
    home,           \* home[s]: the partition of pattern s
    visited,        \* visited[p]: the words builder p has visited
    part,           \* part[p]: the graph builder p has built so far
    merged,         \* the graph merge_partitions has built so far
    added           \* the partitions that were merged

vars == <<home, visited, part, merged, added>>

Parts == 0..(Partitions - 1)

\* word[:index] + "*" + word[index + 1:]
PatternOf(w, i) == [w EXCEPT ![i] = "*"]

Patterns == UNION {{PatternOf(w, i) : i \in 1..Len(w)} : w \in Words}

\* Both are a graph: a set of neighbours for each word.
Graphs == [Words -> SUBSET Words]
NoEdges == [w \in Words |-> {}]
NoWords == [w \in {} |-> {}]

TypeOK ==
    /\ home \in [Patterns -> Parts]
    /\ visited \in [Parts -> SUBSET Words]
    /\ part \in [Parts -> Graphs]
    /\ merged \in Graphs \cup {NoWords}
    /\ added \subseteq Parts

\* partition_for reduces a SHA-256 digest: any assignment of patterns, always
\* the same one.  Every part starts with all the words and no edges.
Init ==
    /\ home \in [Patterns -> Parts]
    /\ visited = [p \in Parts |-> {}]
    /\ part = [p \in Parts |-> NoEdges]
    /\ merged = NoWords
    /\ added = {}

\* The words a bucket of partition p offers to w: its patterns that belong to p
\* and the words visited before that have one of them.
Met(p, w, before) ==
    {v \in before :
        \E i \in 1..Len(w), k \in 1..Len(v) :
            PatternOf(w, i) = PatternOf(v, k) /\ home[PatternOf(w, i)] = p}

\* The part with w joined to the words in its buckets, both ways.
Joined(g, w, met) ==
    [u \in Words |-> g[u] \cup (IF u = w THEN met ELSE {})
                          \cup (IF u \in met THEN {w} ELSE {})]

\* Faults: the word enters its buckets before they are read; what is added is
\* the pattern and not the word.
Visit_Self(p, w) ==
    /\ w \in Words \ visited[p]
    /\ part' = [part EXCEPT ![p] = Joined(@, w, Met(p, w, visited[p] \cup {w}))]
    /\ visited' = [visited EXCEPT ![p] = @ \cup {w}]
    /\ UNCHANGED <<home, merged, added>>

\* The inner loop of build_partition for one word.
Visit(p, w) ==
    /\ w \in Words \ visited[p]
    /\ part' = [part EXCEPT ![p] = Joined(@, w, Met(p, w, visited[p]))]
    /\ visited' = [visited EXCEPT ![p] = @ \cup {w}]
    /\ UNCHANGED <<home, merged, added>>

\* Fault: the neighbours found by an earlier part are replaced.
Merge_Replace(p) ==
    /\ visited[p] = Words
    /\ merged' = part[p]
    /\ added' = added \cup {p}
    /\ UNCHANGED <<home, visited, part>>

\* A finished part is merged, perhaps again.
Merge(p) ==
    /\ visited[p] = Words
    /\ merged' = [w \in Words |->
                     part[p][w] \cup (IF w \in DOMAIN merged THEN merged[w] ELSE {})]
    /\ added' = added \cup {p}
    /\ UNCHANGED <<home, visited, part>>

Next == \E p \in Parts : Merge(p) \/ \E w \in Words : Visit(p, w)

Spec == Init /\ [][Next]_vars

-----------------------------------------------------------------------------
(* What the graph is, said without patterns.                               *)

\* v is w with another letter at place i.
OneApart(w, v, i) ==
    /\ i \in 1..Len(w) /\ Len(v) = Len(w)
    /\ v[i] # w[i]
    /\ \A k \in 1..Len(w) : k # i => v[k] = w[k]

Neighbours(w) == {v \in Words : \E i \in 1..Len(w) : OneApart(w, v, i)}

\* The neighbours a partition answers for.
NeighboursIn(p, w) ==
    {v \in Words : \E i \in 1..Len(w) : OneApart(w, v, i) /\ home[PatternOf(w, i)] = p}

\* A finished part joins exactly the pairs one letter apart whose pattern is its
\* own: no pair of another partition, no word with itself, and both directions.
PartsExact ==
    \A p \in Parts : visited[p] = Words =>
        part[p] = [w \in Words |-> NeighboursIn(p, w)]

\* When every part has been merged, in whatever order and however often, the
\* result is the whole graph, words without neighbours included.
MergedWhole ==
    added = Parts => merged = [w \in Words |-> Neighbours(w)]
=============================================================================
