----------------------------- MODULE WordGraphs -----------------------------
(***************************************************************************)
(* The graphs the queries of motor/graph.py are asked about, and what a    *)
(* query is about: simple paths and their order.                           *)
(*                                                                         *)
(* A word is its rank in the alphabetical order.  Graphs come out of the   *)
(* builders symmetric and without loops; beyond that any graph is allowed, *)
(* also those no set of words has.                                         *)
(***************************************************************************)
EXTENDS Integers, Sequences, FiniteSets

CONSTANTS
    Nodes,          \* the words
    None            \* Python None

VARIABLE graph          \* the graph a query is about

ASSUME NodesAssumption == Nodes \subseteq Nat /\ IsFiniteSet(Nodes)

Edges == {e \in Nodes \X Nodes : e[1] < e[2]}

\* A graph gives each word its neighbours.
Graphs == {[n \in Nodes |-> {m \in Nodes : <<n, m>> \in E \/ <<m, n>> \in E}] :
              E \in SUBSET Edges}

\* The arrangements of S: every member once.
Arrangements(S) ==
    {s \in [1..Cardinality(S) -> S] :
        /\ \A n \in S : \E i \in DOMAIN s : s[i] = n
        /\ \A i, j \in DOMAIN s : i # j => s[i] # s[j]}

\* sorted(S): the one arrangement in alphabetical order.
Sorted(S) == {s \in Arrangements(S) : \A i, j \in DOMAIN s : i < j => s[i] < s[j]}

\* A path visits no word twice.
IsPath(g, p) ==
    /\ \A i \in 1..(Len(p) - 1) : p[i + 1] \in g[p[i]]
    /\ \A i, j \in 1..Len(p) : i # j => p[i] # p[j]

Here(p) == p[Len(p)]

\* Python's order of lists, for lists of which neither begins the other.
Before(p, q) ==
    \E i \in 1..Len(p) :
        i <= Len(q) /\ p[i] < q[i] /\ \A k \in 1..(i - 1) : p[k] = q[k]
=============================================================================
