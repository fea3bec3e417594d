------------------------------ MODULE Peeling ------------------------------
(***************************************************************************)
(* k_core of motor/graph.py: the greatest part of a graph in which every   *)
(* word keeps at least k neighbours.                                       *)
(*                                                                         *)
(* Words of low degree are removed through a queue.  Removing one lowers   *)
(* the degree of its neighbours, and a neighbour joins the queue when its  *)
(* degree passes the threshold, not whenever it is below it: once, if the  *)
(* degrees are kept exact.  The order in which the neighbours of a word    *)
(* are looked at is that of a Python set, that is, any.                    *)
(***************************************************************************)
EXTENDS WordGraphs

CONSTANT Thresholds     \* what k may be

ASSUME ThresholdsAssumption == Thresholds \subseteq Nat

VARIABLES
    k,              \* the threshold, an argument beside graph
    remaining,      \* the words not removed so far
    degrees,        \* degrees[n]: how many neighbours of n remain, while n does
    pending         \* the words to be removed, in order

vars == <<graph, k, remaining, degrees, pending>>

TypeOK ==
    /\ graph \in Graphs
    /\ k \in Thresholds
    /\ remaining \subseteq Nodes
    /\ degrees \in [Nodes -> Nat]
    /\ pending \in Seq(Nodes)

Init ==
    /\ graph \in Graphs
    /\ k \in Thresholds
    /\ remaining = Nodes
    /\ degrees = [n \in Nodes |-> Cardinality(graph[n])]
    /\ pending \in Sorted({n \in Nodes : degrees[n] < k})

\* The neighbours that lose a connection when n is removed.
Losers(n) == graph[n] \cap (remaining \ {n})

\* Fault: the degree is not lowered before it is compared.
Peel_Late ==
    /\ pending # <<>>
    /\ LET n == Head(pending) IN
        /\ remaining' = remaining \ {n}
        /\ degrees' = [m \in Nodes |-> IF m \in Losers(n) THEN degrees[m] - 1 ELSE degrees[m]]
        /\ \E s \in Arrangements({m \in Losers(n) : degrees[m] = k - 1}) :
              pending' = Tail(pending) \o s
    /\ UNCHANGED <<graph, k>>

\* One round of the loop.  A word that is gone already is passed over.
Peel ==
    /\ pending # <<>>
    /\ LET n == Head(pending) IN
        IF n \notin remaining
        THEN /\ pending' = Tail(pending)
             /\ UNCHANGED <<remaining, degrees>>
        ELSE /\ remaining' = remaining \ {n}
             /\ degrees' = [m \in Nodes |-> IF m \in Losers(n) THEN degrees[m] - 1 ELSE degrees[m]]
             /\ \E s \in Arrangements({m \in Losers(n) : degrees'[m] = k - 1}) :
                   pending' = Tail(pending) \o s
    /\ UNCHANGED <<graph, k>>

Next == Peel

Spec == Init /\ [][Next]_vars

-----------------------------------------------------------------------------
(* What the result is, said without removing anything.                     *)

\* The parts of the graph in which everybody has at least k neighbours.
Dense == {S \in SUBSET Nodes : \A n \in S : Cardinality(graph[n] \cap S) >= k}

\* The greatest of them.
Core == UNION Dense

\* Of the words that remain, those of low degree are in the queue, once each, and
\* nothing else is: no word is missed and none is removed twice.
LowAreQueued ==
    /\ \A n \in remaining : degrees[n] = Cardinality(graph[n] \cap remaining)
    /\ \A n \in Nodes : (n \in remaining /\ degrees[n] < k)
                            <=> \E i \in 1..Len(pending) : pending[i] = n
    /\ \A i, j \in 1..Len(pending) : i # j => pending[i] # pending[j]

\* What is left when the queue is empty is the core, in whatever order the
\* neighbours were looked at.
CoreFound == pending = <<>> => remaining = Core
=============================================================================
