---------------------------- MODULE ShortestPath ----------------------------
(***************************************************************************)
(* shortest_path of motor/graph.py: breadth first, the neighbours of a     *)
(* word in alphabetical order, a word reached from whoever comes to it     *)
(* first.  The path is read back from the target.  Both words are in the   *)
(* graph: others are refused before the search.                            *)
(***************************************************************************)
EXTENDS WordGraphs

CONSTANT Start          \* what `previous` has for the first word; None is for unseen ones

VARIABLES from, to,         \* the arguments, beside graph
          previous,         \* the word each word was reached from
          queue,            \* the words to be visited, in order
          path              \* the answer, None before it is known

SearchInit ==
    /\ from \in Nodes /\ to \in Nodes
    /\ previous = [n \in Nodes |-> IF n = from THEN Start ELSE None]
    /\ queue = <<from>>
    /\ path = None

\* No such query is asked.
NotAsked ==
    /\ from = None /\ to = None /\ path = None /\ queue = <<>>
    /\ previous = [n \in Nodes |-> None]

Unseen(n) == {m \in graph[n] : previous[m] = None}

\* Fault: a word seen before is reached again.
Reach_Again(n) ==
    /\ previous' = [m \in Nodes |-> IF m \in graph[n] /\ previous[m] # Start THEN n
                                                                   ELSE previous[m]]
    /\ \E s \in Sorted(Unseen(n)) : queue' = Tail(queue) \o s

Reach(n) ==
    /\ previous' = [m \in Nodes |-> IF m \in Unseen(n) THEN n ELSE previous[m]]
    /\ \E s \in Sorted(Unseen(n)) : queue' = Tail(queue) \o s

Visit ==
    /\ from # None /\ path = None /\ queue # <<>>
    /\ Head(queue) # to
    /\ Reach(Head(queue))
    /\ UNCHANGED <<graph, from, to, path>>

Known == {n \in Nodes : previous[n] # None}

\* The way back from the target, reversed.
WayTo(target) ==
    LET way[n \in Known] == IF previous[n] = Start THEN <<n>>
                                                   ELSE Append(way[previous[n]], n)
    IN way[target]

Arrive ==
    /\ from # None /\ path = None /\ queue # <<>>
    /\ Head(queue) = to
    /\ path' = WayTo(to)
    /\ UNCHANGED <<graph, from, to, previous, queue>>

GiveUp ==
    /\ from # None /\ path = None /\ queue = <<>>
    /\ path' = <<>>
    /\ UNCHANGED <<graph, from, to, previous, queue>>

Search == Visit \/ Arrive \/ GiveUp

-----------------------------------------------------------------------------
\* The paths of n words between the two.
PathsOf(n) == {p \in [1..n -> Nodes] : p[1] = from /\ p[n] = to /\ IsPath(graph, p)}

\* No way leads out of some part of the graph that has one of the words only.
Separated == \E S \in SUBSET Nodes : /\ from \in S /\ to \notin S
                                     /\ \A n \in S : graph[n] \subseteq S

\* The answer of shortest_path is a shortest path, and of those the first in
\* alphabetical order; it is empty exactly when there is none.
FirstOfShortest ==
    path # None =>
        IF path = <<>> THEN Separated
        ELSE /\ path \in PathsOf(Len(path))
             /\ \A n \in 1..(Len(path) - 1) : PathsOf(n) = {}
             /\ \A p \in PathsOf(Len(path)) \ {path} : Before(path, p)
=============================================================================
