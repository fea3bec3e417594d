--------------------------- MODULE DenseSubgraphs ---------------------------
(***************************************************************************)
(* dense_subgraphs of motor/graph.py: components, run on what k_core has   *)
(* left (Peeling).  k = 0 removes nothing and stands for components on the *)
(* graph itself, as summary calls it.                                      *)
(*                                                                         *)
(* The list of words to look at is filled in the order of a Python set, so *)
(* which of them is next is any of them; a group, returned as a sorted     *)
(* list, is the set of its words.                                          *)
(***************************************************************************)
EXTENDS Peeling

VARIABLES seen,         \* the words that have been put into a group
          group,        \* the words of this group looked at so far
          frontier,     \* those of it still to be looked at
          regions       \* the groups, in the order they were found

regionVars == <<seen, group, frontier, regions>>

RegionsInit == seen = {} /\ group = {} /\ frontier = {} /\ regions = <<>>

\* Fault: the words that were peeled off are followed as well.
Neighbours_Whole(n) == graph[n]

\* The graph k_core returns.
Neighbours(n) == graph[n] \cap remaining

Peeled == pending = <<>>

\* The next word, in alphabetical order, that is in no group.
OpenGroup ==
    /\ Peeled /\ group = {} /\ frontier = {}
    /\ \E n \in remaining \ seen :
          /\ \A m \in remaining \ seen : n <= m
          /\ seen' = seen \cup {n} /\ frontier' = {n}
    /\ UNCHANGED <<vars, group, regions>>

Follow ==
    \E n \in frontier :
        /\ group' = group \cup {n}
        /\ seen' = seen \cup Neighbours(n)
        /\ frontier' = (frontier \ {n}) \cup (Neighbours(n) \ seen)
        /\ UNCHANGED <<vars, regions>>

CloseGroup ==
    /\ group # {} /\ frontier = {}
    /\ regions' = Append(regions, group) /\ group' = {}
    /\ UNCHANGED <<vars, seen, frontier>>

Regions == (Peel /\ UNCHANGED regionVars) \/ OpenGroup \/ Follow \/ CloseGroup

-----------------------------------------------------------------------------
\* Words of the core with all the neighbours they have there.
Apart(S) == S # {} /\ S \subseteq Core /\ \A n \in S : graph[n] \cap Core \subseteq S

\* A connected part: none of its own parts is apart.
Connected(S) == Apart(S) /\ \A T \in SUBSET S : Apart(T) => T = S

Finished == Peeled /\ group = {} /\ frontier = {} /\ remaining \subseteq seen

\* dense_subgraphs returns the connected parts of the k-core, each whole and each once,
\* in the order of their first words, whatever order sets are walked in; those returned
\* so far are right at any time.
RegionsExact ==
    /\ \A i \in 1..Len(regions) : Connected(regions[i])
    /\ \A i, j \in 1..Len(regions) :
          i < j => \E n \in regions[i] : \A m \in regions[j] : n < m
    /\ Finished => UNION {regions[i] : i \in 1..Len(regions)} = Core
=============================================================================
