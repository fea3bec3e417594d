---------------------------- MODULE GraphQueries ----------------------------
(***************************************************************************)
(* The queries of the API that search without a limit: the shortest path   *)
(* between two words, and the dense subgraphs or components of a graph.    *)
(* Each works on a stored graph of its own copy; one query is followed.    *)
(***************************************************************************)
EXTENDS DenseSubgraphs

CONSTANT Start

ASSUME MarksAssumption == None \notin Nodes /\ Start \notin Nodes /\ None # Start

VARIABLES from, to, previous, queue, path

Shortest == INSTANCE ShortestPath

searchVars == <<from, to, previous, queue, path>>

QueriesInit ==
    /\ Init /\ RegionsInit
    /\ Shortest!NotAsked \/ (k = 0 /\ Shortest!SearchInit)

QueriesNext ==
    \/ Shortest!NotAsked /\ Regions /\ UNCHANGED searchVars
    \/ Shortest!Search /\ UNCHANGED <<vars, regionVars>>

QueriesSpec == QueriesInit /\ [][QueriesNext]_<<vars, regionVars, searchVars>>

\* The route for shortest paths answers with the first of the shortest.
FirstOfShortest == Shortest!FirstOfShortest
=============================================================================
