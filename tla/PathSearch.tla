----------------------------- MODULE PathSearch -----------------------------
(***************************************************************************)
(* _bounded_simple_paths of motor/graph.py, for all_simple_paths and for   *)
(* longest_simple_path: the simple paths between two words, depth first,   *)
(* under limits on states, paths, depth and time.                          *)
(*                                                                         *)
(* What a caller relies on is the report: complete, or the limit that      *)
(* stopped the search.  One round of the loop is one action.  The stack is *)
(* a sequence of paths with its top at the head; the current word of an    *)
(* entry is the last of its path and the visited words are those on it.    *)
(***************************************************************************)
EXTENDS WordGraphs

CONSTANT Limits         \* the limits a query may set; None is no limit

ASSUME LimitsAssumption == Limits \subseteq Nat /\ None \notin Nat

\* maxPaths is None for longest_simple_path, which collects no paths.
Queries == [from : Nodes, to : Nodes, maxStates : Limits \ {0},
            maxDepth : Limits \cup {None}, maxPaths : (Limits \ {0}) \cup {None}]

VARIABLES
    query,          \* the arguments, beside graph
    stack,          \* the paths to be followed further
    paths, best,    \* the paths found, and the longest found
    explored,       \* explored_states
    pruned,         \* depth_pruned
    outcome         \* "searching", "complete" or the stop reason

boundedVars == <<graph, query, stack, paths, best, explored, pruned, outcome>>

Outcomes == {"searching", "complete", "timeout", "max_states", "max_paths", "max_depth"}

Collects == query.maxPaths # None

BoundedTypeOK ==
    /\ graph \in Graphs
    /\ query \in Queries
    /\ stack \in Seq(Seq(Nodes) \ {<<>>})
    /\ paths \in Seq(Seq(Nodes)) /\ (~ Collects => paths = <<>>)
    /\ best \in Seq(Nodes)
    /\ explored \in 0..query.maxStates
    /\ pruned \in BOOLEAN
    /\ outcome \in Outcomes

BoundedInit ==
    /\ graph \in Graphs
    /\ query \in Queries
    /\ stack = <<<<query.from>>>>
    /\ paths = <<>>
    /\ best = <<>>
    /\ explored = 0
    /\ pruned = FALSE
    /\ outcome = "searching"

-----------------------------------------------------------------------------
Unvisited(p) == {n \in graph[Here(p)] : \A i \in 1..Len(p) : p[i] # n}

\* Fault: the first path found is kept.
Better_First(p) == best = <<>>

Better(p) == \/ best = <<>>
             \/ Len(p) > Len(best)
             \/ Len(p) = Len(best) /\ Before(p, best)

\* The deadline has passed; the clock is looked at before every round.
Timeout ==
    /\ outcome = "searching" /\ stack # <<>>
    /\ outcome' = "timeout"
    /\ UNCHANGED <<graph, query, stack, paths, best, explored, pruned>>

StopAtStates ==
    /\ outcome = "searching" /\ stack # <<>>
    /\ explored >= query.maxStates
    /\ outcome' = "max_states"
    /\ UNCHANGED <<graph, query, stack, paths, best, explored, pruned>>

\* An entry is taken off the stack.
Pops ==
    /\ outcome = "searching" /\ stack # <<>>
    /\ explored < query.maxStates
    /\ explored' = explored + 1
    /\ UNCHANGED <<graph, query>>

\* It has reached the other word.  The search stops at the limit on paths only
\* if there is something left to follow.
Arrive ==
    /\ Pops
    /\ Here(Head(stack)) = query.to
    /\ stack' = Tail(stack)
    /\ best' = IF Better(Head(stack)) THEN Head(stack) ELSE best
    /\ paths' = IF Collects THEN Append(paths, Head(stack)) ELSE paths
    /\ outcome' = IF Collects /\ Len(paths') >= query.maxPaths /\ stack' # <<>>
                  THEN "max_paths" ELSE "searching"
    /\ UNCHANGED pruned

\* How deep an entry is: the edges of its path.
AtDepth(p) == query.maxDepth # None /\ Len(p) - 1 >= query.maxDepth

\* Fault: nobody remembers that something was left out.
TurnBack_Silent ==
    /\ Pops
    /\ Here(Head(stack)) # query.to
    /\ AtDepth(Head(stack))
    /\ stack' = Tail(stack)
    /\ UNCHANGED <<paths, best, outcome, pruned>>

\* It is as deep as the query allows.
TurnBack ==
    /\ Pops
    /\ Here(Head(stack)) # query.to
    /\ AtDepth(Head(stack))
    /\ stack' = Tail(stack)
    /\ pruned' = (pruned \/ Unvisited(Head(stack)) # {})
    /\ UNCHANGED <<paths, best, outcome>>

\* Fault: the neighbours are pushed in alphabetical order, so that the last of
\* them is followed first.
Expand_Forward ==
    /\ Pops
    /\ Here(Head(stack)) # query.to
    /\ ~ AtDepth(Head(stack))
    /\ \E s \in Sorted(Unvisited(Head(stack))) :
          stack' = [i \in DOMAIN s |-> Append(Head(stack), s[Len(s) + 1 - i])] \o Tail(stack)
    /\ UNCHANGED <<paths, best, pruned, outcome>>

\* Its neighbours are pushed in reverse, so that the first of them is followed
\* first.
Expand ==
    /\ Pops
    /\ Here(Head(stack)) # query.to
    /\ ~ AtDepth(Head(stack))
    /\ \E s \in Sorted(Unvisited(Head(stack))) :
          stack' = [i \in DOMAIN s |-> Append(Head(stack), s[i])] \o Tail(stack)
    /\ UNCHANGED <<paths, best, pruned, outcome>>

Finish ==
    /\ outcome = "searching" /\ stack = <<>>
    /\ outcome' = IF pruned THEN "max_depth" ELSE "complete"
    /\ UNCHANGED <<graph, query, stack, paths, best, explored, pruned>>

BoundedNext == Timeout \/ StopAtStates \/ Arrive \/ TurnBack \/ Expand \/ Finish

BoundedSpec == BoundedInit /\ [][BoundedNext]_boundedVars

-----------------------------------------------------------------------------
(* The answer, said without searching.                                     *)

\* The simple paths from one word to the other.
Joins(p) ==
    /\ p # <<>> /\ p[1] = query.from /\ Here(p) = query.to
    /\ IsPath(graph, p)

Within(p) == query.maxDepth = None \/ Len(p) - 1 <= query.maxDepth

\* A path no longer than the graph has words.
Candidates == UNION {[1..n -> Nodes] : n \in 1..Cardinality(Nodes)}

Answers == {p \in Candidates : Joins(p) /\ Within(p)}

Found == {paths[i] : i \in 1..Len(paths)}

\* At every moment, and whatever stopped the search, the paths found are the
\* first of the answers in alphabetical order: none is wrong, none is skipped,
\* none is repeated.
FirstInOrder ==
    Collects =>
        /\ Found \subseteq Answers
        /\ \A i, j \in 1..Len(paths) : i < j => Before(paths[i], paths[j])
        /\ \A p \in Answers : (\E q \in Found : Before(p, q)) => p \in Found

\* p is the answer of longest_simple_path when S are the paths there are.
IsLongest(p, S) ==
    /\ p \in S
    /\ \A q \in S \ {p} : Len(p) > Len(q) \/ (Len(p) = Len(q) /\ Before(p, q))

\* When the search says it is complete there is no other path, of any length,
\* and best is the longest.  When it says that only the depth stopped it, that is
\* true of the paths within the depth.
ReportExact ==
    outcome \in {"complete", "max_depth"} =>
        LET S == IF outcome = "complete" THEN {p \in Candidates : Joins(p)} ELSE Answers
        IN  /\ Collects => Found = S
            /\ IF S = {} THEN best = <<>> ELSE IsLongest(best, S)

\* q is how p begins.
Begins(q, p) == Len(q) <= Len(p) /\ \A i \in 1..Len(q) : q[i] = p[i]

\* The answers met so far: those that extend nothing that is still to be followed.
Met == {p \in Answers : \A i \in 1..Len(stack) : ~ Begins(stack[i], p)}

\* At every moment, and whatever stopped the search, the answers met are the first in
\* alphabetical order and best is the longest of them: what longest_simple_path returns,
\* which collects no paths, and what its limits may cut it down to.
BestOfMet ==
    /\ \A p \in Met, q \in Answers \ Met : Before(p, q)
    /\ Collects => Found = Met
    /\ IF Met = {} THEN best = <<>> ELSE IsLongest(best, Met)
=============================================================================
