--------------------------- MODULE MCSubmissions ---------------------------
(***************************************************************************)
(* Three calls of a few clients.  Words are 1 and 2; the lines 11 and 12   *)
(* are the same words in capitals, and 99 is not a word.                   *)
(***************************************************************************)
EXTENDS Submissions, TLC

MCNormal == [t \in {1, 2, 11, 12, 99} |-> CASE t = 99 -> 0
                                            [] t > 10 -> t - 10
                                            [] OTHER  -> t]

Sends(kind, key, words, partitions, source) ==
    [kind |-> kind, key |-> key, words |-> words, partitions |-> partitions,
     source |-> source]

Graph(key, words) == Sends("GRAPH_BUILD", key, words, 2, None)
Parts(key, words, n) == Sends("REDUCE_GRAPH", key, words, n, None)

MCRequests ==
    {Graph("k", <<1, 2>>), Graph("k", <<12, 11, 2>>), Graph("k", <<2>>),
     Graph(NoKey, <<1, 2>>), Graph("bad key", <<1>>),
     Parts("k", <<1, 2>>, 2), Parts("k", <<2, 99, 11>>, 2), Parts("k", <<1, 2>>, 1),
     Parts(NoKey, <<1, 2>>, 2), Parts("k", <<99>>, 2), Parts("k", <<1, 2>>, 0),
     Sends("REDUCE_GRAPH", "k", <<1, 2>>, 2, "words3")}

Symmetry == Permutations(Calls)
=============================================================================
