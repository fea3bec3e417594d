-------------------------- MODULE MCGraphPartition --------------------------
(***************************************************************************)
(* All the words of two letters over two letters, so that a word has a     *)
(* neighbour at each place, and one word that has none, in two partitions. *)
(***************************************************************************)
EXTENDS GraphPartition, TLC

MCLetters == {"a", "b"}
MCWords == {<<"a">>, <<"a", "a">>, <<"a", "b">>, <<"b", "a">>, <<"b", "b">>}
=============================================================================
