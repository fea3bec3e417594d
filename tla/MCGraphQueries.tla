--------------------------- MODULE MCGraphQueries ---------------------------
(***************************************************************************)
(* Every graph on a few words, every pair of them and every threshold that *)
(* matters there.                                                          *)
(***************************************************************************)
EXTENDS GraphQueries

MCNodes == 1..5
MCThresholds == 0..4
=============================================================================
