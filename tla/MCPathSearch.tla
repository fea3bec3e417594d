---------------------------- MODULE MCPathSearch ----------------------------
(***************************************************************************)
(* Every graph on a few words, every pair of words, and limits that stop   *)
(* the search at once, half-way and never.                                 *)
(***************************************************************************)
EXTENDS PathSearch

MCNodes == 1..4
MCLimits == {0, 1, 2, 20}
=============================================================================
