---------------------------- MODULE MCDeployment ----------------------------
(***************************************************************************)
(* Three workflows one after another, on two versions of the compute stack: *)
(* enough for a deployment, one that goes wrong, and one that meets what   *)
(* the second left.                                                        *)
(***************************************************************************)
EXTENDS Deployment, TLC

\* Only which versions are equal matters.
Symmetry == Permutations(Versions)
=============================================================================
