---------------------------- MODULE MCDeployment ----------------------------
(* Instance of Deployment for TLC. *)
EXTENDS Deployment, TLC

Symmetry == Permutations(Ids) \cup Permutations(Tokens) \cup Permutations(Seeds)
=============================================================================
