---------------------------- MODULE MCDeployment ----------------------------
(***************************************************************************)
(* Deployment for TLC: the processes are interchangeable.                  *)
(***************************************************************************)
EXTENDS Deployment, TLC

Symmetry == Permutations(Loaders) \cup Permutations(Updaters)

=============================================================================
