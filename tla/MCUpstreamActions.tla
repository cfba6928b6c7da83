-------------------------- MODULE MCUpstreamActions ---------------------------
(* Instances of UpstreamActions for TLC. *)
EXTENDS UpstreamActions, TLC

Symmetry == Permutations(Nonces) \cup Permutations(Actors)
===============================================================================
