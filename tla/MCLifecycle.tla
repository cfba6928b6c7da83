------------------------------ MODULE MCLifecycle -----------------------------
(* Instances of Lifecycle for TLC. *)
EXTENDS Lifecycle, TLC

Symmetry == Permutations(Procs) \cup Permutations(Contents) \cup Permutations(Digests)

\* Bound: a behaviour with a live measurement makes at most one record.
MeasuredMakesOne == measured = 0 \/ next <= 2
===============================================================================
