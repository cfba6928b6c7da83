----------------------------- MODULE MCLedgerLock -----------------------------
(* Instances of LedgerLock for TLC. *)
EXTENDS LedgerLock, TLC

Symmetry == Permutations(Procs)
===============================================================================
