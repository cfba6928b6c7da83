------------------------------- MODULE Pruning -------------------------------
(***************************************************************************)
(* Keeping the newest of a list: both ledgers sort by a time stamp, newest *)
(* first, and cut (prune in src/upstream/actions/ledger.ts and in          *)
(* src/upstream/followup/ledger.ts).                                       *)
(***************************************************************************)
EXTENDS Integers, FiniteSets

\* The k members of S with the largest stamps; ties are cut either way.
Newest(S, k, stamp) ==
  IF k >= Cardinality(S) THEN {S}
  ELSE {R \in SUBSET S : /\ Cardinality(R) = k
                         /\ \A a \in R, b \in S \ R : stamp[a] >= stamp[b]}
==============================================================================
