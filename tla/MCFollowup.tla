----------------------------- MODULE MCFollowup ------------------------------
(* Instances of Followup for TLC. *)
EXTENDS Followup, TLC

CONSTANTS i1, i2, i3, b1, b2

\* Two things to say of the first issue, one of the others, and duplicates:
\* a chain that closes, and an issue that is called a duplicate of itself.
MCSays ==
  [issue : {i1, i2}, migrate : {NoIssue}, body : {b1, b2}]
    \cup [issue : {i3}, migrate : {NoIssue}, body : {b1}]
    \cup {[issue |-> i1, migrate |-> i2, body |-> b1],
          [issue |-> i2, migrate |-> i3, body |-> b1],
          [issue |-> i3, migrate |-> i1, body |-> b1],
          [issue |-> i1, migrate |-> i1, body |-> b1]}

Symmetry == Permutations(Ids)
==============================================================================
