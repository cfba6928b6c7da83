------------------------------- MODULE OneShot --------------------------------
(***************************************************************************)
(* What the confirmation ledger promises about one-shot permissions.  A    *)
(* permission is issued, is open for a while, then late, and closes for    *)
(* good; it may close at any time, for any reason, but time alone does not *)
(* close it.  A grant closes it.  An open permission is granted to         *)
(* whoever asks; a late one only to who asked for it before it was late    *)
(* and was kept waiting since.  Each grant allows one use.                 *)
(***************************************************************************)
EXTENDS Integers

CONSTANTS Nonces, Actors

VARIABLES
  phase,    \* what each permission is: not issued, open, late, or closed
  asked,    \* who asked for which permission and has not been answered
  granted,  \* how often it was granted
  used      \* how often it was used

vars == << phase, asked, granted, used >>

Init ==
  /\ phase = [n \in Nonces |-> "none"]
  /\ asked = {}
  /\ granted = [n \in Nonces |-> 0]
  /\ used = [n \in Nonces |-> 0]

Open == {n \in Nonces : phase[n] \in {"open", "late"}}

\* Every permission in S is closed by this step.
Closing(S, p) ==
  [n \in Nonces |-> IF n \in S THEN "closed" ELSE p[n]]

\* Someone asks, which a late permission no longer allows.
Ask(a, n) ==
  /\ phase[n] \notin {"none", "late"}
  /\ asked' = asked \cup {<< a, n >>}
  /\ UNCHANGED << phase, granted, used >>

\* An answer that grants nothing, or the end of who asked.
Withdraw ==
  /\ asked' \in SUBSET asked
  /\ UNCHANGED << phase, granted, used >>

\* A permission that took long to issue may be late, or closed, at once.
Issue(n) ==
  /\ phase[n] = "none"
  /\ \E S \in SUBSET (Open \cup {n}), first \in {"open", "late"} :
       phase' = Closing(S, [phase EXCEPT ![n] = first])
  /\ UNCHANGED << asked, granted, used >>

Grant(a, n) ==
  /\ << a, n >> \in asked
  /\ phase[n] \in {"open", "late"}
  /\ \E S \in SUBSET Open : phase' = Closing(S \cup {n}, phase)
  /\ asked' = asked \ {<< a, n >>}
  /\ granted' = [granted EXCEPT ![n] = @ + 1]
  /\ UNCHANGED used

Use(n) ==
  /\ used[n] < granted[n]
  /\ used' = [used EXCEPT ![n] = @ + 1]
  /\ UNCHANGED << phase, asked, granted >>

Close ==
  /\ \E S \in SUBSET Open : phase' = Closing(S, phase)
  /\ UNCHANGED << asked, granted, used >>

Lapse ==
  /\ \E S \in SUBSET Open :
       phase' = [n \in Nonces |-> IF n \in S THEN "late" ELSE phase[n]]
  /\ UNCHANGED << asked, granted, used >>

Next ==
  \/ Withdraw \/ Close \/ Lapse
  \/ \E n \in Nonces :
       \/ Issue(n) \/ Use(n)
       \/ \E a \in Actors : Ask(a, n) \/ Grant(a, n)

Spec == Init /\ [][Next]_vars
===============================================================================
