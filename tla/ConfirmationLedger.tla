-------------------------- MODULE ConfirmationLedger --------------------------
(***************************************************************************)
(* The document of the confirmation ledger and the operations on it        *)
(* (src/upstream/actions/ledger.ts).  Each operation runs under the        *)
(* exclusive lock of LedgerLock, so here it is one function from document  *)
(* to document.  A nonce without an entry has the entry NoEntry.           *)
(***************************************************************************)
EXTENDS Pruning

CONSTANTS
  Nonces,    \* one random nonce for each confirmation ever previewed
  CAPACITY,  \* CONFIRMATION_LEDGER_CAPACITY
  TTL        \* CONFIRMATION_TTL_MS

ASSUME LedgerAssumption ==
  /\ IsFiniteSet(Nonces)
  /\ CAPACITY \in Nat \ {0}
  /\ TTL \in Nat \ {0}

Terminal == {"consumed", "terminal_uncertain"}
Statuses == {"registered", "in_flight"} \cup Terminal

Entry   == [status : Statuses \cup {"absent"}, exp : Nat, reg : Nat, upd : Nat]
NoEntry == [status |-> "absent", exp |-> 0, reg |-> 0, upd |-> 0]
Docs    == [Nonces -> Entry]

EmptyDoc == [n \in Nonces |-> NoEntry]

Having(doc, S) == {n \in Nonces : doc[n].status \in S}
Keep(doc, K)   == [n \in Nonces |-> IF n \in K THEN doc[n] ELSE NoEntry]

\* The complement of isExpired.
Unexpired(doc, t) == {n \in Having(doc, Statuses) : doc[n].exp > t}

RegStamp(doc) == [n \in Nonces |-> doc[n].reg]
UpdStamp(doc) == [n \in Nonces |-> doc[n].upd]

\* Mutant: over capacity the newest entries stay, whatever their status.
Kept_NewestOnly(doc, t) == Newest(Unexpired(doc, t), CAPACITY, RegStamp(doc))

(***************************************************************************)
(* prune: expired entries go; over capacity, in_flight stays first, then   *)
(* registered, then the terminal entries updated last.  (More in_flight    *)
(* entries than CAPACITY cannot arise: a document has at most one entry    *)
(* over CAPACITY, and that one is registered.)                             *)
(***************************************************************************)
Kept(doc, t) ==
  LET live     == Unexpired(doc, t)
      flying   == live \cap Having(doc, {"in_flight"})
      waiting  == live \cap Having(doc, {"registered"})
      finished == live \cap Having(doc, Terminal)
      priority == Cardinality(flying) + Cardinality(waiting)
  IN  IF Cardinality(live) <= CAPACITY THEN {live}
      ELSE IF priority >= CAPACITY
      THEN {flying \cup R :
              R \in Newest(waiting, CAPACITY - Cardinality(flying), RegStamp(doc))}
      ELSE {flying \cup waiting \cup D :
              D \in Newest(finished, CAPACITY - priority, UpdStamp(doc))}

\* saveDocUnlocked: what ends up on disk.
Saved(doc, t) == {Keep(doc, K) : K \in Kept(doc, t)}

\* loadDocUnlocked: a stored document is within capacity, so prune only
\* drops what has expired.
Load(doc, t) == Keep(doc, Unexpired(doc, t))

\* getEntry, which takes no lock.
Get(doc, n, t) == Load(doc, t)[n]

\* register: its two refusals.
CanRegister(doc, n, t) ==
  /\ Get(doc, n, t) = NoEntry
  /\ Cardinality(Having(Load(doc, t), {"registered"})) < CAPACITY

\* register: the entry it pushes, and the save.
Registered(doc, n, t) ==
  Saved([Load(doc, t) EXCEPT ![n] =
           [status |-> "registered", exp |-> t + TTL, reg |-> t, upd |-> t]], t)

Restatus(doc, n, s, t) ==
  Saved([Load(doc, t) EXCEPT ![n].status = s, ![n].upd = t], t)

\* Mutant: a claim is granted on an entry that is already in flight.
CanClaim_Any(doc, n, t) == Get(doc, n, t).status \in {"registered", "in_flight"}

\* Mutant: a claim does not ask whether the entry has expired.
CanClaim_Expired(doc, n, t) == doc[n].status = "registered"

\* claimForExecute: the compare of the compare-and-swap.
CanClaim(doc, n, t) == Get(doc, n, t).status = "registered"

\* claimForExecute: the swap.
Claimed(doc, n, t) == Restatus(doc, n, "in_flight", t)

\* Mutant: a failed call gives its nonce back for another try.
Marked_GivesBack(doc, n, s, t) ==
  IF Get(doc, n, t).status \in {"registered", "in_flight"}
  THEN Restatus(doc, n, IF s = "consumed" THEN s ELSE "registered", t)
  ELSE {doc}

\* Mutant: only a claimed nonce can become terminal.
Marked_ClaimedOnly(doc, n, s, t) ==
  IF Get(doc, n, t).status = "in_flight" THEN Restatus(doc, n, s, t) ELSE {doc}

(***************************************************************************)
(* transition, as markConsumed and markTerminalUncertain call it:          *)
(* registered and in_flight become terminal, a terminal entry stays as it  *)
(* is, and a missing one is the LEDGER_NOT_REGISTERED the callers drop.    *)
(***************************************************************************)
Marked(doc, n, s, t) ==
  IF Get(doc, n, t).status \in {"registered", "in_flight"}
  THEN Restatus(doc, n, s, t)
  ELSE {doc}
===============================================================================
