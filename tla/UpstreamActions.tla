--------------------------- MODULE UpstreamActions ----------------------------
(***************************************************************************)
(* Preview and confirmation of an upstream action (src/upstream/actions):  *)
(* a preview mints a one-shot token and registers its nonce; any number of *)
(* confirm and cancel calls then race for it in several processes, each    *)
(* reading the ledger without the lock, changing it under the lock and     *)
(* calling the remote between two changes.  A call can die at any step, a  *)
(* ledger operation can fail with the lock busy, entries expire and are    *)
(* pruned.                                                                 *)
(*                                                                         *)
(* Each operation takes its nowMs before it waits for the lock (up to 2 s, *)
(* or longer if the process is held up), so a transaction compares and     *)
(* stamps with a reading of the clock taken at any instant since the       *)
(* process reached that operation.  No caller outside the tests passes a   *)
(* nowMs of its own.                                                       *)
(***************************************************************************)
EXTENDS ConfirmationLedger

CONSTANTS
  Actors,    \* processes confirming or cancelling
  NoNonce,   \* the nonce of a process outside a call
  Busy,      \* the steps whose ledger operation may fail (LEDGER_LOCK, LEDGER_IO)
  Crashes,   \* TRUE: a process may die inside a call
  MaxNow     \* bound: the last instant of the clock

ASSUME ActionsAssumption ==
  /\ NoNonce \notin Nonces
  /\ Busy \subseteq {"parse", "cancel", "cancelAgain", "claim", "settle"}
  /\ Crashes \in BOOLEAN /\ MaxNow \in Nat

VARIABLES
  now,       \* the clock
  ledger,    \* the document on disk
  expires,   \* expires_at of the tokens handed out, 0 before the preview
  pc, call,  \* each process: its step, and what it is confirming
  since,     \* when the process reached the ledger operation it is at
  voided,    \* history: nonces a cancel marked under the lock, in their time
  claims,    \* history: successful claims of a nonce
  executed,  \* history: adapter.execute calls made for a nonce
  reports    \* history: which outcomes were returned for a nonce

vars  == << now, ledger, expires, pc, call, since, voided, claims, executed,
            reports >>

Steps    == {"idle", "parse", "cancel", "cancelled", "cancelAgain",
             "claim", "execute", "query", "settle"}
Outcomes == {"EXECUTED", "DUPLICATE_EXISTING", "UNCERTAIN_NO_RETRY", "FAILED"}

Calls  == [nonce : Nonces, decision : {"confirm", "cancel"},
           outcome : Outcomes \cup {"none"}]
NoCall == [nonce |-> NoNonce, decision |-> "cancel", outcome |-> "none"]

Nonce(a) == call[a].nonce

\* The steps that begin by reading the clock for a ledger operation.
Timed == {"parse", "cancel", "cancelled", "cancelAgain", "claim", "settle"}

\* What the nowMs of the operation a is at may be.
Readings(a) == since[a]..now

\* The status getEntry or a transaction finds at reading t.
Status(a, t) == Get(ledger, Nonce(a), t).status

Goto(a, to) ==
  /\ pc' = [pc EXCEPT ![a] = to]
  /\ since' = [since EXCEPT ![a] = IF to \in Timed THEN now ELSE 0]

\* The call ends and its caller is told s.
Return(a, s) ==
  /\ Goto(a, "idle")
  /\ call' = [call EXCEPT ![a] = NoCall]
  /\ reports' = [reports EXCEPT ![Nonce(a)] = @ \cup ({s} \cap Outcomes)]

\* The call goes on at step `to`.
Continue(a, to) ==
  /\ Goto(a, to)
  /\ UNCHANGED << call, reports >>

Init ==
  /\ now = 0
  /\ ledger = EmptyDoc
  /\ expires = [n \in Nonces |-> 0]
  /\ pc = [a \in Actors |-> "idle"]
  /\ call = [a \in Actors |-> NoCall]
  /\ since = [a \in Actors |-> 0]
  /\ voided = {}
  /\ claims = [n \in Nonces |-> 0]
  /\ executed = [n \in Nonces |-> 0]
  /\ reports = [n \in Nonces |-> {}]

(***************************************************************************)
(* previewUpstreamAction: mintConfirmation registers a fresh nonce before  *)
(* it returns the token; a refused registration returns none.  Its reading *)
(* of the clock, from which the expiry is reckoned, is older than the      *)
(* registration by two waits for the lock.                                 *)
(***************************************************************************)
Preview(n) ==
  /\ expires[n] = 0
  /\ now + TTL <= MaxNow
  /\ \E t \in 0..now :
       /\ CanRegister(ledger, n, t)
       /\ ledger' \in Registered(ledger, n, t)
       /\ expires' = [expires EXCEPT ![n] = t + TTL]
  /\ UNCHANGED << now, pc, call, since, voided, claims, executed, reports >>

\* confirmUpstreamAction is called with a token and a decision.
Confirm(a, n) ==
  /\ pc[a] = "idle"
  /\ expires[n] # 0
  /\ \E d \in {"confirm", "cancel"} :
       call' = [call EXCEPT ![a] = [nonce |-> n, decision |-> d, outcome |-> "none"]]
  /\ Goto(a, "parse")
  /\ UNCHANGED << now, ledger, expires, voided, claims, executed, reports >>

(***************************************************************************)
(* parseConfirmationToken on a token whose binding and mac are right.  One *)
(* reading of the clock serves the token's own expiry and, after the wait  *)
(* for the lock of the HMAC key, the unlocked read of the entry.  A        *)
(* decision to confirm goes on to the claim, or ends with a draft if the   *)
(* adapter has no authentication.                                          *)
(***************************************************************************)
Parse(a) ==
  /\ pc[a] = "parse"
  /\ \E t \in Readings(a) :
       \/ "parse" \in Busy /\ Return(a, "INVALID_CONFIRMATION")  \* loadOrCreateHmacKey
       \/ expires[Nonce(a)] <= t /\ Return(a, "EXPIRED_CONFIRMATION")
       \/ /\ expires[Nonce(a)] > t
          /\ \/ Status(a, t) = "absent" /\ Return(a, "INVALID_CONFIRMATION")
             \/ Status(a, t) = "in_flight" /\ Return(a, "IN_FLIGHT_NO_RETRY")
             \/ Status(a, t) \in Terminal /\ Return(a, "REPLAYED_CONFIRMATION")
             \/ /\ Status(a, t) = "registered"
                /\ IF call[a].decision = "cancel"
                   THEN Continue(a, "cancel")
                   ELSE Continue(a, "claim") \/ Return(a, "ADAPTER_UNAVAILABLE")
  /\ UNCHANGED << now, ledger, expires, voided, claims, executed >>

\* A best-effort mark: the new document, or the old one if the lock is busy.
TryMark(a, s) ==
  \/ \E t \in Readings(a) : ledger' \in Marked(ledger, Nonce(a), s, t)
  \/ pc[a] \in Busy /\ UNCHANGED ledger

(***************************************************************************)
(* A mark made by a cancel.  transition drops the entry it is to mark if   *)
(* its reading is past the expiry, and then writes nothing.                *)
(***************************************************************************)
CancelMark(a, s) ==
  \/ \E t \in Readings(a) :
       /\ ledger' \in Marked(ledger, Nonce(a), s, t)
       /\ voided' = IF t < expires[Nonce(a)] THEN voided \cup {Nonce(a)} ELSE voided
  \/ pc[a] \in Busy /\ UNCHANGED << ledger, voided >>

\* tryConsumeConfirmationNonce on the cancel path.
Cancel(a) ==
  /\ pc[a] = "cancel"
  /\ CancelMark(a, "consumed")
  /\ Continue(a, "cancelled")
  /\ UNCHANGED << now, expires, claims, executed >>

\* The entry is read again; if it is still registered there is a second try.
CheckCancelled(a) ==
  /\ pc[a] = "cancelled"
  /\ \E t \in Readings(a) :
       IF Status(a, t) = "registered"
       THEN Continue(a, "cancelAgain")
       ELSE Return(a, "CANCELLED")
  /\ UNCHANGED << now, ledger, expires, voided, claims, executed >>

\* CANCELLED is returned whether or not either mark was made.
CancelAgain(a) ==
  /\ pc[a] = "cancelAgain"
  /\ CancelMark(a, "terminal_uncertain")
  /\ Return(a, "CANCELLED")
  /\ UNCHANGED << now, expires, claims, executed >>

(***************************************************************************)
(* claimConfirmationForExecute: the compare-and-swap registered ->         *)
(* in_flight, or its refusal.  An entry that had expired at the reading is *)
(* dropped by the load, so it is refused as not_registered; one that has   *)
(* expired since is claimed all the same.                                  *)
(***************************************************************************)
Claim(a) ==
  /\ pc[a] = "claim"
  /\ \/ \E t \in Readings(a) :
          /\ CanClaim(ledger, Nonce(a), t)
          /\ ledger' \in Claimed(ledger, Nonce(a), t)
          /\ claims' = [claims EXCEPT ![Nonce(a)] = @ + 1]
          /\ Continue(a, "execute")
     \/ \E t \in Readings(a) :
          /\ ~CanClaim(ledger, Nonce(a), t)
          /\ Return(a, CASE Status(a, t) = "in_flight" -> "IN_FLIGHT_NO_RETRY"
                         [] Status(a, t) = "absent"    -> "INVALID_CONFIRMATION"
                         [] OTHER                      -> "REPLAYED_CONFIRMATION")
          /\ UNCHANGED << ledger, claims >>
     \/ /\ "claim" \in Busy
        /\ \E s \in {"IN_FLIGHT_NO_RETRY", "INVALID_CONFIRMATION"} : Return(a, s)
        /\ UNCHANGED << ledger, claims >>
  /\ UNCHANGED << now, expires, voided, executed >>

(***************************************************************************)
(* adapter.execute: done, found to be done already, of unknown effect (it  *)
(* threw, lost its authentication or answered incompletely), failed, or    *)
(* timed out.                                                              *)
(***************************************************************************)
Execute(a) ==
  /\ pc[a] = "execute"
  /\ executed' = [executed EXCEPT ![Nonce(a)] = @ + 1]
  /\ \/ Goto(a, "query") /\ UNCHANGED call
     \/ \E o \in Outcomes : /\ call' = [call EXCEPT ![a].outcome = o]
                            /\ Goto(a, "settle")
  /\ UNCHANGED << now, ledger, expires, voided, claims, reports >>

\* After a timeout the remote is asked about the idempotency key, once.
Query(a) ==
  /\ pc[a] = "query"
  /\ \E o \in {"DUPLICATE_EXISTING", "UNCERTAIN_NO_RETRY"} :
       call' = [call EXCEPT ![a].outcome = o]
  /\ Goto(a, "settle")
  /\ UNCHANGED << now, ledger, expires, voided, claims, executed, reports >>

\* What the ledger is told about an outcome.
MarkFor(o) == IF o \in {"EXECUTED", "DUPLICATE_EXISTING"}
              THEN "consumed" ELSE "terminal_uncertain"

\* The outcome is recorded, best effort, and returned.
Settle(a) ==
  /\ pc[a] = "settle"
  /\ TryMark(a, MarkFor(call[a].outcome))
  /\ Return(a, call[a].outcome)
  /\ UNCHANGED << now, expires, voided, claims, executed >>

\* The process dies; the ledger keeps what it has.
Crash(a) ==
  /\ Crashes
  /\ pc[a] # "idle"
  /\ Goto(a, "idle")
  /\ call' = [call EXCEPT ![a] = NoCall]
  /\ UNCHANGED << now, ledger, expires, voided, claims, executed, reports >>

Tick ==
  /\ now < MaxNow
  /\ now' = now + 1
  /\ UNCHANGED << ledger, expires, pc, call, since, voided, claims, executed,
                  reports >>

Step(a) ==
  \/ Parse(a) \/ Cancel(a) \/ CheckCancelled(a) \/ CancelAgain(a)
  \/ Claim(a) \/ Execute(a) \/ Query(a) \/ Settle(a)

Next ==
  \/ Tick
  \/ \E n \in Nonces : Preview(n) \/ \E a \in Actors : Confirm(a, n)
  \/ \E a \in Actors : Step(a) \/ Crash(a)

Spec == Init /\ [][Next]_vars

-----------------------------------------------------------------------------
TypeOK ==
  /\ now \in 0..MaxNow
  /\ ledger \in Docs
  /\ expires \in [Nonces -> Nat]
  /\ pc \in [Actors -> Steps]
  /\ call \in [Actors -> Calls \cup {NoCall}]
  /\ \A a \in Actors : pc[a] # "idle" => call[a] \in Calls
  /\ \A a \in Actors : pc[a] = "settle" => call[a].outcome # "none"
  /\ since \in [Actors -> 0..MaxNow]
  /\ \A a \in Actors : since[a] <= now
  /\ voided \in SUBSET Nonces
  /\ claims \in [Nonces -> Nat]
  /\ executed \in [Nonces -> Nat]
  /\ reports \in [Nonces -> SUBSET Outcomes]

(***************************************************************************)
(* The point of the ledger: whatever races, crashes, expires or fails, the *)
(* remote is asked at most once to perform a previewed action.             *)
(***************************************************************************)
AtMostOneExecute == \A n \in Nonces : executed[n] <= 1

(***************************************************************************)
(* "Never restore registered": once a nonce has been claimed, no ledger on *)
(* disk ever shows it as registered again.                                 *)
(***************************************************************************)
ClaimIsFinal ==
  \A n \in Nonces : claims[n] > 0 => ledger[n].status # "registered"

(***************************************************************************)
(* Callers never hear two different outcomes of one action: of EXECUTED,   *)
(* DUPLICATE_EXISTING, UNCERTAIN_NO_RETRY and FAILED at most one is ever   *)
(* returned for a nonce.                                                   *)
(***************************************************************************)
OneOutcome ==
  \A n \in Nonces : \A r, s \in reports[n] \cap Outcomes : r = s

(***************************************************************************)
(* prune never drops a claim: an in_flight entry leaves the ledger only by *)
(* expiry, by its time; capacity pressure cannot make it confirmable or    *)
(* make it disappear.                                                      *)
(***************************************************************************)
InFlightKept ==
  [][\A n \in Nonces :
       ledger[n].status = "in_flight" /\ ledger'[n].status \notin Terminal
         => ledger'[n] = ledger[n] \/ ledger[n].exp <= now]_vars

(***************************************************************************)
(* "Consume nonce so it cannot be confirmed later": once a cancel has made *)
(* one of its two marks, by a reading of the clock before the expiry, no   *)
(* claim of the nonce is ever granted, whatever a confirm that waits for   *)
(* the lock had read before.  A cancel answers CANCELLED without a mark as *)
(* well, when the lock was busy both times or the token ran out on the     *)
(* way; then a confirm may still be granted, and this promises nothing.    *)
(***************************************************************************)
CancelBlocksClaim ==
  [][\A n \in voided : claims'[n] = claims[n]]_vars

(***************************************************************************)
(* "Cancel does not claim/execute - registered -> consumed under ledger    *)
(* lock": cancelling changes registered entries and no others.             *)
(***************************************************************************)
CancelOnlyFromRegistered ==
  [][\A a \in Actors :
       Cancel(a) => \A n \in Nonces :
         ledger'[n].status = "consumed" =>
           ledger[n].status \in {"registered", "consumed"}]_vars

(***************************************************************************)
(* The abstract one-shot permissions these actions implement.  A nonce is  *)
(* open while it is registered, and late from its expiry until a writer of *)
(* the ledger drops it; a process has asked when it reached its claim in   *)
(* the nonce's time.                                                       *)
(***************************************************************************)
PhaseOf(n) == IF expires[n] = 0 THEN "none"
              ELSE IF ledger[n].status # "registered" THEN "closed"
              ELSE IF expires[n] <= now THEN "late" ELSE "open"

Asked ==
  {an \in Actors \X Nonces :
     /\ pc[an[1]] = "claim" /\ Nonce(an[1]) = an[2]
     /\ since[an[1]] < expires[an[2]]}

Abstract == INSTANCE OneShot WITH
  phase <- [n \in Nonces |-> PhaseOf(n)], asked <- Asked,
  granted <- claims, used <- executed

(***************************************************************************)
(* Every step of previews, confirms, cancels, crashes and the clock is a   *)
(* step of one-shot permissions, or none: no permission is granted twice,  *)
(* none after it was closed, and after its time only to a confirm that     *)
(* reached its claim in time and was kept waiting for the lock.            *)
(***************************************************************************)
ImplementsOneShot == Abstract!Spec
===============================================================================
