------------------------------- MODULE Followup -------------------------------
(***************************************************************************)
(* Following upstream issues (src/upstream/followup): subscriptions and    *)
(* the events handled for them, in one ledger.  Every operation that       *)
(* changes it is one transaction - load, change, prune, save by a rename - *)
(* under a lock with the protocol of LedgerLock, so here it is one step; a *)
(* process that dies in it leaves the ledger it found or the one it saved. *)
(*                                                                         *)
(* An event is delivered by the user, any number of times and in any       *)
(* order.  Its digest covers all it says, so the digest is modelled by     *)
(* what it says; the probes, capsule and draft computed from it before the *)
(* lock is taken depend on nothing in the ledger and are left out.         *)
(***************************************************************************)
EXTENDS Pruning

CONSTANTS
  Issues,        \* issues of the one repository
  Says,          \* what an event says: its issue, where it moves, the rest
  Ids,           \* event ids
  NoIssue, Nothing,
  MAX_SUBSCRIPTIONS,
  MAX_EVENTS_PER_ISSUE,
  CAPACITY,      \* FOLLOWUP_LEDGER_CAPACITY: events in all
  REFRESH_MIN,   \* REFRESH_MIN_INTERVAL_MS
  MaxNow         \* bound: the last instant of the clock

ASSUME FollowupAssumption ==
  /\ IsFiniteSet(Issues) /\ NoIssue \notin Issues /\ Nothing \notin Says
  /\ \A s \in Says : s.issue \in Issues /\ s.migrate \in Issues \cup {NoIssue}
  /\ MAX_SUBSCRIPTIONS \in Nat \ {0} /\ MAX_EVENTS_PER_ISSUE \in Nat \ {0}
  /\ CAPACITY \in Nat \ {0} /\ REFRESH_MIN \in Nat \ {0} /\ MaxNow \in Nat

VARIABLES now, subs, events

vars == << now, subs, events >>

Never == -1

\* A subscription; the ledger has at most one record of an issue.
Sub   == [active : BOOLEAN, since : Nat, refreshed : Nat \cup {Never},
          last : Says \cup {Nothing}]
NoSub == [active |-> FALSE, since |-> Never, refreshed |-> Never, last |-> Nothing]
Event == [says : Says, id : Ids, at : Nat]

Fresh(t) == [active |-> TRUE, since |-> t, refreshed |-> Never, last |-> Nothing]

Recorded(s) == {i \in Issues : s[i] # NoSub}
Active(s)   == {i \in Issues : s[i].active}

\* Mutant: audit records have a cap of their own.
KeptSubs_OwnCap(s) ==
  {Active(s) \cup R :
     R \in Newest(Recorded(s) \ Active(s), MAX_SUBSCRIPTIONS,
                  [i \in Issues |-> s[i].since])}

(***************************************************************************)
(* prune, the subscriptions: active ones stay, inactive ones fill up what  *)
(* is left, those subscribed last first.                                   *)
(***************************************************************************)
KeptSubs(s) ==
  {Active(s) \cup R :
     R \in Newest(Recorded(s) \ Active(s), MAX_SUBSCRIPTIONS - Cardinality(Active(s)),
                  [i \in Issues |-> s[i].since])}

Of(E, i) == {e \in E : e.says.issue = i}

\* What the cap of each issue leaves.
PerIssue(E) ==
  {P \in SUBSET E :
     \A i \in Issues :
       P \cap Of(E, i) \in Newest(Of(E, i), MAX_EVENTS_PER_ISSUE, [e \in E |-> e.at])}

\* Mutant: the total cap is applied before that of each issue.
KeptEvents_TotalFirst(E) ==
  UNION {PerIssue(P) : P \in Newest(E, CAPACITY, [e \in E |-> e.at])}

(***************************************************************************)
(* prune, the events: newest first, an event is passed over when its issue *)
(* has its share, and the rest is cut when the total is reached.           *)
(***************************************************************************)
KeptEvents(E) ==
  UNION {Newest(P, CAPACITY, [e \in E |-> e.at]) : P \in PerIssue(E)}

\* saveFollowupLedger: the ledgers that may end up on disk.
Saved(s, E) ==
  {<< [i \in Issues |-> IF i \in K THEN s[i] ELSE NoSub], F >> :
     K \in KeptSubs(s), F \in KeptEvents(E)}

\* appendEvent: the same id, or the same event of an issue, is not repeated.
Appended(E, e) ==
  IF \E f \in E : f.id = e.id \/ f.says = e.says THEN E ELSE E \cup {e}

\* Mutant: the digest of the event is not stored with the subscription.
Handled_NoDigest(sub, says, t) ==
  [sub EXCEPT !.refreshed = t, !.active = says.migrate = NoIssue]

\* processFollowupEvent: the subscription after an event.
Handled(sub, says, t) ==
  [sub EXCEPT !.refreshed = t, !.last = says, !.active = says.migrate = NoIssue]

\* Mutant: any record of the target, active or not, is taken for a subscription.
Migrated_AnyRecord(s, j, t) ==
  IF s[j] # NoSub THEN s
  ELSE [s EXCEPT ![j] = [Fresh(t) EXCEPT !.refreshed = t]]

\* A duplicate moves its subscription to the issue it names.
Migrated(s, j, t) ==
  IF s[j].active THEN s
  ELSE [s EXCEPT ![j] = [Fresh(t) EXCEPT !.refreshed = t]]

(***************************************************************************)
(* processFollowupEvent under the lock: an event of an issue not followed, *)
(* and the event handled last, change nothing.                             *)
(***************************************************************************)
Ignored(s, says) == ~s[says.issue].active \/ s[says.issue].last = says

SubsAfter(s, says, t) ==
  LET handled == [s EXCEPT ![says.issue] = Handled(@, says, t)]
  IN  IF says.migrate = NoIssue THEN handled ELSE Migrated(handled, says.migrate, t)

Delivered(s, E, says, id, t) ==
  IF Ignored(s, says) THEN {<< s, E >>}
  ELSE Saved(SubsAfter(s, says, t),
             Appended(E, [says |-> says, id |-> id, at |-> t]))

\* The hint of a session start, and what a refresh touches.
Due(s, t) ==
  {i \in Active(s) : s[i].refreshed = Never \/ t - s[i].refreshed >= REFRESH_MIN}

Init ==
  /\ now = 0
  /\ subs = [i \in Issues |-> NoSub]
  /\ events = {}

\* withFollowupLedgerTransaction: one of the ledgers is saved.
Transaction(ledgers) ==
  \E l \in ledgers : subs' = l[1] /\ events' = l[2] /\ UNCHANGED now

\* subscribeIssue: an active subscription stays as it is.
Subscribe(i) ==
  /\ ~subs[i].active
  /\ Cardinality(Active(subs)) < MAX_SUBSCRIPTIONS
  /\ Transaction(Saved([subs EXCEPT ![i] = Fresh(now)], events))

\* unsubscribeIssue.
Unsubscribe(i) ==
  /\ subs[i].active
  /\ Transaction(Saved([subs EXCEPT ![i].active = FALSE], events))

\* refreshFollowup without an event: local time stamps only.
Refresh ==
  /\ Due(subs, now) # {}
  /\ Transaction(Saved([i \in Issues |->
                          IF i \in Due(subs, now)
                          THEN [subs[i] EXCEPT !.refreshed = now] ELSE subs[i]],
                       events))

\* processFollowupEvent, also as refreshFollowup with an event.
Deliver(says, id) == Transaction(Delivered(subs, events, says, id, now))

Tick ==
  /\ now < MaxNow
  /\ now' = now + 1
  /\ UNCHANGED << subs, events >>

Next ==
  \/ Tick \/ Refresh
  \/ \E i \in Issues : Subscribe(i) \/ Unsubscribe(i)
  \/ \E says \in Says, id \in Ids : Deliver(says, id)

Spec == Init /\ [][Next]_vars

-----------------------------------------------------------------------------
TypeOK ==
  /\ now \in 0..MaxNow
  /\ subs \in [Issues -> Sub \cup {NoSub}]
  /\ events \subseteq Event

(***************************************************************************)
(* The caps of the saved ledger hold after every transaction, a migration  *)
(* with all subscriptions taken included: parseLedger can always load it.  *)
(***************************************************************************)
WithinCaps ==
  /\ Cardinality(Recorded(subs)) <= MAX_SUBSCRIPTIONS
  /\ Cardinality(events) <= CAPACITY
  /\ \A i \in Issues : Cardinality(Of(events, i)) <= MAX_EVENTS_PER_ISSUE

(***************************************************************************)
(* "Migrate local subscription": an issue stops being followed only when   *)
(* the user unsubscribes or when an event moves it to an issue that is     *)
(* followed from then on.                                                  *)
(***************************************************************************)
FollowedOn ==
  [][\A i \in Active(subs) \ Active(subs') :
       \/ Unsubscribe(i)
       \/ \E says \in Says, id \in Ids :
            /\ Deliver(says, id)
            /\ says.issue = i /\ says.migrate \in Active(subs')]_vars

(***************************************************************************)
(* "Keep newest; also per-issue cap": a busy issue cannot push out the     *)
(* events of another one; while the issues in the ledger fit with their    *)
(* full shares, an event only gives way to its own issue's newer ones.     *)
(***************************************************************************)
IssuesOf(E) == {e.says.issue : e \in E}

FairShare ==
  [][\A e \in events \ events' :
       \/ Cardinality(IssuesOf(events \cup events')) * MAX_EVENTS_PER_ISSUE > CAPACITY
       \/ Cardinality({f \in Of(events', e.says.issue) : f.at >= e.at})
            = MAX_EVENTS_PER_ISSUE]_vars

(***************************************************************************)
(* "Idempotent replay": delivering an event a second time, whenever that   *)
(* is but with no other event between, changes nothing, whether it was     *)
(* handled, moved its subscription or was ignored - except an event that   *)
(* moves an issue to itself, which renews the subscription it just ended.  *)
(***************************************************************************)
ReplayChangesNothing ==
  \A says \in Says, id \in Ids, t \in now..MaxNow :
    says.migrate # says.issue =>
      \A l \in Delivered(subs, events, says, id, now) :
        Delivered(l[1], l[2], says, id, t) = {l}
===============================================================================
