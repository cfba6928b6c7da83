--------------------------- MODULE Followup_proofs ----------------------------
(***************************************************************************)
(* For any issues, events, ids and caps: the types, the caps of a saved    *)
(* ledger, and that an issue is followed until the user or an event that   *)
(* moves the subscription ends it.                                         *)
(***************************************************************************)
EXTENDS Followup, FiniteSetTheorems, FunctionTheorems, TLAPS

-----------------------------------------------------------------------------
(* What prune keeps. *)

(* The newest k members of a finite set are at most k of its members. *)
LEMMA NewestSize ==
  ASSUME NEW S, IsFiniteSet(S), NEW k \in Nat, NEW stamp, NEW R \in Newest(S, k, stamp)
  PROVE  R \subseteq S /\ IsFiniteSet(R) /\ Cardinality(R) <= k
<1>1. Cardinality(S) \in Nat
  BY FS_CardinalityType
<1>2. CASE k >= Cardinality(S)
  BY <1>1, <1>2 DEF Newest
<1>3. CASE ~(k >= Cardinality(S))
  <2>1. R \in SUBSET S /\ Cardinality(R) = k
    BY <1>3 DEF Newest
  <2> QED
    BY <2>1, FS_Subset
<1> QED
  BY <1>2, <1>3

Typed == [Issues -> Sub \cup {NoSub}]

\* What the operations hand to the save.
Savable(s) == s \in Typed /\ Cardinality(Active(s)) <= MAX_SUBSCRIPTIONS

(* Issues are finitely many, and so are the subscriptions. *)
LEMMA IssuesFinite ==
  ASSUME NEW s
  PROVE  /\ IsFiniteSet(Active(s)) /\ Cardinality(Active(s)) \in Nat
         /\ IsFiniteSet(Recorded(s)) /\ Cardinality(Recorded(s)) \in Nat
<1>1. Active(s) \in SUBSET Issues /\ Recorded(s) \in SUBSET Issues
  BY DEF Active, Recorded
<1> QED
  BY <1>1, FS_Subset, FS_CardinalityType, FollowupAssumption

(* An active subscription is a record. *)
LEMMA ActiveRecorded ==
  ASSUME NEW s \in Typed
  PROVE  /\ Active(s) \subseteq Recorded(s)
         /\ \A i \in Active(s) : s[i] \in Sub
  BY DEF Active, Recorded, Typed, NoSub

(* Pruning keeps every active subscription, and at most the cap of records. *)
LEMMA SubsKept ==
  ASSUME NEW s, Savable(s), NEW K \in KeptSubs(s)
  PROVE  Active(s) \subseteq K /\ IsFiniteSet(K) /\ Cardinality(K) <= MAX_SUBSCRIPTIONS
<1> DEFINE rest  == Recorded(s) \ Active(s)
           room  == MAX_SUBSCRIPTIONS - Cardinality(Active(s))
           stamp == [i \in Issues |-> s[i].since]
<1>1. PICK R \in Newest(rest, room, stamp) : K = Active(s) \cup R
  BY DEF KeptSubs
<1>2. room \in Nat
  BY IssuesFinite, FollowupAssumption DEF Savable
<1>3. IsFiniteSet(rest)
  BY IssuesFinite, FS_Difference
<1> HIDE DEF rest, room, stamp
<1>4. R \subseteq rest /\ IsFiniteSet(R) /\ Cardinality(R) <= room
  BY <1>2, <1>3, NewestSize
<1>5. /\ IsFiniteSet(Active(s) \cup R)
      /\ Cardinality(Active(s) \cup R)
           = Cardinality(Active(s)) + Cardinality(R) - Cardinality(Active(s) \cap R)
  BY <1>4, IssuesFinite, FS_Union
<1>6. Active(s) \cap R = {}
  BY <1>4 DEF rest
<1>7. Cardinality(Active(s) \cap R) = 0 /\ Cardinality(R) \in Nat
  BY <1>4, <1>6, FS_EmptySet, FS_CardinalityType
<1>8. Cardinality(Active(s)) + Cardinality(R) <= MAX_SUBSCRIPTIONS
  BY <1>4, <1>7, IssuesFinite, FollowupAssumption DEF room
<1> QED
  BY <1>1, <1>5, <1>7, <1>8, IssuesFinite

(* Pruning leaves events of the ledger, within both caps. *)
LEMMA EventsKept ==
  ASSUME NEW E, IsFiniteSet(E), NEW F \in KeptEvents(E)
  PROVE  /\ F \subseteq E /\ IsFiniteSet(F) /\ Cardinality(F) <= CAPACITY
         /\ \A i \in Issues : Cardinality(Of(F, i)) <= MAX_EVENTS_PER_ISSUE
<1> DEFINE stamp == [e \in E |-> e.at]
<1>1. PICK P \in PerIssue(E) : F \in Newest(P, CAPACITY, stamp)
  BY DEF KeptEvents
<1>2. /\ P \in SUBSET E
      /\ \A i \in Issues : P \cap Of(E, i) \in Newest(Of(E, i), MAX_EVENTS_PER_ISSUE, stamp)
  BY <1>1 DEF PerIssue
<1> HIDE DEF stamp
<1>3. IsFiniteSet(P)
  BY <1>2, FS_Subset
<1>4. F \subseteq P /\ IsFiniteSet(F) /\ Cardinality(F) <= CAPACITY
  BY <1>1, <1>3, NewestSize, FollowupAssumption
<1>5. ASSUME NEW i \in Issues PROVE Cardinality(Of(F, i)) <= MAX_EVENTS_PER_ISSUE
  <2>1. Of(E, i) \in SUBSET E
    BY DEF Of
  <2>2. IsFiniteSet(Of(E, i))
    BY <2>1, FS_Subset
  <2>3. IsFiniteSet(P \cap Of(E, i)) /\ Cardinality(P \cap Of(E, i)) <= MAX_EVENTS_PER_ISSUE
    BY <1>2, <2>2, NewestSize, FollowupAssumption
  <2>4. Of(F, i) \in SUBSET (P \cap Of(E, i))
    BY <1>2, <1>4 DEF Of
  <2> QED
    BY <2>3, <2>4, FS_Subset, FS_CardinalityType, FollowupAssumption
<1> QED
  BY <1>2, <1>4, <1>5

-----------------------------------------------------------------------------
(* The inductive invariant: the types, finitely many events, the caps. *)

IInv == TypeOK /\ IsFiniteSet(events) /\ WithinCaps

\* What a transaction leaves: the active subscriptions it was given.
Stored(s) == subs' \in Typed /\ Active(subs') = Active(s)
               /\ Cardinality(Recorded(subs')) <= MAX_SUBSCRIPTIONS

(* A save keeps its active subscriptions, the types and the caps. *)
LEMMA SaveKeeps ==
  ASSUME NEW s, Savable(s), NEW E \in SUBSET Event, IsFiniteSet(E),
         Transaction(Saved(s, E))
  PROVE  /\ Stored(s)
         /\ events' \subseteq Event /\ IsFiniteSet(events')
         /\ Cardinality(events') <= CAPACITY
         /\ \A i \in Issues : Cardinality(Of(events', i)) <= MAX_EVENTS_PER_ISSUE
<1>1. PICK K \in KeptSubs(s), F \in KeptEvents(E) :
        subs' = [i \in Issues |-> IF i \in K THEN s[i] ELSE NoSub] /\ events' = F
  BY DEF Transaction, Saved
<1>2. Active(s) \subseteq K /\ IsFiniteSet(K) /\ Cardinality(K) <= MAX_SUBSCRIPTIONS
  BY SubsKept
<1>3. /\ F \subseteq E /\ IsFiniteSet(F) /\ Cardinality(F) <= CAPACITY
      /\ \A i \in Issues : Cardinality(Of(F, i)) <= MAX_EVENTS_PER_ISSUE
  BY EventsKept
<1>4. subs' \in Typed
  BY <1>1 DEF Savable, Typed
<1>5. Active(subs') = Active(s)
  BY <1>1, <1>2 DEF Active, NoSub
<1>6. Recorded(subs') \in SUBSET K
  BY <1>1 DEF Recorded
<1>7. Cardinality(Recorded(subs')) <= MAX_SUBSCRIPTIONS
  BY <1>2, <1>6, FS_Subset, FS_CardinalityType, FollowupAssumption
<1> QED
  BY <1>1, <1>3, <1>4, <1>5, <1>7 DEF Stored

(* The subscriptions of a ledger within its caps can be saved. *)
LEMMA LoadedSavable ==
  ASSUME IInv PROVE Savable(subs)
<1>1. subs \in Typed
  BY DEF IInv, TypeOK, Typed
<1>2. Active(subs) \in SUBSET Recorded(subs)
  BY <1>1, ActiveRecorded
<1>3. Cardinality(Active(subs)) <= Cardinality(Recorded(subs))
  BY <1>2, IssuesFinite, FS_Subset
<1> QED
  BY <1>1, <1>3, IssuesFinite, FollowupAssumption DEF Savable, IInv, WithinCaps

(* Replacing the record of one issue. *)
LEMMA OneRecord ==
  ASSUME NEW s \in Typed, NEW i \in Issues, NEW sub \in Sub
  PROVE  /\ [s EXCEPT ![i] = sub] \in Typed
         /\ sub.active => Active([s EXCEPT ![i] = sub]) = Active(s) \cup {i}
         /\ ~sub.active => Active([s EXCEPT ![i] = sub]) = Active(s) \ {i}
  BY DEF Typed, Active

(***************************************************************************)
(* An event that is not ignored leaves as many active subscriptions or     *)
(* fewer, and no issue but its own loses its own; the issue it moves to    *)
(* has one.                                                                *)
(***************************************************************************)
LEMMA EventMoves ==
  ASSUME NEW s, Savable(s), NEW says \in Says, NEW t \in Nat, ~Ignored(s, says)
  PROVE  /\ Savable(SubsAfter(s, says, t))
         /\ Active(s) \ Active(SubsAfter(s, says, t)) \subseteq {says.issue}
         /\ says.migrate = NoIssue => says.issue \in Active(SubsAfter(s, says, t))
         /\ says.migrate # NoIssue => says.migrate \in Active(SubsAfter(s, says, t))
<1> DEFINE i == says.issue
           j == says.migrate
           sub == Handled(s[i], says, t)
           handled == [s EXCEPT ![i] = sub]
           moved == [Fresh(t) EXCEPT !.refreshed = t]
<1>1. s \in Typed /\ i \in Issues /\ j \in Issues \cup {NoIssue} /\ i \in Active(s)
  BY FollowupAssumption DEF Savable, Ignored, Active
<1>2. sub \in Sub /\ sub.active = (j = NoIssue)
  BY <1>1, ActiveRecorded DEF Handled, Sub
<1>3. moved \in Sub /\ moved.active
  BY DEF Fresh, Sub
<1>4. SubsAfter(s, says, t) = IF j = NoIssue THEN handled ELSE Migrated(handled, j, t)
  BY <1>1 DEF SubsAfter, Typed
<1>0. /\ Cardinality(Active(s)) \in Nat /\ MAX_SUBSCRIPTIONS \in Nat
      /\ Cardinality(Active(s)) <= MAX_SUBSCRIPTIONS
  BY IssuesFinite, FollowupAssumption DEF Savable
<1> HIDE DEF i, j, sub, moved
<1>5. /\ handled \in Typed
      /\ sub.active => Active(handled) = Active(s) \cup {i}
      /\ ~sub.active => Active(handled) = Active(s) \ {i}
  BY <1>1, <1>2, OneRecord
<1> HIDE DEF handled
<1>6. CASE j = NoIssue
  <2>1. Active(handled) = Active(s)
    BY <1>1, <1>2, <1>5, <1>6
  <2> QED
    BY <1>1, <1>4, <1>5, <1>6, <2>1 DEF Savable, i, j
<1>7. CASE j # NoIssue
  <2>1. Active(handled) = Active(s) \ {i}
    BY <1>2, <1>5, <1>7
  <2>2. /\ IsFiniteSet(Active(s) \ {i})
        /\ Cardinality(Active(s) \ {i}) = Cardinality(Active(s)) - 1
    BY <1>1, IssuesFinite, FS_RemoveElement
  <2>3. CASE handled[j].active
    <3>1. SubsAfter(s, says, t) = handled
      BY <1>4, <1>7, <2>3 DEF Migrated
    <3>2. j \in Active(handled)
      BY <1>1, <1>7, <2>3 DEF Active
    <3>3. Cardinality(Active(handled)) <= MAX_SUBSCRIPTIONS
      BY <1>0, <2>1, <2>2
    <3> QED
      BY <1>5, <1>7, <2>1, <3>1, <3>2, <3>3 DEF Savable, i, j
  <2>4. CASE ~handled[j].active
    <3> DEFINE after == [handled EXCEPT ![j] = moved]
    <3>1. SubsAfter(s, says, t) = after
      BY <1>4, <1>7, <2>4 DEF Migrated, moved
    <3>2. after \in Typed /\ Active(after) = Active(handled) \cup {j}
      BY <1>1, <1>3, <1>5, <1>7, OneRecord
    <3> HIDE DEF after
    <3>3. Cardinality(Active(after)) <= Cardinality(Active(s) \ {i}) + 1
      <4>1. Cardinality((Active(s) \ {i}) \cup {j})
              = IF j \in Active(s) \ {i} THEN Cardinality(Active(s) \ {i})
                ELSE Cardinality(Active(s) \ {i}) + 1
        BY <2>2, FS_AddElement
      <4> QED
        BY <1>0, <2>1, <2>2, <3>2, <4>1
    <3>4. Cardinality(Active(after)) <= MAX_SUBSCRIPTIONS
      <4>1. Cardinality(Active(after)) \in Nat
        BY IssuesFinite
      <4> QED
        BY <1>0, <2>2, <3>3, <4>1
    <3> QED
      BY <1>7, <2>1, <3>1, <3>2, <3>4 DEF Savable, i, j
  <2> QED
    BY <2>3, <2>4
<1> QED
  BY <1>6, <1>7

(* One more event, if it is new. *)
LEMMA EventAppended ==
  ASSUME NEW E \in SUBSET Event, IsFiniteSet(E), NEW e \in Event
  PROVE  Appended(E, e) \in SUBSET Event /\ IsFiniteSet(Appended(E, e))
  BY FS_AddElement DEF Appended

-----------------------------------------------------------------------------
(* Every transaction saves a ledger that can be saved. *)

\* What every operation that is not ignored comes down to.
Saving(s, E) == /\ Savable(s) /\ E \in SUBSET Event /\ IsFiniteSet(E)
                /\ Transaction(Saved(s, E))

LEMMA SubscribeSaves ==
  ASSUME IInv, NEW i \in Issues, Subscribe(i)
  PROVE  Saving([subs EXCEPT ![i] = Fresh(now)], events)
         /\ Active([subs EXCEPT ![i] = Fresh(now)]) = Active(subs) \cup {i}
<1> DEFINE s == [subs EXCEPT ![i] = Fresh(now)]
<1>1. subs \in Typed /\ now \in Nat
  BY FollowupAssumption DEF IInv, TypeOK, Typed
<1>2. Fresh(now) \in Sub /\ Fresh(now).active
  BY <1>1 DEF Fresh, Sub
<1>3. s \in Typed /\ Active(s) = Active(subs) \cup {i}
  BY <1>1, <1>2, OneRecord
<1>4. Cardinality(Active(subs) \cup {i})
        = IF i \in Active(subs) THEN Cardinality(Active(subs))
          ELSE Cardinality(Active(subs)) + 1
  BY IssuesFinite, FS_AddElement
<1>5. Cardinality(Active(subs)) < MAX_SUBSCRIPTIONS /\ Cardinality(Active(subs)) \in Nat
      /\ MAX_SUBSCRIPTIONS \in Nat
  BY IssuesFinite, FollowupAssumption DEF Subscribe
<1> HIDE DEF s
<1>6. Savable(s)
  BY <1>3, <1>4, <1>5 DEF Savable
<1>7. Transaction(Saved(s, events))
  BY DEF Subscribe, s
<1> QED
  BY <1>3, <1>6, <1>7 DEF Saving, IInv, TypeOK, s

LEMMA UnsubscribeSaves ==
  ASSUME IInv, NEW i \in Issues, Unsubscribe(i)
  PROVE  Saving([subs EXCEPT ![i].active = FALSE], events)
         /\ Active([subs EXCEPT ![i].active = FALSE]) = Active(subs) \ {i}
<1> DEFINE sub == [subs[i] EXCEPT !.active = FALSE]
           s   == [subs EXCEPT ![i] = sub]
<1>1. subs \in Typed /\ i \in Active(subs)
  BY DEF IInv, TypeOK, Typed, Unsubscribe, Active
<1>2. sub \in Sub /\ ~sub.active
  BY <1>1, ActiveRecorded DEF Sub
<1>3. [subs EXCEPT ![i].active = FALSE] = s
  OBVIOUS
<1> HIDE DEF sub
<1>4. s \in Typed /\ Active(s) = Active(subs) \ {i}
  BY <1>1, <1>2, OneRecord
<1> HIDE DEF s
<1>5. Cardinality(Active(s)) <= Cardinality(Active(subs))
  BY <1>4, IssuesFinite, FS_Subset
<1>6. Cardinality(Active(subs)) <= MAX_SUBSCRIPTIONS
  BY LoadedSavable DEF Savable
<1>7. Savable(s)
  <2>1. /\ Cardinality(Active(s)) \in Nat /\ Cardinality(Active(subs)) \in Nat
        /\ MAX_SUBSCRIPTIONS \in Nat
    BY IssuesFinite, FollowupAssumption
  <2> QED
    BY <1>4, <1>5, <1>6, <2>1 DEF Savable
<1>8. Transaction(Saved(s, events))
  BY <1>3 DEF Unsubscribe
<1> QED
  BY <1>3, <1>4, <1>7, <1>8 DEF Saving, IInv, TypeOK

LEMMA RefreshSaves ==
  ASSUME IInv, Refresh
  PROVE  \E s : Saving(s, events) /\ Active(s) = Active(subs)
<1> DEFINE s == [i \in Issues |-> IF i \in Due(subs, now)
                                 THEN [subs[i] EXCEPT !.refreshed = now] ELSE subs[i]]
<1>1. subs \in Typed /\ now \in Nat
  BY FollowupAssumption DEF IInv, TypeOK, Typed
<1>2. ASSUME NEW i \in Due(subs, now)
      PROVE  /\ [subs[i] EXCEPT !.refreshed = now] \in Sub
             /\ [subs[i] EXCEPT !.refreshed = now].active = subs[i].active
  <2>1. subs[i] \in Sub
    BY <1>1, ActiveRecorded DEF Due
  <2> QED
    BY <1>1, <2>1 DEF Sub
<1>3. s \in Typed
  BY <1>1, <1>2 DEF Typed
<1>4. Active(s) = Active(subs)
  <2>1. \A i \in Issues : s[i].active = subs[i].active
    BY <1>2
  <2> QED
    BY <2>1 DEF Active
<1>5. Transaction(Saved(s, events))
  BY DEF Refresh
<1> HIDE DEF s
<1>6. Savable(s)
  BY <1>3, <1>4, LoadedSavable DEF Savable
<1> QED
  BY <1>4, <1>5, <1>6 DEF Saving, IInv, TypeOK

LEMMA DeliverSaves ==
  ASSUME IInv, NEW says \in Says, NEW id \in Ids, Deliver(says, id),
         ~Ignored(subs, says)
  PROVE  \E E : Saving(SubsAfter(subs, says, now), E)
<1> DEFINE e == [says |-> says, id |-> id, at |-> now]
<1>1. now \in Nat
  BY FollowupAssumption DEF IInv, TypeOK
<1>2. e \in Event
  BY <1>1 DEF Event
<1>3. Savable(SubsAfter(subs, says, now))
  BY <1>1, LoadedSavable, EventMoves
<1>4. Transaction(Saved(SubsAfter(subs, says, now), Appended(events, e)))
  BY DEF Deliver, Delivered
<1> HIDE DEF e
<1>5. Appended(events, e) \in SUBSET Event /\ IsFiniteSet(Appended(events, e))
  BY <1>2, EventAppended DEF IInv, TypeOK
<1> QED
  BY <1>3, <1>4, <1>5 DEF Saving

(* A save reestablishes the invariant. *)
LEMMA SavingKeeps ==
  ASSUME IInv, NEW s, NEW E, Saving(s, E)
  PROVE  IInv' /\ Active(subs') = Active(s)
<1>1. /\ Stored(s)
      /\ events' \subseteq Event /\ IsFiniteSet(events')
      /\ Cardinality(events') <= CAPACITY
      /\ \A i \in Issues : Cardinality(Of(events', i)) <= MAX_EVENTS_PER_ISSUE
  BY SaveKeeps DEF Saving
<1>2. now' = now
  BY DEF Saving, Transaction
<1> QED
  BY <1>1, <1>2 DEF IInv, TypeOK, WithinCaps, Stored, Typed

LEMMA InitKeeps == Init => IInv
<1> SUFFICES ASSUME Init PROVE IInv
  OBVIOUS
<1>1. TypeOK
  BY FollowupAssumption DEF Init, TypeOK
<1>2. Recorded(subs) = {} /\ events = {} /\ \A i \in Issues : Of(events, i) = {}
  BY DEF Init, Recorded, Of
<1> QED
  BY <1>1, <1>2, FS_EmptySet, FollowupAssumption DEF IInv, WithinCaps

\* What FollowedOn says of one step.
Followed ==
  \A i \in Active(subs) \ Active(subs') :
    \/ Unsubscribe(i)
    \/ \E says \in Says, id \in Ids :
         /\ Deliver(says, id)
         /\ says.issue = i /\ says.migrate \in Active(subs')

(* Every step keeps the invariant and follows on. *)
LEMMA StepKeeps == IInv /\ [Next]_vars => IInv' /\ [Followed]_vars
<1> SUFFICES ASSUME IInv, [Next]_vars PROVE IInv' /\ [Followed]_vars
  OBVIOUS
<1>1. CASE UNCHANGED vars
  BY <1>1 DEF vars, IInv, TypeOK, WithinCaps
<1>2. CASE Tick
  BY <1>2, FollowupAssumption
  DEF Tick, IInv, TypeOK, WithinCaps, Followed, vars
<1>3. CASE Refresh
  BY <1>3, RefreshSaves, SavingKeeps DEF Followed
<1>4. ASSUME NEW i \in Issues, Subscribe(i) PROVE IInv' /\ Followed
  BY <1>4, SubscribeSaves, SavingKeeps DEF Followed
<1>5. ASSUME NEW i \in Issues, Unsubscribe(i) PROVE IInv' /\ Followed
  BY <1>5, UnsubscribeSaves, SavingKeeps DEF Followed
<1>6. ASSUME NEW says \in Says, NEW id \in Ids, Deliver(says, id)
      PROVE  IInv' /\ Followed
  <2>1. CASE Ignored(subs, says)
    BY <1>6, <2>1 DEF Deliver, Delivered, Transaction, IInv, TypeOK, WithinCaps, Followed
  <2>2. CASE ~Ignored(subs, says)
    <3>1. now \in Nat /\ Savable(subs)
      BY LoadedSavable, FollowupAssumption DEF IInv, TypeOK
    <3>2. IInv' /\ Active(subs') = Active(SubsAfter(subs, says, now))
      BY <1>6, <2>2, DeliverSaves, SavingKeeps
    <3>3. /\ Active(subs) \ Active(subs') \subseteq {says.issue}
          /\ says.migrate = NoIssue => says.issue \in Active(subs')
          /\ says.migrate # NoIssue => says.migrate \in Active(subs')
      BY <2>2, <3>1, <3>2, EventMoves
    <3> QED
      BY <1>6, <3>2, <3>3 DEF Followed
  <2> QED
    BY <2>1, <2>2
<1> QED
  BY <1>1, <1>2, <1>3, <1>4, <1>5, <1>6 DEF Next

-----------------------------------------------------------------------------
(***************************************************************************)
(* Every variable of the follow-up ledger keeps its type.                  *)
(***************************************************************************)
THEOREM TypeCorrect == Spec => []TypeOK
<1>1. IInv => TypeOK
  BY DEF IInv
<1> QED
  BY <1>1, InitKeeps, StepKeeps, PTL DEF Spec

(***************************************************************************)
(* A saved ledger is within all its caps, whatever is subscribed,          *)
(* delivered and migrated, and so can always be loaded again.              *)
(***************************************************************************)
THEOREM LedgerFits == Spec => []WithinCaps
<1>1. IInv => WithinCaps
  BY DEF IInv
<1> QED
  BY <1>1, InitKeeps, StepKeeps, PTL DEF Spec

(***************************************************************************)
(* An issue stops being followed only by the user's unsubscribe or by an   *)
(* event that moves the subscription to an issue followed from then on.    *)
(***************************************************************************)
THEOREM FollowsOn == Spec => FollowedOn
<1>1. FollowedOn <=> [][Followed]_vars
  BY DEF FollowedOn, Followed
<1> QED
  BY <1>1, InitKeeps, StepKeeps, PTL DEF Spec

-----------------------------------------------------------------------------
(* What the delivery of an event leaves makes the same event ignored. *)
LEMMA HandledIsIgnored ==
  ASSUME NEW s \in Typed, NEW says \in Says, NEW t, ~Ignored(s, says),
         says.migrate # says.issue, NEW K,
         NEW left, left = [i \in Issues |-> IF i \in K THEN SubsAfter(s, says, t)[i] ELSE NoSub]
  PROVE  Ignored(left, says)
<1> DEFINE i == says.issue
           j == says.migrate
           sub == Handled(s[i], says, t)
           handled == [s EXCEPT ![i] = sub]
<1>1. i \in Issues /\ i \in Active(s)
  BY FollowupAssumption DEF Ignored, Active
<1>2. s[i] \in Sub
  BY <1>1, ActiveRecorded
<1>3. sub.last = says
  BY <1>2 DEF Handled, Sub
<1>4. SubsAfter(s, says, t) = IF j = NoIssue THEN handled ELSE Migrated(handled, j, t)
  BY <1>1 DEF SubsAfter, Typed
<1>5. handled[i] = sub /\ Migrated(handled, j, t)[i] = sub
  BY <1>1 DEF Migrated, Typed
<1> HIDE DEF handled, sub
<1>6. SubsAfter(s, says, t)[i] = sub
  BY <1>4, <1>5
<1>7. left[i] = sub \/ left[i] = NoSub
  BY <1>1, <1>6
<1> QED
  BY <1>3, <1>7 DEF Ignored, NoSub

(***************************************************************************)
(* Delivering an event again, at any later time but with no other between, *)
(* changes nothing, unless it moves an issue to itself.                    *)
(***************************************************************************)
THEOREM ReplayIgnored == Spec => []ReplayChangesNothing
<1>1. TypeOK => ReplayChangesNothing
  <2> SUFFICES ASSUME TypeOK, NEW says \in Says, NEW id \in Ids, NEW t \in now..MaxNow,
                      says.migrate # says.issue,
                      NEW l \in Delivered(subs, events, says, id, now)
               PROVE  Delivered(l[1], l[2], says, id, t) = {l}
    BY DEF ReplayChangesNothing
  <2>1. subs \in Typed
    BY DEF TypeOK, Typed
  <2>2. l = << l[1], l[2] >> /\ Ignored(l[1], says)
    <3>1. CASE Ignored(subs, says)
      BY <3>1 DEF Delivered
    <3>2. CASE ~Ignored(subs, says)
      <4>1. PICK K, F : l = << [i \in Issues |-> IF i \in K THEN SubsAfter(subs, says, now)[i]
                                                ELSE NoSub], F >>
        BY <3>2 DEF Delivered, Saved
      <4> QED
        BY <2>1, <3>2, <4>1, HandledIsIgnored
    <3> QED
      BY <3>1, <3>2
  <2> QED
    BY <2>2 DEF Delivered
<1> QED
  BY <1>1, TypeCorrect, PTL

-----------------------------------------------------------------------------
(* Events of n issues, at most k of each, are at most n times k. *)
LEMMA SharesBound ==
  ASSUME NEW E \in SUBSET Event, IsFiniteSet(E), NEW k \in Nat,
         \A i \in Issues : Cardinality(Of(E, i)) <= k
  PROVE  /\ Cardinality(IssuesOf(E)) * k \in Nat
         /\ Cardinality(E) <= Cardinality(IssuesOf(E)) * k
<1> DEFINE I == IssuesOf(E)
<1>1. I \in SUBSET Issues /\ IsFiniteSet(I) /\ \A e \in E : e.says.issue \in I
  <2>1. I \in SUBSET Issues
    BY FollowupAssumption DEF IssuesOf, Event
  <2> QED
    BY <2>1, FS_Subset, FollowupAssumption DEF IssuesOf
<1>2. ASSUME NEW i \in I PROVE \E f : f \in Injection(Of(E, i), 1..k)
  <2> DEFINE S == Of(E, i)
             n == Cardinality(S)
  <2>1. IsFiniteSet(S)
    <3>1. S \in SUBSET E
      BY DEF Of
    <3> QED
      BY <3>1, FS_Subset
  <2>2. n \in Nat /\ n <= k /\ ExistsBijection(1..n, S)
    BY <1>1, <2>1, FS_CardinalityType
  <2> HIDE DEF S, n
  <2>3. ExistsBijection(S, 1..n)
    BY <2>2, Fun_ExistsBijSymmetric
  <2>4. PICK f : f \in Bijection(S, 1..n)
    BY <2>3 DEF ExistsBijection
  <2>5. f \in [S -> 1..n] /\ \A x, y \in S : f[x] = f[y] => x = y
    BY <2>4 DEF Bijection, Injection, IsInjective
  <2>6. 1..n \subseteq 1..k
    BY <2>2
  <2>7. f \in [S -> 1..k]
    BY <2>5, <2>6
  <2> QED
    BY <2>5, <2>7 DEF Injection, IsInjective, S
<1> DEFINE place == [i \in I |-> CHOOSE f : f \in Injection(Of(E, i), 1..k)]
           spot  == [e \in E |-> << e.says.issue, place[e.says.issue][e] >>]
<1>3. \A i \in I : place[i] \in Injection(Of(E, i), 1..k)
  BY <1>2
<1> HIDE DEF place, I
<1>4. \A e \in E : e \in Of(E, e.says.issue) /\ place[e.says.issue][e] \in 1..k
  <2>1. \A e \in E : e \in Of(E, e.says.issue)
    BY DEF Of
  <2> QED
    BY <1>1, <1>3, <2>1 DEF Injection
<1>5. spot \in [E -> I \X (1..k)]
  BY <1>1, <1>4
<1>6. ASSUME NEW d \in E, NEW e \in E, spot[d] = spot[e] PROVE d = e
  <2>1. d.says.issue = e.says.issue /\ place[e.says.issue][d] = place[e.says.issue][e]
    BY <1>6
  <2>2. d \in Of(E, e.says.issue)
    BY <1>4, <2>1
  <2> QED
    BY <1>1, <1>3, <1>4, <2>1, <2>2 DEF Injection, IsInjective
<1> HIDE DEF spot
<1>7. spot \in Injection(E, I \X (1..k))
  BY <1>5, <1>6 DEF Injection, IsInjective
<1>8. /\ IsFiniteSet(1..k) /\ Cardinality(1..k) = k
  BY FS_Interval
<1>9. /\ IsFiniteSet(I \X (1..k))
      /\ Cardinality(I \X (1..k)) = Cardinality(I) * k
  BY <1>1, <1>8, FS_Product
<1>10. Cardinality(E) <= Cardinality(I \X (1..k))
  BY <1>7, <1>9, FS_Injection
<1> QED
  BY <1>9, <1>10, FS_CardinalityType DEF I

(***************************************************************************)
(* Of a ledger of events within its caps, and at most one more, the prune  *)
(* drops an event only for M newer ones of its issue, or where the issues' *)
(* shares exceed the total.                                                *)
(***************************************************************************)
LEMMA CutFairly ==
  ASSUME NEW A \in SUBSET Event, NEW E \in SUBSET Event, IsFiniteSet(E), A \subseteq E,
         Cardinality(E) <= CAPACITY + 1, NEW F \in KeptEvents(E), NEW e \in A \ F
  PROVE  \/ Cardinality(IssuesOf(A \cup F)) * MAX_EVENTS_PER_ISSUE > CAPACITY
         \/ Cardinality({f \in Of(F, e.says.issue) : f.at >= e.at}) = MAX_EVENTS_PER_ISSUE
<1> DEFINE i == e.says.issue
           stamp == [x \in E |-> x.at]
<1>1. PICK P \in PerIssue(E) : F \in Newest(P, CAPACITY, stamp)
  BY DEF KeptEvents
<1>2. /\ P \in SUBSET E
      /\ \A u \in Issues : P \cap Of(E, u) \in Newest(Of(E, u), MAX_EVENTS_PER_ISSUE, stamp)
  BY <1>1 DEF PerIssue
<1>3. i \in Issues /\ CAPACITY \in Nat /\ MAX_EVENTS_PER_ISSUE \in Nat
  BY FollowupAssumption DEF Event
<1>4. IsFiniteSet(P) /\ Cardinality(P) \in Nat /\ Cardinality(E) \in Nat
      /\ IsFiniteSet(Of(E, i))
  <2>1. Of(E, i) \in SUBSET E
    BY DEF Of
  <2> QED
    BY <1>2, <2>1, FS_Subset, FS_CardinalityType
<1>5. CASE e \notin P
  <2>1. Cardinality(P) <= CAPACITY
    <3>1. P \in SUBSET (E \ {e}) /\ e \in E
      BY <1>2, <1>5
    <3>2. IsFiniteSet(E \ {e}) /\ Cardinality(E \ {e}) = Cardinality(E) - 1
      BY <3>1, FS_RemoveElement
    <3>3. Cardinality(P) <= Cardinality(E \ {e})
      BY <3>1, <3>2, FS_Subset
    <3> QED
      BY <1>3, <1>4, <3>2, <3>3
  <2>2. F = P
    <3>1. CAPACITY >= Cardinality(P)
      BY <1>3, <1>4, <2>1
    <3> HIDE DEF stamp
    <3> QED
      BY <1>1, <3>1 DEF Newest
  <2> DEFINE S == Of(E, i)
             Q == P \cap S
  <2>3. e \in S \ Q /\ Q \in Newest(S, MAX_EVENTS_PER_ISSUE, stamp)
    BY <1>2, <1>3, <1>5 DEF Of
  <2>4. /\ Cardinality(Q) = MAX_EVENTS_PER_ISSUE
        /\ \A a \in Q, b \in S \ Q : stamp[a] >= stamp[b]
    <3> HIDE DEF Q, S, stamp
    <3> QED
      BY <2>3 DEF Newest
  <2>5. \A a \in Q : a.at >= e.at
    <3>1. \A a \in Q : a \in E /\ stamp[a] = a.at
      BY <1>2
    <3>2. stamp[e] = e.at
      OBVIOUS
    <3> HIDE DEF Q, S, stamp
    <3> QED
      BY <2>3, <2>4, <3>1, <3>2
  <2>6. {f \in Of(F, i) : f.at >= e.at} = Q
    <3>1. Of(F, i) = Q
      BY <1>2, <2>2 DEF Of
    <3> HIDE DEF Q
    <3> QED
      BY <2>5, <3>1
  <2> QED
    BY <2>4, <2>6
<1>6. CASE e \in P
  <2>1. F # P /\ ~(CAPACITY >= Cardinality(P)) /\ F \in SUBSET P /\ Cardinality(F) = CAPACITY
    <3>1. F # P
      BY <1>6
    <3> HIDE DEF stamp
    <3>2. ~(CAPACITY >= Cardinality(P))
      BY <1>1, <3>1 DEF Newest
    <3> QED
      BY <1>1, <3>1, <3>2 DEF Newest
  <2>2. P = E /\ Cardinality(E) = CAPACITY + 1
    <3>1. Cardinality(P) <= Cardinality(E) /\ (Cardinality(E) = Cardinality(P) => E = P)
      BY <1>2, FS_Subset
    <3> QED
      BY <1>3, <1>4, <2>1, <3>1
  <2>3. F = E \ {e}
    <3>1. IsFiniteSet(E \ {e}) /\ Cardinality(E \ {e}) = CAPACITY
      <4>1. IsFiniteSet(E \ {e}) /\ Cardinality(E \ {e}) = Cardinality(E) - 1
        BY FS_RemoveElement
      <4> QED
        BY <1>3, <2>2, <4>1
    <3>2. F \in SUBSET (E \ {e})
      BY <2>1, <2>2
    <3> QED
      BY <2>1, <3>1, <3>2, FS_Subset
  <2>4. A \cup F = E
    BY <2>3
  <2>5. \A u \in Issues : Cardinality(Of(E, u)) <= MAX_EVENTS_PER_ISSUE
    <3>1. ASSUME NEW u \in Issues PROVE Cardinality(Of(E, u)) <= MAX_EVENTS_PER_ISSUE
      <4>1. P \cap Of(E, u) = Of(E, u) /\ Of(E, u) \in SUBSET E
        BY <2>2 DEF Of
      <4>2. IsFiniteSet(Of(E, u))
        BY <4>1, FS_Subset
      <4> HIDE DEF stamp
      <4> QED
        BY <1>2, <1>3, <4>1, <4>2, NewestSize
    <3> QED
      BY <3>1
  <2>6. /\ Cardinality(IssuesOf(E)) * MAX_EVENTS_PER_ISSUE \in Nat
        /\ Cardinality(E) <= Cardinality(IssuesOf(E)) * MAX_EVENTS_PER_ISSUE
    BY <1>3, <2>5, SharesBound
  <2>7. Cardinality(IssuesOf(E)) * MAX_EVENTS_PER_ISSUE > CAPACITY
    BY <1>3, <2>2, <2>6
  <2> QED
    BY <2>4, <2>7
<1> QED
  BY <1>5, <1>6

\* What FairShare says of one step.
Fair ==
  \A e \in events \ events' :
    \/ Cardinality(IssuesOf(events \cup events')) * MAX_EVENTS_PER_ISSUE > CAPACITY
    \/ Cardinality({f \in Of(events', e.says.issue) : f.at >= e.at}) = MAX_EVENTS_PER_ISSUE

LEMMA SavesFairly ==
  ASSUME IInv, NEW s, NEW E \in SUBSET Event, events \subseteq E, IsFiniteSet(E),
         Cardinality(E) <= CAPACITY + 1, Transaction(Saved(s, E))
  PROVE  Fair
<1>1. PICK F \in KeptEvents(E) : events' = F
  BY DEF Transaction, Saved
<1>2. events \in SUBSET Event
  BY DEF IInv, TypeOK
<1> QED
  BY <1>1, <1>2, CutFairly DEF Fair

LEMMA StepFair == IInv /\ [Next]_vars => [Fair]_vars
<1> SUFFICES ASSUME IInv, Next PROVE Fair
  OBVIOUS
<1>1. /\ events \in SUBSET Event /\ IsFiniteSet(events) /\ now \in Nat
      /\ Cardinality(events) \in Nat /\ CAPACITY \in Nat
      /\ Cardinality(events) <= CAPACITY + 1
  BY FS_CardinalityType, FollowupAssumption DEF IInv, TypeOK, WithinCaps
<1>2. ASSUME NEW s, Transaction(Saved(s, events)) PROVE Fair
  BY <1>1, <1>2, SavesFairly
<1>3. CASE Tick
  BY <1>3 DEF Tick, Fair
<1>4. CASE Refresh
  BY <1>2, <1>4 DEF Refresh
<1>5. ASSUME NEW i \in Issues, Subscribe(i) \/ Unsubscribe(i) PROVE Fair
  BY <1>2, <1>5 DEF Subscribe, Unsubscribe
<1>6. ASSUME NEW says \in Says, NEW id \in Ids, Deliver(says, id) PROVE Fair
  <2>1. CASE Ignored(subs, says)
    BY <1>6, <2>1 DEF Deliver, Delivered, Transaction, Fair
  <2>2. CASE ~Ignored(subs, says)
    <3> DEFINE ev == [says |-> says, id |-> id, at |-> now]
               E == Appended(events, ev)
    <3>1. ev \in Event
      BY <1>1 DEF Event
    <3>2. Transaction(Saved(SubsAfter(subs, says, now), E))
      BY <1>6, <2>2 DEF Deliver, Delivered
    <3> HIDE DEF ev
    <3>3. E \in SUBSET Event /\ IsFiniteSet(E) /\ events \subseteq E
      BY <1>1, <3>1, EventAppended DEF Appended
    <3>4. Cardinality(E) <= CAPACITY + 1
      <4>1. Cardinality(events) <= CAPACITY
        BY DEF IInv, WithinCaps
      <4>2. Cardinality(events \cup {ev})
              = IF ev \in events THEN Cardinality(events) ELSE Cardinality(events) + 1
        BY <1>1, FS_AddElement
      <4> QED
        BY <1>1, <4>1, <4>2 DEF Appended
    <3> HIDE DEF E
    <3> QED
      BY <3>2, <3>3, <3>4, SavesFairly
  <2> QED
    BY <2>1, <2>2
<1> QED
  BY <1>3, <1>4, <1>5, <1>6 DEF Next

(***************************************************************************)
(* A busy issue does not push out the events of another: an event goes     *)
(* only for as many newer ones of its own issue as the share allows, or    *)
(* when the issues' shares together exceed the total.                      *)
(***************************************************************************)
THEOREM SharesAreFair == Spec => FairShare
<1>1. FairShare <=> [][Fair]_vars
  BY DEF FairShare, Fair
<1> QED
  BY <1>1, InitKeeps, StepKeeps, StepFair, PTL DEF Spec

===============================================================================
