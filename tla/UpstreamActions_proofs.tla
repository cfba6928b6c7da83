------------------------ MODULE UpstreamActions_proofs ------------------------
(***************************************************************************)
(* For any set of nonces and processes, any capacity, TTL and clock, with  *)
(* crashes and failing ledger operations: type correctness, at most one    *)
(* execute for a nonce, and the refinement of OneShot.                     *)
(***************************************************************************)
EXTENDS UpstreamActions, FiniteSetTheorems, TLAPS

-----------------------------------------------------------------------------
(* What the ledger operations do to an entry, from their definitions. *)

(* Whatever prune keeps is a set of unexpired entries. *)
LEMMA KeptUnexpired ==
  ASSUME NEW doc \in Docs, NEW t \in Nat, NEW K \in Kept(doc, t)
  PROVE  K \subseteq Unexpired(doc, t)
<1> DEFINE live     == Unexpired(doc, t)
           flying   == live \cap Having(doc, {"in_flight"})
           waiting  == live \cap Having(doc, {"registered"})
           finished == live \cap Having(doc, Terminal)
<1>1. ASSUME NEW S, NEW k, NEW stamp, NEW R \in Newest(S, k, stamp)
      PROVE  R \subseteq S
  BY <1>1 DEF Newest
<1>2. \/ K = live
      \/ \E R \in Newest(waiting, CAPACITY - Cardinality(flying), RegStamp(doc)) :
           K = flying \cup R
      \/ \E D \in Newest(finished,
                         CAPACITY - (Cardinality(flying) + Cardinality(waiting)),
                         UpdStamp(doc)) :
           K = flying \cup waiting \cup D
  BY DEF Kept
<1> QED
  BY <1>1, <1>2

(* A saved document has the entries of the document saved, or fewer. *)
LEMMA SavedEntries ==
  ASSUME NEW doc \in Docs, NEW t \in Nat, NEW d \in Saved(doc, t)
  PROVE  /\ d \in Docs
         /\ \A n \in Nonces : d[n] = doc[n] \/ d[n] = NoEntry
  BY DEF Saved, Keep, Docs, Entry, NoEntry, Statuses

(* Loading keeps an entry or drops it. *)
LEMMA LoadEntries ==
  ASSUME NEW doc \in Docs, NEW t \in Nat
  PROVE  /\ Load(doc, t) \in Docs
         /\ \A n \in Nonces :
              \/ Load(doc, t)[n] = doc[n] /\ doc[n].exp > t
              \/ Load(doc, t)[n] = NoEntry
         /\ \A n \in Nonces : Get(doc, n, t) = Load(doc, t)[n]
  BY DEF Load, Keep, Docs, Entry, NoEntry, Statuses, Get, Unexpired

(* What getEntry returns is the stored entry or nothing. *)
LEMMA GetEntry ==
  ASSUME NEW doc \in Docs, NEW t \in Nat, NEW n \in Nonces
  PROVE  Get(doc, n, t) = doc[n] \/ Get(doc, n, t) = NoEntry
  BY DEF Get, Load, Keep

(* A status change touches one entry. *)
LEMMA RestatusEntries ==
  ASSUME NEW doc \in Docs, NEW t \in Nat, NEW n \in Nonces, NEW s \in Statuses,
         NEW d \in Restatus(doc, n, s, t)
  PROVE  /\ d \in Docs
         /\ \A m \in Nonces : m # n => d[m] = doc[m] \/ d[m] = NoEntry
         /\ \/ d[n] = NoEntry
            \/ d[n].status = s /\ d[n].exp = Load(doc, t)[n].exp
<1> DEFINE old == Load(doc, t)
           new == [old EXCEPT ![n].status = s, ![n].upd = t]
<1>1. old \in Docs
  BY LoadEntries
<1>2. /\ new \in Docs
      /\ new[n].status = s /\ new[n].exp = old[n].exp
      /\ \A m \in Nonces : m # n => new[m] = old[m]
  BY <1>1 DEF Docs, Entry, Statuses
<1>3. d \in Docs /\ \A m \in Nonces : d[m] = new[m] \/ d[m] = NoEntry
  BY <1>2, SavedEntries DEF Restatus
<1>4. ASSUME NEW m \in Nonces, m # n PROVE d[m] = doc[m] \/ d[m] = NoEntry
  BY <1>2, <1>3, <1>4, LoadEntries
<1>5. d[n] = NoEntry \/ d[n] = new[n]
  BY <1>3
<1> QED
  BY <1>2, <1>3, <1>4, <1>5

(* A mark changes one entry, to a terminal status. *)
LEMMA MarkedEntries ==
  ASSUME NEW doc \in Docs, NEW t \in Nat, NEW n \in Nonces, NEW s \in Terminal,
         NEW d \in Marked(doc, n, s, t)
  PROVE  /\ d \in Docs
         /\ \A m \in Nonces : \/ d[m] = doc[m]
                              \/ d[m] = NoEntry
                              \/ m = n /\ d[m].status = s
                                 /\ d[m].exp = Load(doc, t)[m].exp
                                 /\ Load(doc, t)[m].status # "absent"
<1>1. CASE Get(doc, n, t).status \in {"registered", "in_flight"}
  <2>1. d \in Restatus(doc, n, s, t)
    BY <1>1 DEF Marked
  <2>2. s \in Statuses
    BY DEF Statuses
  <2>3. Load(doc, t)[n].status # "absent"
    BY <1>1, LoadEntries
  <2> HIDE DEF Docs
  <2>4. /\ d \in Docs
        /\ \A m \in Nonces : m # n => d[m] = doc[m] \/ d[m] = NoEntry
        /\ \/ d[n] = NoEntry
           \/ d[n].status = s /\ d[n].exp = Load(doc, t)[n].exp
    BY <2>1, <2>2, RestatusEntries
  <2> QED
    BY <2>3, <2>4
<1>2. CASE ~(Get(doc, n, t).status \in {"registered", "in_flight"})
  BY <1>2 DEF Marked
<1> QED
  BY <1>1, <1>2

(* A registration adds one entry, or not even that, and may drop others. *)
LEMMA RegisteredEntries ==
  ASSUME NEW doc \in Docs, NEW t \in Nat, NEW n \in Nonces,
         NEW d \in Registered(doc, n, t)
  PROVE  /\ d \in Docs
         /\ \A m \in Nonces : m # n => d[m] = doc[m] \/ d[m] = NoEntry
         /\ d[n] = NoEntry \/ d[n].exp = t + TTL
<1> DEFINE old == Load(doc, t)
           entry == [status |-> "registered", exp |-> t + TTL, reg |-> t, upd |-> t]
           new == [old EXCEPT ![n] = entry]
<1>1. old \in Docs
  BY LoadEntries
<1>2. entry \in Entry
  BY LedgerAssumption DEF Entry, Statuses
<1>3. /\ new \in Docs /\ new[n] = entry
      /\ \A m \in Nonces : m # n => new[m] = old[m]
  BY <1>1, <1>2 DEF Docs
<1>4. d \in Docs /\ \A m \in Nonces : d[m] = new[m] \/ d[m] = NoEntry
  BY <1>3, SavedEntries DEF Registered
<1>5. d[n] = NoEntry \/ d[n].exp = t + TTL
  BY <1>3, <1>4
<1> QED
  BY <1>3, <1>4, <1>5, LoadEntries

-----------------------------------------------------------------------------
(* The inductive invariant. *)

\* Between its claim and its return a call is the only one of its nonce.
Running(a) == pc[a] \in {"execute", "query", "settle"}

Exclusive ==
  /\ \A a, b \in Actors : Running(a) /\ Running(b) /\ Nonce(a) = Nonce(b) => a = b
  /\ \A a \in Actors : Running(a) =>
       /\ claims[Nonce(a)] = 1
       /\ reports[Nonce(a)] \cap Outcomes = {}
       /\ pc[a] = "execute" => executed[Nonce(a)] = 0

Counted ==
  \A n \in Nonces :
    /\ executed[n] <= claims[n] /\ claims[n] <= 1
    /\ claims[n] = 0 => reports[n] \cap Outcomes = {}
    /\ expires[n] = 0 => claims[n] = 0

Minted == \A a \in Actors : pc[a] # "idle" => expires[Nonce(a)] # 0

\* A registered entry expires when its token does.
Timely ==
  \A n \in Nonces :
    ledger[n].status = "registered" => expires[n] # 0 /\ ledger[n].exp = expires[n]

\* A nonce a cancel has marked is registered no more.
Void == \A n \in voided : expires[n] # 0 /\ ledger[n].status # "registered"

IInv == /\ TypeOK /\ Exclusive /\ Counted /\ Minted /\ ClaimIsFinal /\ OneOutcome
        /\ Timely /\ Void

\* The part of the type invariant about the processes.
Control ==
  /\ pc \in [Actors -> Steps]
  /\ call \in [Actors -> Calls \cup {NoCall}]
  /\ \A a \in Actors : pc[a] # "idle" => call[a] \in Calls
  /\ \A a \in Actors : pc[a] = "settle" => call[a].outcome # "none"
  /\ since \in [Actors -> 0..MaxNow] /\ \A a \in Actors : since[a] <= now
  /\ reports \in [Nonces -> SUBSET Outcomes]

\* The reading of a ledger operation is a time, and not one to come.
LEMMA ReadingTime ==
  ASSUME TypeOK, NEW a \in Actors, NEW t \in Readings(a)
  PROVE  t \in Nat /\ t <= now /\ since[a] <= t
BY ActionsAssumption DEF TypeOK, Readings

(* What the two kinds of mark do to the ledger. *)
LEMMA MarkStep ==
  ASSUME TypeOK, NEW a \in Actors, NEW s \in Terminal, pc[a] # "idle",
         TryMark(a, s) \/ CancelMark(a, s)
  PROVE  /\ Nonce(a) \in Nonces /\ ledger' \in Docs
         /\ \E t \in Nat : t <= now /\ ledger' \in Marked(ledger, Nonce(a), s, t) \cup {ledger}
<1>1. Nonce(a) \in Nonces /\ ledger \in Docs /\ now \in Nat
  BY ActionsAssumption DEF TypeOK, Nonce, Calls
<1>2. PICK t \in Nat : t <= now /\ ledger' \in Marked(ledger, Nonce(a), s, t) \cup {ledger}
  <2>1. CASE ledger' = ledger
    BY <1>1, <2>1
  <2>2. CASE \E t \in Readings(a) : ledger' \in Marked(ledger, Nonce(a), s, t)
    BY <2>2, ReadingTime
  <2> QED BY <2>1, <2>2 DEF TryMark, CancelMark
<1>3. ledger' \in Docs
  BY <1>1, <1>2, MarkedEntries
<1> QED BY <1>1, <1>2, <1>3

LEMMA TypeInit == Init => TypeOK
  BY LedgerAssumption, ActionsAssumption
     DEF Init, TypeOK, EmptyDoc, Docs, Entry, NoEntry, Statuses, Steps, NoCall

LEMMA TypeStep == TypeOK /\ [Next]_vars => TypeOK'
<1> SUFFICES ASSUME TypeOK, [Next]_vars PROVE TypeOK'
  OBVIOUS
<1> USE LedgerAssumption, ActionsAssumption
    DEF TypeOK, Goto, Return, Continue, Nonce, Steps
<1>0. now \in Nat /\ NoCall \notin Calls
  BY DEF NoCall, Calls
<1>1. CASE Tick
  BY <1>1 DEF Tick
<1>2. ASSUME NEW n \in Nonces, Preview(n) PROVE TypeOK'
  <2>1. PICK t \in 0..now : /\ ledger' \in Registered(ledger, n, t)
                            /\ expires' = [expires EXCEPT ![n] = t + TTL]
    BY <1>2 DEF Preview
  <2>2. ledger' \in Docs /\ t + TTL \in Nat
    BY <1>0, <2>1, RegisteredEntries
  <2> QED
    BY <1>2, <2>1, <2>2 DEF Preview
<1>3. ASSUME NEW a \in Actors, NEW n \in Nonces, Confirm(a, n) PROVE TypeOK'
  <2>1. PICK d \in {"confirm", "cancel"} :
          call' = [call EXCEPT ![a] = [nonce |-> n, decision |-> d, outcome |-> "none"]]
    BY <1>3 DEF Confirm
  <2>2. [nonce |-> n, decision |-> d, outcome |-> "none"] \in Calls
    BY DEF Calls
  <2> QED
    BY <1>3, <2>1, <2>2 DEF Confirm
<1>4. ASSUME NEW a \in Actors, NEW s, pc[a] # "idle", Return(a, s), now' = now
      PROVE  Control'
  <2>1. [reports EXCEPT ![Nonce(a)] = @ \cup ({s} \cap Outcomes)]
          \in [Nonces -> SUBSET Outcomes]
    BY <1>4 DEF Calls
  <2> QED
    BY <1>4, <2>1 DEF Control
<1>16. ASSUME NEW a \in Actors, NEW to \in Steps \ {"settle"}, pc[a] # "idle",
              Continue(a, to), now' = now
      PROVE  Control'
  BY <1>16 DEF Control
<1>17. ASSUME now \in 0..MaxNow, ledger' \in Docs, UNCHANGED << now, expires >>,
              voided' \in SUBSET Nonces,
              claims' \in [Nonces -> Nat], executed' \in [Nonces -> Nat], Control'
       PROVE  TypeOK'
  BY <1>17 DEF Control
<1>5. ASSUME NEW a \in Actors, NEW s \in Terminal, CancelMark(a, s), pc[a] # "idle"
      PROVE  ledger' \in Docs /\ voided' \in SUBSET Nonces
  <2>1. Nonce(a) \in Nonces /\ ledger' \in Docs
    BY <1>5, MarkStep DEF Nonce
  <2>2. voided' = voided \/ voided' = voided \cup {Nonce(a)}
    BY <1>5 DEF CancelMark
  <2> QED BY <2>1, <2>2
<1>6. ASSUME NEW a \in Actors, Parse(a) PROVE TypeOK'
  <2>1. Control'
    BY <1>6, <1>4, <1>16 DEF Parse
  <2> QED
    BY <1>6, <1>17, <2>1 DEF Parse
<1>7. ASSUME NEW a \in Actors, Cancel(a) PROVE TypeOK'
  <2>1. Control'
    BY <1>7, <1>16 DEF Cancel
  <2>2. ledger' \in Docs /\ voided' \in SUBSET Nonces
    BY <1>7, <1>5 DEF Cancel, Terminal
  <2> QED BY <1>7, <1>17, <2>1, <2>2 DEF Cancel
<1>8. ASSUME NEW a \in Actors, CheckCancelled(a) PROVE TypeOK'
  <2>1. Control'
    BY <1>8, <1>4, <1>16 DEF CheckCancelled
  <2> QED
    BY <1>8, <1>17, <2>1 DEF CheckCancelled
<1>9. ASSUME NEW a \in Actors, CancelAgain(a) PROVE TypeOK'
  <2>1. Control'
    BY <1>9, <1>4 DEF CancelAgain
  <2>2. ledger' \in Docs /\ voided' \in SUBSET Nonces
    BY <1>9, <1>5 DEF CancelAgain, Terminal
  <2> QED BY <1>9, <1>17, <2>1, <2>2 DEF CancelAgain
<1>10. ASSUME NEW a \in Actors, Claim(a) PROVE TypeOK'
  <2>1. Nonce(a) \in Nonces /\ claims[Nonce(a)] + 1 \in Nat
    BY <1>10 DEF Claim, Calls
  <2>2. ledger' \in Docs
    <3>1. CASE ledger' = ledger
      BY <3>1
    <3>2. ASSUME NEW t \in Readings(a), ledger' \in Claimed(ledger, Nonce(a), t)
          PROVE  ledger' \in Docs
      <4>1. t \in Nat
        BY ReadingTime
      <4> QED BY <2>1, <3>2, <4>1, RestatusEntries DEF Claimed, Statuses
    <3> QED BY <1>10, <3>1, <3>2 DEF Claim
  <2>3. claims' \in [Nonces -> Nat]
    BY <1>10, <2>1 DEF Claim
  <2>4. Control'
    BY <1>10, <1>4, <1>16 DEF Claim
  <2> QED
    BY <1>10, <1>17, <2>2, <2>3, <2>4 DEF Claim
<1>11. ASSUME NEW a \in Actors, Execute(a) PROVE TypeOK'
  <2>1. Nonce(a) \in Nonces /\ executed[Nonce(a)] + 1 \in Nat
    BY <1>11 DEF Execute, Calls
  <2>2. executed' \in [Nonces -> Nat]
    BY <1>11, <2>1 DEF Execute
  <2>3. ASSUME NEW o \in Outcomes
        PROVE  [call[a] EXCEPT !.outcome = o] \in Calls /\ o # "none"
    BY <1>11 DEF Execute, Calls, Outcomes
  <2>4. Control'
    <3>1. CASE Goto(a, "query") /\ UNCHANGED call
      BY <1>11, <3>1 DEF Execute, Control
    <3>2. ASSUME NEW o \in Outcomes, call' = [call EXCEPT ![a].outcome = o],
                 Goto(a, "settle")
          PROVE  Control'
      <4>1. call' = [call EXCEPT ![a] = [call[a] EXCEPT !.outcome = o]]
        BY <3>2
      <4>2. call'[a].outcome # "none"
        BY <1>11, <2>3, <3>2 DEF Execute, Calls
      <4> QED
        BY <1>11, <2>3, <3>2, <4>1, <4>2 DEF Execute, Control
    <3> QED
      BY <1>11, <3>1, <3>2 DEF Execute
  <2> QED
    BY <1>11, <1>17, <2>2, <2>4 DEF Execute
<1>12. ASSUME NEW a \in Actors, Query(a) PROVE TypeOK'
  <2>1. ASSUME NEW o \in {"DUPLICATE_EXISTING", "UNCERTAIN_NO_RETRY"}
        PROVE  [call[a] EXCEPT !.outcome = o] \in Calls /\ o # "none"
    BY <1>12 DEF Query, Calls, Outcomes
  <2> QED
    BY <1>12, <2>1 DEF Query
<1>13. ASSUME NEW a \in Actors, Settle(a) PROVE TypeOK'
  <2>1. Control'
    BY <1>13, <1>4 DEF Settle
  <2>2. ledger' \in Docs
    BY <1>13, MarkStep DEF Settle, MarkFor, Terminal
  <2> QED BY <1>13, <1>17, <2>1, <2>2 DEF Settle
<1>14. ASSUME NEW a \in Actors, Crash(a) PROVE TypeOK'
  BY <1>14 DEF Crash
<1>15. CASE UNCHANGED vars
  BY <1>15 DEF vars
<1> QED
  BY <1>1, <1>2, <1>3, <1>6, <1>7, <1>8, <1>9, <1>10, <1>11, <1>12, <1>13,
     <1>14, <1>15 DEF Next, Step

(* Every variable of the preview and confirm protocol keeps its type. *)
THEOREM TypeCorrect == Spec => []TypeOK
<1>1. QED
  BY TypeInit, TypeStep, PTL DEF Spec

-----------------------------------------------------------------------------
(* At most one execute. *)

LEMMA SafeInit == Init => IInv
  BY TypeInit, LedgerAssumption, ActionsAssumption
     DEF Init, IInv, Exclusive, Counted, Minted, ClaimIsFinal, OneOutcome, Running,
         Timely, Void, EmptyDoc, NoEntry

(***************************************************************************)
(* What a step does to the entry of a nonce: nothing, or it is registered  *)
(* no more, or its token is minted and it is registered for as long as the *)
(* token lives.                                                            *)
(***************************************************************************)
LEMMA LedgerStep ==
  ASSUME TypeOK, [Next]_vars, NEW m \in Nonces
  PROVE  /\ expires'[m] = expires[m] \/ (expires[m] = 0 /\ expires'[m] # 0)
         /\ \/ ledger'[m] = ledger[m]
            \/ ledger'[m].status # "registered"
            \/ expires[m] = 0 /\ expires'[m] # 0 /\ ledger'[m].exp = expires'[m]
<1> DEFINE Goal ==
      /\ expires'[m] = expires[m] \/ (expires[m] = 0 /\ expires'[m] # 0)
      /\ \/ ledger'[m] = ledger[m]
         \/ ledger'[m].status # "registered"
         \/ expires[m] = 0 /\ expires'[m] # 0 /\ ledger'[m].exp = expires'[m]
<1>0. ledger \in Docs /\ now \in Nat /\ NoEntry.status # "registered"
  BY ActionsAssumption DEF TypeOK, NoEntry
<1>1. ASSUME NEW n \in Nonces, Preview(n) PROVE Goal
  <2>1. PICK t \in 0..now : /\ ledger' \in Registered(ledger, n, t)
                            /\ expires' = [expires EXCEPT ![n] = t + TTL]
    BY <1>1 DEF Preview
  <2>2. t \in Nat /\ t + TTL # 0 /\ expires[n] = 0
    BY <1>0, <1>1, LedgerAssumption DEF Preview
  <2>3. /\ m # n => ledger'[m] = ledger[m] \/ ledger'[m] = NoEntry
        /\ m = n => ledger'[m] = NoEntry \/ ledger'[m].exp = t + TTL
    BY <1>0, <2>1, <2>2, RegisteredEntries
  <2>4. expires'[m] = IF m = n THEN t + TTL ELSE expires[m]
    BY <2>1 DEF TypeOK
  <2> QED BY <1>0, <2>2, <2>3, <2>4
<1>2. ASSUME NEW a \in Actors, Cancel(a) \/ CancelAgain(a) \/ Settle(a) PROVE Goal
  <2>1. PICK s \in Terminal : pc[a] # "idle" /\ (TryMark(a, s) \/ CancelMark(a, s))
    BY <1>2 DEF Cancel, CancelAgain, Settle, MarkFor, Terminal
  <2>2. PICK t \in Nat : ledger' \in Marked(ledger, Nonce(a), s, t) \cup {ledger}
    BY <2>1, MarkStep
  <2>3. Nonce(a) \in Nonces
    BY <2>1, MarkStep
  <2>4. ledger'[m] = ledger[m] \/ ledger'[m] = NoEntry \/ ledger'[m].status = s
    BY <1>0, <2>2, <2>3, MarkedEntries
  <2>5. expires' = expires
    BY <1>2 DEF Cancel, CancelAgain, Settle
  <2> QED BY <1>0, <2>4, <2>5 DEF Terminal
<1>3. ASSUME NEW a \in Actors, Claim(a) PROVE Goal
  <2>1. CASE ledger' = ledger
    BY <1>3, <2>1 DEF Claim
  <2>2. ASSUME NEW t \in Readings(a), ledger' \in Claimed(ledger, Nonce(a), t) PROVE Goal
    <3>1. t \in Nat /\ Nonce(a) \in Nonces
      BY <1>3, ReadingTime DEF Claim, TypeOK, Calls, Nonce
    <3>2. \/ m # Nonce(a) /\ (ledger'[m] = ledger[m] \/ ledger'[m] = NoEntry)
          \/ ledger'[m] = NoEntry \/ ledger'[m].status = "in_flight"
      BY <1>0, <2>2, <3>1, RestatusEntries DEF Claimed, Statuses
    <3> QED BY <1>0, <1>3, <3>2 DEF Claim
  <2> QED BY <1>3, <2>1, <2>2 DEF Claim
<1>4. ASSUME \/ Tick
             \/ \E n \in Nonces, a \in Actors : Confirm(a, n)
             \/ \E a \in Actors : Parse(a) \/ CheckCancelled(a) \/ Execute(a) \/ Query(a) \/ Crash(a)
             \/ UNCHANGED vars
      PROVE  UNCHANGED << ledger, expires >>
  BY <1>4 DEF Tick, Confirm, Parse, CheckCancelled, Execute, Query, Crash, vars
<1> QED
  BY <1>1, <1>2, <1>3, <1>4 DEF Next, Step

(* A mark made in the nonce's time leaves it registered no more. *)
LEMMA MarkVoids ==
  ASSUME TypeOK, Timely, NEW n \in Nonces, NEW s \in Terminal, NEW t \in Nat,
         t < expires[n], NEW d \in Marked(ledger, n, s, t)
  PROVE  d[n].status # "registered"
<1>1. ledger \in Docs /\ s \in Statuses
  BY DEF TypeOK, Statuses
<1>2. CASE Get(ledger, n, t).status \in {"registered", "in_flight"}
  <2>1. d \in Restatus(ledger, n, s, t)
    BY <1>2 DEF Marked
  <2>2. d[n] = NoEntry \/ d[n].status = s
    BY <1>1, <2>1, RestatusEntries
  <2> QED
    BY <2>2 DEF NoEntry, Terminal
<1>3. CASE Get(ledger, n, t).status \notin {"registered", "in_flight"}
  <2>1. d = ledger
    BY <1>3 DEF Marked
  <2>2. ASSUME ledger[n].status = "registered" PROVE FALSE
    <3>1. ledger[n].exp = expires[n]
      BY <2>2 DEF Timely
    <3>2. n \in Unexpired(ledger, t)
      BY <2>2, <3>1 DEF Unexpired, Having, Statuses
    <3> QED BY <1>3, <2>2, <3>2 DEF Get, Load, Keep
  <2> QED
    BY <2>1, <2>2
<1> QED
  BY <1>2, <1>3

(* Entries keep the time of their tokens, and voided nonces stay void. *)
LEMMA EntryStep ==
  ASSUME TypeOK, Minted, Timely, Void, [Next]_vars
  PROVE  Timely' /\ Void'
<1>1. \A m \in Nonces :
        /\ expires'[m] = expires[m] \/ (expires[m] = 0 /\ expires'[m] # 0)
        /\ \/ ledger'[m] = ledger[m]
           \/ ledger'[m].status # "registered"
           \/ expires[m] = 0 /\ expires'[m] # 0 /\ ledger'[m].exp = expires'[m]
  BY LedgerStep
<1>2. Timely'
  BY <1>1 DEF Timely
<1>3. \A n \in voided : expires'[n] # 0 /\ ledger'[n].status # "registered"
  BY <1>1 DEF Void, TypeOK
<1>4. ASSUME NEW n \in voided' \ voided
      PROVE  expires'[n] # 0 /\ ledger'[n].status # "registered"
  <2>1. PICK a \in Actors : Cancel(a) \/ CancelAgain(a)
    BY <1>4 DEF Next, Step, Tick, Preview, Confirm, Parse, CheckCancelled, Claim,
                Execute, Query, Settle, Crash, vars
  <2>2. PICK s \in Terminal : pc[a] # "idle" /\ CancelMark(a, s) /\ UNCHANGED expires
    BY <2>1 DEF Cancel, CancelAgain, Terminal
  <2>3. PICK t \in Readings(a) : /\ ledger' \in Marked(ledger, Nonce(a), s, t)
                                 /\ n = Nonce(a) /\ t < expires[n]
    BY <1>4, <2>2 DEF CancelMark
  <2>4. t \in Nat /\ n \in Nonces /\ expires[n] # 0
    BY <2>2, <2>3, ReadingTime, MarkStep DEF Minted
  <2> QED BY <2>2, <2>3, <2>4, MarkVoids
<1> QED BY <1>2, <1>3, <1>4 DEF Void

LEMMA SafeStep == IInv /\ [Next]_vars => IInv'
<1> SUFFICES ASSUME IInv, [Next]_vars
             PROVE  Exclusive' /\ Counted' /\ Minted' /\ OneOutcome'
  <2>1. ASSUME IInv, [Next]_vars PROVE ClaimIsFinal'
    <3> SUFFICES ASSUME NEW m \in Nonces, claims'[m] > 0
                 PROVE  ledger'[m].status # "registered"
      BY DEF ClaimIsFinal
    <3>1. CASE claims'[m] = claims[m]
      <4>1. ledger[m].status # "registered" /\ expires[m] # 0
        BY <2>1, <3>1 DEF IInv, ClaimIsFinal, Counted, TypeOK
      <4> QED BY <2>1, <4>1, LedgerStep DEF IInv
    <3>2. CASE claims'[m] # claims[m]
      <4>1. PICK a \in Actors : Claim(a) /\ claims' # claims
        BY <2>1, <3>2 DEF Next, Step, Tick, Preview, Confirm, Parse, Cancel, CheckCancelled,
           CancelAgain, Execute, Query, Settle, Crash, vars
      <4>2. PICK t \in Readings(a) : /\ ledger' \in Claimed(ledger, Nonce(a), t)
                                     /\ claims' = [claims EXCEPT ![Nonce(a)] = @ + 1]
        BY <4>1 DEF Claim
      <4>3. /\ m = Nonce(a) /\ t \in Nat /\ ledger \in Docs
        BY <2>1, <3>2, <4>2, ReadingTime DEF IInv, TypeOK
      <4>4. ledger'[m] = NoEntry \/ ledger'[m].status = "in_flight"
        BY <4>2, <4>3, RestatusEntries DEF Claimed, Statuses
      <4> QED BY <4>4 DEF NoEntry
    <3> QED BY <3>1, <3>2
  <2> QED BY <2>1, TypeStep, EntryStep DEF IInv
<1> DEFINE Goal == Exclusive' /\ Counted' /\ Minted' /\ OneOutcome'
<1> USE LedgerAssumption, ActionsAssumption
    DEF IInv, TypeOK, Goto, Nonce, Exclusive, Counted, Minted,
        OneOutcome, Running
<1>0. now \in Nat /\ ledger \in Docs
  OBVIOUS
<1>c. \A a \in Actors : pc[a] # "idle" => call[a].nonce \in Nonces
  BY DEF Calls
<1>1. CASE Tick
  BY <1>1 DEF Tick
<1>2. ASSUME NEW n \in Nonces, Preview(n) PROVE Goal
  <2>1. PICK t \in 0..now : expires' = [expires EXCEPT ![n] = t + TTL]
    BY <1>2 DEF Preview
  <2>3. expires'[n] # 0 /\ \A m \in Nonces : m # n => expires'[m] = expires[m]
    BY <1>0, <2>1
  <2>4. Counted' /\ Minted'
    BY <1>2, <2>3, <1>c DEF Preview
  <2> QED
    BY <1>2, <2>4 DEF Preview
<1>3. ASSUME NEW a \in Actors, NEW n \in Nonces, Confirm(a, n) PROVE Goal
  BY <1>3, <1>c DEF Confirm
<1>4. ASSUME NEW a \in Actors, NEW s, pc[a] # "idle", Return(a, s),
             ~Running(a), s \notin Outcomes,
             UNCHANGED << expires, claims, executed >>
      PROVE  Exclusive' /\ Counted' /\ Minted' /\ OneOutcome'
  <2>1. \A n \in Nonces : reports'[n] \cap Outcomes = reports[n] \cap Outcomes
    BY <1>4, <1>c DEF Return
  <2>2. \A b \in Actors : b # a => pc'[b] = pc[b] /\ call'[b] = call[b]
    BY <1>4 DEF Return
  <2>3. pc'[a] = "idle"
    BY <1>4 DEF Return
  <2> QED
    BY <1>4, <2>1, <2>2, <2>3, <1>c
<1>5. ASSUME NEW a \in Actors, NEW to \in {"claim", "cancel", "cancelled", "cancelAgain"},
             pc[a] # "idle", Continue(a, to),
             UNCHANGED << expires, claims, executed >>
      PROVE  Exclusive' /\ Counted' /\ Minted' /\ OneOutcome'
  BY <1>5 DEF Continue
<1>7. ASSUME NEW a \in Actors, Parse(a) PROVE Goal
  <2>2. ~Running(a) /\ pc[a] # "idle"
    BY <1>7 DEF Parse
  <2> QED
    BY <1>7, <1>4, <1>5, <2>2 DEF Parse, Outcomes
<1>8. ASSUME NEW a \in Actors, Cancel(a) PROVE Goal
  BY <1>8, <1>5 DEF Cancel
<1>9. ASSUME NEW a \in Actors, CheckCancelled(a) PROVE Goal
  BY <1>9, <1>4, <1>5 DEF CheckCancelled, Outcomes
<1>10. ASSUME NEW a \in Actors, CancelAgain(a) PROVE Goal
  BY <1>10, <1>4 DEF CancelAgain, Outcomes
<1>11. ASSUME NEW a \in Actors, Claim(a) PROVE Goal
  <2> DEFINE n == Nonce(a)
  <2>0. n \in Nonces /\ pc[a] = "claim" /\ ~Running(a)
    BY <1>11, <1>c DEF Claim
  <2>1. ASSUME NEW s \in {"IN_FLIGHT_NO_RETRY", "INVALID_CONFIRMATION",
                          "REPLAYED_CONFIRMATION"},
               Return(a, s), UNCHANGED << ledger, claims >>
        PROVE  Goal
    <3>2. s \notin Outcomes /\ UNCHANGED << expires, claims, executed >>
      BY <1>11, <2>1 DEF Claim, Outcomes
    <3> QED
      BY <1>4, <2>0, <2>1, <3>2
  <2>2. ASSUME NEW t \in Readings(a), CanClaim(ledger, n, t),
               claims' = [claims EXCEPT ![n] = @ + 1], Continue(a, "execute"),
               UNCHANGED << expires, executed >>
        PROVE  Goal
    <3>1. ledger[n].status = "registered"
      <4>1. Get(ledger, n, t) = ledger[n] \/ Get(ledger, n, t) = NoEntry
        BY <1>0, <2>0, GetEntry, ReadingTime
      <4> QED
        BY <2>2, <4>1 DEF CanClaim, NoEntry
    <3>2. claims[n] = 0 /\ claims'[n] = 1 /\ executed[n] = 0 /\ expires[n] # 0
      BY <2>0, <2>2, <3>1 DEF ClaimIsFinal
    <3>3. \A m \in Nonces : m # n => claims'[m] = claims[m]
      BY <2>2
    <3>7. \A b \in Actors : Running(b) => Nonce(b) # n
      BY <3>2
    <3>8. /\ pc'[a] = "execute" /\ call' = call /\ reports' = reports
          /\ \A b \in Actors : b # a => pc'[b] = pc[b]
      BY <2>0, <2>2 DEF Continue
    <3>9. Exclusive'
      BY <2>0, <2>2, <3>2, <3>3, <3>7, <3>8, <1>c
    <3>10. Counted' /\ OneOutcome'
      BY <2>2, <3>2, <3>3, <3>8
    <3>11. Minted'
      BY <2>2, <2>0, <3>8
    <3> QED
      BY <3>9, <3>10, <3>11
  <2> QED
    BY <1>11, <2>1, <2>2 DEF Claim
<1>12. ASSUME NEW a \in Actors, Execute(a) PROVE Goal
  <2> DEFINE n == Nonce(a)
  <2>1. n \in Nonces /\ claims[n] = 1 /\ executed[n] = 0
    BY <1>12, <1>c DEF Execute
  <2>2. executed'[n] = 1 /\ \A m \in Nonces : m # n => executed'[m] = executed[m]
    BY <1>12, <2>1 DEF Execute
  <2>3. /\ Running(a)' /\ pc'[a] # "execute" /\ Nonce(a)' = n
        /\ \A b \in Actors : b # a => pc'[b] = pc[b] /\ call'[b] = call[b]
    <3>1. CASE Goto(a, "query") /\ UNCHANGED call
      BY <1>12, <3>1 DEF Execute
    <3>2. ASSUME NEW o \in Outcomes, call' = [call EXCEPT ![a].outcome = o],
                 Goto(a, "settle")
          PROVE  <2>3
      <4>1. call[a] \in Calls
        BY <1>12 DEF Execute
      <4>2. call'[a].nonce = call[a].nonce
        BY <3>2, <4>1 DEF Calls
      <4> QED
        BY <1>12, <3>2, <4>2 DEF Execute
    <3> QED
      BY <1>12, <3>1, <3>2 DEF Execute
  <2>4. UNCHANGED << ledger, expires, claims, reports >>
    BY <1>12 DEF Execute
  <2>5. Running(a) /\ pc[a] # "idle"
    BY <1>12 DEF Execute
  <2>6. \A b \in Actors : Running(b)' => Running(b) /\ Nonce(b)' = Nonce(b)
    BY <2>3, <2>5
  <2>7. \A b \in Actors : b # a /\ Running(b) => Nonce(b) # n
    BY <2>5
  <2>8. Exclusive'
    BY <2>1, <2>2, <2>3, <2>4, <2>6, <2>7, <1>c
  <2>9. Counted' /\ OneOutcome'
    BY <2>1, <2>2, <2>4
  <2>10. Minted'
    BY <2>3, <2>4, <2>5
  <2> QED
    BY <2>8, <2>9, <2>10
<1>13. ASSUME NEW a \in Actors, Query(a) PROVE Goal
  BY <1>13, <1>c DEF Query
<1>14. ASSUME NEW a \in Actors, Settle(a) PROVE Goal
  <2> DEFINE n == Nonce(a)
             o == call[a].outcome
  <2>2. n \in Nonces /\ o \in Outcomes /\ pc[a] = "settle"
    BY <1>14, <1>c DEF Settle, Calls
  <2>3. /\ reports'[n] \cap Outcomes = {o}
        /\ \A m \in Nonces : m # n => reports'[m] = reports[m]
    BY <1>14, <2>2 DEF Settle, Return
  <2>4. pc'[a] = "idle" /\ \A b \in Actors : b # a => pc'[b] = pc[b] /\ call'[b] = call[b]
    BY <1>14, <2>2 DEF Settle, Return
  <2>5. \A b \in Actors : Running(b)' => b # a /\ Running(b) /\ Nonce(b)' = Nonce(b)
                                       /\ Nonce(b) # n
    BY <2>2, <2>4
  <2>6. UNCHANGED << claims, executed, expires >>
    BY <1>14 DEF Settle
  <2>7. Exclusive'
    BY <2>3, <2>4, <2>5, <2>6, <1>c
  <2>8. Counted' /\ OneOutcome'
    BY <2>2, <2>3, <2>6
  <2>9. Minted'
    BY <2>4, <2>6
  <2> QED
    BY <2>7, <2>8, <2>9
<1>15. ASSUME NEW a \in Actors, Crash(a) PROVE Goal
  BY <1>15, <1>c DEF Crash
<1>16. CASE UNCHANGED vars
  BY <1>16 DEF vars
<1> QED
  BY <1>1, <1>2, <1>3, <1>7, <1>8, <1>9, <1>10, <1>11, <1>12, <1>13, <1>14,
     <1>15, <1>16 DEF Next, Step

(***************************************************************************)
(* Whatever races, crashes, expires or is pruned, no previewed action is   *)
(* executed twice, no claimed nonce is confirmable again, and nobody is    *)
(* told two different outcomes of it.                                      *)
(***************************************************************************)
THEOREM ExecutedAtMostOnce == Spec => [](AtMostOneExecute /\ ClaimIsFinal /\ OneOutcome)
<1>1. IInv => AtMostOneExecute /\ ClaimIsFinal /\ OneOutcome
  BY DEF IInv, TypeOK, Counted, AtMostOneExecute
<1>2. QED
  BY <1>1, SafeInit, SafeStep, PTL DEF Spec

\* Two parts of it by themselves: a claimed nonce is never confirmable again,
\* whichever ledger a later preview, cancel or prune writes;
THEOREM ClaimedForGood == Spec => []ClaimIsFinal
BY ExecutedAtMostOnce, PTL

\* and of the four outcomes of an execute at most one is ever reported.
THEOREM OneOutcomeReported == Spec => []OneOutcome
BY ExecutedAtMostOnce, PTL

-----------------------------------------------------------------------------
(* Refinement of OneShot. *)

\* Nothing is minted, and no entry becomes registered.
OnlyCloses ==
  /\ \A n \in Nonces : ledger'[n].status = "registered" => ledger[n].status = "registered"
  /\ UNCHANGED << now, expires >>

\* The step is a's: the other processes are where they were.
OnlyActor(a) ==
  \A b \in Actors \ {a} : pc'[b] = pc[b] /\ call'[b] = call[b] /\ since'[b] = since[b]

\* Who has asked, one pair at a time.
Asks(a, n) == pc[a] = "claim" /\ Nonce(a) = n /\ since[a] < expires[n]

LEMMA AskedPairs ==
  /\ Asked \subseteq Actors \X Nonces
  /\ \A a \in Actors, n \in Nonces : << a, n >> \in Asked <=> Asks(a, n)
BY DEF Asked, Asks

LEMMA AskedPairsNext ==
  /\ Asked' \subseteq Actors \X Nonces
  /\ \A a \in Actors, n \in Nonces : << a, n >> \in Asked' <=> Asks(a, n)'
BY DEF Asked, Asks

(* A step of a process that is not at its claim, and does not reach it, asks nothing. *)
LEMMA AskedSame ==
  ASSUME NEW a \in Actors, OnlyActor(a), pc[a] # "claim", pc'[a] # "claim",
         UNCHANGED expires
  PROVE  Asked' = Asked
<1>1. \A b \in Actors, n \in Nonces : Asks(b, n)' <=> Asks(b, n)
  BY DEF Asks, OnlyActor, Nonce
<1> QED BY <1>1, AskedPairs, AskedPairsNext

(* A step of a process that leaves its claim withdraws what it asked, and nothing else. *)
LEMMA AskedLess ==
  ASSUME TypeOK, NEW a \in Actors, OnlyActor(a), pc'[a] # "claim", UNCHANGED expires
  PROVE  /\ Asked' \in SUBSET Asked
         /\ pc[a] = "claim" /\ since[a] < expires[Nonce(a)]
              => Asked' = Asked \ {<< a, Nonce(a) >>}
<1>1. \A b \in Actors, n \in Nonces : Asks(b, n)' <=> Asks(b, n) /\ b # a
  BY DEF Asks, OnlyActor, Nonce
<1>2. Asked' \in SUBSET Asked
  BY <1>1, AskedPairs, AskedPairsNext
<1>3. ASSUME NEW p \in Actors \X Nonces
      PROVE  p \in Asked' <=> p \in Asked /\ p # << a, Nonce(a) >>
  <2>1. PICK b \in Actors, n \in Nonces : p = << b, n >>
    BY <1>3
  <2>2. Asks(a, n) => n = Nonce(a)
    BY DEF Asks
  <2> QED BY <1>1, <2>1, <2>2, AskedPairs, AskedPairsNext
<1> QED BY <1>2, <1>3, AskedPairs, AskedPairsNext

(* Every action of a process is its own step, whatever it returns. *)
LEMMA StepIsOwn ==
  ASSUME TypeOK, NEW a \in Actors,
         Step(a) \/ Crash(a) \/ \E n \in Nonces : Confirm(a, n)
  PROVE  /\ OnlyActor(a) /\ UNCHANGED << now, expires >>
         /\ pc'[a] = "claim" => Parse(a)
<1> USE DEF TypeOK, OnlyActor, Goto, Return, Continue
<1>1. CASE Parse(a)
  BY <1>1 DEF Parse
<1>2. CASE Cancel(a) \/ CheckCancelled(a) \/ CancelAgain(a)
  BY <1>2 DEF Cancel, CheckCancelled, CancelAgain
<1>3. CASE Claim(a)
  BY <1>3 DEF Claim
<1>4. CASE Execute(a) \/ Query(a)
  BY <1>4 DEF Execute, Query
<1>5. CASE Settle(a) \/ Crash(a)
  BY <1>5 DEF Settle, Crash
<1>6. CASE \E n \in Nonces : Confirm(a, n)
  BY <1>6 DEF Confirm
<1> QED BY <1>1, <1>2, <1>3, <1>4, <1>5, <1>6 DEF Step

(* A step that only closes is an abstract Close. *)
LEMMA ClosingStep ==
  ASSUME OnlyCloses, Asked' = Asked, UNCHANGED << claims, executed >>
  PROVE  Abstract!Next
<1> DEFINE ph == [n \in Nonces |-> PhaseOf(n)]
           S == {n \in Nonces : PhaseOf(n) \in {"open", "late"} /\ PhaseOf(n)' = "closed"}
<1>1. \A n \in Nonces : \/ PhaseOf(n)' = PhaseOf(n)
                        \/ PhaseOf(n) \in {"open", "late"} /\ PhaseOf(n)' = "closed"
  BY DEF OnlyCloses, PhaseOf
<1>2. ph' = [n \in Nonces |-> IF n \in S THEN "closed" ELSE ph[n]]
  BY <1>1
<1>3. S \in SUBSET {n \in Nonces : ph[n] \in {"open", "late"}}
  OBVIOUS
<1>4. Abstract!Close
  BY <1>2, <1>3 DEF Abstract!Close, Abstract!Closing, Abstract!Open
<1> QED
  BY <1>4 DEF Abstract!Next

LEMMA RefineInit == Init => Abstract!Init
  BY DEF Init, Abstract!Init, PhaseOf, Asked

LEMMA RefineStep == IInv /\ [Next]_vars => [Abstract!Next]_(Abstract!vars)
<1> SUFFICES ASSUME IInv, [Next]_vars PROVE [Abstract!Next]_(Abstract!vars)
  OBVIOUS
<1> USE LedgerAssumption, ActionsAssumption
<1> DEFINE ph == [n \in Nonces |-> PhaseOf(n)]
<1>0. TypeOK /\ now \in Nat /\ ledger \in Docs
  BY DEF IInv, TypeOK
<1>c. \A a \in Actors : pc[a] # "idle" => Nonce(a) \in Nonces /\ expires[Nonce(a)] # 0
  BY <1>0 DEF IInv, Minted, TypeOK, Calls, Nonce
<1>1. CASE Tick
  <2>1. /\ Asked' = Asked
        /\ UNCHANGED << ledger, expires, claims, executed >>
    BY <1>1 DEF Tick, Asked, Nonce
  <2> DEFINE S == {n \in Nonces : PhaseOf(n) = "open" /\ PhaseOf(n)' = "late"}
  <2>2. \A n \in Nonces : \/ PhaseOf(n)' = PhaseOf(n)
                          \/ PhaseOf(n) = "open" /\ PhaseOf(n)' = "late"
    BY <1>0, <1>1 DEF Tick, PhaseOf, TypeOK
  <2>3. ph' = [n \in Nonces |-> IF n \in S THEN "late" ELSE ph[n]]
    BY <2>2
  <2>4. S \in SUBSET {n \in Nonces : ph[n] \in {"open", "late"}}
    OBVIOUS
  <2>5. Abstract!Lapse
    BY <2>1, <2>3, <2>4 DEF Abstract!Lapse, Abstract!Open
  <2> QED
    BY <2>5 DEF Abstract!Next
<1>2. ASSUME NEW n \in Nonces, Preview(n) PROVE Abstract!Next
  <2>1. PICK t \in 0..now : /\ ledger' \in Registered(ledger, n, t)
                            /\ expires' = [expires EXCEPT ![n] = t + TTL]
    BY <1>2 DEF Preview
  <2>2. /\ t \in Nat /\ expires[n] = 0 /\ expires'[n] # 0
        /\ \A m \in Nonces : m # n => expires'[m] = expires[m]
        /\ UNCHANGED << now, pc, call, since, claims, executed >>
    BY <1>0, <1>2, <2>1 DEF Preview, TypeOK
  <2>3. \A m \in Nonces : m # n => ledger'[m] = ledger[m] \/ ledger'[m] = NoEntry
    BY <1>0, <2>1, <2>2, RegisteredEntries
  <2>4. ASSUME NEW m \in Nonces, m # n
        PROVE  \/ PhaseOf(m)' = PhaseOf(m)
               \/ PhaseOf(m) \in {"open", "late"} /\ PhaseOf(m)' = "closed"
    BY <2>2, <2>3, <2>4 DEF PhaseOf, NoEntry
  <2>5. PhaseOf(n) = "none" /\ PhaseOf(n)' \in {"open", "late", "closed"}
    BY <2>2 DEF PhaseOf
  <2> DEFINE S == {m \in Nonces : /\ m \in {n} \cup {k \in Nonces : ph[k] \in {"open", "late"}}
                                  /\ PhaseOf(m)' = "closed"}
  <2>f. PICK first \in {"open", "late"} : PhaseOf(n)' \in {first, "closed"}
    BY <2>5
  <2>6. ph' = [m \in Nonces |-> IF m \in S THEN "closed"
                               ELSE [ph EXCEPT ![n] = first][m]]
    BY <2>4, <2>5, <2>f
  <2>7. /\ S \in SUBSET ({k \in Nonces : ph[k] \in {"open", "late"}} \cup {n})
        /\ ph[n] = "none"
    BY <2>5
  <2>8. Asked' = Asked
    <3>1. \A a \in Actors, m \in Nonces : Asks(a, m)' <=> Asks(a, m)
      BY <1>c, <2>2 DEF Asks, Nonce
    <3>2. ASSUME NEW p \in Actors \X Nonces PROVE p \in Asked' <=> p \in Asked
      BY <3>1, AskedPairs, AskedPairsNext
    <3> QED BY <3>2, AskedPairs, AskedPairsNext
  <2>9. \E T \in SUBSET (Abstract!Open \cup {n}), f \in {"open", "late"} :
          ph' = Abstract!Closing(T, [ph EXCEPT ![n] = f])
    <3>1. ph' = Abstract!Closing(S, [ph EXCEPT ![n] = first])
      BY <2>6 DEF Abstract!Closing
    <3> HIDE DEF S, ph
    <3>2. S \in SUBSET (Abstract!Open \cup {n})
      BY <2>7 DEF Abstract!Open, ph
    <3> QED BY <3>1, <3>2
  <2>10. Abstract!Issue(n)
    BY <2>2, <2>7, <2>8, <2>9 DEF Abstract!Issue
  <2> QED
    BY <2>10 DEF Abstract!Next
<1>3. ASSUME UNCHANGED << now, ledger, expires, claims, executed >>, Asked' = Asked
      PROVE  UNCHANGED Abstract!vars
  BY <1>3 DEF Abstract!vars, PhaseOf
<1>4. ASSUME NEW a \in Actors, Cancel(a) \/ CancelAgain(a) \/ Settle(a)
      PROVE  Abstract!Next
  <2>1. PICK s \in Terminal : pc[a] # "idle" /\ (TryMark(a, s) \/ CancelMark(a, s))
    BY <1>4 DEF Cancel, CancelAgain, Settle, MarkFor, Terminal
  <2>2. PICK t \in Nat : ledger' \in Marked(ledger, Nonce(a), s, t) \cup {ledger}
    BY <1>0, <2>1, MarkStep
  <2>3. \A m \in Nonces : ledger'[m] = ledger[m] \/ ledger'[m] = NoEntry \/ ledger'[m].status = s
    BY <1>0, <1>c, <2>1, <2>2, MarkedEntries
  <2>4. pc[a] # "claim" /\ ~Parse(a) /\ UNCHANGED << now, expires, claims, executed >>
    BY <1>4 DEF Cancel, CancelAgain, Settle, Parse
  <2>5. Asked' = Asked
    BY <1>0, <1>4, <2>4, StepIsOwn, AskedSame DEF Step
  <2>6. OnlyCloses
    BY <2>3, <2>4 DEF OnlyCloses, NoEntry, Terminal
  <2> QED
    BY <2>4, <2>5, <2>6, ClosingStep
<1>5. ASSUME NEW a \in Actors, Claim(a), ~UNCHANGED << ledger, claims >>
      PROVE  Abstract!Next
  <2>0. PICK n \in Nonces : n = Nonce(a)
    BY <1>5, <1>c DEF Claim
  <2>1. PICK t \in Readings(a) :
          /\ CanClaim(ledger, n, t)
          /\ ledger' \in Claimed(ledger, n, t)
          /\ claims' = [claims EXCEPT ![n] = @ + 1]
          /\ UNCHANGED << now, expires, executed >>
    BY <1>5, <2>0 DEF Claim
  <2>2. /\ t \in Nat /\ t <= now /\ since[a] <= t /\ since[a] \in Nat
        /\ pc[a] = "claim" /\ pc'[a] # "claim"
    <3>1. pc[a] = "claim" /\ ~Parse(a)
      BY <1>5 DEF Claim, Parse
    <3> QED BY <1>0, <1>5, <3>1, ReadingTime, StepIsOwn DEF TypeOK, Step
  <2>3. ledger[n].status = "registered" /\ ledger[n].exp > t
    <3>1. \/ Get(ledger, n, t) = ledger[n] /\ ledger[n].exp > t
          \/ Get(ledger, n, t) = NoEntry
      BY <1>0, <2>2, LoadEntries
    <3> QED BY <2>1, <3>1 DEF CanClaim, NoEntry
  <2>4. expires[n] # 0 /\ expires[n] \in Nat /\ since[a] < expires[n]
    BY <1>0, <2>2, <2>3 DEF IInv, Timely, TypeOK, Docs, Entry
  <2>5. PhaseOf(n) \in {"open", "late"}
    BY <2>3, <2>4 DEF PhaseOf
  <2>6. /\ \A m \in Nonces : m # n => ledger'[m] = ledger[m] \/ ledger'[m] = NoEntry
        /\ ledger'[n] = NoEntry \/ ledger'[n].status = "in_flight"
    BY <1>0, <2>1, <2>2, RestatusEntries DEF Claimed, Statuses
  <2>7. PhaseOf(n)' = "closed"
    BY <2>1, <2>4, <2>6 DEF PhaseOf, NoEntry
  <2>8. ASSUME NEW m \in Nonces, m # n
        PROVE  \/ PhaseOf(m)' = PhaseOf(m)
               \/ PhaseOf(m) \in {"open", "late"} /\ PhaseOf(m)' = "closed"
    BY <2>1, <2>6, <2>8 DEF PhaseOf, NoEntry
  <2> DEFINE S == {m \in Nonces : ph[m] \in {"open", "late"} /\ PhaseOf(m)' = "closed"}
  <2>9. ph' = [m \in Nonces |-> IF m \in S \cup {n} THEN "closed" ELSE ph[m]]
    BY <2>7, <2>8
  <2>10. << a, n >> \in Asked /\ Asked' = Asked \ {<< a, n >>}
    <3>1. Asks(a, n)
      BY <2>0, <2>2, <2>4 DEF Asks
    <3>2. Asked' = Asked \ {<< a, n >>}
      BY <1>0, <1>5, <2>0, <2>1, <2>2, <2>4, StepIsOwn, AskedLess DEF Step
    <3> QED BY <3>1, <3>2, AskedPairs
  <2>11. Abstract!Grant(a, n)
    BY <2>1, <2>5, <2>9, <2>10 DEF Abstract!Grant, Abstract!Closing, Abstract!Open
  <2> QED
    BY <2>11 DEF Abstract!Next
<1>6. ASSUME NEW a \in Actors, Execute(a) PROVE Abstract!Next
  <2>1. Nonce(a) \in Nonces /\ executed[Nonce(a)] < claims[Nonce(a)]
    BY <1>6, <1>c DEF Execute, IInv, Exclusive, Running
  <2>2. pc[a] # "claim" /\ ~Parse(a)
    BY <1>6 DEF Execute, Parse
  <2>3. Asked' = Asked
    BY <1>0, <1>6, <2>2, StepIsOwn, AskedSame DEF Step
  <2>4. Abstract!Use(Nonce(a))
    BY <1>6, <2>1, <2>3 DEF Execute, Abstract!Use, PhaseOf
  <2> QED
    BY <2>1, <2>4 DEF Abstract!Next
<1>7. CASE UNCHANGED vars
  <2>1. Asked' = Asked
    BY <1>7 DEF vars, Asked, Nonce
  <2> QED BY <1>3, <1>7, <2>1 DEF vars
<1>8. ASSUME NEW a \in Actors,
             \/ CheckCancelled(a) \/ Query(a) \/ Crash(a)
             \/ Claim(a) /\ UNCHANGED << ledger, claims >>
             \/ \E n \in Nonces : Confirm(a, n)
      PROVE  Abstract!Next
  <2>1. UNCHANGED << now, ledger, expires, claims, executed >>
    BY <1>8 DEF CheckCancelled, Query, Crash, Claim, Confirm
  <2>2. ~Parse(a) \/ pc'[a] # "claim"
    BY <1>0, <1>8 DEF CheckCancelled, Query, Crash, Claim, Confirm, Parse, Goto, TypeOK
  <2>3. Asked' \in SUBSET Asked
    BY <1>0, <1>8, <2>2, StepIsOwn, AskedLess DEF Step
  <2>4. Abstract!Withdraw
    BY <2>1, <2>3 DEF Abstract!Withdraw, PhaseOf
  <2> QED BY <2>4 DEF Abstract!Next
<1>9. ASSUME NEW a \in Actors, Parse(a)
      PROVE  [Abstract!Next]_(Abstract!vars)
  <2>1. /\ UNCHANGED << now, ledger, expires, claims, executed >>
        /\ pc[a] = "parse" /\ Nonce(a) \in Nonces /\ expires[Nonce(a)] # 0
    BY <1>9, <1>c DEF Parse
  <2>2. OnlyActor(a)
    BY <1>0, <1>9, StepIsOwn DEF Step
  <2>3. CASE pc'[a] # "claim"
    BY <1>3, <2>1, <2>2, <2>3, AskedSame
  <2>4. CASE pc'[a] = "claim"
    <3>1. since'[a] = now /\ Nonce(a)' = Nonce(a)
      BY <1>0, <1>9, <2>4 DEF Parse, Return, Continue, Goto, Timed, TypeOK, Nonce
    <3>2. \A b \in Actors, n \in Nonces :
            Asks(b, n)' <=> \/ Asks(b, n)
                            \/ b = a /\ n = Nonce(a) /\ now < expires[n]
      BY <2>1, <2>2, <2>4, <3>1 DEF Asks, OnlyActor, Nonce
    <3>3. CASE now < expires[Nonce(a)]
      <4>1. ASSUME NEW p \in Actors \X Nonces
            PROVE  p \in Asked' <=> p \in Asked \cup {<< a, Nonce(a) >>}
        <5>1. PICK b \in Actors, n \in Nonces : p = << b, n >>
          BY <4>1
        <5> QED BY <3>2, <3>3, <5>1, AskedPairs, AskedPairsNext
      <4>2. Asked' = Asked \cup {<< a, Nonce(a) >>}
        BY <2>1, <4>1, AskedPairs, AskedPairsNext
      <4>3. PhaseOf(Nonce(a)) \notin {"none", "late"}
        BY <1>0, <2>1, <3>3 DEF PhaseOf, TypeOK
      <4>4. Abstract!Ask(a, Nonce(a))
        BY <2>1, <4>2, <4>3 DEF Abstract!Ask, PhaseOf
      <4> QED BY <2>1, <4>4 DEF Abstract!Next
    <3>4. CASE ~(now < expires[Nonce(a)])
      <4>1. Asked' = Asked
        BY <3>2, <3>4, AskedPairs, AskedPairsNext
      <4> QED BY <1>3, <2>1, <4>1
    <3> QED BY <3>3, <3>4
  <2> QED BY <2>3, <2>4
<1> QED
  BY <1>1, <1>2, <1>4, <1>5, <1>6, <1>7, <1>8, <1>9 DEF Next, Step

(***************************************************************************)
(* The preview and confirm protocol implements one-shot permissions, with  *)
(* readings of the clock as old as the processes are slow.                 *)
(***************************************************************************)
THEOREM Refinement == Spec => ImplementsOneShot
<1>1. Spec => []IInv
  BY SafeInit, SafeStep, PTL DEF Spec
<1>2. QED
  BY <1>1, RefineInit, RefineStep, PTL DEF Spec, ImplementsOneShot, Abstract!Spec

-----------------------------------------------------------------------------
(* A cancelled nonce is closed for good. *)

(***************************************************************************)
(* Once a cancel has marked its nonce, in the nonce's time, no claim of it *)
(* is granted: whichever operations fail, and however old the reading of a *)
(* process that waits for the lock.                                        *)
(***************************************************************************)
THEOREM CancelIsFinal == Spec => CancelBlocksClaim
<1>1. IInv /\ [Next]_vars => [\A n \in voided : claims'[n] = claims[n]]_vars
  <2> SUFFICES ASSUME IInv, [Next]_vars, NEW n \in voided PROVE claims'[n] = claims[n]
    OBVIOUS
  <2>1. ledger[n].status # "registered" /\ n \in Nonces /\ TypeOK /\ ledger \in Docs
    BY DEF IInv, Void, TypeOK
  <2>2. CASE claims' = claims
    BY <2>2
  <2>3. ASSUME NEW a \in Actors, NEW t \in Readings(a), CanClaim(ledger, Nonce(a), t),
               Nonce(a) \in Nonces, claims' = [claims EXCEPT ![Nonce(a)] = @ + 1]
        PROVE  claims'[n] = claims[n]
    <3>1. Get(ledger, Nonce(a), t) = ledger[Nonce(a)] \/ Get(ledger, Nonce(a), t) = NoEntry
      BY <2>1, <2>3, GetEntry, ReadingTime
    <3>2. n # Nonce(a)
      BY <2>1, <2>3, <3>1 DEF CanClaim, NoEntry
    <3> QED BY <2>1, <2>3, <3>2 DEF TypeOK
  <2>4. \/ claims' = claims
        \/ \E a \in Actors : \E t \in Readings(a) :
             /\ CanClaim(ledger, Nonce(a), t)
             /\ Nonce(a) \in Nonces /\ claims' = [claims EXCEPT ![Nonce(a)] = @ + 1]
    <3>1. ASSUME NEW a \in Actors, Claim(a), claims' # claims
          PROVE  \E t \in Readings(a) :
                   /\ CanClaim(ledger, Nonce(a), t)
                   /\ Nonce(a) \in Nonces /\ claims' = [claims EXCEPT ![Nonce(a)] = @ + 1]
      <4>1. Nonce(a) \in Nonces
        BY <2>1, <3>1 DEF Claim, TypeOK, Calls, Nonce
      <4> QED BY <3>1, <4>1 DEF Claim
    <3>2. ASSUME \A a \in Actors : ~Claim(a) PROVE claims' = claims
      BY <3>2 DEF Next, Step, Tick, Preview, Confirm, Parse, Cancel, CheckCancelled,
                  CancelAgain, Execute, Query, Settle, Crash, vars
    <3> QED BY <3>1, <3>2
  <2> QED BY <2>2, <2>3, <2>4
<1> QED
  BY <1>1, SafeInit, SafeStep, PTL DEF Spec, CancelBlocksClaim

-----------------------------------------------------------------------------
(* What prune keeps: within capacity, and every claim. *)

Stored(doc)    == Having(doc, Statuses)
Flying(doc, t) == Unexpired(doc, t) \cap Having(doc, {"in_flight"})
Fits(doc)      == Cardinality(Stored(doc)) <= CAPACITY

LEMMA StoredFinite ==
  ASSUME NEW doc, NEW S \in SUBSET Nonces
  PROVE  IsFiniteSet(S) /\ Cardinality(S) \in Nat
BY LedgerAssumption, FS_Subset, FS_CardinalityType DEF LedgerAssumption

LEMMA NewestBounded ==
  ASSUME NEW S \in SUBSET Nonces, NEW k \in Nat, NEW stamp, NEW R \in Newest(S, k, stamp)
  PROVE  R \subseteq S /\ Cardinality(R) <= k
<1>1. CASE k >= Cardinality(S)
  BY <1>1, StoredFinite DEF Newest
<1>2. CASE ~(k >= Cardinality(S))
  BY <1>2 DEF Newest
<1> QED BY <1>1, <1>2

LEMMA KeptFits ==
  ASSUME NEW doc \in Docs, NEW t \in Nat, NEW K \in Kept(doc, t),
         Cardinality(Flying(doc, t)) <= CAPACITY
  PROVE  /\ Cardinality(K) <= CAPACITY
         /\ Flying(doc, t) \subseteq K
         /\ Cardinality(Unexpired(doc, t)) <= CAPACITY => K = Unexpired(doc, t)
<1> DEFINE live     == Unexpired(doc, t)
           flying   == Flying(doc, t)
           waiting  == live \cap Having(doc, {"registered"})
           finished == live \cap Having(doc, Terminal)
           priority == Cardinality(flying) + Cardinality(waiting)
<1>1. /\ live \in SUBSET Nonces /\ flying \in SUBSET Nonces
      /\ waiting \in SUBSET Nonces /\ finished \in SUBSET Nonces
      /\ flying \subseteq live
  BY DEF Unexpired, Having, Flying
<1>2. /\ Cardinality(live) \in Nat /\ Cardinality(flying) \in Nat
      /\ Cardinality(waiting) \in Nat /\ CAPACITY \in Nat
  BY <1>1, StoredFinite, LedgerAssumption DEF LedgerAssumption
<1>3. ASSUME NEW S \in SUBSET Nonces, NEW T \in SUBSET Nonces
      PROVE  Cardinality(S \cup T) <= Cardinality(S) + Cardinality(T)
  <2>1. Cardinality(S \cup T) = Cardinality(S) + Cardinality(T) - Cardinality(S \cap T)
    BY StoredFinite, FS_Union
  <2>2. Cardinality(S \cap T) \in Nat /\ Cardinality(S) \in Nat /\ Cardinality(T) \in Nat
    BY StoredFinite
  <2> QED BY <2>1, <2>2
<1>4. CASE Cardinality(live) <= CAPACITY
  BY <1>1, <1>4 DEF Kept
<1>5. CASE Cardinality(live) > CAPACITY /\ priority >= CAPACITY
  <2>1. PICK R \in Newest(waiting, CAPACITY - Cardinality(flying), RegStamp(doc)) :
          K = flying \cup R
    <3>1. ~(Cardinality(live) <= CAPACITY) /\ priority >= CAPACITY
      BY <1>2, <1>5
    <3> QED BY <3>1, Zenon DEF Kept, Flying
  <2> HIDE DEF flying, waiting
  <2>2. R \subseteq waiting /\ Cardinality(R) <= CAPACITY - Cardinality(flying)
    <3>1. CAPACITY - Cardinality(flying) \in Nat
      BY <1>2 DEF flying
    <3> QED BY <1>1, <3>1, NewestBounded
  <2> USE DEF flying, waiting
  <2>3. Cardinality(R) \in Nat /\ Cardinality(K) <= Cardinality(flying) + Cardinality(R)
    BY <1>1, <1>3, <2>1, <2>2, StoredFinite
  <2>4. Cardinality(K) \in Nat
    BY <1>1, <2>1, <2>2, StoredFinite
  <2> QED BY <1>2, <1>5, <2>1, <2>2, <2>3, <2>4
<1>6. CASE Cardinality(live) > CAPACITY /\ priority < CAPACITY
  <2>1. PICK D \in Newest(finished, CAPACITY - priority, UpdStamp(doc)) :
          K = flying \cup waiting \cup D
    <3>1. ~(Cardinality(live) <= CAPACITY) /\ ~(priority >= CAPACITY)
      BY <1>2, <1>6
    <3> QED BY <3>1, Zenon DEF Kept, Flying
  <2>2. D \subseteq finished /\ Cardinality(D) <= CAPACITY - priority
    <3>1. CAPACITY - priority \in Nat
      BY <1>2, <1>6
    <3> HIDE DEF finished, priority
    <3> QED BY <1>1, <3>1, NewestBounded
  <2>3. /\ Cardinality(D) \in Nat /\ Cardinality(K) \in Nat
        /\ Cardinality(flying \cup waiting) \in Nat
        /\ Cardinality(K) <= Cardinality(flying \cup waiting) + Cardinality(D)
        /\ Cardinality(flying \cup waiting) <= priority
    BY <1>1, <1>3, <2>1, <2>2, StoredFinite
  <2> QED BY <1>2, <1>6, <2>1, <2>2, <2>3
<1> QED BY <1>2, <1>4, <1>5, <1>6

\* A save loses no unexpired claim.
LEMMA SavedFits ==
  ASSUME NEW doc \in Docs, NEW t \in Nat, NEW d \in Saved(doc, t),
         Cardinality(Flying(doc, t)) <= CAPACITY
  PROVE  /\ d \in Docs /\ Fits(d)
         /\ \A n \in Flying(doc, t) : d[n] = doc[n]
         /\ Cardinality(Unexpired(doc, t)) <= CAPACITY
              => \A n \in Unexpired(doc, t) : d[n] = doc[n]
<1>1. PICK K \in Kept(doc, t) : d = Keep(doc, K)
  BY DEF Saved
<1>2. K \subseteq Unexpired(doc, t) /\ K \in SUBSET Nonces
  BY KeptUnexpired DEF Unexpired, Having
<1>3. \A n \in K : d[n] = doc[n]
  BY <1>1, <1>2 DEF Keep
<1>4. Stored(d) \subseteq K
  BY <1>1 DEF Stored, Having, Keep, NoEntry, Statuses, Terminal
<1>5. Cardinality(Stored(d)) <= Cardinality(K) /\ Cardinality(Stored(d)) \in Nat
      /\ Cardinality(K) \in Nat
  BY <1>2, <1>4, StoredFinite, FS_Subset
<1>6. Cardinality(K) <= CAPACITY /\ CAPACITY \in Nat
  BY KeptFits, LedgerAssumption DEF LedgerAssumption
<1>7. Fits(d)
  BY <1>5, <1>6 DEF Fits
<1> QED BY <1>3, <1>7, KeptFits, SavedEntries

\* What is loaded of a document that fits, fits.
LEMMA LoadFits ==
  ASSUME NEW doc \in Docs, NEW t \in Nat, Fits(doc)
  PROVE  /\ Load(doc, t) \in Docs /\ Fits(Load(doc, t))
         /\ \A n \in Stored(Load(doc, t)) : Load(doc, t)[n] = doc[n] /\ doc[n].exp > t
<1>1. Load(doc, t) \in Docs
  BY LoadEntries
<1>2. Stored(Load(doc, t)) \subseteq Stored(doc)
  BY DEF Stored, Having, Load, Keep, Unexpired, NoEntry, Statuses, Terminal
<1>3. Stored(doc) \in SUBSET Nonces
  BY DEF Stored, Having
<1>4. /\ Cardinality(Stored(Load(doc, t))) <= Cardinality(Stored(doc))
      /\ Cardinality(Stored(Load(doc, t))) \in Nat /\ Cardinality(Stored(doc)) \in Nat
  BY <1>2, <1>3, StoredFinite, FS_Subset
<1>5. Fits(Load(doc, t))
  BY <1>4, LedgerAssumption DEF Fits, LedgerAssumption
<1>6. ASSUME NEW n \in Stored(Load(doc, t))
      PROVE  Load(doc, t)[n] = doc[n] /\ doc[n].exp > t
  BY <1>6, LoadEntries DEF Stored, Having, NoEntry, Statuses, Terminal
<1> QED BY <1>1, <1>5, <1>6

\* A change of status keeps every other entry of the loaded document.
LEMMA RestatusFits ==
  ASSUME NEW doc \in Docs, NEW t \in Nat, NEW n \in Nonces, NEW s \in Statuses, Fits(doc),
         Get(doc, n, t).status \in {"registered", "in_flight"},
         NEW d \in Restatus(doc, n, s, t)
  PROVE  /\ d \in Docs /\ Fits(d) /\ d[n].status = s
         /\ \A m \in Stored(Load(doc, t)) \ {n} : d[m] = doc[m]
<1> DEFINE old == Load(doc, t)
           new == [old EXCEPT ![n].status = s, ![n].upd = t]
<1>1. /\ old \in Docs /\ Fits(old)
      /\ \A m \in Stored(old) : old[m] = doc[m] /\ doc[m].exp > t
  BY LoadFits
<1>2. n \in Stored(old)
  BY LoadEntries DEF Stored, Having, Statuses
<1>3. /\ new \in Docs /\ new[n].status = s /\ new[n].exp = old[n].exp
      /\ \A m \in Nonces : m # n => new[m] = old[m]
  <2> HIDE DEF old
  <2>1. old \in [Nonces -> Entry]
    BY <1>1 DEF Docs
  <2>2. [old[n] EXCEPT !.status = s, !.upd = t] \in Entry
    BY <2>1 DEF Entry, Statuses
  <2>3. new = [old EXCEPT ![n] = [old[n] EXCEPT !.status = s, !.upd = t]]
    BY <2>1 DEF Entry
  <2>4. new[n] = [old[n] EXCEPT !.status = s, !.upd = t] /\ new \in [Nonces -> Entry]
    BY <2>1, <2>2, <2>3
  <2>5. new[n].status = s /\ new[n].exp = old[n].exp
    BY <2>1, <2>4 DEF Entry
  <2>6. \A m \in Nonces : m # n => new[m] = old[m]
    BY <2>1, <2>3
  <2> QED BY <2>4, <2>5, <2>6 DEF Docs
<1> HIDE DEF new, old
<1>4. Stored(new) = Stored(old) /\ Unexpired(new, t) = Stored(old)
  BY <1>1, <1>2, <1>3 DEF Stored, Unexpired, Having
<1>5. Stored(old) \in SUBSET Nonces /\ Flying(new, t) \subseteq Stored(old)
  BY <1>4 DEF Stored, Having, Flying
<1>6. Cardinality(Flying(new, t)) <= CAPACITY
  <2>1. /\ Cardinality(Flying(new, t)) \in Nat /\ Cardinality(Stored(old)) \in Nat
        /\ Cardinality(Flying(new, t)) <= Cardinality(Stored(old))
    BY <1>5, StoredFinite, FS_Subset
  <2> QED BY <1>1, <2>1, LedgerAssumption DEF Fits, LedgerAssumption
<1>7. d \in Saved(new, t)
  BY DEF Restatus, new, old
<1>8. d \in Docs /\ Fits(d) /\ \A m \in Stored(old) : d[m] = new[m]
  BY <1>1, <1>3, <1>4, <1>6, <1>7, SavedFits DEF Fits
<1>9. \A m \in Stored(old) \ {n} : d[m] = doc[m]
  BY <1>1, <1>3, <1>5, <1>8
<1> QED BY <1>2, <1>3, <1>8, <1>9 DEF old

LEMMA MarkedFits ==
  ASSUME NEW doc \in Docs, NEW t \in Nat, NEW n \in Nonces, NEW s \in Terminal, Fits(doc),
         NEW d \in Marked(doc, n, s, t)
  PROVE  /\ Fits(d)
         /\ \A m \in Flying(doc, t) : d[m] = doc[m] \/ d[m].status \in Terminal
<1>1. CASE Get(doc, n, t).status \in {"registered", "in_flight"}
  <2>1. d \in Restatus(doc, n, s, t) /\ s \in Statuses
    BY <1>1 DEF Marked, Statuses
  <2>2. Fits(d) /\ d[n].status = s /\ \A m \in Stored(Load(doc, t)) \ {n} : d[m] = doc[m]
    BY <1>1, <2>1, RestatusFits
  <2>3. Flying(doc, t) \subseteq Stored(Load(doc, t))
    BY DEF Flying, Stored, Having, Load, Keep, Unexpired, Statuses
  <2> QED BY <2>2, <2>3
<1>2. CASE ~(Get(doc, n, t).status \in {"registered", "in_flight"})
  BY <1>2 DEF Marked
<1> QED BY <1>1, <1>2

LEMMA RegisteredFits ==
  ASSUME NEW doc \in Docs, NEW t \in Nat, NEW n \in Nonces, Fits(doc),
         Get(doc, n, t) = NoEntry, NEW d \in Registered(doc, n, t)
  PROVE  /\ Fits(d)
         /\ \A m \in Flying(doc, t) : d[m] = doc[m]
<1> DEFINE old == Load(doc, t)
           entry == [status |-> "registered", exp |-> t + TTL, reg |-> t, upd |-> t]
           new == [old EXCEPT ![n] = entry]
<1>1. /\ old \in Docs /\ Fits(old)
      /\ \A m \in Stored(old) : old[m] = doc[m] /\ doc[m].exp > t
  BY LoadFits
<1>2. entry \in Entry /\ entry.status = "registered"
  BY LedgerAssumption DEF Entry, Statuses
<1>3. new \in Docs /\ new[n] = entry /\ \A m \in Nonces : m # n => new[m] = old[m]
  BY <1>1, <1>2 DEF Docs
<1>4. d \in Saved(new, t)
  BY DEF Registered
<1>5. Flying(doc, t) \subseteq Stored(old)
  BY DEF Flying, Stored, Having, Load, Keep, Unexpired, Statuses
<1>6. n \notin Flying(doc, t)
  BY LoadEntries DEF Flying, Having, Unexpired, Get, Load, Keep, NoEntry
<1> HIDE DEF new, old, entry
<1>7. Flying(new, t) = Flying(doc, t)
  <2>1. \A m \in Nonces : m # n => (m \in Flying(new, t) <=> m \in Flying(old, t))
    BY <1>3 DEF Flying, Having, Unexpired
  <2>2. n \notin Flying(new, t)
    BY <1>2, <1>3 DEF Flying, Having
  <2>3. Flying(old, t) = Flying(doc, t)
    <3>1. Flying(old, t) \subseteq Stored(old)
      BY DEF Flying, Having, Stored, Statuses
    <3>2. \A m \in Stored(old) : m \in Flying(old, t) <=> m \in Flying(doc, t)
      BY <1>1 DEF Flying, Having, Unexpired
    <3> QED BY <1>5, <3>1, <3>2
  <2>4. Flying(new, t) \subseteq Nonces /\ Flying(doc, t) \subseteq Nonces
    BY DEF Flying, Having
  <2> QED BY <1>6, <2>1, <2>2, <2>3, <2>4
<1>8. Cardinality(Flying(new, t)) <= CAPACITY
  <2>1. Stored(old) \in SUBSET Nonces
    BY DEF Stored, Having
  <2>2. /\ Cardinality(Flying(new, t)) \in Nat /\ Cardinality(Stored(old)) \in Nat
        /\ Cardinality(Flying(new, t)) <= Cardinality(Stored(old))
    BY <1>5, <1>7, <2>1, StoredFinite, FS_Subset
  <2> QED BY <1>1, <2>2, LedgerAssumption DEF Fits, LedgerAssumption
<1>9. Fits(d) /\ \A m \in Flying(doc, t) : d[m] = new[m]
  BY <1>3, <1>4, <1>7, <1>8, SavedFits
<1>10. \A m \in Flying(doc, t) : new[m] = doc[m]
  BY <1>1, <1>3, <1>5, <1>6 DEF Flying, Having
<1> QED BY <1>9, <1>10

(***************************************************************************)
(* No step makes the ledger outgrow its capacity, and none drops a claim   *)
(* that has not expired.                                                   *)
(***************************************************************************)
LEMMA FitsStep ==
  ASSUME TypeOK, Fits(ledger), [Next]_vars
  PROVE  /\ Fits(ledger)'
         /\ \A n \in Flying(ledger, now) : ledger'[n] = ledger[n] \/ ledger'[n].status \in Terminal
<1> DEFINE Goal ==
      /\ Fits(ledger')
      /\ \A n \in Flying(ledger, now) : ledger'[n] = ledger[n] \/ ledger'[n].status \in Terminal
<1>0. ledger \in Docs /\ now \in Nat /\ \A a \in Actors : pc[a] # "idle" => Nonce(a) \in Nonces
  BY ActionsAssumption DEF TypeOK, Calls, Nonce
<1>1. CASE ledger' = ledger
  BY <1>1
<1>t. ASSUME NEW t \in Nat, t <= now PROVE Flying(ledger, now) \subseteq Flying(ledger, t)
  BY <1>0, <1>t DEF Flying, Unexpired, Having, Docs, Entry
<1>2. ASSUME NEW n \in Nonces, Preview(n) PROVE Goal
  <2>1. PICK t \in 0..now : CanRegister(ledger, n, t) /\ ledger' \in Registered(ledger, n, t)
    BY <1>2 DEF Preview
  <2>2. t \in Nat /\ t <= now /\ Get(ledger, n, t) = NoEntry
    BY <1>0, <2>1 DEF CanRegister
  <2>3. Fits(ledger') /\ \A m \in Flying(ledger, t) : ledger'[m] = ledger[m]
    BY <1>0, <2>1, <2>2, RegisteredFits
  <2> QED BY <1>t, <2>2, <2>3
<1>4. ASSUME NEW a \in Actors, Cancel(a) \/ CancelAgain(a) \/ Settle(a) PROVE Goal
  <2>1. PICK s \in Terminal : pc[a] # "idle" /\ (TryMark(a, s) \/ CancelMark(a, s))
    BY <1>4 DEF Cancel, CancelAgain, Settle, MarkFor, Terminal
  <2>2. PICK t \in Nat : t <= now /\ ledger' \in Marked(ledger, Nonce(a), s, t) \cup {ledger}
    BY <2>1, MarkStep
  <2>3. CASE ledger' \in Marked(ledger, Nonce(a), s, t)
    <3>1. /\ Fits(ledger')
          /\ \A m \in Flying(ledger, t) : ledger'[m] = ledger[m] \/ ledger'[m].status \in Terminal
      BY <1>0, <2>1, <2>3, MarkedFits
    <3> QED BY <1>t, <2>2, <3>1
  <2> QED BY <1>1, <2>2, <2>3
<1>5. ASSUME NEW a \in Actors, Claim(a), ledger' # ledger PROVE Goal
  <2>1. PICK t \in Readings(a) :
          /\ Get(ledger, Nonce(a), t).status = "registered"
          /\ ledger' \in Restatus(ledger, Nonce(a), "in_flight", t)
    BY <1>5 DEF Claim, CanClaim, Claimed
  <2>2. t \in Nat /\ t <= now /\ Nonce(a) \in Nonces
    BY <1>0, <1>5, ReadingTime DEF Claim
  <2>3. /\ Fits(ledger')
        /\ \A m \in Stored(Load(ledger, t)) \ {Nonce(a)} : ledger'[m] = ledger[m]
    BY <1>0, <2>1, <2>2, RestatusFits DEF Statuses
  <2>4. Flying(ledger, t) \subseteq Stored(Load(ledger, t))
    BY DEF Flying, Stored, Having, Load, Keep, Unexpired, Statuses
  <2>5. Nonce(a) \notin Flying(ledger, now)
    BY <1>0, <2>1, <2>2, GetEntry DEF Flying, Having, NoEntry
  <2> QED BY <1>t, <2>2, <2>3, <2>4, <2>5
<1>6. ASSUME \/ Tick
             \/ \E n \in Nonces, a \in Actors : Confirm(a, n)
             \/ \E a \in Actors : Parse(a) \/ CheckCancelled(a) \/ Execute(a) \/ Query(a) \/ Crash(a)
             \/ UNCHANGED vars
      PROVE  ledger' = ledger
  BY <1>6 DEF Tick, Confirm, Parse, CheckCancelled, Execute, Query, Crash, vars
<1>7. Goal
  BY <1>1, <1>2, <1>4, <1>5, <1>6 DEF Next, Step
<1> QED BY <1>7 DEF Fits, Stored, Having

(***************************************************************************)
(* prune: capacity pressure never drops a claim.  An in_flight entry stays *)
(* as it is until its outcome is recorded, or until it expires.            *)
(***************************************************************************)
THEOREM InFlightIsKept == Spec => InFlightKept
<1>1. Init => Fits(ledger)
  <2>1. Init => Stored(ledger) = {}
    BY DEF Init, EmptyDoc, NoEntry, Stored, Having, Statuses, Terminal
  <2> QED BY <2>1, FS_EmptySet, LedgerAssumption DEF Fits, LedgerAssumption
<1>2. TypeOK /\ Fits(ledger) /\ [Next]_vars
        => [\A n \in Nonces :
              ledger[n].status = "in_flight" /\ ledger'[n].status \notin Terminal
                => ledger'[n] = ledger[n] \/ ledger[n].exp <= now]_vars
  <2> SUFFICES ASSUME TypeOK, Fits(ledger), [Next]_vars, NEW n \in Nonces,
                      ledger[n].status = "in_flight", ledger'[n].status \notin Terminal,
                      ~(ledger[n].exp <= now)
               PROVE  ledger'[n] = ledger[n]
    OBVIOUS
  <2>1. n \in Flying(ledger, now)
    BY ActionsAssumption DEF TypeOK, Docs, Entry, Flying, Unexpired, Having, Statuses
  <2> QED BY <2>1, FitsStep
<1> QED BY <1>1, <1>2, TypeCorrect, FitsStep, PTL DEF Spec, InFlightKept

===============================================================================
