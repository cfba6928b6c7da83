--------------------------- MODULE Lifecycle_proofs ---------------------------
(***************************************************************************)
(* Proofs about the lifecycle ledger: types; a repair backup is pruned     *)
(* only when it is due, however the calls overlap; RECOMMEND_UPGRADE needs *)
(* a live measurement; and, where calls do not overlap, what was reported  *)
(* as recorded and the evidence of a superseded recipe are kept.           *)
(***************************************************************************)
EXTENDS Lifecycle, FiniteSetTheorems, TLAPS

-----------------------------------------------------------------------------
(***************************************************************************)
(* What the operations make of a ledger is a ledger.                       *)
(***************************************************************************)
LEMMA WithRepairType ==
  ASSUME NEW led \in Ledger, NEW id \in Ids, NEW t \in Nat
  PROVE  WithRepair(led, id, t) \in Ledger
<1> DEFINE new == [id |-> id, created |-> t, starts |-> 0, pruned |-> FALSE]
<1>1. led.repairs \cup {new} \in SUBSET Repair
  <2>1. new \in Repair
    BY DEF Repair
  <2>2. led.repairs \in SUBSET Repair
    BY DEF Ledger
  <2> QED BY <2>1, <2>2
<1>2. WithRepair(led, id, t) = [led EXCEPT !.repairs = led.repairs \cup {new}]
  BY DEF WithRepair
<1> HIDE DEF new
<1> QED BY <1>1, <1>2 DEF Ledger

LEMMA StartedType ==
  ASSUME NEW led \in Ledger
  PROVE  Started(led) \in Ledger
<1>1. \A r \in led.repairs : (IF r.pruned THEN r ELSE [r EXCEPT !.starts = @ + 1]) \in Repair
  BY DEF Ledger, Repair
<1> QED BY <1>1 DEF Started, Ledger

LEMMA ExpiredType ==
  ASSUME NEW led \in Ledger, NEW t \in Nat
  PROVE  Expired(led, t) \in Ledger
<1>1. \A r \in led.repairs :
        (IF Due(r, t) THEN [r EXCEPT !.pruned = TRUE] ELSE r) \in Repair
  BY DEF Ledger, Repair
<1> QED BY <1>1 DEF Expired, Ledger

LEMMA CappedType ==
  ASSUME NEW good \in SUBSET Good, NEW S
  PROVE  Capped(good, S) \in SUBSET Good
<1>1. \A k \in good : [k EXCEPT !.pruned = TRUE] \in Good
  BY DEF Good
<1>2. ASSUME NEW x \in Capped(good, S) PROVE x \in Good
  <2>1. PICK k \in good : x = k \/ x = [k EXCEPT !.pruned = TRUE]
    BY <1>2 DEF Capped
  <2> QED BY <1>1, <2>1
<1> QED BY <1>2

LEMMA WithGoodType ==
  ASSUME NEW led \in Ledger, NEW id \in Ids, NEW s \in Surfaces,
         NEW c \in Contents, NEW t \in Nat
  PROVE  WithGood(led, id, s, c, t) \in Ledger
<1> DEFINE new == [id |-> id, surface |-> s, content |-> c, created |-> t,
                   pruned |-> FALSE]
           good == Capped(led.good \cup {new}, {s})
<1>1. led.good \cup {new} \in SUBSET Good
  <2>1. new \in Good
    BY DEF Good
  <2>2. led.good \in SUBSET Good
    BY DEF Ledger
  <2> QED BY <2>1, <2>2
<1>2. good \in SUBSET Good
  BY <1>1, CappedType
<1>3. WithGood(led, id, s, c, t) =
        [led EXCEPT !.good = good,
                    !.guidance = IF @ = "GENERAL_UPDATE_ONLY"
                                 THEN "HOLD_KNOWN_GOOD" ELSE @]
  BY DEF WithGood
<1> HIDE DEF good
<1> QED BY <1>2, <1>3 DEF Ledger, Guidance

LEMMA RetentionType ==
  ASSUME NEW led \in Ledger, NEW t \in Nat
  PROVE  RetentionOf(led, t) \in Ledger
<1> DEFINE e == Expired(led, t)
<1>1. e \in Ledger
  BY ExpiredType
<1>2. Capped(e.good, Surfaces) \in SUBSET Good
  <2>1. e.good \in SUBSET Good
    BY <1>1 DEF Ledger
  <2> QED BY <2>1, CappedType
<1>3. RetentionOf(led, t) = [e EXCEPT !.good = Capped(e.good, Surfaces)]
  BY DEF RetentionOf
<1> HIDE DEF e
<1> QED BY <1>1, <1>2, <1>3 DEF Ledger

LEMMA GuidanceTypes ==
  ASSUME NEW led \in Ledger
  PROVE  /\ Holding(led) \in Ledger
         /\ \A result \in Results, live \in BOOLEAN : Canaried(led, result, live) \in Ledger
         /\ \A r \in Recipes, d \in Digests : Superseded(led, r, d) \in Ledger
<1>1. Holding(led) \in Ledger
  BY DEF Holding, Ledger, Guidance
<1>2. ASSUME NEW result \in Results, NEW live \in BOOLEAN
      PROVE  Canaried(led, result, live) \in Ledger
  <2> DEFINE g == CASE result = "not_run" -> "UPGRADE_CANARY_AVAILABLE"
                    [] result = "clean" /\ live -> "RECOMMEND_UPGRADE"
                    [] result = "clean" /\ ~live -> "UPGRADE_CANARY_AVAILABLE"
                    [] result = "regressed" /\ (\E k \in led.good : ~k.pruned) -> "HOLD_KNOWN_GOOD"
                    [] OTHER -> "GENERAL_UPDATE_ONLY"
  <2>1. g \in Guidance
    BY DEF Guidance
  <2>2. Canaried(led, result, live) = [led EXCEPT !.guidance = g]
    BY DEF Canaried
  <2> HIDE DEF g
  <2> QED BY <2>1, <2>2 DEF Ledger
<1>3. ASSUME NEW r \in Recipes, NEW d \in Digests
      PROVE  Superseded(led, r, d) \in Ledger
  BY DEF Superseded, Ledger, Guidance
<1> QED BY <1>1, <1>2, <1>3

LEMMA EmptyType == EmptyLedger \in Ledger /\ NoJob \in Job
BY DEF EmptyLedger, NoJob, Job, Ledger, Guidance

-----------------------------------------------------------------------------
\* The part of TypeOK about the calls.
CallsOK ==
  /\ pc \in [Procs -> {"idle", "restore", "verify", "save"}]
  /\ job \in [Procs -> Job]

LEMMA CallType ==
  ASSUME CallsOK, NEW p \in Procs, NEW to \in {"restore", "save"},
         NEW led \in Ledger, NEW id \in Ids \cup {0}, Call(p, to, led, id)
  PROVE  CallsOK' /\ overlap' \in BOOLEAN
BY DEF CallsOK, Call, Job

LEMMA DoneType ==
  ASSUME CallsOK, NEW p \in Procs, Done(p)
  PROVE  CallsOK'
BY EmptyType DEF CallsOK, Done

(***************************************************************************)
(* Types, for every number of processes, surfaces, recipes and records.    *)
(***************************************************************************)
THEOREM TypeCorrect == Spec => []TypeOK
<1> USE LifecycleAssumption
<1>1. Init => TypeOK
  <2> SUFFICES ASSUME Init PROVE TypeOK
    OBVIOUS
  <2>1. now \in 0..MaxNow /\ next \in 1..(MaxIds + 1) /\ measured \in 0..MaxMeasures
    BY DEF Init
  <2>2. starts \in [Ids -> Nat] /\ job \in [Procs -> Job]
    BY EmptyType DEF Init
  <2> QED BY <2>1, <2>2, EmptyType DEF Init, TypeOK, Stages
<1>2. TypeOK /\ [Next]_vars => TypeOK'
  <2> SUFFICES ASSUME TypeOK, [Next]_vars PROVE TypeOK'
    OBVIOUS
  <2>0. CallsOK /\ now \in Nat /\ next \in Nat /\ ledger \in Ledger
       /\ overlap \in BOOLEAN
    BY DEF TypeOK, CallsOK
  <2>c. CallsOK' <=> /\ (pc \in [Procs -> {"idle", "restore", "verify", "save"}])'
                     /\ (job \in [Procs -> Job])'
    BY DEF CallsOK
  <2>1. ASSUME NEW p \in Procs, RecordRepairBackup(p) PROVE TypeOK'
    <3>1. CallsOK' /\ overlap' \in BOOLEAN
      BY <2>0, <2>1, WithRepairType, CallType DEF RecordRepairBackup
    <3>2. next' \in 1..(MaxIds + 1)
      BY <2>1 DEF RecordRepairBackup, Ids
    <3> QED BY <2>1, <2>c, <3>1, <3>2 DEF RecordRepairBackup, TypeOK
  <2>2. ASSUME NEW p \in Procs, RecordSuccessfulStart(p) PROVE TypeOK'
    <3>1. CallsOK' /\ overlap' \in BOOLEAN
      BY <2>0, <2>2, StartedType, CallType DEF RecordSuccessfulStart
    <3>2. starts' \in [Ids -> Nat]
      BY <2>2 DEF RecordSuccessfulStart, TypeOK
    <3> QED BY <2>2, <2>c, <3>1, <3>2 DEF RecordSuccessfulStart, TypeOK
  <2>3. ASSUME NEW p \in Procs, ApplyRetention(p) PROVE TypeOK'
    <3>1. CallsOK' /\ overlap' \in BOOLEAN
      BY <2>0, <2>3, RetentionType, CallType DEF ApplyRetention
    <3> QED BY <2>3, <2>c, <3>1 DEF ApplyRetention, TypeOK
  <2>4. ASSUME NEW p \in Procs, NEW s \in Surfaces, RecordKnownGood(p, s)
        PROVE  TypeOK'
    <3>0. surface[s] \in Contents
      BY DEF TypeOK
    <3>1. CallsOK' /\ overlap' \in BOOLEAN
      BY <2>0, <2>4, <3>0, WithGoodType, CallType DEF RecordKnownGood
    <3>2. next' \in 1..(MaxIds + 1)
      BY <2>4 DEF RecordKnownGood, Ids
    <3> QED BY <2>4, <2>c, <3>1, <3>2 DEF RecordKnownGood, TypeOK
  <2>5. ASSUME NEW p \in Procs, NEW b \in BOOLEAN, AssessUpdateRegression(p, b)
        PROVE  TypeOK'
    <3>1. CallsOK' /\ overlap' \in BOOLEAN
      BY <2>0, <2>5, GuidanceTypes, CallType DEF AssessUpdateRegression
    <3> QED BY <2>5, <2>c, <3>1 DEF AssessUpdateRegression, TypeOK
  <2>6. ASSUME NEW p \in Procs, NEW k \in ledger.good, RollbackSurface(p, k)
        PROVE  TypeOK'
    <3>0. k.id \in Ids
      BY <2>0 DEF Ledger, Good
    <3>1. CallsOK' /\ overlap' \in BOOLEAN
      BY <2>0, <2>6, <3>0, GuidanceTypes, CallType DEF RollbackSurface
    <3> QED BY <2>6, <2>c, <3>1 DEF RollbackSurface, TypeOK
  <2>7. ASSUME NEW p \in Procs, Measure(p) PROVE TypeOK'
    BY <2>7 DEF Measure, TypeOK, Stages
  <2>8. ASSUME NEW p \in Procs, NEW result \in Results, NEW shown \in BOOLEAN,
               Canary(p, result, shown)
        PROVE  TypeOK'
    <3> DEFINE live == HasLiveAuthority(p, result, shown)
    <3>0. live \in BOOLEAN
      BY DEF HasLiveAuthority
    <3>1. CallsOK' /\ overlap' \in BOOLEAN
      <4>1. CASE Call(p, "save", Canaried(ledger, result, live), 0)
        <5> HIDE DEF live
        <5> QED BY <2>0, <3>0, <4>1, GuidanceTypes, CallType
      <4>2. CASE UNCHANGED << pc, job, overlap >>
        BY <2>0, <4>2 DEF CallsOK
      <4> QED BY <2>8, <4>1, <4>2 DEF Canary
    <3>2. witness' \in [Procs -> Stages] /\ passed' \in BOOLEAN
      BY <2>8, <3>0 DEF Canary, TypeOK, Stages
    <3> QED BY <2>8, <2>c, <3>1, <3>2 DEF Canary, TypeOK
  <2>9. ASSUME NEW p \in Procs, NEW r \in Recipes, NEW d \in Digests,
               SupersedeRecipe(p, r, d)
        PROVE  TypeOK'
    <3>1. CallsOK' /\ overlap' \in BOOLEAN
      BY <2>0, <2>9, GuidanceTypes, CallType DEF SupersedeRecipe
    <3> QED BY <2>9, <2>c, <3>1 DEF SupersedeRecipe, TypeOK, Stages
  <2>10. ASSUME NEW p \in Procs, Restore(p) PROVE TypeOK'
    <3>1. CallsOK'
      <4>1. CASE Goto(p, "verify")
        BY <2>0, <4>1 DEF CallsOK, Goto
      <4> QED BY <2>0, <2>10, <4>1, DoneType DEF Restore
    <3>2. surface' \in [Surfaces -> Contents]
      <4>1. \A k \in job[p].led.good : k.surface \in Surfaces /\ k.content \in Contents
        BY <2>0 DEF CallsOK, Job, Ledger, Good
      <4> QED BY <2>10, <4>1 DEF Restore, TypeOK
    <3> QED BY <2>10, <2>c, <3>1, <3>2 DEF Restore, TypeOK
  <2>11. ASSUME NEW p \in Procs, Verify(p) PROVE TypeOK'
    <3>1. CallsOK'
      <4>1. CASE Goto(p, "save")
        BY <2>0, <4>1 DEF CallsOK, Goto
      <4> QED BY <2>0, <2>11, <4>1, DoneType DEF Verify
    <3> QED BY <2>11, <2>c, <3>1 DEF Verify, TypeOK
  <2>12. ASSUME NEW p \in Procs, Save(p) PROVE TypeOK'
    <3>1. CallsOK'
      BY <2>0, <2>12, DoneType DEF Save
    <3>2. ledger' \in Ledger /\ recorded' \subseteq Ids
      <4>1. job[p].led \in Ledger /\ job[p].id \in Ids \cup {0}
        BY <2>0 DEF CallsOK, Job
      <4> QED BY <2>12, <4>1 DEF Save, TypeOK
    <3> QED BY <2>12, <2>c, <3>1, <3>2 DEF Save, TypeOK
  <2>13. ASSUME NEW p \in Procs, Crash(p) PROVE TypeOK'
    <3>1. CallsOK'
      BY <2>0, <2>13, DoneType DEF Crash
    <3> QED BY <2>13, <2>c, <3>1 DEF Crash, TypeOK, Stages
  <2>14. ASSUME NEW s \in Surfaces, NEW c \in Contents, Edit(s, c) PROVE TypeOK'
    BY <2>14 DEF Edit, TypeOK
  <2>15. CASE Tick
    BY <2>15 DEF Tick, TypeOK
  <2>16. CASE UNCHANGED vars
    BY <2>16 DEF vars, TypeOK
  <2> QED
    BY <2>1, <2>2, <2>3, <2>4, <2>5, <2>6, <2>7, <2>8, <2>9, <2>10, <2>11,
       <2>12, <2>13, <2>14, <2>15, <2>16 DEF Next, Step
<1> QED BY <1>1, <1>2, PTL DEF Spec

-----------------------------------------------------------------------------
(***************************************************************************)
(* What an operation makes of a ledger keeps its records and the evidence  *)
(* it has; its backups are counted right; its guidance is backed.          *)
(***************************************************************************)
IdsOf(led) == {x.id : x \in led.repairs \cup led.good}

Kept(old, new) ==
  /\ \A r \in Recipes : old.recipes[r] # NoDigest => new.recipes[r] = old.recipes[r]
  /\ IdsOf(old) \subseteq IdsOf(new)

\* At time t, with the ids below n given and c starts since each was made.
Counted(led, t, n, c) ==
  \A r \in led.repairs :
    /\ r.id < n /\ r.created <= t /\ r.starts <= c[r.id]
    /\ r.pruned => t - r.created >= MIN_AGE /\ c[r.id] >= MIN_STARTS

Backed(led, ok) == led.guidance = "RECOMMEND_UPGRADE" => ok

LEMMA CountedLater ==
  ASSUME NEW led \in Ledger, NEW t \in Nat, NEW u \in Nat, NEW n \in Nat,
         NEW m \in Nat, NEW c \in [Ids -> Nat], NEW d \in [Ids -> Nat],
         t <= u, n <= m, \A i \in Ids : c[i] <= d[i], Counted(led, t, n, c)
  PROVE  Counted(led, u, m, d)
<1> SUFFICES ASSUME NEW r \in led.repairs
             PROVE  /\ r.id < m /\ r.created <= u /\ r.starts <= d[r.id]
                    /\ r.pruned => u - r.created >= MIN_AGE /\ d[r.id] >= MIN_STARTS
  BY DEF Counted
<1>1. /\ r.id \in Nat /\ r.created \in Nat /\ r.starts \in Nat
      /\ c[r.id] \in Nat /\ d[r.id] \in Nat /\ c[r.id] <= d[r.id]
  BY DEF Ledger, Repair, Ids
<1>2. /\ r.id < n /\ r.created <= t /\ r.starts <= c[r.id]
      /\ r.pruned => t - r.created >= MIN_AGE /\ c[r.id] >= MIN_STARTS
  BY DEF Counted
<1> QED BY <1>1, <1>2, LifecycleAssumption

LEMMA RepairCounted ==
  ASSUME NEW led \in Ledger, NEW t \in Nat, NEW n \in Ids, NEW c \in [Ids -> Nat],
         Counted(led, t, n, c)
  PROVE  /\ Counted(WithRepair(led, n, t), t, n + 1, c)
         /\ Kept(led, WithRepair(led, n, t))
         /\ n \in IdsOf(WithRepair(led, n, t))
         /\ WithRepair(led, n, t).guidance = led.guidance
<1> DEFINE new == [id |-> n, created |-> t, starts |-> 0, pruned |-> FALSE]
           after == WithRepair(led, n, t)
<1>1. /\ after.repairs = led.repairs \cup {new} /\ after.good = led.good
      /\ after.recipes = led.recipes /\ after.guidance = led.guidance
  BY DEF WithRepair, Ledger
<1>2. n \in Nat /\ n + 1 \in Nat /\ n <= n + 1 /\ c[n] \in Nat
  BY DEF Ids
<1>3. Counted(led, t, n + 1, c)
  BY <1>2, CountedLater
<1>4. /\ new.id < n + 1 /\ new.created <= t /\ new.starts <= c[new.id]
      /\ ~new.pruned /\ new.id = n
  BY <1>2
<1> HIDE DEF new, after
<1>5. Counted(after, t, n + 1, c)
  BY <1>1, <1>3, <1>4 DEF Counted
<1>6. Kept(led, after) /\ n \in IdsOf(after)
  BY <1>1, <1>4 DEF Kept, IdsOf
<1> QED BY <1>1, <1>5, <1>6 DEF after

LEMMA StartCounted ==
  ASSUME NEW led \in Ledger, NEW t \in Nat, NEW n \in Nat, NEW c \in [Ids -> Nat],
         Counted(led, t, n, c)
  PROVE  /\ Counted(Started(led), t, n, [i \in Ids |-> IF i < n THEN c[i] + 1 ELSE 0])
         /\ Kept(led, Started(led))
         /\ Started(led).guidance = led.guidance
<1> DEFINE up(r) == IF r.pruned THEN r ELSE [r EXCEPT !.starts = @ + 1]
           after == Started(led)
           d == [i \in Ids |-> IF i < n THEN c[i] + 1 ELSE 0]
<1>1. /\ after.repairs = {up(r) : r \in led.repairs} /\ after.good = led.good
      /\ after.recipes = led.recipes /\ after.guidance = led.guidance
  BY DEF Started, Ledger
<1>2. ASSUME NEW r \in led.repairs
      PROVE  /\ up(r).id = r.id /\ up(r).id < n /\ up(r).created <= t
             /\ up(r).starts <= d[up(r).id]
             /\ up(r).pruned => t - up(r).created >= MIN_AGE /\ d[up(r).id] >= MIN_STARTS
  <2>1. /\ r.id \in Ids /\ r.created \in Nat /\ r.starts \in Nat /\ c[r.id] \in Nat
        /\ r = [id |-> r.id, created |-> r.created, starts |-> r.starts, pruned |-> r.pruned]
    BY DEF Ledger, Repair
  <2>2. /\ r.id < n /\ r.created <= t /\ r.starts <= c[r.id]
        /\ r.pruned => t - r.created >= MIN_AGE /\ c[r.id] >= MIN_STARTS
    BY DEF Counted
  <2>3. d[r.id] = c[r.id] + 1
    BY <2>1, <2>2
  <2> HIDE DEF d
  <2>4. CASE r.pruned
    BY <2>1, <2>2, <2>3, <2>4, LifecycleAssumption
  <2>5. CASE ~r.pruned
    <3>1. /\ up(r).id = r.id /\ up(r).created = r.created /\ ~up(r).pruned
          /\ up(r).starts = r.starts + 1
      BY <2>1, <2>5
    <3> QED BY <2>1, <2>2, <2>3, <3>1
  <2> QED BY <2>4, <2>5
<1> HIDE DEF up, after, d
<1>3. Counted(after, t, n, d)
  BY <1>1, <1>2 DEF Counted
<1>4. Kept(led, after)
  BY <1>1, <1>2 DEF Kept, IdsOf
<1> QED BY <1>1, <1>3, <1>4 DEF after, d

LEMMA CapKept ==
  ASSUME NEW good \in SUBSET Good, NEW S
  PROVE  {k.id : k \in Capped(good, S)} = {k.id : k \in good}
<1> DEFINE cap(k) == IF ~k.pruned /\ k.surface \in S /\ Beyond(good, k)
                     THEN [k EXCEPT !.pruned = TRUE] ELSE k
<1>1. \A k \in good : cap(k).id = k.id
  BY DEF Good
<1>2. Capped(good, S) = {cap(k) : k \in good}
  BY DEF Capped
<1> HIDE DEF cap
<1> QED BY <1>1, <1>2

LEMMA GoodCounted ==
  ASSUME NEW led \in Ledger, NEW id \in Ids, NEW s \in Surfaces, NEW c \in Contents,
         NEW t \in Nat
  PROVE  LET after == WithGood(led, id, s, c, t)
         IN  /\ after.repairs = led.repairs
             /\ Kept(led, after)
             /\ id \in IdsOf(after)
             /\ \A ok : Backed(led, ok) => Backed(after, ok)
<1> DEFINE after == WithGood(led, id, s, c, t)
           new   == [id |-> id, surface |-> s, content |-> c, created |-> t,
                     pruned |-> FALSE]
           good  == Capped(led.good \cup {new}, {s})
<1>1. /\ after.repairs = led.repairs /\ after.good = good
      /\ after.recipes = led.recipes
      /\ after.guidance = "HOLD_KNOWN_GOOD" \/ after.guidance = led.guidance
  BY DEF WithGood, Ledger
<1>2. led.good \cup {new} \in SUBSET Good
  <2>1. new \in Good
    BY DEF Good
  <2>2. led.good \in SUBSET Good
    BY DEF Ledger
  <2> QED BY <2>1, <2>2
<1>3. {k.id : k \in good} = {k.id : k \in led.good \cup {new}} /\ new.id = id
  BY <1>2, CapKept
<1> HIDE DEF after, new, good
<1>4. Kept(led, after) /\ id \in IdsOf(after)
  BY <1>1, <1>3 DEF Kept, IdsOf
<1>5. \A ok : Backed(led, ok) => Backed(after, ok)
  BY <1>1 DEF Backed
<1> QED BY <1>1, <1>4, <1>5 DEF after

LEMMA RetentionCounted ==
  ASSUME NEW led \in Ledger, NEW t \in Nat, NEW n \in Nat, NEW c \in [Ids -> Nat],
         Counted(led, t, n, c)
  PROVE  /\ Counted(RetentionOf(led, t), t, n, c)
         /\ Kept(led, RetentionOf(led, t))
         /\ RetentionOf(led, t).guidance = led.guidance
<1> DEFINE age(r) == IF Due(r, t) THEN [r EXCEPT !.pruned = TRUE] ELSE r
           after  == RetentionOf(led, t)
<1>1. /\ after.repairs = {age(r) : r \in led.repairs}
      /\ after.good = Capped(led.good, Surfaces)
      /\ after.recipes = led.recipes /\ after.guidance = led.guidance
  <2> DEFINE e == Expired(led, t)
  <2>1. /\ e.repairs = {age(r) : r \in led.repairs} /\ e.good = led.good
        /\ e.recipes = led.recipes /\ e.guidance = led.guidance
    BY DEF Expired, Ledger
  <2>2. e \in Ledger
    BY ExpiredType
  <2>3. after = [e EXCEPT !.good = Capped(e.good, Surfaces)]
    BY DEF RetentionOf
  <2> HIDE DEF e, age, after
  <2> QED BY <2>1, <2>2, <2>3 DEF Ledger
<1>2. ASSUME NEW r \in led.repairs
      PROVE  /\ age(r).id = r.id /\ age(r).id < n /\ age(r).created <= t
             /\ age(r).starts <= c[age(r).id]
             /\ age(r).pruned => t - age(r).created >= MIN_AGE /\ c[age(r).id] >= MIN_STARTS
  <2>1. /\ r.id \in Ids /\ r.created \in Nat /\ r.starts \in Nat /\ c[r.id] \in Nat
        /\ r = [id |-> r.id, created |-> r.created, starts |-> r.starts, pruned |-> r.pruned]
    BY DEF Ledger, Repair
  <2>2. /\ r.id < n /\ r.created <= t /\ r.starts <= c[r.id]
        /\ r.pruned => t - r.created >= MIN_AGE /\ c[r.id] >= MIN_STARTS
    BY DEF Counted
  <2>3. /\ age(r).id = r.id /\ age(r).created = r.created /\ age(r).starts = r.starts
        /\ age(r).pruned => r.pruned \/ Due(r, t)
    BY <2>1
  <2>4. Due(r, t) => t - r.created >= MIN_AGE /\ c[r.id] >= MIN_STARTS
    BY <2>1, <2>2, LifecycleAssumption DEF Due
  <2> HIDE DEF age
  <2> QED BY <2>1, <2>2, <2>3, <2>4
<1>3. {k.id : k \in Capped(led.good, Surfaces)} = {k.id : k \in led.good}
  BY CapKept DEF Ledger
<1> HIDE DEF age, after
<1>4. Counted(after, t, n, c)
  BY <1>1, <1>2 DEF Counted
<1>5. Kept(led, after)
  <2>1. \A r \in led.repairs : r.id \in IdsOf(after)
    BY <1>1, <1>2 DEF IdsOf
  <2>2. \A k \in led.good : k.id \in IdsOf(after)
    <3>1. \A k \in led.good : \E j \in after.good : j.id = k.id
      BY <1>1, <1>3
    <3> QED BY <3>1 DEF IdsOf
  <2> QED BY <1>1, <2>1, <2>2 DEF Kept, IdsOf
<1> QED BY <1>1, <1>4, <1>5 DEF after

LEMMA GuidanceKept ==
  ASSUME NEW led \in Ledger
  PROVE  /\ Holding(led).repairs = led.repairs /\ Kept(led, Holding(led))
         /\ IdsOf(Holding(led)) = IdsOf(led)
         /\ \A ok : Backed(Holding(led), ok)
BY DEF Holding, Ledger, Kept, IdsOf, Backed

LEMMA CanariedKept ==
  ASSUME NEW led \in Ledger, NEW result \in Results, NEW live \in BOOLEAN
  PROVE  LET after == Canaried(led, result, live)
         IN  /\ after.repairs = led.repairs /\ Kept(led, after)
             /\ Backed(after, live)
<1> DEFINE g == CASE result = "not_run" -> "UPGRADE_CANARY_AVAILABLE"
                  [] result = "clean" /\ live -> "RECOMMEND_UPGRADE"
                  [] result = "clean" /\ ~live -> "UPGRADE_CANARY_AVAILABLE"
                  [] result = "regressed" /\ (\E k \in led.good : ~k.pruned) -> "HOLD_KNOWN_GOOD"
                  [] OTHER -> "GENERAL_UPDATE_ONLY"
           after == Canaried(led, result, live)
<1>1. g = "RECOMMEND_UPGRADE" => live
  OBVIOUS
<1>2. after = [led EXCEPT !.guidance = g]
  BY DEF Canaried
<1> HIDE DEF g, after
<1> QED BY <1>1, <1>2 DEF Ledger, Kept, IdsOf, Backed, after

LEMMA SupersededKept ==
  ASSUME NEW led \in Ledger, NEW r \in Recipes, NEW d \in Digests,
         led.recipes[r] \in {NoDigest, d}
  PROVE  LET after == Superseded(led, r, d)
         IN  /\ after.repairs = led.repairs /\ Kept(led, after)
             /\ \A ok : Backed(led, ok) => Backed(after, ok)
<1> DEFINE after == Superseded(led, r, d)
<1>1. /\ after.repairs = led.repairs /\ after.good = led.good
      /\ after.recipes = [led.recipes EXCEPT ![r] = d]
      /\ after.guidance = "UPGRADE_CANARY_AVAILABLE" \/ after.guidance = led.guidance
  BY DEF Superseded, Ledger
<1>2. \A q \in Recipes : led.recipes[q] # NoDigest => after.recipes[q] = led.recipes[q]
  BY <1>1 DEF Ledger
<1> HIDE DEF after
<1> QED BY <1>1, <1>2 DEF Kept, IdsOf, Backed, after

-----------------------------------------------------------------------------
(***************************************************************************)
(* The inductive invariant: the ledger on disk, and every ledger about to  *)
(* be saved, are counted right and backed by a measurement; and where      *)
(* calls do not overlap, what is about to be saved keeps what is there.    *)
(***************************************************************************)
Sound(led) == Counted(led, now, next, starts) /\ Backed(led, passed)

Serial ==
  ~overlap => \A p \in Procs : pc[p] # "idle" =>
    /\ \A q \in Procs \ {p} : pc[q] = "idle"
    /\ Kept(ledger, job[p].led)
    /\ job[p].id = 0 \/ job[p].id \in IdsOf(job[p].led)

LifecycleInv ==
  /\ TypeOK
  /\ Sound(ledger)
  /\ \A p \in Procs : Sound(job[p].led)
  /\ Serial
  /\ ~overlap => recorded \subseteq IdsOf(ledger)

\* The steps that load the ledger and go on.
Loads(p) ==
  \/ RecordRepairBackup(p) \/ RecordSuccessfulStart(p) \/ ApplyRetention(p)
  \/ \E s \in Surfaces : RecordKnownGood(p, s)
  \/ \E b \in BOOLEAN : AssessUpdateRegression(p, b)
  \/ \E k \in ledger.good : RollbackSurface(p, k)
  \/ \E result \in Results, shown \in BOOLEAN : Canary(p, result, shown) /\ ~UNCHANGED << pc, job >>
  \/ \E r \in Recipes, d \in Digests : SupersedeRecipe(p, r, d)

\* What a call that loaded the ledger is about to save.
LoadedBy(p, to, led, id) ==
  /\ Call(p, to, led, id)
  /\ Kept(ledger, led)
  /\ id = 0 \/ id \in IdsOf(led)
  /\ Counted(led, now', next', starts') /\ Backed(led, passed')
  /\ UNCHANGED << ledger, recorded >>

LEMMA Loading ==
  ASSUME LifecycleInv, NEW p \in Procs, Loads(p)
  PROVE  \E to \in {"restore", "save"}, led \in Ledger, id \in Ids \cup {0} :
           LoadedBy(p, to, led, id)
<1>0. /\ ledger \in Ledger /\ now \in Nat /\ next \in Nat /\ starts \in [Ids -> Nat]
      /\ Counted(ledger, now, next, starts) /\ Backed(ledger, passed)
  BY DEF LifecycleInv, TypeOK, Sound
<1>1. CASE RecordRepairBackup(p)
  <2> DEFINE led == WithRepair(ledger, next, now)
  <2>1. /\ led \in Ledger /\ Kept(ledger, led) /\ next \in IdsOf(led)
        /\ Counted(led, now, next + 1, starts) /\ led.guidance = ledger.guidance
    BY <1>0, <1>1, WithRepairType, RepairCounted DEF RecordRepairBackup
  <2> HIDE DEF led
  <2>2. LoadedBy(p, "save", led, next)
    BY <1>0, <1>1, <2>1 DEF RecordRepairBackup, LoadedBy, Backed, led
  <2> QED BY <1>1, <2>1, <2>2 DEF RecordRepairBackup
<1>2. CASE RecordSuccessfulStart(p)
  <2> DEFINE led == Started(ledger)
             d == [i \in Ids |-> IF i < next THEN starts[i] + 1 ELSE 0]
  <2>1. /\ led \in Ledger /\ Kept(ledger, led) /\ led.guidance = ledger.guidance
        /\ Counted(led, now, next, d)
    BY <1>0, StartedType, StartCounted
  <2> HIDE DEF led, d
  <2>2. LoadedBy(p, "save", led, 0)
    BY <1>0, <1>2, <2>1 DEF RecordSuccessfulStart, LoadedBy, Backed, led, d
  <2> QED BY <2>1, <2>2
<1>3. CASE ApplyRetention(p)
  <2> DEFINE led == RetentionOf(ledger, now)
  <2>1. /\ led \in Ledger /\ Kept(ledger, led) /\ led.guidance = ledger.guidance
        /\ Counted(led, now, next, starts)
    BY <1>0, RetentionType, RetentionCounted
  <2> HIDE DEF led
  <2>2. LoadedBy(p, "save", led, 0)
    BY <1>0, <1>3, <2>1 DEF ApplyRetention, LoadedBy, Backed, led
  <2> QED BY <2>1, <2>2
<1>4. CASE \E s \in Surfaces : RecordKnownGood(p, s)
  <2>1. PICK s \in Surfaces : RecordKnownGood(p, s)
    BY <1>4
  <2> DEFINE led == WithGood(ledger, next, s, surface[s], now)
  <2>2. next \in Ids /\ surface[s] \in Contents
    BY <2>1 DEF RecordKnownGood, LifecycleInv, TypeOK
  <2>3. /\ led \in Ledger /\ Kept(ledger, led) /\ next \in IdsOf(led)
        /\ led.repairs = ledger.repairs /\ Backed(led, passed)
    BY <1>0, <2>2, WithGoodType, GoodCounted
  <2> HIDE DEF led
  <2>4. Counted(led, now, next + 1, starts)
    <3>1. \A i \in Ids : starts[i] <= starts[i]
      BY <1>0
    <3>2. next + 1 \in Nat /\ next <= next + 1 /\ now <= now
      BY <1>0
    <3>3. Counted(led, now, next, starts)
      BY <1>0, <2>3 DEF Counted
    <3> QED BY <1>0, <2>3, <3>1, <3>2, <3>3, CountedLater
  <2>5. LoadedBy(p, "save", led, next)
    BY <2>1, <2>3, <2>4 DEF RecordKnownGood, LoadedBy, Backed, led
  <2> QED BY <2>2, <2>3, <2>5
<1>5. CASE \E b \in BOOLEAN : AssessUpdateRegression(p, b)
  <2>1. PICK b \in BOOLEAN : AssessUpdateRegression(p, b)
    BY <1>5
  <2> DEFINE led == IF b THEN Holding(ledger) ELSE ledger
  <2>2. /\ led \in Ledger /\ Kept(ledger, led) /\ led.repairs = ledger.repairs
        /\ Backed(led, passed)
    BY <1>0, GuidanceTypes, GuidanceKept DEF Kept
  <2> HIDE DEF led
  <2>3. LoadedBy(p, "save", led, 0)
    BY <1>0, <2>1, <2>2 DEF AssessUpdateRegression, LoadedBy, Backed, Counted, led
  <2> QED BY <2>2, <2>3
<1>6. CASE \E k \in ledger.good : RollbackSurface(p, k)
  <2>1. PICK k \in ledger.good : RollbackSurface(p, k)
    BY <1>6
  <2> DEFINE led == Holding(ledger)
  <2>2. /\ led \in Ledger /\ Kept(ledger, led) /\ led.repairs = ledger.repairs
        /\ Backed(led, passed) /\ IdsOf(led) = IdsOf(ledger)
    BY <1>0, GuidanceTypes, GuidanceKept
  <2>3. k.id \in Ids /\ k.id \in IdsOf(ledger)
    BY <1>0 DEF Ledger, Good, IdsOf
  <2> HIDE DEF led
  <2>4. LoadedBy(p, "restore", led, k.id)
    BY <1>0, <2>1, <2>2, <2>3 DEF RollbackSurface, LoadedBy, Backed, Counted, led
  <2> QED BY <2>2, <2>3, <2>4
<1>7. CASE \E result \in Results, shown \in BOOLEAN :
             Canary(p, result, shown) /\ ~UNCHANGED << pc, job >>
  <2>1. PICK result \in Results, shown \in BOOLEAN :
          Canary(p, result, shown) /\ ~UNCHANGED << pc, job >>
    BY <1>7
  <2> DEFINE live == HasLiveAuthority(p, result, shown)
             led == Canaried(ledger, result, live)
  <2>2. live \in BOOLEAN /\ (live => witness[p] = "fresh")
    BY DEF HasLiveAuthority
  <2> HIDE DEF live
  <2>3. /\ led \in Ledger /\ Kept(ledger, led) /\ led.repairs = ledger.repairs
        /\ Backed(led, live)
    BY <1>0, <2>2, GuidanceTypes, CanariedKept
  <2> HIDE DEF led
  <2>4. /\ Call(p, "save", led, 0)
        /\ passed' = (passed \/ (live /\ witness[p] = "fresh"))
        /\ UNCHANGED << now, ledger, next, starts, recorded >>
    BY <2>1 DEF Canary, led, live
  <2>5. LoadedBy(p, "save", led, 0)
    BY <1>0, <2>2, <2>3, <2>4 DEF LoadedBy, Backed, Counted
  <2> QED BY <2>3, <2>5
<1>8. CASE \E r \in Recipes, d \in Digests : SupersedeRecipe(p, r, d)
  <2>1. PICK r \in Recipes, d \in Digests : SupersedeRecipe(p, r, d)
    BY <1>8
  <2> DEFINE led == Superseded(ledger, r, d)
  <2>2. ledger.recipes[r] \in {NoDigest, d}
    BY <2>1 DEF SupersedeRecipe, Conflict
  <2>3. /\ led \in Ledger /\ Kept(ledger, led) /\ led.repairs = ledger.repairs
        /\ Backed(led, passed)
    BY <1>0, <2>2, GuidanceTypes, SupersededKept
  <2> HIDE DEF led
  <2>4. LoadedBy(p, "save", led, 0)
    BY <1>0, <2>1, <2>3 DEF SupersedeRecipe, LoadedBy, Backed, Counted, led
  <2> QED BY <2>3, <2>4
<1> QED BY <1>1, <1>2, <1>3, <1>4, <1>5, <1>6, <1>7, <1>8 DEF Loads

-----------------------------------------------------------------------------
\* The steps that leave the calls and the ledger alone.
Quiet ==
  /\ UNCHANGED << ledger, pc, job, next, starts, recorded, overlap >>
  /\ now <= now' /\ passed' = passed

\* A step's counts do not fall.
Grows ==
  /\ now' \in Nat /\ now <= now' /\ next' \in Nat /\ next <= next'
  /\ starts' \in [Ids -> Nat] /\ \A i \in Ids : starts[i] <= starts'[i]
  /\ passed => passed'

LEMMA SoundLater ==
  ASSUME TypeOK, Grows, NEW led \in Ledger, Sound(led)
  PROVE  Counted(led, now', next', starts') /\ Backed(led, passed')
<1>1. now \in Nat /\ next \in Nat /\ starts \in [Ids -> Nat]
  BY DEF TypeOK
<1> QED BY <1>1, CountedLater DEF Grows, Sound, Backed

\* Starts are counted for the backups made so far; the others have none yet.
LEMMA StartGrows ==
  ASSUME TypeOK, \A i \in Ids : i >= next => starts[i] = 0, NEW p \in Procs,
         RecordSuccessfulStart(p)
  PROVE  \A i \in Ids : starts[i] <= starts'[i]
BY DEF TypeOK, RecordSuccessfulStart, Ids

NotYet == \A i \in Ids : i >= next => starts[i] = 0

LEMMA StepGrows ==
  ASSUME TypeOK, NotYet, [Next]_vars, TypeOK'
  PROVE  Grows /\ NotYet'
<1>1. CASE \E p \in Procs : RecordSuccessfulStart(p)
  BY <1>1, StartGrows DEF Grows, NotYet, TypeOK, RecordSuccessfulStart, Ids
<1>2. CASE ~\E p \in Procs : RecordSuccessfulStart(p)
  <2>1. starts' = starts /\ now <= now' /\ (next' = next \/ next' = next + 1)
        /\ (passed => passed')
    BY <1>2 DEF TypeOK, Next, Step, vars, RecordRepairBackup, ApplyRetention,
       RecordKnownGood, AssessUpdateRegression, RollbackSurface, Measure, Canary,
       SupersedeRecipe, Restore, Verify, Save, Crash, Edit, Tick, Ids
  <2>2. now' \in Nat /\ next \in Nat /\ next' \in Nat
    BY LifecycleAssumption DEF TypeOK
  <2>3. NotYet'
    BY <2>1, <2>2 DEF NotYet, Ids
  <2> QED BY <2>1, <2>2, <2>3 DEF Grows, TypeOK
<1> QED BY <1>1, <1>2

LEMMA LoadInv ==
  ASSUME LifecycleInv, Grows, TypeOK', NEW p \in Procs, Loads(p)
  PROVE  LifecycleInv'
<1>1. PICK to \in {"restore", "save"}, led \in Ledger, id \in Ids \cup {0} :
        LoadedBy(p, to, led, id)
  BY Loading
<1>2. /\ UNCHANGED << ledger, recorded >>
      /\ pc[p] = "idle" /\ overlap' = (overlap \/ ~Alone(p))
      /\ pc' = [pc EXCEPT ![p] = to] /\ job' = [job EXCEPT ![p] = [led |-> led, id |-> id]]
  BY <1>1 DEF LoadedBy, Call
<1>3. ledger \in Ledger /\ job \in [Procs -> Job] /\ pc \in [Procs -> {"idle", "restore", "verify", "save"}]
  BY DEF LifecycleInv, TypeOK
<1>4. job'[p].led = led /\ job'[p].id = id /\ \A q \in Procs \ {p} : job'[q] = job[q]
  BY <1>2, <1>3
<1>5. Sound(ledger)'
  BY <1>2, <1>3, SoundLater DEF LifecycleInv, Sound
<1>6. ASSUME NEW q \in Procs PROVE Sound(job[q].led)'
  <2>1. CASE q = p
    BY <1>1, <1>4, <2>1 DEF LoadedBy, Sound
  <2>2. CASE q # p
    <3>1. job[q].led \in Ledger /\ Sound(job[q].led)
      BY <1>3 DEF Job, LifecycleInv
    <3> QED BY <1>4, <2>2, <3>1, SoundLater DEF Sound, LifecycleInv
  <2> QED BY <2>1, <2>2
<1>7. Serial'
  <2> SUFFICES ASSUME ~overlap', NEW q \in Procs, pc'[q] # "idle"
               PROVE  /\ \A r \in Procs \ {q} : pc'[r] = "idle"
                      /\ Kept(ledger', job'[q].led)
                      /\ job'[q].id = 0 \/ job'[q].id \in IdsOf(job'[q].led)
    BY DEF Serial
  <2>1. \A r \in Procs \ {p} : pc[r] = "idle"
    BY <1>2 DEF Alone
  <2>2. q = p /\ \A r \in Procs \ {q} : pc'[r] = "idle"
    BY <1>2, <1>3, <2>1
  <2> QED BY <1>1, <1>2, <1>4, <2>2 DEF LoadedBy
<1>8. ~overlap' => recorded' \subseteq IdsOf(ledger)'
  BY <1>2 DEF LifecycleInv, IdsOf
<1> QED BY <1>5, <1>6, <1>7, <1>8 DEF LifecycleInv

LEMMA GoOnInv ==
  ASSUME LifecycleInv, Grows, TypeOK', NEW p \in Procs, pc[p] # "idle",
         \/ \E to \in {"verify", "save"} : Goto(p, to)
         \/ Done(p),
         UNCHANGED << ledger, recorded, overlap >>
  PROVE  LifecycleInv'
<1>1. ledger \in Ledger /\ job \in [Procs -> Job] /\ pc \in [Procs -> {"idle", "restore", "verify", "save"}]
  BY DEF LifecycleInv, TypeOK
<1>2. \A q \in Procs : \/ job'[q] = job[q] /\ (pc'[q] # "idle" => pc[q] # "idle")
                       \/ job'[q] = NoJob /\ pc'[q] = "idle"
  BY <1>1 DEF Goto, Done
<1>3. Sound(ledger)'
  BY <1>1, SoundLater DEF LifecycleInv, Sound
<1>4. ASSUME NEW q \in Procs PROVE Sound(job[q].led)'
  <2>1. CASE job'[q] = NoJob
    BY <2>1 DEF NoJob, EmptyLedger, Sound, Counted, Backed
  <2>2. CASE job'[q] = job[q]
    <3>1. job[q].led \in Ledger /\ Sound(job[q].led)
      BY <1>1 DEF Job, LifecycleInv
    <3> QED BY <2>2, <3>1, SoundLater DEF Sound, LifecycleInv
  <2> QED BY <1>2, <2>1, <2>2
<1>5. Serial'
  <2> SUFFICES ASSUME ~overlap', NEW q \in Procs, pc'[q] # "idle"
               PROVE  /\ \A r \in Procs \ {q} : pc'[r] = "idle"
                      /\ Kept(ledger', job'[q].led)
                      /\ job'[q].id = 0 \/ job'[q].id \in IdsOf(job'[q].led)
    BY DEF Serial
  <2>1. pc[q] # "idle" /\ job'[q] = job[q]
    BY <1>2
  <2>2. /\ \A r \in Procs \ {q} : pc[r] = "idle"
        /\ Kept(ledger, job[q].led)
        /\ job[q].id = 0 \/ job[q].id \in IdsOf(job[q].led)
    BY <2>1 DEF LifecycleInv, Serial
  <2> QED BY <1>2, <2>1, <2>2
<1>6. ~overlap' => recorded' \subseteq IdsOf(ledger)'
  BY DEF LifecycleInv, IdsOf
<1> QED BY <1>3, <1>4, <1>5, <1>6 DEF LifecycleInv

LEMMA SaveInv ==
  ASSUME LifecycleInv, Grows, TypeOK', NEW p \in Procs, Save(p)
  PROVE  LifecycleInv' /\ (~overlap => Kept(ledger, ledger'))
<1>0. overlap' = overlap
  BY DEF Save
<1>1. CASE UNCHANGED << ledger, recorded >>
  <2>1. LifecycleInv'
    BY <1>0, <1>1, GoOnInv DEF Save
  <2> QED BY <1>1, <2>1 DEF Kept
<1>2. CASE /\ ledger' = job[p].led
           /\ recorded' = IF Readable(job[p].led) /\ ~overlap
                          THEN recorded \cup ({job[p].id} \ {0}) ELSE recorded
  <2>1. job \in [Procs -> Job] /\ pc \in [Procs -> {"idle", "restore", "verify", "save"}] /\ pc[p] # "idle" /\ Done(p)
    BY DEF LifecycleInv, TypeOK, Save
  <2>2. job[p].led \in Ledger /\ Sound(job[p].led)
    BY <2>1 DEF Job, LifecycleInv
  <2>3. Sound(ledger)'
    BY <1>2, <2>2, SoundLater DEF Sound, LifecycleInv
  <2>4. ASSUME NEW q \in Procs PROVE Sound(job[q].led)'
    <3>1. CASE q = p
      <4>1. job'[q] = NoJob
        BY <2>1, <3>1 DEF Done
      <4> QED BY <4>1 DEF NoJob, EmptyLedger, Sound, Counted, Backed
    <3>2. CASE q # p
      <4>1. job[q].led \in Ledger /\ Sound(job[q].led) /\ job'[q] = job[q]
        BY <2>1, <3>2 DEF Job, LifecycleInv, Done
      <4> QED BY <4>1, SoundLater DEF Sound, LifecycleInv
    <3> QED BY <3>1, <3>2
  <2>5. ~overlap => /\ \A q \in Procs \ {p} : pc[q] = "idle"
                    /\ Kept(ledger, ledger')
                    /\ job[p].id = 0 \/ job[p].id \in IdsOf(ledger')
    BY <1>2, <2>1 DEF LifecycleInv, Serial
  <2>6. Serial'
    BY <1>0, <2>1, <2>5 DEF Done, Serial
  <2>7. ~overlap' => recorded' \subseteq IdsOf(ledger')
    BY <1>0, <1>2, <2>5 DEF LifecycleInv, Kept
  <2>8. IdsOf(ledger)' = IdsOf(ledger')
    BY DEF IdsOf
  <2> QED BY <2>3, <2>4, <2>5, <2>6, <2>7, <2>8 DEF LifecycleInv
<1> QED BY <1>1, <1>2 DEF Save

LEMMA QuietInv ==
  ASSUME LifecycleInv, Grows, TypeOK', Quiet
  PROVE  LifecycleInv'
<1>1. ledger \in Ledger /\ job \in [Procs -> Job]
  BY DEF LifecycleInv, TypeOK
<1>2. Sound(ledger)'
  BY <1>1, SoundLater DEF LifecycleInv, Sound, Quiet
<1>3. ASSUME NEW q \in Procs PROVE Sound(job[q].led)'
  <2>1. job[q].led \in Ledger /\ Sound(job[q].led)
    BY <1>1 DEF Job, LifecycleInv
  <2> QED BY <2>1, SoundLater DEF Sound, LifecycleInv, Quiet
<1>4. Serial'
  BY DEF LifecycleInv, Serial, Quiet
<1> QED BY <1>2, <1>3, <1>4 DEF LifecycleInv, Quiet

\* The steps of a process that do not begin, go on with or end a call.
Aside(p) ==
  \/ Measure(p)
  \/ \E result \in Results, shown \in BOOLEAN :
       Canary(p, result, shown) /\ UNCHANGED << pc, job >>

LEMMA QuietSteps ==
  ASSUME LifecycleInv,
         \/ \E p \in Procs : Aside(p)
         \/ \E s \in Surfaces, c \in Contents : Edit(s, c)
         \/ Tick
         \/ UNCHANGED vars
  PROVE  Quiet
<1>1. now \in Nat /\ pc \in [Procs -> {"idle", "restore", "verify", "save"}]
  BY DEF LifecycleInv, TypeOK
<1>2. ASSUME NEW p \in Procs, NEW result \in Results, NEW shown \in BOOLEAN,
             Canary(p, result, shown), UNCHANGED << pc, job >>
      PROVE  Quiet
  <2>1. ~Call(p, "save", Canaried(ledger, result, HasLiveAuthority(p, result, shown)), 0)
    BY <1>1, <1>2 DEF Call
  <2> QED BY <1>1, <1>2, <2>1 DEF Canary, Quiet
<1>3. CASE \E p \in Procs : Aside(p)
  BY <1>1, <1>2, <1>3 DEF Measure, Quiet, Aside
<1>4. CASE \E s \in Surfaces, c \in Contents : Edit(s, c)
  BY <1>1, <1>4 DEF Edit, Quiet
<1>5. CASE Tick
  BY <1>1, <1>5 DEF Tick, Quiet
<1>6. CASE UNCHANGED vars
  BY <1>1, <1>6 DEF vars, Quiet
<1> QED BY <1>2, <1>3, <1>4, <1>5, <1>6

\* Every step keeps the invariant, and the records and evidence on disk.
LEMMA StepInv ==
  ASSUME LifecycleInv, NotYet, [Next]_vars, TypeOK'
  PROVE  LifecycleInv' /\ NotYet' /\ (~overlap => Kept(ledger, ledger'))
<1>0. Grows /\ NotYet'
  BY StepGrows DEF LifecycleInv
<1>1. CASE \E p \in Procs : Loads(p)
  <2>1. LifecycleInv'
    BY <1>0, <1>1, LoadInv
  <2>2. UNCHANGED ledger
    BY <1>1, Loading DEF LoadedBy
  <2> QED BY <1>0, <2>1, <2>2 DEF Kept
<1>2. CASE \E p \in Procs : Restore(p) \/ Verify(p) \/ (Crash(p) /\ pc[p] # "idle")
  <2>1. PICK p \in Procs : Restore(p) \/ Verify(p) \/ (Crash(p) /\ pc[p] # "idle")
    BY <1>2
  <2>2. /\ pc[p] # "idle" /\ UNCHANGED << ledger, recorded, overlap >>
        /\ (\E to \in {"verify", "save"} : Goto(p, to)) \/ Done(p)
    BY <2>1 DEF Restore, Verify, Crash
  <2>3. LifecycleInv'
    BY <1>0, <2>2, GoOnInv
  <2> QED BY <1>0, <2>2, <2>3 DEF Kept
<1>3. CASE \E p \in Procs : Save(p)
  BY <1>0, <1>3, SaveInv
<1>4. CASE \E p \in Procs : Crash(p) /\ pc[p] = "idle"
  <2>1. PICK p \in Procs : Crash(p) /\ pc[p] = "idle"
    BY <1>4
  <2>2. ledger \in Ledger /\ now \in Nat /\ job \in [Procs -> Job]
        /\ pc \in [Procs -> {"idle", "restore", "verify", "save"}]
    BY DEF LifecycleInv, TypeOK
  <2>3. UNCHANGED << now, ledger, next, starts, passed, recorded, overlap, pc >>
        /\ job' = [job EXCEPT ![p] = NoJob]
    BY <2>1, <2>2 DEF Crash, Done
  <2>4. ASSUME NEW q \in Procs PROVE Sound(job[q].led)'
    <3>1. CASE q = p
      <4>1. job'[q] = NoJob
        BY <2>2, <2>3, <3>1
      <4> QED BY <4>1 DEF NoJob, EmptyLedger, Sound, Counted, Backed
    <3>2. CASE q # p
      <4>1. job'[q] = job[q] /\ Sound(job[q].led)
        BY <2>2, <2>3, <3>2 DEF LifecycleInv
      <4> QED BY <2>3, <4>1 DEF Sound
    <3> QED BY <3>1, <3>2
  <2>5. Sound(ledger)'
    BY <2>3 DEF LifecycleInv, Sound
  <2>6. \A q \in Procs : pc'[q] # "idle" => job'[q] = job[q]
    BY <2>1, <2>2, <2>3
  <2>7. Serial'
    BY <2>3, <2>6 DEF LifecycleInv, Serial
  <2>8. LifecycleInv'
    BY <2>3, <2>4, <2>5, <2>7 DEF LifecycleInv, IdsOf
  <2> QED BY <1>0, <2>3, <2>8 DEF Kept
<1>5. CASE \/ \E p \in Procs : Aside(p)
           \/ \E s \in Surfaces, c \in Contents : Edit(s, c)
           \/ Tick
           \/ UNCHANGED vars
  <2>1. Quiet
    BY <1>5, QuietSteps
  <2> QED BY <1>0, <2>1, QuietInv DEF Quiet, Kept
<1>6. ASSUME NEW p \in Procs, Step(p)
      PROVE  Loads(p) \/ Restore(p) \/ Verify(p) \/ Save(p) \/ Crash(p) \/ Aside(p)
  BY <1>6 DEF Step, Loads, Aside
<1>7. ASSUME NEW p \in Procs, Step(p)
      PROVE  LifecycleInv' /\ NotYet' /\ (~overlap => Kept(ledger, ledger'))
  <2>1. CASE Loads(p) \/ Save(p)
    BY <1>1, <1>3, <2>1
  <2>2. CASE Restore(p) \/ Verify(p) \/ (Crash(p) /\ pc[p] # "idle")
    BY <1>2, <2>2
  <2>3. CASE Crash(p) /\ pc[p] = "idle"
    BY <1>4, <2>3
  <2>4. CASE Aside(p)
    BY <1>5, <2>4
  <2> QED BY <1>6, <1>7, <2>1, <2>2, <2>3, <2>4
<1> QED
  BY <1>5, <1>7 DEF Next

LEMMA LifecycleInvariant == Spec => [](LifecycleInv /\ NotYet)
<1> USE LifecycleAssumption
<1>1. Init /\ TypeOK => LifecycleInv /\ NotYet
  <2> SUFFICES ASSUME Init, TypeOK PROVE LifecycleInv /\ NotYet
    OBVIOUS
  <2>1. Sound(EmptyLedger)
    BY DEF EmptyLedger, Sound, Counted, Backed
  <2>2. NotYet /\ recorded = {}
    BY DEF Init, NotYet
  <2>3. Sound(ledger) /\ \A p \in Procs : Sound(job[p].led)
    BY <2>1 DEF Init, NoJob
  <2>4. Serial
    BY DEF Init, Serial
  <2> QED BY <2>2, <2>3, <2>4 DEF LifecycleInv
<1>2. LifecycleInv /\ NotYet /\ [Next]_vars /\ TypeOK' => (LifecycleInv /\ NotYet)'
  BY StepInv
<1> QED BY <1>1, <1>2, TypeCorrect, PTL DEF Spec

(***************************************************************************)
(* A repair backup is pruned only when it is old enough and has seen       *)
(* enough successful starts, whichever calls overlap and whichever saves   *)
(* fail or are lost.                                                       *)
(***************************************************************************)
THEOREM PrunedWhenDue == Spec => []PrunedOnlyWhenDue
<1>1. LifecycleInv => PrunedOnlyWhenDue
  BY DEF LifecycleInv, Sound, Counted, PrunedOnlyWhenDue
<1> QED BY <1>1, LifecycleInvariant, PTL

(***************************************************************************)
(* RECOMMEND_UPGRADE on disk takes a canary passed with a live             *)
(* measurement, whichever calls overlap.                                   *)
(***************************************************************************)
THEOREM RecommendMeasured == Spec => []RecommendNeedsMeasurement
<1>1. LifecycleInv => RecommendNeedsMeasurement
  BY DEF LifecycleInv, Sound, Backed, RecommendNeedsMeasurement
<1> QED BY <1>1, LifecycleInvariant, PTL

(***************************************************************************)
(* What was reported as recorded, where calls do not overlap, stays in the *)
(* ledger.                                                                 *)
(***************************************************************************)
THEOREM RecordsKept == Spec => []ReportedIsKept
<1>1. LifecycleInv => ReportedIsKept
  BY DEF LifecycleInv, IdsOf, ReportedIsKept
<1> QED BY <1>1, LifecycleInvariant, PTL

(***************************************************************************)
(* Where calls do not overlap, a superseded recipe keeps its evidence.     *)
(***************************************************************************)
THEOREM EvidenceKept == Spec => SupersededStays
<1>1. LifecycleInv /\ NotYet /\ [Next]_vars /\ TypeOK'
        => [~overlap => \A r \in Recipes :
              ledger.recipes[r] # NoDigest
                => ledger'.recipes[r] = ledger.recipes[r]]_vars
  BY StepInv DEF Kept
<1> QED BY <1>1, TypeCorrect, LifecycleInvariant, PTL DEF Spec, SupersededStays

-----------------------------------------------------------------------------
(***************************************************************************)
(* How many known-good checkpoints of a surface stay: RETAIN, once there   *)
(* are that many; the sort order has a last element, and the cap takes     *)
(* that one and no other.                                                  *)
(***************************************************************************)
Trim(good, n) ==
  /\ IsFiniteSet(good)
  /\ \A k \in good : k.id < n
  /\ \A a, b \in good : a.id = b.id => a = b
  /\ \A s \in Surfaces :
       /\ Cardinality(Retained(good, s)) <= RETAIN
       /\ Cardinality(Retained(good, s)) < RETAIN
            => Retained(good, s) = OfSurface(good, s)

\* Before is a strict total order on records with different ids.
LEMMA BeforeOrders ==
  ASSUME NEW good \in SUBSET Good, \A a, b \in good : a.id = b.id => a = b
  PROVE  /\ \A a \in good : ~Before(a, a)
         /\ \A a, b \in good : a # b => Before(a, b) \/ Before(b, a)
         /\ \A a, b \in good : ~(Before(a, b) /\ Before(b, a))
         /\ \A a, b, c \in good : Before(a, b) /\ Before(b, c) => Before(a, c)
<1>1. \A a \in good : a.id \in Nat /\ a.created \in Nat
  BY DEF Good, Ids
<1>2. \A a, b \in good : a # b => a.id # b.id
  OBVIOUS
<1> QED BY <1>1, <1>2 DEF Before

\* A finite set of such records that is not empty has a last one.
LEMMA LastExists ==
  ASSUME NEW good \in SUBSET Good, IsFiniteSet(good), good # {},
         \A a, b \in good : a.id = b.id => a = b
  PROVE  \E z \in good : \A k \in good \ {z} : Before(k, z)
<1> DEFINE after(k) == {j \in good : Before(k, j)}
           T == {after(k) : k \in good}
           R == StrictSubsetOrdering(good)
<1>1. IsWellFoundedOn(R, FiniteSubsetsOf(good))
  BY FS_StrictSubsetOrderingWellFounded
<1>2. FiniteSubsetsOf(good) = SUBSET good
  BY FS_FiniteSubsetsOfFinite
<1>3. T \subseteq SUBSET good /\ T # {}
  <2>1. \A k \in good : after(k) \in SUBSET good
    OBVIOUS
  <2>2. PICK k \in good : TRUE
    OBVIOUS
  <2> HIDE DEF after
  <2> QED BY <2>1, <2>2
<1>4. PICK m \in T : \A y \in T : <<y, m>> \notin R
  <2> HIDE DEF T, R
  <2> QED BY <1>1, <1>2, <1>3, WFMin
<1>5. PICK z \in good : m = after(z)
  BY <1>4
<1>6. ASSUME NEW j \in after(z) PROVE FALSE
  <2>1. j \in good /\ Before(z, j)
    BY <1>6
  <2>2. after(j) \subseteq after(z) /\ j \notin after(j)
    BY <2>1, BeforeOrders
  <2>3. after(j) # after(z) /\ after(j) \in SUBSET good /\ after(z) \in SUBSET good
    BY <1>6, <2>2
  <2>4. <<after(j), after(z)>> \in R
    <3> HIDE DEF after
    <3> QED BY <2>2, <2>3 DEF StrictSubsetOrdering
  <2>5. after(j) \in T
    BY <2>1
  <2> HIDE DEF after, R, T
  <2> QED BY <1>4, <1>5, <2>4, <2>5
<1>7. \A k \in good \ {z} : Before(k, z)
  BY <1>6, BeforeOrders
<1> QED BY <1>7

\* A ledger within the cap stays as it is when the cap is applied.
LEMMA CapIdle ==
  ASSUME NEW good \in SUBSET Good, NEW S, IsFiniteSet(good),
         \A a, b \in good : a.id = b.id => a = b,
         \A s \in S : Cardinality(Retained(good, s)) <= RETAIN
  PROVE  Capped(good, S) = good
<1>1. ASSUME NEW k \in good, ~k.pruned, k.surface \in S
      PROVE  ~Beyond(good, k)
  <2> DEFINE R == Retained(good, k.surface)
             first == {j \in R : Before(j, k)}
  <2>1. k \in R /\ R \subseteq good
    BY <1>1 DEF Retained, OfSurface
  <2>2. first \subseteq R \ {k}
    BY <2>1, BeforeOrders
  <2>3. IsFiniteSet(R) /\ Cardinality(R) <= RETAIN
    BY <1>1, <2>1, FS_Subset
  <2>4. IsFiniteSet(R \ {k}) /\ Cardinality(R \ {k}) = Cardinality(R) - 1
    BY <2>1, <2>3, FS_RemoveElement
  <2>5. IsFiniteSet(first) /\ Cardinality(first) <= Cardinality(R \ {k})
    BY <2>2, <2>4, FS_Subset
  <2>6. Cardinality(first) \in Nat /\ Cardinality(R) \in Nat
    BY <2>3, <2>5, FS_CardinalityType
  <2>7. Cardinality(first) < RETAIN
    <3> HIDE DEF first, R
    <3> QED BY <2>3, <2>4, <2>5, <2>6, LifecycleAssumption DEF LifecycleAssumption
  <2>8. ~(Cardinality(first) >= RETAIN)
    <3> HIDE DEF first, R
    <3> QED BY <2>6, <2>7, LifecycleAssumption
  <2> QED BY <2>8 DEF Beyond
<1> QED BY <1>1 DEF Capped

\* One record too many: the cap takes the last one.
LEMMA CapTakesLast ==
  ASSUME NEW good \in SUBSET Good, NEW s, IsFiniteSet(good),
         \A a, b \in good : a.id = b.id => a = b,
         Cardinality(Retained(good, s)) = RETAIN + 1
  PROVE  \E z \in Retained(good, s) :
           Capped(good, {s}) = (good \ {z}) \cup {[z EXCEPT !.pruned = TRUE]}
<1> DEFINE R == Retained(good, s)
           first(k) == {j \in R : Before(j, k)}
<1>1. R \in SUBSET Good /\ R \subseteq good /\ IsFiniteSet(R)
      /\ \A k \in good : k \in R <=> (k.surface = s /\ ~k.pruned)
  <2>1. R \subseteq good
    BY DEF Retained, OfSurface
  <2> QED BY <2>1, FS_Subset DEF Retained, OfSurface
<1>2. RETAIN \in Nat /\ Cardinality(R) = RETAIN + 1
  BY LifecycleAssumption
<1>3. R # {}
  <2> HIDE DEF R
  <2> QED BY <1>2, FS_EmptySet
<1>4. PICK z \in R : \A k \in R \ {z} : Before(k, z)
  <2> HIDE DEF R
  <2> QED BY <1>1, <1>3, LastExists
<1>5. first(z) = R \ {z} /\ \A k \in R \ {z} : first(k) \subseteq (R \ {z}) \ {k}
  <2>1. \A k \in R : ~Before(k, k)
    BY <1>1, BeforeOrders
  <2>2. \A k \in R \ {z} : ~Before(z, k)
    BY <1>1, <1>4, BeforeOrders
  <2> HIDE DEF R
  <2> QED BY <1>4, <2>1, <2>2
<1>6. IsFiniteSet(R \ {z}) /\ Cardinality(R \ {z}) = RETAIN
  <2>1. z \in R /\ IsFiniteSet(R)
    BY <1>1, <1>4
  <2> HIDE DEF R
  <2>2. IsFiniteSet(R \ {z}) /\ Cardinality(R \ {z}) = Cardinality(R) - 1
    BY <2>1, FS_RemoveElement
  <2> QED BY <1>2, <2>2
<1>7. Beyond(good, z)
  <2>1. z.surface = s
    BY <1>1, <1>4
  <2>2. Cardinality(first(z)) >= RETAIN
    <3> HIDE DEF first
    <3> QED BY <1>2, <1>5, <1>6
  <2> QED BY <2>1, <2>2 DEF Beyond
<1>8. ASSUME NEW k \in R \ {z} PROVE ~Beyond(good, k)
  <2>1. IsFiniteSet((R \ {z}) \ {k}) /\ Cardinality((R \ {z}) \ {k}) = RETAIN - 1
    <3> HIDE DEF R
    <3> QED BY <1>6, FS_RemoveElement
  <2>2. IsFiniteSet(first(k)) /\ Cardinality(first(k)) <= RETAIN - 1
    <3> HIDE DEF R, first
    <3> QED BY <1>5, <2>1, FS_Subset
  <2>3. Cardinality(first(k)) \in Nat
    BY <2>2, FS_CardinalityType
  <2>4. ~(Cardinality(first(k)) >= RETAIN)
    <3> HIDE DEF first
    <3> QED BY <1>2, <2>2, <2>3
  <2>5. k.surface = s
    BY <1>1
  <2> QED BY <2>4, <2>5 DEF Beyond
<1> DEFINE cap(k) == IF ~k.pruned /\ k.surface \in {s} /\ Beyond(good, k)
                     THEN [k EXCEPT !.pruned = TRUE] ELSE k
<1>9. Capped(good, {s}) = {cap(k) : k \in good}
  BY DEF Capped
<1>10. cap(z) = [z EXCEPT !.pruned = TRUE] /\ \A k \in good \ {z} : cap(k) = k
  <2> HIDE DEF R
  <2> QED BY <1>1, <1>4, <1>7, <1>8
<1>11. z \in good
  BY <1>1, <1>4
<1> HIDE DEF cap
<1>12. Capped(good, {s}) = (good \ {z}) \cup {[z EXCEPT !.pruned = TRUE]}
  <2> HIDE DEF R
  <2>1. \A x : x \in {cap(k) : k \in good} <=> x \in good \ {z} \/ x = cap(z)
    BY <1>10, <1>11
  <2> QED BY <1>9, <1>10, <2>1
<1> QED BY <1>12

\* A checkpoint recorded with a fresh id, and the cap applied to its surface.
LEMMA CapTrims ==
  ASSUME NEW good \in SUBSET Good, NEW n \in Ids, Trim(good, n),
         NEW new \in Good, new.id = n, ~new.pruned
  PROVE  Trim(Capped(good \cup {new}, {new.surface}), n + 1)
<1> DEFINE G == good \cup {new}
           s == new.surface
           R == Retained(good, s)
<1>0. n \in Nat /\ RETAIN \in Nat /\ s \in Surfaces /\ \A k \in good : k.id \in Nat
  BY LifecycleAssumption DEF Ids, Good
<1>1. new \notin good /\ G \in SUBSET Good /\ IsFiniteSet(good)
  BY <1>0 DEF Trim
<1>2. IsFiniteSet(G) /\ \A k \in G : k.id < n + 1
  <2>1. IsFiniteSet(G)
    BY <1>1, FS_AddElement
  <2> QED BY <1>0, <2>1 DEF Trim
<1>3. \A a, b \in G : a.id = b.id => a = b
  BY <1>0 DEF Trim
<1>4. /\ Retained(G, s) = R \cup {new} /\ new \notin R
      /\ OfSurface(G, s) = OfSurface(good, s) \cup {new}
      /\ \A u \in Surfaces \ {s} : /\ Retained(G, u) = Retained(good, u)
                                   /\ OfSurface(G, u) = OfSurface(good, u)
  BY <1>1 DEF Retained, OfSurface
<1>5. /\ IsFiniteSet(R) /\ Cardinality(R) \in Nat /\ Cardinality(R) <= RETAIN
      /\ Cardinality(Retained(G, s)) = Cardinality(R) + 1
  <2>1. R \subseteq good
    BY DEF Retained, OfSurface
  <2>2. IsFiniteSet(R) /\ Cardinality(R) \in Nat
    BY <1>1, <2>1, FS_Subset, FS_CardinalityType
  <2>3. Cardinality(R) <= RETAIN
    BY <1>0 DEF Trim
  <2>4. Cardinality(R \cup {new}) = Cardinality(R) + 1
    <3> HIDE DEF R
    <3> QED BY <1>4, <2>2, FS_AddElement
  <2> QED BY <1>4, <2>2, <2>3, <2>4
<1>6. CASE Cardinality(R) < RETAIN
  <2>1. Capped(G, {s}) = G
    <3>1. Cardinality(Retained(G, s)) <= RETAIN
      <4> HIDE DEF R, G, s
      <4> QED BY <1>0, <1>5, <1>6
    <3> HIDE DEF G, s
    <3> QED BY <1>1, <1>2, <1>3, <3>1, CapIdle
  <2>2. Retained(G, s) = OfSurface(G, s)
    BY <1>0, <1>4, <1>6 DEF Trim
  <2>3. \A u \in Surfaces : /\ Cardinality(Retained(G, u)) <= RETAIN
                            /\ Cardinality(Retained(G, u)) < RETAIN
                                 => Retained(G, u) = OfSurface(G, u)
    <3>1. Cardinality(Retained(G, s)) <= RETAIN
      <4> HIDE DEF R, G, s
      <4> QED BY <1>0, <1>5, <1>6
    <3>2. \A u \in Surfaces : /\ Cardinality(Retained(good, u)) <= RETAIN
                              /\ Cardinality(Retained(good, u)) < RETAIN
                                   => Retained(good, u) = OfSurface(good, u)
      BY DEF Trim
    <3> HIDE DEF G, s, R
    <3> QED BY <1>4, <2>2, <3>1, <3>2
  <2> HIDE DEF G, s, R
  <2>4. Trim(G, n + 1)
    BY <1>2, <1>3, <2>3 DEF Trim
  <2> QED BY <2>1, <2>4 DEF G, s
<1>7. CASE Cardinality(R) = RETAIN
  <2>1. Cardinality(Retained(G, s)) = RETAIN + 1
    BY <1>5, <1>7
  <2>2. PICK z \in Retained(G, s) :
          Capped(G, {s}) = (G \ {z}) \cup {[z EXCEPT !.pruned = TRUE]}
    <3> HIDE DEF G, s, R
    <3> QED BY <1>1, <1>2, <1>3, <2>1, CapTakesLast
  <2> DEFINE zp == [z EXCEPT !.pruned = TRUE]
             C == (G \ {z}) \cup {zp}
  <2>3. z \in G /\ z \in Good /\ z.surface = s /\ ~z.pruned
    BY <1>1, <2>2 DEF Retained, OfSurface
  <2>4. zp.id = z.id /\ zp.surface = s /\ zp.pruned
    BY <2>3 DEF Good
  <2> HIDE DEF zp
  <2>5. IsFiniteSet(C)
    <3>1. IsFiniteSet(G \ {z})
      <4> HIDE DEF G
      <4> QED BY <1>2, FS_RemoveElement
    <3> QED BY <3>1, FS_AddElement
  <2>6. \A k \in C : k.id < n + 1
    BY <1>2, <2>3, <2>4
  <2>7. \A a, b \in C : a.id = b.id => a = b
    <3>1. \A a \in G \ {z} : a.id # zp.id
      BY <1>3, <2>3, <2>4
    <3> HIDE DEF G
    <3> QED BY <1>3, <3>1
  <2>8. Retained(C, s) = Retained(G, s) \ {z}
    BY <2>4 DEF Retained, OfSurface
  <2>9. \A u \in Surfaces \ {s} : /\ Retained(C, u) = Retained(G, u)
                                  /\ OfSurface(C, u) = OfSurface(G, u)
    BY <2>3, <2>4 DEF Retained, OfSurface
  <2>10. Cardinality(Retained(C, s)) = RETAIN
    <3>1. IsFiniteSet(Retained(G, s))
      <4> HIDE DEF G, s, R
      <4> QED BY <1>4, <1>5, FS_AddElement
    <3>2. Cardinality(Retained(G, s) \ {z}) = Cardinality(Retained(G, s)) - 1
      BY <2>2, <3>1, FS_RemoveElement
    <3> HIDE DEF G, s, C
    <3> QED BY <1>0, <2>1, <2>8, <3>2
  <2>11. \A u \in Surfaces : /\ Cardinality(Retained(C, u)) <= RETAIN
                             /\ Cardinality(Retained(C, u)) < RETAIN
                                  => Retained(C, u) = OfSurface(C, u)
    <3>1. \A u \in Surfaces : /\ Cardinality(Retained(good, u)) <= RETAIN
                              /\ Cardinality(Retained(good, u)) < RETAIN
                                   => Retained(good, u) = OfSurface(good, u)
      BY DEF Trim
    <3>2. Cardinality(Retained(C, s)) <= RETAIN /\ ~(Cardinality(Retained(C, s)) < RETAIN)
      <4> HIDE DEF C, s
      <4> QED BY <1>0, <2>10
    <3> HIDE DEF G, s, C
    <3> QED BY <1>4, <2>9, <3>1, <3>2
  <2>12. Trim(C, n + 1)
    <3> HIDE DEF C
    <3> QED BY <2>5, <2>6, <2>7, <2>11 DEF Trim
  <2> QED BY <2>2, <2>12 DEF zp
<1> QED BY <1>0, <1>5, <1>6, <1>7

-----------------------------------------------------------------------------
\* The ledger on disk, and every ledger about to be saved, is trimmed.
TrimInv == Trim(ledger.good, next) /\ \A p \in Procs : Trim(job[p].led.good, next)

LEMMA TrimLater ==
  ASSUME NEW good \in SUBSET Good, NEW n \in Nat, NEW m \in Nat, n <= m, Trim(good, n)
  PROVE  Trim(good, m)
<1>1. \A k \in good : k.id \in Nat
  BY DEF Good, Ids
<1>2. \A k \in good : k.id < m
  BY <1>1 DEF Trim
<1> QED BY <1>2 DEF Trim

LEMMA TrimEmpty == Trim({}, 1)
<1>1. \A s \in Surfaces : Retained({}, s) = {} /\ OfSurface({}, s) = {}
  BY DEF Retained, OfSurface
<1>2. Cardinality({}) <= RETAIN
  BY FS_EmptySet, LifecycleAssumption
<1> QED BY <1>1, <1>2, FS_EmptySet DEF Trim

\* Only a checkpoint and the cap change the checkpoints of a ledger.
LEMMA GoodOf ==
  ASSUME NEW led \in Ledger
  PROVE  /\ \A id, t : WithRepair(led, id, t).good = led.good
         /\ Started(led).good = led.good
         /\ \A t : RetentionOf(led, t).good = Capped(led.good, Surfaces)
         /\ Holding(led).good = led.good
         /\ \A result, live : Canaried(led, result, live).good = led.good
         /\ \A r, d : Superseded(led, r, d).good = led.good
<1>1. \A id, t : WithRepair(led, id, t).good = led.good
  BY DEF WithRepair, Ledger
<1>2. Started(led).good = led.good
  BY DEF Started, Ledger
<1>3. ASSUME NEW t PROVE RetentionOf(led, t).good = Capped(led.good, Surfaces)
  <2> DEFINE e == Expired(led, t)
             f == {IF Due(r, t) THEN [r EXCEPT !.pruned = TRUE] ELSE r : r \in led.repairs}
  <2>1. e = [led EXCEPT !.repairs = f]
    BY DEF Expired
  <2>2. RetentionOf(led, t) = [e EXCEPT !.good = Capped(e.good, Surfaces)]
    BY DEF RetentionOf
  <2> HIDE DEF e, f
  <2>3. /\ e = [repairs |-> f, good |-> led.good, recipes |-> led.recipes,
                guidance |-> led.guidance]
    BY <2>1 DEF Ledger
  <2> QED BY <2>2, <2>3
<1>4. Holding(led).good = led.good
  BY DEF Holding, Ledger
<1>5. \A result, live : Canaried(led, result, live).good = led.good
  BY DEF Canaried, Ledger
<1>6. \A r, d : Superseded(led, r, d).good = led.good
  BY DEF Superseded, Ledger
<1> QED BY <1>1, <1>2, <1>3, <1>4, <1>5, <1>6

LEMMA LoadTrims ==
  ASSUME TypeOK, Trim(ledger.good, next), NEW p \in Procs, Loads(p), next' \in Nat
  PROVE  \E to, led, id :
           /\ Call(p, to, led, id) /\ UNCHANGED ledger /\ next <= next'
           /\ Trim(led.good, next')
<1>0. /\ ledger \in Ledger /\ ledger.good \in SUBSET Good /\ next \in Nat
      /\ surface \in [Surfaces -> Contents] /\ now \in Nat
  BY DEF TypeOK, Ledger
<1>1. CASE RecordRepairBackup(p)
  <2>1. next' = next + 1 /\ Trim(ledger.good, next')
    BY <1>0, <1>1, TrimLater DEF RecordRepairBackup
  <2> QED BY <1>0, <1>1, <2>1, GoodOf DEF RecordRepairBackup
<1>2. CASE RecordSuccessfulStart(p)
  BY <1>0, <1>2, GoodOf DEF RecordSuccessfulStart
<1>3. CASE ApplyRetention(p)
  <2>1. Capped(ledger.good, Surfaces) = ledger.good
    BY <1>0, CapIdle DEF Trim
  <2> QED BY <1>0, <1>3, <2>1, GoodOf DEF ApplyRetention
<1>4. CASE \E s \in Surfaces : RecordKnownGood(p, s)
  <2>1. PICK s \in Surfaces : RecordKnownGood(p, s)
    BY <1>4
  <2> DEFINE new == [id |-> next, surface |-> s, content |-> surface[s],
                     created |-> now, pruned |-> FALSE]
             led == WithGood(ledger, next, s, surface[s], now)
  <2>2. next \in Ids /\ next' = next + 1 /\ UNCHANGED ledger /\ Call(p, "save", led, next)
    BY <2>1 DEF RecordKnownGood
  <2>3. new \in Good /\ new.id = next /\ new.surface = s /\ ~new.pruned
    BY <1>0, <2>2 DEF Good
  <2>4. led.good = Capped(ledger.good \cup {new}, {s})
    BY <1>0 DEF WithGood, Ledger
  <2> HIDE DEF new, led
  <2>5. Trim(led.good, next')
    BY <1>0, <2>2, <2>3, <2>4, CapTrims
  <2> QED BY <1>0, <2>2, <2>5
<1>5. CASE \E b \in BOOLEAN : AssessUpdateRegression(p, b)
  <2>1. PICK b \in BOOLEAN : AssessUpdateRegression(p, b)
    BY <1>5
  <2> DEFINE led == IF b THEN Holding(ledger) ELSE ledger
  <2>2. led.good = ledger.good
    BY <1>0, GoodOf
  <2> HIDE DEF led
  <2> QED BY <1>0, <2>1, <2>2 DEF AssessUpdateRegression, led
<1>6. CASE \E k \in ledger.good : RollbackSurface(p, k)
  BY <1>0, <1>6, GoodOf DEF RollbackSurface
<1>7. CASE \E result \in Results, shown \in BOOLEAN :
             Canary(p, result, shown) /\ ~UNCHANGED << pc, job >>
  <2>1. PICK result \in Results, shown \in BOOLEAN :
          Canary(p, result, shown) /\ ~UNCHANGED << pc, job >>
    BY <1>7
  <2> DEFINE led == Canaried(ledger, result, HasLiveAuthority(p, result, shown))
  <2>2. Call(p, "save", led, 0) /\ UNCHANGED << ledger, next >>
    BY <2>1 DEF Canary
  <2>3. led.good = ledger.good
    BY <1>0, GoodOf
  <2> HIDE DEF led
  <2> QED BY <1>0, <2>2, <2>3
<1>8. CASE \E r \in Recipes, d \in Digests : SupersedeRecipe(p, r, d)
  BY <1>0, <1>8, GoodOf DEF SupersedeRecipe
<1> QED BY <1>1, <1>2, <1>3, <1>4, <1>5, <1>6, <1>7, <1>8 DEF Loads

LEMMA TrimStep ==
  ASSUME TypeOK, TrimInv, NotYet, [Next]_vars, TypeOK'
  PROVE  TrimInv'
<1>0. /\ next \in Nat /\ next' \in Nat /\ next <= next'
      /\ job \in [Procs -> Job] /\ ledger \in Ledger
      /\ \A p \in Procs : job[p].led \in Ledger /\ Trim(job[p].led.good, next)
      /\ Trim(ledger.good, next)
  <2>1. Grows
    BY StepGrows
  <2>2. next \in Nat /\ job \in [Procs -> Job] /\ ledger \in Ledger
    BY DEF TypeOK
  <2>3. \A p \in Procs : job[p].led \in Ledger
    BY <2>2 DEF Job
  <2> QED BY <2>1, <2>2, <2>3 DEF Grows, TrimInv
<1>1. /\ Trim(ledger.good, next') /\ Trim({}, next')
      /\ \A p \in Procs : Trim(job[p].led.good, next')
  <2>1. Trim({}, next')
    <3>1. 1 <= next' /\ 1 \in Nat
      BY <1>0 DEF TypeOK
    <3> QED BY <1>0, <3>1, TrimEmpty, TrimLater
  <2>2. ledger.good \in SUBSET Good /\ \A p \in Procs : job[p].led.good \in SUBSET Good
    BY <1>0 DEF Ledger
  <2> QED BY <1>0, <2>1, <2>2, TrimLater
<1>2. NoJob.led.good = {}
  BY DEF NoJob, EmptyLedger
<1>3. CASE \E p \in Procs : Loads(p)
  <2>1. PICK p \in Procs : \E to, led, id :
          /\ Call(p, to, led, id) /\ UNCHANGED ledger /\ Trim(led.good, next')
    <3>1. PICK p \in Procs : Loads(p)
      BY <1>3
    <3> QED BY <1>0, <3>1, LoadTrims
  <2>2. PICK to, led, id : /\ Call(p, to, led, id) /\ UNCHANGED ledger /\ Trim(led.good, next')
    BY <2>1
  <2>3. job' = [job EXCEPT ![p] = [led |-> led, id |-> id]]
    BY <2>2 DEF Call
  <2>4. \A q \in Procs : job'[q] = job[q] \/ job'[q].led = led
    BY <1>0, <2>3
  <2> QED BY <1>1, <2>2, <2>4 DEF TrimInv
<1>4. CASE \E p \in Procs : Restore(p) \/ Verify(p) \/ Crash(p)
  <2>1. PICK p \in Procs : Restore(p) \/ Verify(p) \/ Crash(p)
    BY <1>4
  <2>2. UNCHANGED ledger /\ (UNCHANGED job \/ job' = [job EXCEPT ![p] = NoJob])
    BY <2>1 DEF Restore, Verify, Crash, Done, Goto
  <2>3. \A q \in Procs : job'[q] = job[q] \/ job'[q] = NoJob
    BY <1>0, <2>2
  <2> QED BY <1>1, <1>2, <2>2, <2>3 DEF TrimInv
<1>5. CASE \E p \in Procs : Save(p)
  <2>1. PICK p \in Procs : Save(p)
    BY <1>5
  <2>2. /\ ledger' = ledger \/ ledger' = job[p].led
        /\ job' = [job EXCEPT ![p] = NoJob]
    BY <2>1 DEF Save, Done
  <2>3. \A q \in Procs : job'[q] = job[q] \/ job'[q] = NoJob
    BY <1>0, <2>2
  <2> QED BY <1>1, <1>2, <2>2, <2>3 DEF TrimInv
<1>6. CASE UNCHANGED << ledger, job >>
  BY <1>1, <1>6 DEF TrimInv
<1>7. ASSUME NEW p \in Procs, Aside(p) PROVE UNCHANGED << ledger, job >>
  BY <1>7 DEF Aside, Measure, Canary
<1>8. ASSUME NEW p \in Procs, Step(p) PROVE TrimInv'
  <2>1. Loads(p) \/ Restore(p) \/ Verify(p) \/ Save(p) \/ Crash(p) \/ Aside(p)
    BY <1>8 DEF Step, Loads, Aside
  <2> QED BY <1>3, <1>4, <1>5, <1>6, <1>7, <2>1
<1>9. ASSUME Tick \/ (\E s \in Surfaces, c \in Contents : Edit(s, c)) \/ UNCHANGED vars
      PROVE  UNCHANGED << ledger, job >>
  BY <1>9 DEF Tick, Edit, vars
<1> QED BY <1>6, <1>8, <1>9 DEF Next

(***************************************************************************)
(* Of every surface exactly the last RETAIN known-good checkpoints, or as  *)
(* many as there are, stay unpruned, whichever calls overlap and whichever *)
(* saves fail or are lost.                                                 *)
(***************************************************************************)
THEOREM LastNRetained == Spec => []RetainsLastN
<1>1. Init => TrimInv
  <2> SUFFICES ASSUME Init PROVE TrimInv
    OBVIOUS
  <2>1. ledger.good = {} /\ next = 1 /\ \A p \in Procs : job[p].led.good = {}
    BY DEF Init, EmptyLedger, NoJob
  <2> QED BY <2>1, TrimEmpty DEF TrimInv
<1>2. TrimInv /\ TypeOK /\ LifecycleInv /\ NotYet /\ [Next]_vars /\ TypeOK' => TrimInv'
  BY TrimStep
<1>3. TypeOK /\ TrimInv => RetainsLastN
  <2> SUFFICES ASSUME TypeOK, TrimInv, NEW s \in Surfaces
               PROVE  LET all == Cardinality(OfSurface(ledger.good, s))
                      IN  Cardinality(Retained(ledger.good, s))
                            = IF all < RETAIN THEN all ELSE RETAIN
    BY DEF RetainsLastN
  <2> DEFINE R == Retained(ledger.good, s)
             A == OfSurface(ledger.good, s)
  <2>1. Cardinality(R) <= RETAIN /\ (Cardinality(R) < RETAIN => R = A)
    BY DEF TrimInv, Trim
  <2>2. /\ IsFiniteSet(A) /\ Cardinality(A) \in Nat
        /\ Cardinality(R) \in Nat /\ Cardinality(R) <= Cardinality(A)
    <3>1. IsFiniteSet(ledger.good) /\ A \subseteq ledger.good /\ R \subseteq A
      BY DEF TrimInv, Trim, Retained, OfSurface
    <3> HIDE DEF A, R
    <3>2. IsFiniteSet(A)
      BY <3>1, FS_Subset
    <3> QED BY <3>1, <3>2, FS_Subset, FS_CardinalityType
  <2> HIDE DEF A, R
  <2>3. Cardinality(R) = IF Cardinality(A) < RETAIN THEN Cardinality(A) ELSE RETAIN
    BY <2>1, <2>2, LifecycleAssumption
  <2> QED BY <2>3 DEF A, R
<1> QED BY <1>1, <1>2, <1>3, TypeCorrect, LifecycleInvariant, PTL DEF Spec

===============================================================================
