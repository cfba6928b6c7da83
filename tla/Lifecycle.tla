------------------------------- MODULE Lifecycle ------------------------------
(***************************************************************************)
(* The lifecycle ledger of one target (src/core/lifecycle): backups of     *)
(* ordinary repairs, known-good checkpoints of the control surfaces, the   *)
(* recipes an upstream fix has superseded, and the guidance about          *)
(* versions.  Every operation loads the whole ledger, changes it, saves it *)
(* whole and loads it again to report it; CLI and MCP processes do so      *)
(* without a lock, a save may fail, and a process may die between steps.   *)
(* A live-measurement witness exists only in the process that minted it.   *)
(*                                                                         *)
(* One instance_id; a recipe is its evidence digest; the totals and the    *)
(* receipts of the last retention, regression and canary are left out.     *)
(***************************************************************************)
EXTENDS Integers, FiniteSets

CONSTANTS
  Surfaces,    \* control surfaces: config, plugin, skill, mcp, hook
  Contents,    \* what a surface's file can hold
  Recipes,     \* temporary workarounds
  Digests,     \* official evidence items that can supersede a recipe
  Procs,       \* processes calling the engine
  NoDigest,
  MIN_AGE,     \* REPAIR_BACKUP_MIN_AGE_MS
  MIN_STARTS,  \* REPAIR_BACKUP_MIN_STARTS
  RETAIN,      \* KNOWN_GOOD_RETAIN_COUNT
  MAX_RECORDS, \* MAX_RECORDS
  MaxIds,      \* bound: backups and checkpoints ever made
  MaxStarts,   \* bound: successful starts counted for one backup
  MaxNow,      \* bound: the last instant of the clock
  MaxMeasures  \* bound: live measurements that end well

ASSUME LifecycleAssumption ==
  /\ NoDigest \notin Digests
  /\ MIN_AGE \in Nat /\ MIN_STARTS \in Nat /\ RETAIN \in Nat
  /\ MAX_RECORDS \in Nat /\ MaxIds \in Nat /\ MaxStarts \in Nat
  /\ MaxNow \in Nat /\ MaxMeasures \in Nat

VARIABLES
  now,        \* the clock
  ledger,     \* .changeguard/lifecycle/ledger.json
  surface,    \* control/<surface>.json
  pc, job,    \* each process: its step, and the ledger it is about to save
  witness,    \* the stage of each process's live-measurement witness
  next,       \* history: backups and checkpoints made so far
  starts,     \* history: successful starts since each backup was made
  measured,   \* history: live measurements that ended well
  passed,     \* history: a live-measured canary has passed
  overlap,    \* history: calls of two processes have overlapped
  recorded    \* history: what was reported as recorded before any did

vars == << now, ledger, surface, pc, job, witness, next, starts,
           measured, passed, overlap, recorded >>

Ids      == 1..MaxIds
Guidance == {"RECOMMEND_UPGRADE", "UPGRADE_CANARY_AVAILABLE",
             "HOLD_KNOWN_GOOD", "GENERAL_UPDATE_ONLY"}
Results  == {"not_run", "clean", "regressed", "unclear"}
Stages   == {"none", "fresh", "canary_recorded", "consumed"}

Repair == [id : Ids, created : Nat, starts : Nat, pruned : BOOLEAN]
Good   == [id : Ids, surface : Surfaces, content : Contents, created : Nat,
           pruned : BOOLEAN]
Ledger == [repairs : SUBSET Repair, good : SUBSET Good,
           recipes : [Recipes -> Digests \cup {NoDigest}], guidance : Guidance]

\* A missing file loads as the empty ledger.
EmptyLedger == [repairs |-> {}, good |-> {},
                recipes |-> [r \in Recipes |-> NoDigest],
                guidance |-> "GENERAL_UPDATE_ONLY"]

(***************************************************************************)
(* parseLedger: a list longer than MAX_RECORDS is CORRUPT_LEDGER, for      *)
(* every operation; records stay in their lists when they are pruned.      *)
(***************************************************************************)
Readable(led) ==
  /\ Cardinality(led.repairs) <= MAX_RECORDS
  /\ Cardinality(led.good) <= MAX_RECORDS
  /\ Cardinality({r \in Recipes : led.recipes[r] # NoDigest}) <= MAX_RECORDS

-----------------------------------------------------------------------------
\* What the operations make of the ledger they loaded.

WithRepair(led, id, t) ==
  [led EXCEPT !.repairs = @ \cup
     {[id |-> id, created |-> t, starts |-> 0, pruned |-> FALSE]}]

Started(led) ==
  [led EXCEPT !.repairs =
     {IF r.pruned THEN r ELSE [r EXCEPT !.starts = @ + 1] : r \in @}]

\* Mutant: a backup is due once it is old enough or has seen enough starts.
Due_Either(r, t) == t - r.created >= MIN_AGE \/ r.starts >= MIN_STARTS

Due(r, t) == t - r.created >= MIN_AGE /\ r.starts >= MIN_STARTS

\* Mutant: a backup that is due leaves the list.
Expired_Dropped(led, t) ==
  [led EXCEPT !.repairs = {r \in @ : ~Due(r, t)}]

Expired(led, t) ==
  [led EXCEPT !.repairs =
     {IF Due(r, t) THEN [r EXCEPT !.pruned = TRUE] ELSE r : r \in @}]

OfSurface(good, s) == {k \in good : k.surface = s}
Retained(good, s)  == {k \in OfSurface(good, s) : ~k.pruned}

\* The order of the cap's stable sort: by creation, newest first; of equals
\* the one recorded first comes first.
Before(a, b) ==
  a.created > b.created \/ (a.created = b.created /\ a.id < b.id)

\* Mutant: off by one in the cap.
Beyond_OffByOne(good, k) ==
  Cardinality({j \in Retained(good, k.surface) : Before(j, k)}) > RETAIN

Beyond(good, k) ==
  Cardinality({j \in Retained(good, k.surface) : Before(j, k)}) >= RETAIN

\* applyKnownGoodCap, for the surfaces in S; the backup files stay.
Capped(good, S) ==
  {IF ~k.pruned /\ k.surface \in S /\ Beyond(good, k)
   THEN [k EXCEPT !.pruned = TRUE] ELSE k : k \in good}

WithGood(led, id, s, c, t) ==
  LET new == [id |-> id, surface |-> s, content |-> c, created |-> t,
              pruned |-> FALSE]
  IN  [led EXCEPT !.good = Capped(@ \cup {new}, {s}),
                  !.guidance = IF @ = "GENERAL_UPDATE_ONLY"
                               THEN "HOLD_KNOWN_GOOD" ELSE @]

RetentionOf(led, t) ==
  [Expired(led, t) EXCEPT !.good = Capped(@, Surfaces)]

Holding(led) == [led EXCEPT !.guidance = "HOLD_KNOWN_GOOD"]

(***************************************************************************)
(* runCanary: the guidance by what the caller says came of the canary and  *)
(* by whether a live measurement gives it authority.                       *)
(***************************************************************************)
Canaried(led, result, live) ==
  [led EXCEPT !.guidance =
     CASE result = "not_run" -> "UPGRADE_CANARY_AVAILABLE"
       [] result = "clean" /\ live -> "RECOMMEND_UPGRADE"
       [] result = "clean" /\ ~live -> "UPGRADE_CANARY_AVAILABLE"
       [] result = "regressed" /\ (\E k \in led.good : ~k.pruned) -> "HOLD_KNOWN_GOOD"
       [] OTHER -> "GENERAL_UPDATE_ONLY"]

Superseded(led, r, d) ==
  [led EXCEPT !.recipes[r] = d,
              !.guidance = IF @ = "HOLD_KNOWN_GOOD"
                           THEN "UPGRADE_CANARY_AVAILABLE" ELSE @]

-----------------------------------------------------------------------------
Job   == [led : Ledger, id : Ids \cup {0}]
NoJob == [led |-> EmptyLedger, id |-> 0]

Init ==
  /\ now = 0
  /\ ledger = EmptyLedger
  /\ surface \in [Surfaces -> Contents]
  /\ pc = [p \in Procs |-> "idle"]
  /\ job = [p \in Procs |-> NoJob]
  /\ witness = [p \in Procs |-> "none"]
  /\ next = 1
  /\ starts = [i \in Ids |-> 0]
  /\ measured = 0
  /\ passed = FALSE
  /\ overlap = FALSE
  /\ recorded = {}

Goto(p, to) == pc' = [pc EXCEPT ![p] = to] /\ UNCHANGED job

\* The call is over, with a report or an error.
Done(p) == pc' = [pc EXCEPT ![p] = "idle"] /\ job' = [job EXCEPT ![p] = NoJob]

Alone(p) == \A q \in Procs \ {p} : pc[q] = "idle"

\* A call that loaded the ledger goes on at step `to` with what it will save.
\* (A ledger that cannot be read ends the call at once.)
Call(p, to, led, id) ==
  /\ pc[p] = "idle"
  /\ Readable(ledger)
  /\ overlap' = (overlap \/ ~Alone(p))
  /\ pc' = [pc EXCEPT ![p] = to]
  /\ job' = [job EXCEPT ![p] = [led |-> led, id |-> id]]

\* recordRepairBackup: the file's verified backup precedes the ledger entry.
RecordRepairBackup(p) ==
  /\ next \in Ids
  /\ Call(p, "save", WithRepair(ledger, next, now), next)
  /\ next' = next + 1
  /\ UNCHANGED << now, ledger, surface, witness, starts, measured, passed,
                  recorded >>

RecordSuccessfulStart(p) ==
  /\ \A i \in Ids : starts[i] < MaxStarts
  /\ Call(p, "save", Started(ledger), 0)
  /\ starts' = [i \in Ids |-> IF i < next THEN starts[i] + 1 ELSE 0]
  /\ UNCHANGED << now, ledger, surface, witness, next, measured, passed,
                  recorded >>

RecordKnownGood(p, s) ==
  /\ next \in Ids
  /\ Call(p, "save", WithGood(ledger, next, s, surface[s], now), next)
  /\ next' = next + 1
  /\ UNCHANGED << now, ledger, surface, witness, starts, measured, passed,
                  recorded >>

ApplyRetention(p) ==
  /\ Call(p, "save", RetentionOf(ledger, now), 0)
  /\ UNCHANGED << now, ledger, surface, witness, next, starts, measured,
                  passed, recorded >>

\* assessUpdateRegression, whose A/B comparison established a regression or not.
AssessUpdateRegression(p, established) ==
  /\ Call(p, "save", IF established THEN Holding(ledger) ELSE ledger, 0)
  /\ UNCHANGED << now, ledger, surface, witness, next, starts, measured,
                  passed, recorded >>

RollbackSurface(p, k) ==
  /\ k \in ledger.good /\ ~k.pruned
  /\ Call(p, "restore", Holding(ledger), k.id)
  /\ UNCHANGED << now, ledger, surface, witness, next, starts, measured,
                  passed, recorded >>

\* runRegisteredLiveMeasurement with a positive verdict.
Measure(p) ==
  /\ pc[p] = "idle"
  /\ measured < MaxMeasures
  /\ measured' = measured + 1
  /\ witness' = [witness EXCEPT ![p] = "fresh"]
  /\ UNCHANGED << now, ledger, surface, pc, job, next, starts, passed,
                  recorded, overlap >>

\* Mutant: what the caller says of a canary is authority enough.
HasLiveAuthority_Boolean(p, result, shown) == result = "clean"

HasLiveAuthority(p, result, shown) ==
  result = "clean" /\ shown /\ witness[p] = "fresh"

(***************************************************************************)
(* runCanary, with the process's witness shown to it or not: a clean one   *)
(* advances the witness before it loads the ledger; one with a witness in  *)
(* another stage is refused.                                               *)
(***************************************************************************)
Canary(p, result, shown) ==
  LET live == HasLiveAuthority(p, result, shown)
  IN  /\ pc[p] = "idle"
      /\ result = "clean" /\ shown => witness[p] \in {"none", "fresh"}
      /\ \/ /\ Call(p, "save", Canaried(ledger, result, live), 0)
            /\ passed' = (passed \/ (live /\ witness[p] = "fresh"))
         \/ /\ ~Readable(ledger)
            /\ UNCHANGED << pc, job, passed, overlap >>
      /\ witness' = IF live /\ witness[p] = "fresh"
                    THEN [witness EXCEPT ![p] = "canary_recorded"] ELSE witness
      /\ UNCHANGED << now, ledger, surface, next, starts, measured, recorded >>

\* SUPERSESSION_EVIDENCE_CONFLICT.
Conflict(r, d) == ledger.recipes[r] \notin {NoDigest, d}

\* supersedeRecipe consumes the witness of a recorded canary before it saves.
SupersedeRecipe(p, r, d) ==
  /\ ~Conflict(r, d)
  /\ witness[p] = "canary_recorded"
  /\ Call(p, "save", Superseded(ledger, r, d), 0)
  /\ witness' = [witness EXCEPT ![p] = "consumed"]
  /\ UNCHANGED << now, ledger, surface, next, starts, measured, passed,
                  recorded >>

\* rollbackSurface: restoreFromBackup, or an error that ends the call.
Restore(p) ==
  /\ pc[p] = "restore"
  /\ \/ /\ \E k \in job[p].led.good :
             /\ k.id = job[p].id
             /\ surface' = [surface EXCEPT ![k.surface] = k.content]
        /\ Goto(p, "verify")
     \/ Done(p) /\ UNCHANGED surface
  /\ UNCHANGED << now, ledger, witness, next, starts, measured, passed,
                  recorded, overlap >>

\* The restored file is read back; if it is another by now, ROLLBACK_MISMATCH.
Verify(p) ==
  /\ pc[p] = "verify"
  /\ IF \E k \in job[p].led.good : k.id = job[p].id /\ surface[k.surface] = k.content
     THEN Goto(p, "save")
     ELSE Done(p)
  /\ UNCHANGED << now, ledger, surface, witness, next, starts, measured,
                  passed, recorded, overlap >>

(***************************************************************************)
(* saveLedger writes the whole ledger atomically, or fails and ends the    *)
(* call.  What was saved is loaded again and, if it can be read, reported  *)
(* with ok TRUE.                                                           *)
(***************************************************************************)
Save(p) ==
  /\ pc[p] = "save"
  /\ Done(p)
  /\ \/ /\ ledger' = job[p].led
        /\ recorded' = IF Readable(job[p].led) /\ ~overlap
                       THEN recorded \cup ({job[p].id} \ {0}) ELSE recorded
     \/ UNCHANGED << ledger, recorded >>
  /\ UNCHANGED << now, surface, witness, next, starts, measured, passed,
                  overlap >>

\* A process ends, inside a call or between calls; its witness goes with it.
Crash(p) ==
  /\ pc[p] # "idle" \/ witness[p] # "none"
  /\ Done(p)
  /\ witness' = [witness EXCEPT ![p] = "none"]
  /\ UNCHANGED << now, ledger, surface, next, starts, measured, passed,
                  recorded, overlap >>

Edit(s, c) ==
  /\ c # surface[s]
  /\ surface' = [surface EXCEPT ![s] = c]
  /\ UNCHANGED << now, ledger, pc, job, witness, next, starts, measured,
                  passed, recorded, overlap >>

Tick ==
  /\ now < MaxNow
  /\ now' = now + 1
  /\ UNCHANGED << ledger, surface, pc, job, witness, next, starts, measured,
                  passed, recorded, overlap >>

Step(p) ==
  \/ RecordRepairBackup(p) \/ RecordSuccessfulStart(p) \/ ApplyRetention(p)
  \/ \E s \in Surfaces : RecordKnownGood(p, s)
  \/ \E b \in BOOLEAN : AssessUpdateRegression(p, b)
  \/ \E k \in ledger.good : RollbackSurface(p, k)
  \/ Measure(p)
  \/ \E result \in Results, shown \in BOOLEAN : Canary(p, result, shown)
  \/ \E r \in Recipes, d \in Digests : SupersedeRecipe(p, r, d)
  \/ Restore(p) \/ Verify(p) \/ Save(p) \/ Crash(p)

Next ==
  \/ Tick
  \/ \E s \in Surfaces, c \in Contents : Edit(s, c)
  \/ \E p \in Procs : Step(p)

Spec == Init /\ [][Next]_vars

-----------------------------------------------------------------------------
TypeOK ==
  /\ now \in 0..MaxNow
  /\ ledger \in Ledger
  /\ surface \in [Surfaces -> Contents]
  /\ pc \in [Procs -> {"idle", "restore", "verify", "save"}]
  /\ job \in [Procs -> Job]
  /\ witness \in [Procs -> Stages]
  /\ next \in 1..(MaxIds + 1)
  /\ starts \in [Ids -> Nat]
  /\ measured \in 0..MaxMeasures
  /\ passed \in BOOLEAN
  /\ overlap \in BOOLEAN
  /\ recorded \subseteq Ids

(***************************************************************************)
(* "Normal repair backups remain for at least seven days and three         *)
(* successful starts": a backup is pruned only after both, counted from    *)
(* when it was made, whatever other processes do to the ledger meanwhile.  *)
(***************************************************************************)
PrunedOnlyWhenDue ==
  \A r \in ledger.repairs :
    r.pruned => now - r.created >= MIN_AGE /\ starts[r.id] >= MIN_STARTS

(***************************************************************************)
(* "Last N healthy checkpoints retained per surface": no less than RETAIN  *)
(* of the checkpoints in the ledger, as far as there are that many, and    *)
(* no more.                                                                *)
(***************************************************************************)
RetainsLastN ==
  \A s \in Surfaces :
    LET all == Cardinality(OfSurface(ledger.good, s))
    IN  Cardinality(Retained(ledger.good, s)) = IF all < RETAIN THEN all ELSE RETAIN

(***************************************************************************)
(* RECOMMEND_UPGRADE is never stored on a caller's word: some process has  *)
(* passed a canary with a live-measurement witness of its own.             *)
(***************************************************************************)
RecommendNeedsMeasurement ==
  ledger.guidance = "RECOMMEND_UPGRADE" => passed

(***************************************************************************)
(* As long as no calls overlap, what was reported as recorded is in the    *)
(* ledger, through failing saves, crashes and retention.                   *)
(***************************************************************************)
ReportedIsKept ==
  ~overlap => \A i \in recorded : \E x \in ledger.repairs \cup ledger.good : x.id = i

(***************************************************************************)
(* "Refuse silent overwrite": as long as calls do not overlap, a recipe    *)
(* that was superseded stays superseded, by the same evidence.             *)
(***************************************************************************)
SupersededStays ==
  [][~overlap => \A r \in Recipes :
       ledger.recipes[r] # NoDigest => ledger'.recipes[r] = ledger.recipes[r]]_vars

(***************************************************************************)
(* "The latest three healthy ... checkpoints remain available as           *)
(* KNOWN_GOOD": while the ledger holds one that is not pruned, a rollback  *)
(* finds it, which takes a ledger that can be loaded.                      *)
(***************************************************************************)
KnownGoodAvailable ==
  (\E k \in ledger.good : ~k.pruned) => Readable(ledger)
===============================================================================
