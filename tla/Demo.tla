--------------------------------- MODULE Demo ---------------------------------
(***************************************************************************)
(* runDemo (src/core/demo): ten steps over fixtures copied to a disposable *)
(* root, of its own or the caller's, and a receipt of what happened.  Each *)
(* call of a core may succeed, fail, use the network, answer something     *)
(* that is no answer, or throw; the budget may run out before any step;    *)
(* and the root or the target may be swapped, between any two steps, for a *)
(* link to somewhere that the proofs of disposability refuse.              *)
(***************************************************************************)
EXTENDS Naturals, FiniteSets, Sequences, Functions

CONSTANT None

VARIABLES
  request,  \* RunDemoOptions: does the caller own the root, is a failure induced
  run,      \* the locals of runDemo, the disposable root and its artifact
  result    \* the receipt

vars == << request, run, result >>

\* DEMO_STEP_ORDER
StepOrder ==
  << "isolate", "diagnose_main", "explain_main", "preview_main", "apply_main",
     "verify_main", "rollback_main", "model_refuse", "crash_refuse", "cleanup" >>
Steps == Range(StepOrder)
Place(id) == CHOOSE i \in DOMAIN StepOrder : StepOrder[i] = id
After(id) == StepOrder[Place(id) + 1]

\* REQUIRED_NETWORK_SEAMS
Seams == {"diagnose_main", "apply_main", "impact_baseline", "impact_mutated", "crash_diagnose"}

\* What a core says of the network: FALSE, TRUE, or not a boolean.
Network == {"false", "true", "malformed"}

\* A caller's root may have served a demo before.
Options == {o \in [owned : BOOLEAN, induced : BOOLEAN, used : BOOLEAN] : ~(o.owned /\ o.used)}

Init ==
  /\ request \in Options
  /\ result = None
  /\ run = [at |-> "isolate", steps |-> << >>, root |-> "none", artifact |-> "none",
            rootIsOurs |-> TRUE, targetIsOurs |-> TRUE, seen |-> {}, proofs |-> 0,
            proved |-> FALSE, localOnly |-> FALSE, resolved |-> FALSE, restored |-> FALSE,
            error |-> "other", strayed |-> {}, window |-> FALSE, unrestored |-> FALSE]

-----------------------------------------------------------------------------
Step(id, status) == [id |-> id, status |-> status]

Pushed(r, id, status) == [r EXCEPT !.steps = Append(@, Step(id, status))]

\* recordNetwork
Noted(r, seam, network) == [r EXCEPT !.seen = @ \cup {<< seam, network >>}]

\* Mutant: an answer that is no boolean passes for "not used".
NetworkAllFalse_Falsy(seen) ==
  /\ \A o \in seen : o[2] # "true"
  /\ \A s \in Seams : \E o \in seen : o[1] = s

NetworkAllFalse(seen) ==
  /\ \A o \in seen : o[2] = "false"
  /\ \A s \in Seams : \E o \in seen : o[1] = s

\* finalizeSecurityEvidence
Proven(r) == NetworkAllFalse(r.seen) /\ r.proofs >= 1 /\ r.localOnly

\* Every step once, in order: those never reached were skipped.
Ordered(steps) ==
  [i \in DOMAIN StepOrder |->
     IF \E k \in DOMAIN steps : steps[k].id = StepOrder[i]
     THEN steps[CHOOSE k \in DOMAIN steps :
                  steps[k].id = StepOrder[i] /\ \A j \in 1..(k - 1) : steps[j].id # StepOrder[i]]
     ELSE Step(StepOrder[i], "skip")]

\* finish with baseReceipt
Receipt(r, status, cleaned) ==
  LET ok == status = "completed" /\ Proven(r)
  IN  [ok |-> ok, status |-> IF status = "completed" /\ ~ok THEN "failed" ELSE status,
       steps |-> Ordered(r.steps), resolved |-> r.resolved, restored |-> r.restored,
       error |-> r.error, cleaned |-> cleaned]

\* doCleanup: removeDemoTempRoot removes a root the demo made, or cannot; a
\* caller's root, and one that was never made, count as cleaned.
Cleaned(r, gone) ==
  IF r.root = "own"
  THEN [Pushed(r, "cleanup", IF gone THEN "pass" ELSE "fail")
          EXCEPT !.root = IF gone THEN "removed" ELSE "own"]
  ELSE Pushed(r, "cleanup", "pass")

\* Mutant: a run that fails leaves its root behind.
Finish_Dirty(r, status) ==
  /\ run' = [r EXCEPT !.at = "done"]
  /\ result' = Receipt(r, status, r.root # "own")

Finish(r, status) ==
  \E gone \in BOOLEAN :
    LET c == Cleaned(r, gone)
    IN  /\ run' = [c EXCEPT !.at = "done"]
        /\ result' = Receipt(c, status, c.root # "own")

Fail(r, id, status) == Finish(Pushed(r, id, "fail"), status)

\* The proofs before a write serve the step they were made in.
Pass(r, id) ==
  /\ run' = [Pushed(r, id, "pass") EXCEPT !.at = After(id), !.proved = FALSE]
  /\ UNCHANGED result

At(id) == result = None /\ run.at = id

\* budgetExceeded, before a step does anything.
OverBudget(id) == Fail(run, id, "budget_exceeded")

(***************************************************************************)
(* A write of the engine's by the target's path.  It changes the demo's    *)
(* artifact or, once the root is a link, whatever has the path now; a      *)
(* target that is itself a link the engine refuses.  `strayed` tells which *)
(* writes went elsewhere: one the demo meant, or a best-effort rollback.   *)
(***************************************************************************)
Followed(r) == r.targetIsOurs \/ ~r.rootIsOurs

Landed(r, artifact, which) ==
  IF r.targetIsOurs THEN [r EXCEPT !.artifact = artifact]
  ELSE IF Followed(r) THEN [r EXCEPT !.strayed = @ \cup {which}] ELSE r

\* hashRelativeFile
Hashes(r) == IF r.targetIsOurs THEN {r.artifact, "none"} ELSE {"original", "patched", "none"}

\* rollbackRepair: it writes the original back, or fails before it does.
RestoredBy(r, works, which) ==
  LET w == IF works THEN Landed(r, "original", which) ELSE r
  IN  [w EXCEPT !.unrestored = @ \/ w.artifact = "patched"]

\* The rollback before a failing end.  It is best effort, and is made without
\* a proof that the target is still the demo's own.
RolledBack(r, works) == RestoredBy(r, works, "best_effort")

-----------------------------------------------------------------------------
(***************************************************************************)
(* The root: createDemoTempRoot removes what it made when that is not      *)
(* provably disposable; assertCallerDemoRoot refuses a live profile.       *)
(***************************************************************************)
CreateRoot(outcome) ==
  CASE outcome = "ready" -> [run EXCEPT !.root = "own", !.proofs = 1]
    [] outcome = "unprovable" -> [run EXCEPT !.root = "removed"]
    [] outcome = "left" -> [run EXCEPT !.root = "left"]  \* its best-effort removal failed
    [] OTHER -> run

CallerRoot(outcome) ==
  IF outcome = "ready" THEN [run EXCEPT !.root = "caller", !.proofs = 1] ELSE run

(***************************************************************************)
(* How many of the three fixtures are copied before one is not:            *)
(* copyAllowlistedFixture refuses a destination that exists, and removes a *)
(* copy that holds a link or that it cannot prove disposable.              *)
(***************************************************************************)
Fixtures == 3
Copies(options) == IF options.used THEN {0} ELSE 0..Fixtures

Isolate ==
  /\ At("isolate")
  /\ \/ OverBudget("isolate")
     \/ \E outcome \in IF request.owned THEN {"ready", "unprovable", "left", "failed"}
                       ELSE {"ready", "live", "elsewhere"} :
          LET r == IF request.owned THEN CreateRoot(outcome) ELSE CallerRoot(outcome)
          IN  IF outcome # "ready"
              THEN Fail(r, "isolate",
                        IF outcome \in {"live", "elsewhere"} THEN "refused" ELSE "failed")
              ELSE \E k \in Copies(request) :
                     IF k < Fixtures THEN Fail(r, "isolate", "failed")
                     ELSE Pass([r EXCEPT !.artifact = "original", !.proofs = 2,
                                         !.localOnly = TRUE], "isolate")
  /\ UNCHANGED request

\* With the hash of the original artifact taken first, or not to be had.
DiagnoseMain ==
  /\ At("diagnose_main")
  /\ \/ Finish(run, "failed")
     \/ OverBudget("diagnose_main")
     \/ \E n \in Network, ok \in BOOLEAN :
          LET r == Noted(run, "diagnose_main", n)
          IN  IF ok /\ n = "false" THEN Pass(r, "diagnose_main")
              ELSE Fail(r, "diagnose_main", "failed")
  /\ UNCHANGED request

\* The diagnosis must have located the component.
ExplainMain ==
  /\ At("explain_main")
  /\ Pass(run, "explain_main") \/ Fail(run, "explain_main", "failed")
  /\ UNCHANGED request

\* previewRepair, and the plant of the failure to induce.
PreviewMain ==
  /\ At("preview_main")
  /\ \/ OverBudget("preview_main")
     \/ Fail(run, "preview_main", "failed")
     \/ Pass(run, "preview_main")
     \/ request.induced /\ Finish(Pushed(run, "preview_main", "pass"), "failed")
  /\ UNCHANGED request

\* Mutant: the proof made when the root was is taken to hold still.
BoundaryProved_Once(r) == r.proofs > 0

\* proveDemoRootDisposable and proveMutationTargetDisposable, before a write.
BoundaryProved(r) == r.rootIsOurs /\ r.targetIsOurs

Refused(r, id) ==
  Fail([r EXCEPT !.localOnly = FALSE, !.error = "NOT_DISPOSABLE",
                 !.proofs = IF r.rootIsOurs THEN @ + 1 ELSE @], id, "refused")

\* The proofs are one step and the write they are for is another.
Boundary(id) ==
  \/ ~BoundaryProved(run) /\ Refused(run, id)
  \/ /\ BoundaryProved(run)
     /\ run' = [run EXCEPT !.proved = TRUE, !.proofs = @ + 2]
     /\ UNCHANGED result

\* An induced failure has to end rolled back, with the original in place.
ApplyInduced(r, outcome, hash) ==
  IF outcome = "rolled_back" /\ hash = "original"
  THEN /\ run' = [Pushed(Pushed(Pushed(r, "apply_main", "pass"), "verify_main", "skip"),
                         "rollback_main", "skip")
                    EXCEPT !.at = "model_refuse", !.proved = FALSE, !.restored = TRUE,
                           !.resolved = FALSE]
       /\ UNCHANGED result
  ELSE \E works \in BOOLEAN : Fail(RolledBack(r, works), "apply_main", "failed")

\* An apply that fails is rolled back unless it says that it was; one that
\* succeeds and shows no other hash is not.
ApplyMeant(r, outcome, hash, n) ==
  IF outcome = "resolved" /\ n = "false"
  THEN IF hash = "patched" THEN Pass(r, "apply_main")
       ELSE Fail([r EXCEPT !.error = "APPLY_HASH_UNCHANGED"], "apply_main", "failed")
  ELSE IF outcome = "rolled_back" THEN Fail(r, "apply_main", "failed")
  ELSE \E works \in BOOLEAN : Fail(RolledBack(r, works), "apply_main", "failed")

BeforeApply ==
  /\ At("apply_main") /\ ~run.proved
  /\ OverBudget("apply_main") \/ Boundary("apply_main")
  /\ UNCHANGED request

\* applyRepair: it refuses, resolves and verifies, rolls back by itself, or
\* writes and does neither.
Applied(r, outcome) ==
  IF outcome = "refused" THEN r
  ELSE Landed(r, IF outcome = "rolled_back" THEN "original" ELSE "patched", "meant")

ApplyMain ==
  /\ At("apply_main") /\ run.proved
  /\ \E n \in Network,
        outcome \in IF Followed(run) THEN {"refused", "resolved", "rolled_back", "broken"}
                   ELSE {"refused"} :
       LET r == [Noted(Applied(run, outcome), "apply_main", n)
                   EXCEPT !.resolved = outcome = "resolved"]
       IN  \E hash \in Hashes(r) :
             IF request.induced THEN ApplyInduced(r, outcome, hash)
             ELSE ApplyMeant(r, outcome, hash, n)
  /\ UNCHANGED request

\* Mutant: a failed verification leaves the repair where it is.
VerifyFailed_Left(r) == Fail([r EXCEPT !.resolved = FALSE], "verify_main", "failed")

VerifyFailed(r) ==
  \E works \in BOOLEAN :
    Fail([RolledBack(r, works) EXCEPT !.resolved = FALSE], "verify_main", "failed")

VerifyMain ==
  /\ At("verify_main")
  /\ \/ \E works \in BOOLEAN : Fail(RolledBack(run, works), "verify_main", "budget_exceeded")
     \/ VerifyFailed(run)
     \/ Pass([run EXCEPT !.resolved = TRUE], "verify_main")
  /\ UNCHANGED request

BeforeRollback ==
  /\ At("rollback_main") /\ ~run.proved
  /\ \/ \E works \in BOOLEAN : Fail(RolledBack(run, works), "rollback_main", "budget_exceeded")
     \/ Boundary("rollback_main")
  /\ UNCHANGED request

\* rollbackRepair must report the rollback and the hash must be the original's.
RollbackMain ==
  /\ At("rollback_main") /\ run.proved
  /\ \E works \in BOOLEAN, says \in BOOLEAN :
       LET r == RestoredBy(run, works, "meant")
       IN  \E hash \in Hashes(r) :
             IF works /\ says /\ Followed(run) /\ hash = "original"
             THEN Pass([r EXCEPT !.resolved = FALSE, !.restored = TRUE], "rollback_main")
             ELSE Fail(r, "rollback_main", "failed")
  /\ UNCHANGED request

\* assessImpact twice, the second time with a payload the graph must refuse.
ModelRefuse ==
  /\ At("model_refuse")
  /\ \/ OverBudget("model_refuse")
     \/ \E n \in Network, m \in Network, refused \in BOOLEAN :
          LET r == Noted(Noted(run, "impact_baseline", n), "impact_mutated", m)
          IN  IF refused /\ n = "false" /\ m = "false" THEN Pass(r, "model_refuse")
              ELSE Fail(r, "model_refuse", "failed")
  /\ UNCHANGED request

\* diagnose and previewRepair of a crash, which must not be repaired.
CrashRefuse ==
  /\ At("crash_refuse")
  /\ \/ OverBudget("crash_refuse")
     \/ \E n \in Network, refused \in BOOLEAN :
          LET r == Noted(run, "crash_diagnose", n)
          IN  IF refused /\ n = "false" THEN Pass(r, "crash_refuse")
              ELSE Fail(r, "crash_refuse", "failed")
  /\ UNCHANGED request

Cleanup ==
  /\ At("cleanup")
  /\ \E gone \in BOOLEAN :
       LET c == Cleaned(run, gone)
       IN  /\ run' = [c EXCEPT !.at = "done"]
           /\ result' = Receipt(c, IF c.root = "own" THEN "failed" ELSE "completed",
                                c.root # "own")
  /\ UNCHANGED request

\* Any call may throw; what an apply or a rollback wrote before stays.
Throw ==
  /\ result = None
  /\ run.at \in Steps \ {"isolate", "cleanup"}
  /\ \E r \in {run} \cup IF run.proved
                        THEN {Landed(run, a, "meant") : a \in {"original", "patched"}} ELSE {} :
       Finish([r EXCEPT !.error = "DEMO_INTERNAL_ERROR"], "failed")
  /\ UNCHANGED request

\* Somebody swaps the root, or the target in it, for a link to elsewhere.
Swap ==
  /\ result = None /\ run.root \in {"own", "caller"} /\ run.targetIsOurs
  /\ \E ours \in BOOLEAN :
       run' = [run EXCEPT !.rootIsOurs = ours, !.targetIsOurs = FALSE, !.window = @ \/ run.proved]
  /\ UNCHANGED << request, result >>

Next ==
  \/ Isolate \/ DiagnoseMain \/ ExplainMain \/ PreviewMain \/ BeforeApply \/ ApplyMain
  \/ VerifyMain \/ BeforeRollback \/ RollbackMain \/ ModelRefuse \/ CrashRefuse \/ Cleanup
  \/ Throw \/ Swap

-----------------------------------------------------------------------------
Status(id) == result.steps[Place(id)].status

(***************************************************************************)
(* A receipt that says ok describes a run in which no core used or may     *)
(* have used the network, no step failed and none was left out but those   *)
(* an induced failure makes needless, and the artifact is the original:    *)
(* unless the directory was swapped between a proof and its write, when    *)
(* the hash that was looked at is another artifact's.                      *)
(***************************************************************************)
OkIsTheWholeStory ==
  (result # None /\ result.ok) =>
    /\ \A s \in Seams : {o \in run.seen : o[1] = s} = {<< s, "false" >>}
    /\ \A id \in Steps :
         Status(id) = IF request.induced /\ id \in {"verify_main", "rollback_main"}
                      THEN "skip" ELSE "pass"
    /\ run.artifact = "original" \/ run.window
    /\ result.restored /\ ~result.resolved

(***************************************************************************)
(* However it ends, the root that the demo made is removed, or the receipt *)
(* and its cleanup step say that it is not.  (One that createDemoTempRoot  *)
(* could neither prove nor remove is not known to the receipt.)            *)
(***************************************************************************)
CleanupIsHonest ==
  result # None =>
    /\ result.cleaned <=> run.root # "own"
    /\ Status("cleanup") = IF result.cleaned THEN "pass" ELSE "fail"
    /\ result.status = "completed" => result.cleaned

(***************************************************************************)
(* A run that ends with the repair in place does not say that it is taken  *)
(* back, and it either called a rollback that did not restore the artifact *)
(* or gives the error of one of the three ends that call none: the proof   *)
(* before the rollback failed, the artifact showed no new hash after an    *)
(* apply that says it resolved, or a call threw.                           *)
(***************************************************************************)
NoRollback == {"NOT_DISPOSABLE", "APPLY_HASH_UNCHANGED", "DEMO_INTERNAL_ERROR"}

NotLeftRepaired ==
  (result # None /\ run.artifact = "patched") =>
    /\ run.window \/ ~(result.ok \/ result.restored)
    /\ run.unrestored \/ result.error \in NoRollback

(***************************************************************************)
(* "Re-prove the exact mutation target immediately before apply/rollback   *)
(* writes": whatever is swapped and when, a write that the demo means goes *)
(* elsewhere only if the swap fell between its own proofs and the write.   *)
(* The best-effort rollbacks are made without a proof, so one of them goes *)
(* elsewhere after any swap of the root; they are not in this promise.     *)
(***************************************************************************)
WritesToItsOwn == "meant" \in run.strayed => run.window
=============================================================================
