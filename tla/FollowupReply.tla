---------------------------- MODULE FollowupReply ----------------------------
(***************************************************************************)
(* What a follow-up call answers (src/upstream/followup: dispatch, intent, *)
(* probes, capsule, candidate and the engine around them), and what the    *)
(* lifecycle calls of the same user may have claimed before or after it.   *)
(* The ledger of subscriptions is as in Followup, without its caps, events *)
(* and time stamps; the lifecycle ledger of the target is its recipes and  *)
(* its last guidance.  Calls follow one another; a save may fail.          *)
(***************************************************************************)
EXTENDS Naturals, FiniteSets, Sequences

CONSTANTS None, Requests   \* Requests: sequences of calls, with the target they are made on

VARIABLES
  request,  \* the calls, the files of the target, what is followed at first
  run,      \* [subs, recipes, guidance, at, was, earned]
  result    \* the answer to the last call

vars == << request, run, result >>

Issues == {1, 2, 3}
Recipes == {"r1", "r2"}

-----------------------------------------------------------------------------
(***************************************************************************)
(* issue-url.ts: a reference is what it looks like and the issue it names. *)
(***************************************************************************)
IssueError(ref) ==
  CASE ref.kind \in {"number", "url"} -> None
    [] ref.kind \in {"other_host", "other_repository"} -> "UNAUTHORIZED_REPOSITORY"
    [] ref.kind \in {"text", "http", "userinfo", "port", "query", "pull"} -> "UNAUTHORIZED_ISSUE"
    [] OTHER -> "INVALID_ISSUE"

-----------------------------------------------------------------------------
(***************************************************************************)
(* intent.ts                                                               *)
(***************************************************************************)
Untrusted == {"unknown_or_untrusted"}

\* Mutant: words are looked for in prose that gives instructions as well.
Intents_Unscanned(prose) == IF prose.asks = {} THEN Untrusted ELSE prose.asks

\* detectMaintainerIntents
Intents(prose) == IF prose.instruction \/ prose.asks = {} THEN Untrusted ELSE prose.asks

ProbeOf ==
  [request_logs |-> "log_redaction_probe", request_reproduction |-> "reproduction_window_probe",
   request_version |-> "version_fingerprint_probe", request_platform |-> "platform_identity_probe",
   request_config_probe |-> "config_control_probe", request_core_health |-> "core_health_readonly"]

\* mapIntentsToProbes: an acknowledgement asks for nothing.
ProbeIds(intents) == {ProbeOf[i] : i \in intents \cap DOMAIN ProbeOf}

-----------------------------------------------------------------------------
(***************************************************************************)
(* probes.ts                                                               *)
(***************************************************************************)
\* Mutant: stat in place of lstat.
Present_FollowsLinks(files, name) == files[name] \in {"file", "link", "behind_link"}

\* existsNamed: the last step of the path is no link; the ones before may be.
Present(files, name) == files[name] \in {"file", "behind_link"}

Named(id) ==
  CASE id = "core_health_readonly"      -> {"incident", "lifecycle"}
    [] id = "config_control_probe"      -> {"config"}
    [] id = "version_fingerprint_probe" -> {"version", "package", "incident"}
    [] id = "reproduction_window_probe" -> {"incident"}
    [] id = "log_redaction_probe"       -> {"window", "log"}
    [] OTHER                            -> {}

\* runRegisteredProbe: the target may have gone since the call began.
Probe(id, target) ==
  LET there == {n \in Named(id) : Present(target.files, n)}
  IN  IF ~target.stays THEN [probe |-> id, passed |-> FALSE, found |-> {}]
      ELSE [probe  |-> id,
            passed |-> id # "reproduction_window_probe" \/ there # {},
            found  |-> IF id = "core_health_readonly" \/ there = {} THEN there ELSE {"some"}]

\* loadCandidateMeasurement: only a measurement file that is no link is refused.
LegacyRefused(call) == call.legacy = "file"

-----------------------------------------------------------------------------
(***************************************************************************)
(* capsule.ts: the capsule, and the draft made from it.                    *)
(***************************************************************************)
Capsule(issue, intents, probes, prose) ==
  [issue |-> issue, intents |-> intents, probes |-> probes, injection |-> prose.instruction]

NoDraft(status) == [status |-> status, lines |-> {}]

Draft(capsule) ==
  IF capsule.injection THEN NoDraft("BLOCKED")
  ELSE IF capsule.probes = {} THEN NoDraft("DISPOSITION_ONLY")
  ELSE [status |-> "READY", lines |-> capsule.probes]

-----------------------------------------------------------------------------
(***************************************************************************)
(* engine.ts: the answer to an event.                                      *)
(***************************************************************************)
Answered(ok, status) ==
  [ok |-> ok, status |-> status, draft |-> NoDraft("none"), intents |-> {}, probes |-> {},
   mutated |-> FALSE, guidance |-> None, recipe_status |-> None]

\* parseEventEnvelope: the first thing that is wrong, in its order.
EventFault(e) ==
  IF ~e.object THEN "INVALID_EVENT"
  ELSE IF ~e.small THEN "SIZE_LIMIT"
  ELSE IF e.forbidden THEN "forbidden key"
  ELSE IF e.extra THEN "EXTRA_FIELD"
  ELSE IF e.schema \notin {None, 1} THEN "INVALID_SCHEMA"
  ELSE IF e.issue = None THEN "MISSING_ISSUE"
  ELSE IF IssueError(e.issue) # None THEN IssueError(e.issue)
  ELSE IF e.disposition = "unknown" THEN "INVALID_DISPOSITION"
  ELSE IF e.duplicate_of # None THEN IssueError(e.duplicate_of)
  ELSE None

\* What the digest of an event covers.
Says(e) == [issue |-> e.issue.issue, disposition |-> e.disposition, prose |-> e.prose,
            duplicate_of |-> IF e.duplicate_of = None THEN None ELSE e.duplicate_of.issue]

\* applyDispositionPolicy
MigrateTo(says) == IF says.disposition = "duplicate" THEN says.duplicate_of ELSE None

Followed(subs, i) == subs[i].active
Following == [active |-> TRUE, last |-> None]

\* The subscriptions after an event; a duplicate moves its own.
SubsAfter(subs, says) ==
  LET to    == MigrateTo(says)
      moved == [subs EXCEPT ![says.issue] = [active |-> to = None, last |-> says]]
  IN  IF to = None THEN moved
      ELSE IF Followed(moved, to) THEN moved
      ELSE [moved EXCEPT ![to] = Following]

\* Mutant: an event that was answered before is answered again.
Replayed_Never(sub, says) == FALSE

Replayed(sub, says) == sub.last = says

\* processFollowupEvent: its answer, and the subscriptions it leaves.
EventAnswer(call, target, subs) ==
  LET e       == call.event
      says    == Says(e)
      intents == Intents(e.prose)
      probes  == IF e.prose.instruction THEN {} ELSE {Probe(p, target) : p \in ProbeIds(intents)}
      draft   == Draft(Capsule(says.issue, intents, probes, e.prose))
      status  == IF e.prose.instruction THEN "REFUSED"
                 ELSE IF draft.status = "READY" THEN "REPLY_DRAFT_READY" ELSE "DISPOSITION_APPLIED"
      Keep(a) == [answer |-> a, subs |-> subs]
  IN  IF EventFault(e) # None THEN Keep(Answered(FALSE, "INVALID_INPUT"))
      ELSE IF call.ledger = "busy" THEN Keep(Answered(FALSE, "LEDGER_ERROR"))
      ELSE IF ~Followed(subs, says.issue) THEN Keep(Answered(FALSE, "UNAUTHORIZED_ISSUE"))
      ELSE IF Replayed(subs[says.issue], says)
      THEN Keep([Answered(TRUE, "NO_NEW_EVIDENCE") EXCEPT !.draft = NoDraft("NO_NEW_EVIDENCE")])
      ELSE IF call.ledger = "save_fails" THEN Keep(Answered(FALSE, "LEDGER_ERROR"))
      ELSE [answer |-> [Answered(~e.prose.instruction, status) EXCEPT
                          !.draft = draft, !.intents = intents, !.probes = probes, !.mutated = TRUE],
            subs   |-> SubsAfter(subs, says)]


-----------------------------------------------------------------------------
(***************************************************************************)
(* candidate.ts, with runCanary and supersedeRecipe of the lifecycle       *)
(* engine as it calls them.                                                *)
(***************************************************************************)
\* Mutant: three booleans stand for the witness of a measurement.
CanaryGuidance_Booleans(c, known) ==
  IF ~c.executed THEN "UPGRADE_CANARY_AVAILABLE"
  ELSE IF c.absent /\ c.core THEN "RECOMMEND_UPGRADE"
  ELSE IF known THEN "HOLD_KNOWN_GOOD" ELSE "GENERAL_UPDATE_ONLY"

\* runCanary: the guidance it saves.
CanaryGuidance(c, known) ==
  IF ~c.executed \/ (c.absent /\ c.core /\ ~c.witness) THEN "UPGRADE_CANARY_AVAILABLE"
  ELSE IF c.absent /\ c.core THEN "RECOMMEND_UPGRADE"
  ELSE IF known THEN "HOLD_KNOWN_GOOD" ELSE "GENERAL_UPDATE_ONLY"

\* Mutant: a recipe that is superseded already takes the new evidence.
Conflict_Never(recipe, item) == FALSE

\* A recipe superseded before keeps the evidence it was superseded with.
Conflict(recipe, item) == recipe \notin {None, item}

\* The arguments validateCandidateFix refuses before it measures.
CandidateFault(call) ==
  IF ~{"version", "recipe", "item"} \subseteq call.given \/ IssueError(call.issue) # None
  THEN "INVALID_INPUT"
  ELSE IF call.odd # {} THEN IF call.odd = {"snapshot_path"} THEN "REFUSED" ELSE "INVALID_INPUT"
  ELSE IF ~{"profile", "baseline"} \subseteq call.given \/ LegacyRefused(call) THEN "REFUSED"
  ELSE None

\* What the registered measurement found, as runCanary is told.
Measured(call) ==
  [executed |-> TRUE, witness |-> call.measured = "positive",
   absent |-> call.measured \in {"positive", "core_broken"},
   core |-> call.measured \in {"positive", "faulty"}]

\* validateCandidateFix: its answer, the recipes and the guidance it leaves.
CandidateAnswer(call, target, recipes, guidance) ==
  LET saved    == CanaryGuidance(Measured(call), target.known_good)
      Left(a, rs, g) == [answer |-> a, recipes |-> rs, guidance |-> g]
      refused  == Answered(FALSE, "REFUSED")
      regressed == [Answered(TRUE, "CANDIDATE_REGRESSED") EXCEPT
                      !.guidance = saved, !.recipe_status = "ACTIVE_WORKAROUND"]
      superseded == [Answered(TRUE, "SUPERSEDED") EXCEPT !.guidance = "RECOMMEND_UPGRADE",
                       !.recipe_status = "SUPERSEDED_BY_UPSTREAM_FIX", !.mutated = TRUE]
  IN  IF CandidateFault(call) # None
      THEN Left(Answered(FALSE, CandidateFault(call)), recipes, guidance)
      ELSE IF \/ call.measured = "inconclusive"
              \/ call.measured = "positive" /\ call.item = None
              \/ call.ledger = "canary_fails"
      THEN Left(refused, recipes, guidance)
      ELSE IF call.measured # "positive" THEN Left(regressed, recipes, saved)
      ELSE IF Conflict(recipes[call.recipe], call.item) \/ call.ledger = "supersede_fails"
      THEN Left(refused, recipes, saved)
      ELSE Left(superseded, [recipes EXCEPT ![call.recipe] = call.item], saved)

(***************************************************************************)
(* dispatchLifecycle, its canary and supersede_recipe: the user's own      *)
(* calls, which carry no witness.                                          *)
(***************************************************************************)
PublicCanary(call, target) ==
  CanaryGuidance([executed |-> call.executed, absent |-> call.absent, core |-> call.core,
                  witness |-> FALSE], target.known_good)

\* Words of the answers, none of which is None.
Words == {"RECOMMEND_UPGRADE", "INVALID_EVENT", "SIZE_LIMIT", "forbidden key", "EXTRA_FIELD",
          "INVALID_SCHEMA", "MISSING_ISSUE"}

\* What the proofs assume of the calls.
SoundCalls ==
  /\ None \notin Words
  /\ \A r \in Requests :
       /\ Len(r.calls) \in Nat /\ DOMAIN r.calls = 1..Len(r.calls)
       /\ \A n \in DOMAIN r.calls :
            LET c == r.calls[n]
            IN  /\ c.op = "process_event" /\ c.event.issue # None => c.event.issue.issue \in Issues
                /\ c.op = "validate_candidate" => c.recipe \in Recipes

-----------------------------------------------------------------------------
Init ==
  /\ request \in Requests
  /\ run = [subs |-> [i \in Issues |-> IF i \in request.following THEN Following
                                       ELSE [active |-> FALSE, last |-> None]],
            recipes |-> [r \in Recipes |-> None], guidance |-> None,
            at |-> 0, earned |-> {}]
  /\ result = None

Ask(op) ==
  /\ run.at < Len(request.calls)
  /\ request.calls[run.at + 1].op = op
  /\ UNCHANGED request

Call == request.calls[run.at + 1]

\* processFollowupEvent; refreshFollowup with an event comes here too.
ProcessEvent ==
  /\ Ask("process_event")
  /\ LET a == EventAnswer(Call, request.target, run.subs)
     IN  /\ result' = a.answer
         /\ run' = [run EXCEPT !.at = @ + 1, !.subs = a.subs]

ValidateCandidate ==
  /\ Ask("validate_candidate")
  /\ LET a == CandidateAnswer(Call, request.target, run.recipes, run.guidance)
     IN  /\ result' = a.answer
         /\ run' = [run EXCEPT !.at = @ + 1, !.recipes = a.recipes, !.guidance = a.guidance,
                      !.earned = IF CandidateFault(Call) = None /\ Call.measured = "positive"
                                 THEN @ \cup ({Call.item} \ {None}) ELSE @]

\* The lifecycle tool: a canary is recorded, a supersession always refused.
Canary ==
  /\ Ask("canary")
  /\ result' = [Answered(TRUE, "CANARY") EXCEPT
                  !.guidance = PublicCanary(Call, request.target), !.mutated = TRUE]
  /\ run' = [run EXCEPT !.at = @ + 1, !.guidance = PublicCanary(Call, request.target)]

SupersedeRecipe ==
  /\ Ask("supersede_recipe")
  /\ result' = Answered(FALSE, "REFUSED")
  /\ run' = [run EXCEPT !.at = @ + 1]

Next == ProcessEvent \/ ValidateCandidate \/ Canary \/ SupersedeRecipe

-----------------------------------------------------------------------------
Asked == request.calls[run.at]   \* the call answered last

Followups == result # None /\ Asked.op = "process_event"

(***************************************************************************)
(* "All prose is untrusted data": prose that gives instructions asks for   *)
(* nothing, runs no probe and drafts nothing, whatever other words are in  *)
(* it; other prose runs what it asks for and nothing else.                 *)
(***************************************************************************)
ProseIsData ==
  Followups =>
    LET prose == Asked.event.prose
    IN  /\ \A p \in result.probes : \E i \in prose.asks : i \in DOMAIN ProbeOf /\ p.probe = ProbeOf[i]
        /\ prose.instruction =>
             /\ result.intents \subseteq Untrusted /\ result.probes = {}
             /\ result.draft.lines = {} /\ result.draft.status # "READY"

(***************************************************************************)
(* A draft is ready only with what was measured in the target itself: a    *)
(* link by one of the names is never told as found.  (A link on the way to *)
(* one is followed: "behind_link".)                                        *)
(***************************************************************************)
DraftIsMeasured ==
  Followups =>
    /\ result.draft.status = "READY" => result.ok /\ result.draft.lines # {}
    /\ \A p \in result.draft.lines :
         p.found # {} =>
           \E n \in Named(p.probe) : request.target.files[n] \in {"file", "behind_link"}

(***************************************************************************)
(* An event is answered once: given twice in a row it draws nothing new    *)
(* the second time, the one refused for its instructions included.         *)
(***************************************************************************)
AnsweredOnce ==
  (/\ Followups /\ run.at > 1 /\ request.calls[run.at - 1] = Asked
   /\ (result.probes # {} \/ result.mutated))
  => MigrateTo(Says(Asked.event)) = Asked.event.issue.issue

(***************************************************************************)
(* "Caller-declared flags alone never justify" an upgrade: a recipe is     *)
(* superseded with evidence that a positive measurement was made for, an   *)
(* upgrade is recommended only where one was, and a refusal names neither. *)
(***************************************************************************)
UpgradesAreMeasured ==
  result # None =>
    /\ \A r \in DOMAIN run.recipes : run.recipes[r] \in {None} \cup run.earned
    /\ run.guidance = "RECOMMEND_UPGRADE" => run.earned # {}
    /\ result.guidance = "RECOMMEND_UPGRADE" =>
         /\ result.status = "SUPERSEDED"
         /\ run.guidance = "RECOMMEND_UPGRADE" /\ run.recipes[Asked.recipe] = Asked.item
    /\ ~result.ok => result.guidance = None /\ result.recipe_status = None

(***************************************************************************)
(* What a recipe was superseded with stays: later evidence, a candidate    *)
(* that regresses and a failing save change nothing of it.                 *)
(***************************************************************************)
EvidenceStays ==
  \A n \in 1..run.at :
    LET c == request.calls[n]
    IN  (/\ c.op = "validate_candidate" /\ c.ledger = "ok" /\ CandidateFault(c) = None
         /\ c.measured = "positive" /\ c.item # None
         /\ \A m \in 1..(n - 1) :
              request.calls[m].op = "validate_candidate" => request.calls[m].recipe # c.recipe)
          => run.recipes[c.recipe] = c.item
=============================================================================
