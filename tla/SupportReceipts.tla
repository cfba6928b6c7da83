----------------------------- MODULE SupportReceipts -----------------------------
(***************************************************************************)
(* What a platform may claim: the macOS Scenario Harness and the receipt   *)
(* it writes (src/harness/macos-scenario.ts, src/platform/receipt.ts), the *)
(* validation of that receipt here and in other processes, the evaluation  *)
(* of a Windows receipt (src/platform/windows) and the capability matrix   *)
(* (src/platform/capability.ts).                                           *)
(*                                                                         *)
(* A digest is what it is taken over.  The witness of a live run is a      *)
(* token only its process can resolve: it is lost when the process ends.   *)
(***************************************************************************)
EXTENDS Naturals, FiniteSets

CONSTANTS
  Scenarios,    \* MACOS_REQUIRED_SCENARIO_IDS
  Smoke,        \* package_smoke, which may be skipped
  Critical,     \* WINDOWS11_CRITICAL_SCENARIO_IDS
  MaxTouch,     \* bound: changes of the active profile
  None

VARIABLES
  request,   \* what is run or presented, and how
  run,       \* the harness process: outcomes, the profile, its receipt and witness
  result     \* the last verdict

vars == << request, run, result >>

Forged == [forged |-> TRUE]

-----------------------------------------------------------------------------
(***************************************************************************)
(* The harness.                                                            *)
(***************************************************************************)
\* captureActiveCodexHomeWitness: a link is not followed.
Capture(profile) ==
  IF profile.link THEN [digest |-> {}, provable |-> FALSE]
  ELSE [digest |-> {profile.version}, provable |-> TRUE]

\* runPackageSmokeScenario: only a failing smoke may be skipped.
SmokeOutcomes(requirePackage) ==
  {"pass", "fail"} \cup (IF requirePackage THEN {} ELSE {"skipped"})

\* runScenario: what throws has failed.
Outcomes(id) == IF id = Smoke THEN SmokeOutcomes(request.requirePackage) ELSE {"pass", "fail"}

RunScenario ==
  /\ request.kind = "macos" /\ run.receipt = None
  /\ \E id \in Scenarios \ DOMAIN run.outcomes :
       \E status \in Outcomes(id) :
         run' = [run EXCEPT !.outcomes =
                   [i \in DOMAIN run.outcomes \cup {id} |->
                      IF i = id THEN status ELSE run.outcomes[i]]]
  /\ UNCHANGED << request, result >>

\* Codex or the user changes the active profile, or replaces it by a link.
Touch ==
  /\ request.kind = "macos" /\ run.profile.version < MaxTouch
  /\ \E link \in BOOLEAN :
       run' = [run EXCEPT !.profile = [version |-> @.version + 1, link |-> link],
                          !.touched = @ \/ run.receipt = None]
  /\ UNCHANGED << request, result >>

-----------------------------------------------------------------------------
\* deriveSupportLevel: the gaps it finds, beside the ones it is given.
Gaps(outcomes, extra) ==
  extra \cup {id \in Scenarios : id \notin DOMAIN outcomes}
        \cup {id \in DOMAIN outcomes : outcomes[id] # "pass"}

Derived(outcomes, extra) == IF Gaps(outcomes, extra) = {} THEN "full" ELSE "preview"

ReceiptId(r)       == << r.started_at, r.scenarios >>
IsolationDigest(r) == << Cardinality(DOMAIN r.scenarios), r.home_witness >>
Resealed(r) == [r EXCEPT !.id = ReceiptId(r), !.isolation = IsolationDigest(r)]

\* Mutant: the same link before and after is an untouched profile.
IsolationProved_Digests(before, after) == before.digest = after.digest

IsolationProved(before, after) ==
  before.provable /\ after.provable /\ before.digest = after.digest

\* buildPlatformSupportReceipt, of what runMacosScenarioHarness found.
Built(before, after) ==
  LET proved == IsolationProved(before, after)
      extra  == IF proved THEN {} ELSE {"isolation"}
      r      == [id |-> None, isolation |-> None,
                 scenarios |-> run.outcomes, isolated |-> proved, home_witness |-> before.digest,
                 started_at |-> "start", commit |-> "head", host |-> "here",
                 claimed |-> Derived(run.outcomes, extra), gaps |-> Gaps(run.outcomes, extra)]
  IN  Resealed(r)

\* sealLiveHarnessWitness
Attestation(r) ==
  [scenarios |-> r.scenarios, isolation |-> r.isolation, id |-> r.id,
   commit |-> r.commit, host |-> r.host, started_at |-> r.started_at]

-----------------------------------------------------------------------------
(***************************************************************************)
(* validatePlatformSupportReceipt: every error refuses, and full is what   *)
(* the live witness of this process attests, field for field.              *)
(***************************************************************************)
\* Mutant: the witness is for the run, whatever the receipt says of it.
Attests_RunOnly(witness, r) ==
  witness \notin {None, Forged} /\ witness.id = r.id

Attests(witness, r) ==
  /\ witness \notin {None, Forged} /\ witness = Attestation(r)
  /\ Derived(r.scenarios, r.gaps) = "full" /\ r.claimed = "full" /\ r.isolated

\* Mutant: the shape is validated, the live witness is not asked for.
Errors_NoWitness(r, witness) ==
  {e \in {"receipt_id_mismatch", "isolation_digest_mismatch"} :
     \/ e = "receipt_id_mismatch" /\ r.id # ReceiptId(r)
     \/ e = "isolation_digest_mismatch" /\ r.isolation # IsolationDigest(r)}

Errors(r, witness) ==
  {e \in {"receipt_id_mismatch", "isolation_digest_mismatch", "full_without_proof",
          "isolation_not_fully_proved", "full_with_gaps", "live_attestation_mismatch",
          "full_requires_live_attestation"} :
     \/ e = "receipt_id_mismatch" /\ r.id # ReceiptId(r)
     \/ e = "isolation_digest_mismatch" /\ r.isolation # IsolationDigest(r)
     \/ e = "full_without_proof" /\ r.claimed = "full" /\ Derived(r.scenarios, r.gaps) # "full"
     \/ e = "isolation_not_fully_proved" /\ r.claimed = "full" /\ ~r.isolated
     \/ e = "full_with_gaps" /\ r.claimed = "full" /\ r.gaps # {}
     \/ e = "live_attestation_mismatch" /\ witness \notin {None, Forged} /\ ~Attests(witness, r)
     \/ e = "full_requires_live_attestation" /\ r.claimed = "full" /\ witness \in {None, Forged}}

Level(r, witness) ==
  LET derived == Derived(r.scenarios, r.gaps)
  IN  IF Errors(r, witness) = {} THEN r.claimed
      ELSE IF derived = "full" \/ r.claimed = "full" THEN "preview" ELSE derived

Verdict(r, witness) ==
  [ok |-> Errors(r, witness) = {}, level |-> Level(r, witness)]

\* The end of runMacosScenarioHarness: the witness is sealed only if the
\* profile was proved untouched, and the process exits 0 only for full.
Finish ==
  /\ request.kind = "macos" /\ run.receipt = None /\ DOMAIN run.outcomes = Scenarios
  /\ LET after   == Capture(run.profile)
         receipt == Built(run.before, after)
         witness == IF IsolationProved(run.before, after) THEN Attestation(receipt) ELSE None
         verdict == Verdict(receipt, witness)
     IN  /\ run' = [run EXCEPT !.receipt = receipt, !.original = receipt, !.witness = witness]
         /\ result' = [of |-> receipt, ok |-> verdict.ok, level |-> verdict.level,
                       exit |-> IF verdict.ok /\ verdict.level = "full" THEN 0 ELSE 1]
  /\ UNCHANGED request

\* The receipt on disk is edited: what it claims, or what it rests on.
Edit ==
  /\ request.kind = "macos" /\ run.receipt # None /\ run.receipt = run.original
  /\ \E r \in {[run.receipt EXCEPT !.claimed = "full"], [run.receipt EXCEPT !.claimed = "limited"],
               [run.receipt EXCEPT !.claimed = "full", !.gaps = {}],
               [run.receipt EXCEPT !.claimed = "full", !.gaps = {}, !.isolated = TRUE],
               [run.receipt EXCEPT !.commit = "other"], [run.receipt EXCEPT !.host = "there"],
               [run.receipt EXCEPT !.home_witness = {}],
               [run.receipt EXCEPT !.started_at = "later"],
               [run.receipt EXCEPT !.claimed = "full", !.gaps = {}, !.isolated = TRUE,
                                   !.scenarios = [id \in Scenarios |-> "pass"]]} :
       \E sealed \in BOOLEAN :
         run' = [run EXCEPT !.receipt =
                   IF sealed THEN Resealed(r) ELSE r]
  /\ UNCHANGED << request, result >>

\* The process ends: the receipt stays, the witness does not.
Restart ==
  /\ request.kind = "macos" /\ run.witness # None
  /\ run' = [run EXCEPT !.witness = None]
  /\ result' = None
  /\ UNCHANGED request

\* platformStatus, platform-receipt-validate: no witness; the harness: its own.
Validate ==
  /\ request.kind = "macos" /\ run.receipt # None
  /\ \E witness \in {None, Forged, run.witness} :
       result' = [of |-> run.receipt, ok |-> Verdict(run.receipt, witness).ok,
                  level |-> Verdict(run.receipt, witness).level, exit |-> None]
  /\ UNCHANGED << request, run >>

-----------------------------------------------------------------------------
(***************************************************************************)
(* Windows: parsePlatformSupportReceipt and evaluatePlatformSupport.  A    *)
(* scenario is absent, failed, passed, or passed without its evidence.     *)
(***************************************************************************)
Row == {"absent", "failed", "passed", "bare"}

WindowsReceipts ==
  [host_kind : {"real_machine", "synthetic", "cross_platform_ci"}, w11 : BOOLEAN,
   platform : {"windows", "linux", "macos"}, attested : {None, "primary", "virtual", "both"},
   rows : [Critical -> Row], strict : BOOLEAN, by : {"run", "hand"}]

\* parsePlatformSupportReceipt: no unknown key, no id twice, no path.
Parses(r) == r.strict

\* Mutant: a scenario that passed needs no evidence.
WindowsGaps_NoEvidence(r) ==
  (IF r.host_kind # "real_machine" THEN {r.host_kind} ELSE {})
  \cup (IF r.platform # "windows" THEN {"NON_WINDOWS_RECEIPT"}
        ELSE IF ~r.w11 THEN {"NOT_WINDOWS_11"} ELSE {})
  \cup (IF r.host_kind = "real_machine" /\ r.attested # "both" THEN {"ATTESTATION"} ELSE {})
  \cup {id \in Critical : r.rows[id] \in {"absent", "failed"}}

WindowsGaps(r) ==
  (IF r.host_kind # "real_machine" THEN {r.host_kind} ELSE {})
  \cup (IF r.platform # "windows" THEN {"NON_WINDOWS_RECEIPT"}
        ELSE IF ~r.w11 THEN {"NOT_WINDOWS_11"} ELSE {})
  \cup (IF r.host_kind = "real_machine" /\ r.attested # "both" THEN {"ATTESTATION"} ELSE {})
  \cup {id \in Critical : r.rows[id] # "passed"}

\* windowsLiveWitnessMatchesReceipt
WitnessMatches(r, witness) == witness \notin {None, Forged} /\ witness = r

\* evaluatePlatformSupport
WindowsLevel(r, witness) ==
  IF ~Parses(r) THEN "preview"
  ELSE IF WindowsGaps(r) = {} /\ WitnessMatches(r, witness) THEN "full"
  ELSE IF r.platform = "linux" THEN "limited"
  ELSE "preview"

\* windows11SupportStatus in the process of the run, or loadAndEvaluateReceiptFile,
\* which never has a witness.
EvaluateWindows ==
  /\ request.kind = "windows" /\ result = None
  /\ \E witness \in {None, Forged, request.witness} :
       result' = [level |-> WindowsLevel(request.receipt, witness), witness |-> witness]
  /\ UNCHANGED << request, run >>

-----------------------------------------------------------------------------
(***************************************************************************)
(* The capability matrix: validateSupportReceipt, resolveEffectiveStatus   *)
(* and buildCapabilityReport.                                              *)
(***************************************************************************)
Statuses == << "READ_ONLY", "LIMITED", "PREVIEW", "FULL" >>
Adapters == {"unknown", "macos", "windows", "linux", "wsl", "enterprise_managed"}

Place(status) == CHOOSE n \in DOMAIN Statuses : Statuses[n] = status

Default(adapter) ==
  CASE adapter = "unknown" -> "READ_ONLY"
    [] adapter \in {"macos", "windows"} -> "PREVIEW"
    [] OTHER -> "LIMITED"

SupportReceipt == [schema : {1, 2}, adapter : Adapters, scenarios : {0, 1},
                   claimed : {"READ_ONLY", "LIMITED", "PREVIEW", "FULL"}, real_machine : BOOLEAN]

Supported(r, adapter) ==
  /\ r.schema = 1 /\ r.adapter = adapter /\ r.scenarios > 0
  /\ r.claimed = "FULL" => r.real_machine

\* Mutant: the receipt's word is taken, also downwards.
EffectiveStatus_Claimed(adapter, r) ==
  IF r = None \/ ~Supported(r, adapter) THEN Default(adapter) ELSE r.claimed

EffectiveStatus(adapter, r) ==
  IF r = None \/ ~Supported(r, adapter) \/ Place(r.claimed) <= Place(Default(adapter))
  THEN Default(adapter) ELSE r.claimed

\* evaluateWriteGate, as buildCapabilityReport asks it: never isolated.
WritesEnabled(adapter, r) ==
  /\ adapter # "enterprise_managed"
  /\ EffectiveStatus(adapter, r) \in {"PREVIEW", "FULL"}
  /\ "production_unknown" \in {"isolated_fixture", "user_owned_registered"}

ReportCapability ==
  /\ request.kind = "capability" /\ result = None
  /\ result' = [status |-> EffectiveStatus(request.adapter, request.receipt),
                writes_enabled |-> WritesEnabled(request.adapter, request.receipt)]
  /\ UNCHANGED << request, run >>

-----------------------------------------------------------------------------
\* The receipts there may be; None is neither one of them nor an exit code.
Reached == UNION {[S -> {"pass", "fail", "skipped"}] : S \in SUBSET Scenarios}

Receipt ==
  [id : {"start", "later"} \X Reached, isolation : Nat \X SUBSET {0}, scenarios : Reached,
   isolated : BOOLEAN, home_witness : SUBSET {0}, started_at : {"start", "later"},
   commit : {"head", "other"}, host : {"here", "there"},
   claimed : {"full", "preview", "limited"}, gaps : SUBSET (Scenarios \cup {"isolation"})]

SoundSupport == IsFiniteSet(Scenarios) /\ None \notin Receipt /\ None # 0

-----------------------------------------------------------------------------
\* runMacosScenarioHarness begins by capturing the profile.
Init ==
  /\ result = None
  /\ \/ /\ request \in [kind : {"macos"}, requirePackage : BOOLEAN]
        /\ run \in {[outcomes |-> << >>, profile |-> p, before |-> Capture(p), touched |-> FALSE,
                     receipt |-> None, original |-> None, witness |-> None] :
                      p \in [version : {0}, link : BOOLEAN]}
     \/ /\ run = None
        /\ \E r \in WindowsReceipts :
             request \in [kind : {"windows"}, receipt : {r}, witness : {None, [r EXCEPT !.by = "run"]}]
     \/ /\ run = None
        /\ request \in [kind : {"capability"}, adapter : Adapters, receipt : SupportReceipt \cup {None}]

Next ==
  \/ RunScenario \/ Touch \/ Finish \/ Edit \/ Restart \/ Validate
  \/ EvaluateWindows \/ ReportCapability

Spec == Init /\ [][Next]_vars

-----------------------------------------------------------------------------
(***************************************************************************)
(* Full, and exit code 0, is for the receipt of this very run, unedited,   *)
(* every scenario of which passed while nobody touched the active profile, *)
(* in the process that ran it.                                             *)
(***************************************************************************)
FullIsEarned ==
  (request.kind = "macos" /\ result # None) =>
    /\ result.level = "full" =>
         /\ \A id \in Scenarios : result.of.scenarios[id] = "pass"
         /\ result.of = run.original /\ ~run.touched /\ run.witness # None
    /\ result.exit = 0 => result.level = "full"

(***************************************************************************)
(* A receipt that claims less than full travels: elsewhere, unedited, it   *)
(* is accepted for what it claims.                                         *)
(***************************************************************************)
ReceiptsTravel ==
  (request.kind = "macos" /\ run.original # None /\ run.original.claimed # "full") =>
    Verdict(run.original, None) = [ok |-> TRUE, level |-> run.original.claimed]

(***************************************************************************)
(* Windows is full only for a real Windows 11 machine, attested by its     *)
(* operator, every critical scenario passed with evidence, in the process  *)
(* of the run.                                                             *)
(***************************************************************************)
WindowsFullIsEarned ==
  (request.kind = "windows" /\ result # None /\ result.level = "full") =>
    /\ request.receipt.by = "run" /\ result.witness = request.receipt
    /\ request.receipt.host_kind = "real_machine" /\ request.receipt.platform = "windows"
    /\ request.receipt.w11 /\ request.receipt.attested = "both"
    /\ \A id \in Critical : request.receipt.rows[id] = "passed"

(***************************************************************************)
(* A receipt never lowers a platform, raises it to full only from a real   *)
(* machine, and never switches on a write.                                 *)
(***************************************************************************)
CapabilityIsEarned ==
  (request.kind = "capability" /\ result # None) =>
    /\ Place(result.status) >= Place(Default(request.adapter))
    /\ result.status # Default(request.adapter) =>
         (request.receipt # None /\ request.receipt.adapter = request.adapter)
    /\ result.status = "FULL" => request.receipt.real_machine
    /\ ~result.writes_enabled

(***************************************************************************)
(* Full is the unedited receipt of a run this process made, another claim  *)
(* travels, and no receipt lowers a platform or lets it write.             *)
(***************************************************************************)
SupportIsEarned ==
  FullIsEarned /\ ReceiptsTravel /\ WindowsFullIsEarned /\ CapabilityIsEarned
=============================================================================
