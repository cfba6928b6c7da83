---------------------------- MODULE GuardsInvariants -------------------------
(***************************************************************************)
(* What holds of the surfaces that stand alone in every state: for each    *)
(* of them the inductive invariant that Guards_proofs shows its properties *)
(* from, and the names that invariant and its proof are written in.        *)
(***************************************************************************)
EXTENDS Guards, Integers

-----------------------------------------------------------------------------
(* ConfigRepair: the documents, the edits, the plans and the capsules. *)

\* The names, and dotted paths of them, none empty.
ConfigWords == STRING \cup {"legacy_experimental_shell", "old_sandbox_mode_v0", "shell_environment_policy",
                    "set", "features"}
KeyPaths == Seq(ConfigWords) \ {<< >>}

\* What holds of a document at every line of it.
SoundState(st) ==
  /\ st = [ok |-> st.ok, paths |-> st.paths, value |-> st.value, at |-> st.at, keys |-> st.keys]
  /\ st.ok \in BOOLEAN /\ st.at \in Seq(ConfigWords) /\ st.paths \in Seq(KeyPaths)
  /\ DOMAIN st.value \subseteq Config!Range(st.paths)
  /\ \A p \in DOMAIN st.value :
       /\ st.value[p].type = "table" => st.value[p] = Config!Table
       /\ Len(p) > 1 => Config!Front(p) \in DOMAIN st.value /\ st.value[Config!Front(p)].type = "table"

\* What is in `old' stays, and all else of `new' is a table or what is `given'.
Grown(old, new, tables, given) ==
  /\ DOMAIN new = (DOMAIN old) \cup tables \cup DOMAIN given
  /\ \A p \in DOMAIN old : new[p] = old[p]
  /\ \A p \in tables : new[p] = Config!Table
  /\ \A p \in DOMAIN given : new[p] = given[p]

Kept(old, new, values) ==
  /\ DOMAIN new = (DOMAIN old) \cup DOMAIN values
  /\ \A p \in DOMAIN old : new[p] = old[p]
  /\ \A p \in DOMAIN values : p \notin DOMAIN old => new[p] = values[p]

\* What an assignment sets at its path.
Given(path, value) ==
  LET entry == [k \in DOMAIN value.entries |-> Append(path, value.entries[k].name)]
  IN  IF value.type # "table" THEN [p \in {path} |-> value]
      ELSE [p \in {path} \cup Config!Range(entry) |->
              IF p = path THEN Config!Table
              ELSE value.entries[CHOOSE k \in DOMAIN entry : entry[k] = p].value]

\* What a line makes of a document that it does not break: the tables and the values.
TablesOf(at, line) ==
  IF line.kind = "header" THEN Config!Range(Config!Upto(line.path)) ELSE Config!Range(Config!Upto(Config!Front(at \o line.path)))
GivenBy(at, line) == IF line.kind = "header" THEN << >> ELSE Given(at \o line.path, line.value)

LineRead(st, line, o) ==
  /\ st.ok /\ line.kind \in {"header", "assign"}
  /\ o.at = IF line.kind = "header" THEN line.path ELSE st.at
  /\ Grown(st.value, o.value, TablesOf(st.at, line), GivenBy(st.at, line))
  /\ DOMAIN GivenBy(st.at, line) \cap ((DOMAIN st.value) \cup TablesOf(st.at, line)) = {}

\* How a document and the edited one differ once both are read: by the key,
\* wherever it stands, and by what an inline table of that key had set.
EditedAs(P, Q, key, emptied) ==
  /\ Q.at = P.at /\ DOMAIN Q.value \subseteq DOMAIN P.value
  /\ \A p \in DOMAIN Q.value :
       Q.value[p] = P.value[p] \/ (emptied /\ Config!IsSuffix(key, p) /\ Q.value[p] = Config!Table)
  /\ \A p \in DOMAIN P.value :
       \/ P.value[p].type = "table" \/ p \in DOMAIN Q.value \/ Config!IsSuffix(key, p)
       \/ Config!IsSuffix(key, Config!Front(p)) /\ Len(p) > 1 /\ (emptied => Config!Front(p) \in DOMAIN Q.value)

\* What holds of an edit after each line: P is what the lines say so far.
EditSound(P, done, L, key, emptied) ==
  /\ done = [out |-> done.out, section |-> done.section, met |-> done.met]
  /\ done.out \in Seq(L) /\ SoundState(Config!Parse(done.out))
  /\ P.ok => done.section \in {P.at, << >>}
  /\ P.ok /\ Config!Parse(done.out).ok => EditedAs(P, Config!Parse(done.out), key, emptied)
Scalar(doc, p) == p \in DOMAIN doc.value /\ doc.value[p].type # "table"

\* What a plan says of the text it is made from, for the fault that is reported.
PlanSays(files, lines, probe, plan) ==
  /\ lines # None /\ plan.next # None
  /\ probe.fault # Config!NoFault /\ plan.key \in probe.fault.keys /\ plan.key \in KeyPaths
  /\ \/ /\ probe.fault.class = "type" /\ plan.file = "primary" /\ plan.key = Config!PolicySet
        /\ Config!Validate(plan.next) = Config!NoFault /\ plan.next = Config!Edited(lines, plan.key, TRUE)
     \/ /\ probe.fault.class = "obsolete" /\ plan.file = probe.file
        /\ plan.key = probe.fault.key /\ plan.key \in Config!Obsolete
        /\ plan.next = Config!Edited(lines, plan.key, FALSE)
     \/ /\ probe.fault.class = "conflict" /\ plan.file = "override" /\ probe.file = "override"
        /\ plan.key = probe.fault.key /\ plan.key \in Config!Conflicts(files)
        /\ plan.next = Config!Edited(lines, plan.key, FALSE)

\* What the last capsule is to the files, if nothing overtook it: made from
\* them, or used up by a repair that worked, or of a wrong type in the override.
Current(c, files) ==
  \/ /\ c.reported = Config!Probe(files) /\ files[c.reported.file] = c.original
     /\ c.plan = Config!LivePlan(c.original, c.reported)
  \/ Config!Probe(files).fault = Config!NoFault /\ files[c.reported.file] # c.original
  \/ c.reported.fault.class = "type" /\ c.reported.file = "override"

SoundRun(r) ==
  /\ r = [files |-> r.files, capsules |-> r.capsules, consumed |-> r.consumed, moved |-> r.moved]
  /\ Config!SoundFiles(r.files) /\ r.moved \in BOOLEAN
  /\ Len(r.capsules) \in Nat /\ DOMAIN r.capsules = 1..Len(r.capsules)
  /\ r.capsules \in Seq(Config!Range(r.capsules))
  /\ \A n \in 1..Len(r.capsules) :
       LET c == r.capsules[n]
       IN  /\ c.number = n /\ c.plan # None /\ c.plan.file \in {"primary", "override"}
           /\ c.reported.file \in {"primary", "override"}
  /\ (~r.moved /\ Len(r.capsules) > 0) => Current(r.capsules[Len(r.capsules)], r.files)
SoundResult == Config!RepairByName /\ Config!ResolvedStarts /\ Config!CapsuleIsBound
ConfigInv == request \in ConfigRequests /\ SoundRun(run) /\ SoundResult

\* A capsule that is applied, by what becomes of it.
ApplyFacts(c, code, files, w) ==
  /\ result' = [op |-> "apply", code |-> code, capsule |-> c, before |-> run.files, after |-> files]
  /\ run' = [files |-> files, capsules |-> run.capsules, consumed |-> run'.consumed, moved |-> run.moved]
  /\ \/ /\ code \in {"AUTH_REPLAY", "CANDIDATE_NOT_FOUND", "AUTH_INVALID", "ADMIN_ACTION_REQUIRED"}
        /\ code = Config!Binding(c) /\ files = run.files
     \/ /\ code \in {"RESOLVED_VERIFIED", "VERIFY_FAILED"}
        /\ run.files[c.plan.file] = c.original /\ ~run.files.managed
        /\ c.plan = Config!LivePlan(run.files[c.plan.file], Config!Probe(run.files))
        /\ files = IF code = "RESOLVED_VERIFIED" THEN w ELSE run.files
        /\ code = "RESOLVED_VERIFIED" => Config!Verified(w, c.plan, c.original)

\* A capsule is applied to what it was made from, and the reload passes.
Repairs(files, c, w) ==
  /\ c.plan.file \in {"primary", "override"} /\ c.plan # None
  /\ files[c.plan.file] = c.original
  /\ c.plan = Config!LivePlan(files[c.plan.file], Config!Probe(files))
  /\ w = Config!Write(files, c.plan.file, c.plan.next) /\ Config!Verified(w, c.plan, c.original)

Repaired(files, c, w) ==
  /\ PlanSays(files, files[c.plan.file], Config!Probe(files), c.plan)
  /\ Config!TakesOut(Config!Scalars(files[c.plan.file]), Config!Scalars(w[c.plan.file]), c.plan.key, TRUE)
  /\ Config!SoundFiles(w) /\ Config!Probe(w).fault = Config!NoFault
  /\ w[c.plan.file] # files[c.plan.file]
  /\ \A file \in {"primary", "override"} : file # c.plan.file => w[file] = files[file]

-----------------------------------------------------------------------------
(* PlatformGate. *)

\* Every answer has its three parts; what was written, this apply allows.
GateInv ==
  /\ request \in GateRequests /\ run \in {request.now, request.later}
  /\ result # None =>
       /\ result = [apply |-> result.apply, wrote |-> result.wrote, preview |-> result.preview]
       /\ result.wrote => (result.apply = "APPLIED" /\ Gate!ApplyAnswer = "APPLIED")
  /\ Gate!PolicyGoesToTheAdministrator

-----------------------------------------------------------------------------
(* OfficialEvidence. *)

Item(x) ==
  x = [kind |-> x.kind, url |-> x.url, structured |-> x.structured, to |-> x.to,
       status |-> x.status, quarantined |-> x.quarantined, state |-> x.state, hash |-> x.hash]

SnapshotIn(s, states) ==
  /\ s = [at |-> s.at, items |-> s.items, hash |-> s.hash]
  /\ s.at \in Int /\ Len(s.items) \in Nat
  /\ s.items = [n \in 1..Len(s.items) |-> s.items[n]]
  /\ \A n \in DOMAIN s.items : Item(s.items[n]) /\ s.items[n].state \in states

Asked(r) ==
  /\ r.calls \in {0, 1}
  /\ r.calls > 0 => request.decision = "approved"
  /\ r.sent \subseteq Evidence!Allowlists \cup Evidence!Sendable(request.context)

Live(r) ==
  /\ r.mode = "live_refresh" /\ r.calls = 1
  /\ r.snapshot.at <= Clock + Skew /\ Clock < r.snapshot.at + High

Shows(r) ==
  r.ok =>
    /\ Evidence!Verifies(r.snapshot)
    /\ \E state \in {"snapshot", "stale", "fresh"} :
         /\ SnapshotIn(r.snapshot, {state})
         /\ state = "snapshot" => r.mode = "bundled_snapshot"
         /\ (state = "fresh" \/ r.risk = "none") => Live(r)

Bound(r) ==
  r.bind # None =>
    /\ r.ok
    /\ \E n \in DOMAIN r.snapshot.items, v \in Wanted :
         r.bind = [item |-> r.snapshot.items[n], version |-> v,
                   answer |-> Evidence!Bind(r.snapshot.items[n], v)]

Shaped(r) ==
  r = [ok |-> r.ok, mode |-> r.mode, calls |-> r.calls, snapshot |-> r.snapshot,
       risk |-> r.risk, sent |-> r.sent, bind |-> r.bind]
BundleSound == request.bundle = None \/ SnapshotIn(request.bundle, {"snapshot"})

EvidenceInv ==
  /\ BundleSound
  /\ result # None =>
       /\ Shaped(result) /\ Asked(result) /\ Shows(result) /\ Bound(result)
       /\ Evidence!Loads(request.bundle) => result.ok

-----------------------------------------------------------------------------
(* SupportReceipts. *)

\* The receipt as its run wrote it.
Original(o) ==
  /\ o \in Receipts!Receipt /\ DOMAIN o.scenarios = Scenarios
  /\ o.id = Receipts!ReceiptId(o) /\ o.isolation = Receipts!IsolationDigest(o)
  /\ LET extra == IF o.isolated THEN {} ELSE {"isolation"}
     IN  /\ o.gaps = Receipts!Gaps(o.scenarios, extra)
         /\ o.claimed = Receipts!Derived(o.scenarios, extra)

\* A receipt but for its seals.
Unsealed(r) ==
  /\ r = [id |-> r.id, isolation |-> r.isolation, scenarios |-> r.scenarios,
          isolated |-> r.isolated, home_witness |-> r.home_witness, started_at |-> r.started_at,
          commit |-> r.commit, host |-> r.host, claimed |-> r.claimed, gaps |-> r.gaps]
  /\ r.scenarios \in Receipts!Reached /\ r.isolated \in BOOLEAN /\ r.home_witness \in SUBSET {0}
  /\ r.started_at \in {"start", "later"} /\ r.commit \in {"head", "other"}
  /\ r.host \in {"here", "there"} /\ r.claimed \in {"full", "preview", "limited"}
  /\ r.gaps \in SUBSET (Scenarios \cup {"isolation"})

Harness ==
  /\ run = [outcomes |-> run.outcomes, profile |-> run.profile, before |-> run.before,
            touched |-> run.touched, receipt |-> run.receipt, original |-> run.original,
            witness |-> run.witness]
  /\ run.outcomes \in Receipts!Reached
  /\ run.profile \in [version : Nat, link : BOOLEAN]
  /\ run.before \in {[digest |-> {}, provable |-> FALSE], [digest |-> {0}, provable |-> TRUE]}
  /\ run.touched \in BOOLEAN

Written ==
  IF run.receipt = None
  THEN /\ run.original = None /\ run.witness = None /\ result = None
       /\ run.touched => run.profile.version > 0
  ELSE /\ run.receipt \in Receipts!Receipt /\ Original(run.original)
       /\ run.original.isolated => ~run.touched
       /\ run.witness # None =>
            run.original.isolated /\ run.witness = Receipts!Attestation(run.original)
MacInv == Harness /\ Written /\ Receipts!FullIsEarned

WindowsInv ==
  /\ request.receipt \in Receipts!WindowsReceipts
  /\ request.witness \in {None, [request.receipt EXCEPT !.by = "run"]}
  /\ result # None =>
       \E witness \in {None, Receipts!Forged, request.witness} :
         result = [level |-> Receipts!WindowsLevel(request.receipt, witness), witness |-> witness]

CapabilityInv ==
  /\ request.adapter \in Receipts!Adapters
  /\ request.receipt \in Receipts!SupportReceipt \cup {None}
  /\ result # None =>
       result = [status |-> Receipts!EffectiveStatus(request.adapter, request.receipt),
                 writes_enabled |-> Receipts!WritesEnabled(request.adapter, request.receipt)]

ReceiptInv ==
  /\ request.kind = "macos" => MacInv
  /\ request.kind = "windows" => WindowsInv
  /\ request.kind = "capability" => CapabilityInv

-----------------------------------------------------------------------------
(* InstanceScan. *)
ScanModes    == {"session_start", "manual_scan"}

Idents   == UNION {[S -> [version : Scan!Versions, precedence : 1..Scan!Cardinality(Instances)]]
                    : S \in SUBSET Instances}
Readings == UNION {[K -> Contents \cup Scan!Gaps] : K \in SUBSET Scan!Targets(Instances)}
States   == [schema : {1, 2}, ident : Idents, entries : Readings]

Claims   == {"version_established", "version_changed", "artifacts_established",
             "unavailable", "incomplete", "artifacts_changed"}

Job      == [mode : ScanModes, ident : Idents, entries : Readings, said : SUBSET Claims,
             quiet : BOOLEAN, prior : States \cup {NoState, Unreadable}]

ScanTypeOK ==
  /\ installed \in UNION {[S -> Scan!Versions] : S \in SUBSET Instances}
  /\ order \in Scan!Orders
  /\ content \in [Scan!Targets(Instances) -> Contents \cup {"missing"}]
  /\ stored \in States \cup {NoState, Unreadable}
  /\ pc \in {"idle", "measure", "notify"}
  /\ job \in Job
  /\ owed \in BOOLEAN
  /\ crashes \in Nat /\ changes \in Nat

\* A scan runs on a state it could read; what it has read of an installation
\* that does not change under it is what is there.
Faithful ==
  pc = "measure" =>
    /\ Scan!Readable
    /\ job.quiet =>
         /\ job.ident = Scan!Identities
         /\ DOMAIN job.entries \subseteq Scan!Targets(DOMAIN job.ident)
         /\ \A k \in DOMAIN job.entries :
              job.entries[k] \in {content[k], "time_budget_exceeded"}
ScanInv == ScanTypeOK /\ Faithful /\ Scan!BaselineTold /\ Scan!HeadlineHonest

-----------------------------------------------------------------------------
(* Demo. *)
StepEntries == [id : DemoRun!Steps, status : {"pass", "fail", "skip"}]

DemoRuns ==
  [at : DemoRun!Steps \cup {"done"}, steps : Seq(StepEntries), root : {"none", "own", "caller", "removed", "left"},
   artifact : {"none", "original", "patched"}, rootIsOurs : BOOLEAN, targetIsOurs : BOOLEAN,
   seen : SUBSET (DemoRun!Seams \X DemoRun!Network), proofs : Nat, proved : BOOLEAN, localOnly : BOOLEAN,
   resolved : BOOLEAN, restored : BOOLEAN, error : {"other"} \cup DemoRun!NoRollback,
   strayed : SUBSET {"meant", "best_effort"}, window : BOOLEAN, unrestored : BOOLEAN]

\* How a step ends that the demo goes on from.
ExpectedOf(id) ==
  IF request.induced /\ id \in {"verify_main", "rollback_main"} THEN "skip" ELSE "pass"
StepsSoFar(n) == [i \in 1..n |-> DemoRun!Step(DemoRun!StepOrder[i], ExpectedOf(DemoRun!StepOrder[i]))]

LateSteps == {"model_refuse", "crash_refuse", "cleanup"}

\* Only a swap between a proof and its write misleads the demo.
Straight(r) ==
  /\ "meant" \in r.strayed => r.window
  /\ (r.restored /\ r.artifact = "patched") => r.window

Excused(r) == r.unrestored \/ r.error \in DemoRun!NoRollback

\* What the locals must be for the demo to go on to a step.
MayReach(r, next) ==
  /\ r.artifact = "patched" => next \in {"verify_main", "rollback_main"} \/ r.unrestored
  /\ next \notin LateSteps => ~r.unrestored /\ ~r.restored
  /\ next \in {"verify_main", "rollback_main"} => ~request.induced
  /\ next \in LateSteps => (r.artifact = "original" \/ r.window) /\ r.restored /\ ~r.resolved

\* While the demo goes on every step before has ended as it should, and a
\* proof that was made still holds or the directory was swapped since.
GoesOn ==
  run.at # "done" =>
    /\ run.steps = StepsSoFar(DemoRun!Place(run.at) - 1)
    /\ MayReach(run, run.at)
    /\ run.proved => run.at \in {"apply_main", "rollback_main"} /\ (run.rootIsOurs \/ run.window)

DemoInv ==
  /\ request \in DemoRun!Options /\ run \in DemoRuns /\ Straight(run)
  /\ GoesOn
  /\ DemoRun!OkIsTheWholeStory /\ DemoRun!CleanupIsHonest /\ DemoRun!NotLeftRepaired

\* What a run looks like that may end here.
MayEnd(r) ==
  /\ r \in DemoRuns /\ Straight(r) /\ (r.artifact = "patched" => Excused(r))
  /\ \A k \in DOMAIN r.steps : r.steps[k].id # "cleanup"

\* Two runs that differ in nothing that matters to how they may end.
Alike(r, q) ==
  /\ r.artifact = q.artifact /\ r.restored = q.restored /\ r.resolved = q.resolved
  /\ r.strayed = q.strayed /\ r.window = q.window /\ r.unrestored = q.unrestored /\ r.error = q.error

-----------------------------------------------------------------------------
(* FollowupReply. *)

\* A recipe no candidate was asked for yet has no evidence.
Untouched ==
  \A r \in Replies!Recipes :
    (\A m \in 1..run.at : request.calls[m].op = "validate_candidate" => request.calls[m].recipe # r)
    => run.recipes[r] = None

\* The event answered last would draw nothing new now.
Settled ==
  (/\ run.at > 0 /\ Replies!Asked.op = "process_event" /\ Replies!EventFault(Replies!Asked.event) = None
   /\ Replies!Asked.ledger \notin {"busy", "save_fails"}
   /\ Replies!MigrateTo(Replies!Says(Replies!Asked.event)) # Replies!Asked.event.issue.issue)
  => LET says == Replies!Says(Replies!Asked.event)
     IN  ~Replies!Followed(run.subs, says.issue) \/ Replies!Replayed(run.subs[says.issue], says)

\* What the recipes hold, and what is recommended, was measured.
Earned ==
  /\ \A r \in Replies!Recipes : run.recipes[r] \in {None} \cup run.earned
  /\ run.guidance = "RECOMMEND_UPGRADE" => run.earned # {}

ReplyInv ==
  /\ request \in ReplyRequests /\ run.at \in 0..Len(request.calls)
  /\ DOMAIN run = {"subs", "recipes", "guidance", "at", "earned"}
  /\ DOMAIN run.subs = Replies!Issues /\ DOMAIN run.recipes = Replies!Recipes
  /\ Untouched /\ Settled /\ Earned
  /\ Replies!ProseIsData /\ Replies!DraftIsMeasured /\ Replies!AnsweredOnce /\ Replies!UpgradesAreMeasured /\ Replies!EvidenceStays

-----------------------------------------------------------------------------
(* UpstreamPreview and CapsuleActions. *)

\* The texts a preview works on, the doctor report and what it makes of the candidates.
UsedTexts(r) == IF Capsules!Injected(r) THEN Capsules!Quarantined(Capsules!Texts(r)) ELSE Capsules!Texts(r)
DoctorOf(r)  == IF Capsules!Injected(r) THEN Capsules!NoDoctor("injection_quarantined") ELSE Capsules!SanitizeDoctor(r.doctor)
Assessed(r)  == Capsules!AssessDuplicate(r, UsedTexts(r))
ExactIn(r)     == Capsules!PickBestExact(r.candidates)
RelatedIn(r)   == Capsules!PickRelated(r.candidates)
NewIn(r)       == \E i \in DOMAIN r.delta : r.delta[i]

\* A preview is told as it was computed.
AsComputed == Capsules!IsPreview => result = Capsules!PreviewUpstream(request)

\* What a capsule that passes the gate is.
Hashed == run.hash \in {None, Capsules!PreviewUpstream(request).capsule}

\* What a token may stand for.
Deserved(b) ==
  LET previewed == Capsules!PreviewUpstream(request)
      issues == {request.candidates[i].id : i \in Capsules!SameProblem}
                  \cup {request.candidates[i].url.issue :
                          i \in {j \in Capsules!SameProblem : request.candidates[j].url # None}}
  IN  /\ b.capsule = previewed.capsule /\ previewed.ok
      /\ request.kind = "codex_product_bug"
      /\ b.action = "create_issue" => Capsules!SameProblem = {} /\ b.target = Capsules!Root /\ b.body[2] # << >>
      /\ b.action = "comment_with_delta" => b.target \in issues /\ Capsules!NewEvidence
      /\ b.action \in {"react_upvote", "subscribe"} =>
           b.target \in issues /\ ~Capsules!NewEvidence /\ b.body = << None, << >> >>
      /\ b.attachments # None =>
           \A i \in DOMAIN b.attachments.entries : b.attachments.entries[i].privacy = Capsules!PrivacyFlags

\* A list of what is in it.
IsList(q) == q \in Seq({q[i] : i \in DOMAIN q})

\* What the remote has is under its own key.
Keyed(store) == \A k \in DOMAIN store : store[k].key = k

TokensAre ==
  /\ IsList(run.tokens)
  /\ \A t \in DOMAIN run.tokens :
       /\ DOMAIN run.tokens[t] = {"binding", "mac", "status"}
       /\ run.tokens[t].mac = run.tokens[t].binding /\ Deserved(run.tokens[t].binding)

WrittenAre ==
  /\ IsList(run.written)
  /\ \A i \in DOMAIN run.written :
       /\ Capsules!IdempotencyKey(run.written[i]) \in DOMAIN run.remote
       /\ \E t \in DOMAIN run.tokens :
            run.tokens[t].binding = run.written[i] /\ run.tokens[t].status = "consumed"
  /\ \A i, j \in DOMAIN run.written :
       i # j => Capsules!IdempotencyKey(run.written[i]) # Capsules!IdempotencyKey(run.written[j])

ReceiptTold ==
  result # None /\ "receipt" \in DOMAIN result =>
    LET key == Capsules!IdempotencyKey(run.tokens[result.confirmed].binding)
    IN  /\ result.receipt # None => run.remote[key] = result.receipt /\ result.receipt.key = key
        /\ result.status = "EXECUTED" => result.receipt.action = key["action"]

CapsuleInv ==
  /\ request \in CapsuleRequests /\ DOMAIN run = {"capsule", "hash", "tokens", "remote", "written"}
  /\ AsComputed /\ Hashed /\ TokensAre /\ Keyed(run.remote) /\ WrittenAre /\ ReceiptTold /\ Capsules!ReadyIsUsable

-----------------------------------------------------------------------------
(* Diagnosis. *)

\* What a family scores before the caps.
Raw(e, fp) == Diag!Weighed(e, fp) + Diag!TitleBoost(e, fp)

\* The measured part of the weights, before its cap.
Hits(e, m) ==
  12 * Diag!Bit(m.exception \in e.exceptions) + 8 * Diag!Bit(m.symbol \in e.symbols)
    + 4 * Diag!Bit(m.module \in e.modules) + 4 * Diag!Bit(m.offset \in e.offsets) + 10 * Diag!Gpu(e, m)

\* The candidates are survivors, in the order of their places.
Surviving(fp, p) == {e \in Diag!Catalog : Diag!Survives(e, fp, p)}

\* The answer has been one of those since it was given.
DiagInv == result # None => result \in Diag!Diagnoses

-----------------------------------------------------------------------------
(* PageAnalysis. *)

\* A page is answered once, by its analysis.
PageInv == request \in PageRequests /\ (result = None \/ result = Page!Analysis(request))

\* The verdict without its risk is decided by the host, the words, the symbols and the errors
\* of a page, and by which of its commands are eligible.
SameFindings(e, f) ==
  /\ e.host = f.host /\ Page!Words(e) = Page!Words(f) /\ Page!Symbols(e) = Page!Symbols(f) /\ Page!Errors(e) = Page!Errors(f)
=============================================================================
